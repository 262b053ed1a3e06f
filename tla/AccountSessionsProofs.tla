----------------------- MODULE AccountSessionsProofs -----------------------
(***************************************************************************)
(* What AccountSessions promises for any number of requests, overlapping    *)
(* and failing in any way.  Call, Starts, Fails and Passes sum up what a     *)
(* step may change, and StepIs shows that every step is one of them; the     *)
(* invariants are shown on these, in layers: types and the Shape of          *)
(* requests, and on it the password and status that tokens stand for, the    *)
(* single use of refresh tokens, replays, and the sessions that have ended.  *)
(***************************************************************************)
EXTENDS AccountSessions, TLAPS

\* The calls an operation can make, and those that can follow a call.
Checking == {"checkIdle", "endIdle", "touch"}
StepsOf(op) ==
  CASE op = "login"   -> {"countFailure", "lock", "clearFailures"} \cup Issuing
    [] op = "refresh" -> {"checkUsed", "bump", "readUser", "use", "unlist", "drop"}
                         \cup Checking \cup Issuing
    [] op = "request" -> Checking
    [] op = "logout"  -> {"readList", "revoke", "bump"} \cup Checking
    [] op \in {"changePassword", "deleteMyAccount"} ->
         {"readPassword", "readList", "revoke", "write"} \cup Checking
    [] op = "forgot"  -> {"readReset", "dropReset", "storeReset", "storeLatest", "mail",
                          "undoReset"}
    [] op = "resetPassword" -> {"readList", "revoke", "forget", "write"}
    [] op \in {"adminArchiveUser", "adminRestoreUser"} -> {"write"}
    [] OTHER -> {}

After(step) ==
  CASE step = "countFailure"  -> {"lock"}
    [] step = "clearFailures" -> Issuing
    [] step = "checkUsed"     -> {"bump"}
    [] step = "checkIdle"     -> {"endIdle", "touch"}
    [] step = "touch"         -> {"readUser", "readList", "readPassword"}
    [] step = "readUser"      -> {"use", "unlist", "drop"}
    [] step \in {"use", "unlist"} -> Issuing
    [] step = "readPassword"  -> {"readList"}
    [] step = "readList"      -> {"revoke"}
    [] step = "revoke"        -> {"bump", "write"}
    [] step = "readReset"     -> {"dropReset", "storeReset", "storeLatest"}
    [] step = "dropReset"     -> {"storeReset", "storeLatest"}
    [] step \in {"storeReset", "storeLatest"} -> {"mail"}
    [] step = "mail"          -> {"undoReset"}
    [] OTHER                  -> {}

Holders == Authenticated \cup {"refresh"}

\* Calls made while nothing else of the request is pending.
Alone == {"clearFailures", "checkUsed", "checkIdle", "touch", "readUser"}

\* Requests make only calls of their operation, hold only tokens that were delivered, and
\* sign tokens once, as the last thing they do.
ShapeOf(r) ==
  /\ requests[r].todo \subseteq StepsOf(requests[r].op)
  /\ requests[r].op \in Holders =>
       /\ requests[r].token \in Requests
       /\ Signed(requests[r].token)
       /\ requests[requests[r].token].todo = {}
  /\ requests[r].op \notin Holders => requests[r].token = None
  /\ \A step \in requests[r].todo \cap Alone : requests[r].todo = {step}
  /\ requests[r].todo \cap Issuing # {} => Signed(r)
  /\ Signed(r) =>
       /\ requests[r].op \in {"login", "refresh"}
       /\ requests[r].todo \subseteq Issuing
       /\ requests[r].op = "login" =>
            tokens[r].session = r /\ tokens[r].parent = None
       /\ requests[r].op = "refresh" =>
            /\ tokens[r].session = tokens[requests[r].token].session
            /\ tokens[r].parent = requests[r].token
Shape == \A r \in Requests : ShapeOf(r)

----------------------------------------------------------------------------
(* One call.                                                               *)

\* Request r has made the call `step`, and those in `next` are to follow.
Moved(r, step, next) ==
  /\ step \in requests[r].todo
  /\ requests' \in [Requests -> Request]
  /\ \A q \in Requests \ {r} : requests'[q] = requests[q]
  /\ requests'[r].op = requests[r].op
  /\ requests'[r].token = requests[r].token
  /\ requests'[r].failed = requests[r].failed
  /\ requests'[r].todo = (requests[r].todo \ {step}) \cup next

\* What the call does to the tokens, the account and Redis.
Signs(r, step, next) ==
  LET t == requests[r].token
  IN  /\ step \notin {"clearFailures", "use", "unlist"} => tokens' = tokens
      /\ step = "clearFailures" =>
           Issue(r, requests[r].user.version, requests[r].user.password, r, None)
      /\ step \in {"use", "unlist"} =>
           \/ next = {} /\ tokens' = tokens
           \/ /\ requests[r].todo = {step}
              /\ Issue(r, requests[r].user.version, tokens[t].password, tokens[t].session, t)
Writes(r, step) ==
  /\ step \notin {"lock", "bump", "write"} => account' = account
  /\ step = "lock" => account' = [account EXCEPT !.status = "locked"]
  /\ step = "bump" => account' = [account EXCEPT !.version = @ + 1]
  /\ step = "write" =>
       \/ account' = [account EXCEPT !.status = "active"]
       \/ account' = [account EXCEPT !.status = "archived", !.version = @ + 1]
       \/ \E status \in Statuses \ {"archived"}, erased \in BOOLEAN :
             NewPassword(status, erased)
       \/ NewPassword(account.status, account.erased)
Remembers(r, step, next) ==
  /\ step # "readUser" => requests'[r].user = requests[r].user
  /\ step = "readUser" =>
       /\ requests'[r].user = [version |-> account.version, password |-> account.password]
       /\ \/ next = {"drop"}
          \/ next = {"use", "unlist"} /\ Accepts({"active"}, requests[r].token)
Stores(r, step, next) ==
  /\ records' \subseteq records \cup {q \in {r} : step = "record"}
  /\ used' \subseteq used \cup {q \in {requests[r].token} : step = "use"}
  /\ used \subseteq used'
  /\ step = "checkUsed" /\ next # {} => requests[r].token \in used
  /\ active' \subseteq active \cup {q \in {tokens[r].session} : step = "activate"}
                              \cup {q \in {Session(r)} : step = "touch"}
  /\ step = "checkIdle" /\ "touch" \in next => Session(r) \in active
  /\ listed' \subseteq Requests /\ resets' \subseteq Requests
  /\ failures' \in Nat
  /\ latestReset' \in Requests \cup {None}

Call(r, step, next) ==
  /\ next \subseteq After(step)
  /\ next \subseteq StepsOf(requests[r].op)
  /\ \A s \in next \cap Alone : next = {s}
  /\ Moved(r, step, next)
  /\ Signs(r, step, next)
  /\ Writes(r, step)
  /\ Remembers(r, step, next)
  /\ Stores(r, step, next)

LEMMA MakeMoves ==
  ASSUME TypeOK, NEW r \in Requests, NEW step \in Steps, NEW next \in SUBSET Steps,
         Make(r, step, next)
  PROVE  Moved(r, step, next) /\ requests'[r].user = requests[r].user
<1>1. requests[r] \in Request
  BY DEF TypeOK
<1>2. requests' = [requests EXCEPT ![r].todo = (@ \ {step}) \cup next]
  BY DEF Make
<1>3. [requests[r] EXCEPT !.todo = (requests[r].todo \ {step}) \cup next] \in Request
  BY <1>1 DEF Request
<1>4. QED
  BY <1>1, <1>2, <1>3 DEF TypeOK, Make, Moved, Request

\* The calls that touch neither tokens nor the account, one lemma for all.
LEMMA PlainCall ==
  ASSUME TypeOK, NEW r \in Requests, NEW step \in Steps, NEW next \in SUBSET Steps,
         Make(r, step, next), next \subseteq After(step),
         next \subseteq StepsOf(requests[r].op), \A s \in next \cap Alone : next = {s},
         step \notin {"clearFailures", "use", "unlist", "lock", "bump", "write", "readUser"},
         tokens' = tokens, account' = account, Stores(r, step, next)
  PROVE  Call(r, step, next)
  BY MakeMoves DEF Call, Signs, Writes, Remembers
\* Which operations make a call.
LEMMA OperationOf ==
  ASSUME NEW op \in AllOps \cup {"none"}
  PROVE  /\ "countFailure" \in StepsOf(op) => op = "login"
         /\ "clearFailures" \in StepsOf(op) => op = "login"
         /\ "lock" \in StepsOf(op) => op = "login"
         /\ StepsOf(op) \cap Issuing # {} => op \in {"login", "refresh"}
         /\ StepsOf(op) \cap {"checkUsed", "readUser", "use", "unlist", "drop"} # {}
              => op = "refresh"
         /\ StepsOf(op) \cap Checking # {} => op \in Holders
         /\ "readPassword" \in StepsOf(op) => op \in {"changePassword", "deleteMyAccount"}
         /\ StepsOf(op) \cap {"readList", "revoke"} # {}
              => op \in {"logout", "changePassword", "deleteMyAccount", "resetPassword"}
         /\ StepsOf(op) \cap {"readReset", "dropReset", "storeReset", "storeLatest", "mail",
                              "undoReset"} # {} => op = "forgot"
         /\ "bump" \in StepsOf(op) => op \in {"logout", "refresh"}
         /\ "forget" \in StepsOf(op) => op = "resetPassword"
<1>1. CASE op \in {"login", "refresh", "request", "logout"}
  BY <1>1 DEF StepsOf, Checking, Issuing, Holders, Authenticated
<1>2. CASE op \in {"changePassword", "deleteMyAccount", "forgot", "resetPassword"}
  BY <1>2 DEF StepsOf, Checking, Issuing, Holders, Authenticated
<1>3. CASE op \in {"adminUpdateUser", "adminArchiveUser", "adminRestoreUser", "none"}
  BY <1>3 DEF StepsOf, Checking, Issuing, Holders, Authenticated
<1>4. QED
  BY <1>1, <1>2, <1>3 DEF AllOps
Called(r) == \E step \in Steps, next \in SUBSET Steps : Call(r, step, next)

LEMMA LoginCalls ==
  ASSUME TypeOK, Shape, NEW r \in Requests,
         CountFailure(r) \/ Lock(r) \/ ClearFailures(r)
  PROVE  Called(r)
<1>t. /\ requests[r].op \in AllOps \cup {"none"}
      /\ requests[r].todo \subseteq StepsOf(requests[r].op)
      /\ requests[r].token \in Requests \cup {None}
  BY DEF TypeOK, Shape, ShapeOf, Request
<1>1. CASE CountFailure(r)
  <2> DEFINE next == IF failures + 1 >= MaxAttempts THEN {"lock"} ELSE {}
  <2>1. Make(r, "countFailure", next) /\ next \in SUBSET Steps
    BY <1>1 DEF CountFailure, Steps
  <2>2. next \subseteq After("countFailure") /\ next \subseteq StepsOf(requests[r].op)
        /\ \A s \in next \cap Alone : next = {s}
    BY <1>t, <2>1, OperationOf DEF Alone, Make, After, StepsOf
  <2>3. Stores(r, "countFailure", next) /\ tokens' = tokens /\ account' = account
    BY <1>1 DEF CountFailure, Stores, TypeOK
  <2> HIDE DEF next
  <2>4. Call(r, "countFailure", next)
    BY <2>1, <2>2, <2>3, PlainCall DEF Steps
  <2>5. QED
    BY <2>1, <2>4 DEF Called, Steps
<1>2. CASE Lock(r)
  <2>1. Make(r, "lock", {})
    BY <1>2 DEF Lock
  <2>2. Stores(r, "lock", {}) /\ tokens' = tokens
    BY <1>2 DEF Lock, redisVars, Stores, TypeOK
  <2>3. Moved(r, "lock", {}) /\ requests'[r].user = requests[r].user
    BY <2>1, MakeMoves DEF Steps
  <2>4. Call(r, "lock", {})
    BY <1>2, <2>2, <2>3 DEF Call, Lock, Signs, Writes, Remembers
  <2>5. QED
    BY <2>4 DEF Called, Steps
<1>3. CASE ClearFailures(r)
  <2>1. Make(r, "clearFailures", Issuing) /\ Issuing \in SUBSET Steps
    BY <1>3 DEF ClearFailures, Issuing, Steps
  <2>2. Stores(r, "clearFailures", Issuing) /\ account' = account
    BY <1>3 DEF ClearFailures, Cleared, Stores, TypeOK
  <2>3. Moved(r, "clearFailures", Issuing) /\ requests'[r].user = requests[r].user
    BY <2>1, MakeMoves DEF Steps
  <2>4. Issuing \subseteq After("clearFailures") /\ Issuing \subseteq StepsOf(requests[r].op)
        /\ Issuing \cap Alone = {}
    BY <1>t, <2>1, OperationOf DEF Make, After, StepsOf, Issuing, Alone
  <2>5. Call(r, "clearFailures", Issuing)
    BY <1>3, <2>2, <2>3, <2>4 DEF Call, ClearFailures, Signs, Writes, Remembers
  <2>6. QED
    BY <2>1, <2>5 DEF Called, Steps
<1>4. QED
  BY <1>1, <1>2, <1>3

LEMMA IssueCalls ==
  ASSUME TypeOK, Shape, NEW r \in Requests, Record(r) \/ Activate(r) \/ List(r)
  PROVE  Called(r)
<1>1. CASE Record(r)
  <2>1. Make(r, "record", {}) /\ Stores(r, "record", {}) /\ tokens' = tokens /\ account' = account
    BY <1>1 DEF Record, Stores, TypeOK
  <2>2. QED
    BY <2>1, PlainCall DEF Steps, Called
<1>2. CASE Activate(r)
  <2>1. Make(r, "activate", {}) /\ Stores(r, "activate", {}) /\ tokens' = tokens /\ account' = account
    BY <1>2 DEF Activate, Stores, TypeOK
  <2>2. QED
    BY <2>1, PlainCall DEF Steps, Called
<1>3. CASE List(r)
  <2>1. Make(r, "list", {}) /\ Stores(r, "list", {}) /\ tokens' = tokens /\ account' = account
    BY <1>3 DEF List, Stores, TypeOK
  <2>2. QED
    BY <2>1, PlainCall DEF Steps, Called
<1>4. QED
  BY <1>1, <1>2, <1>3
LEMMA IdleCalls ==
  ASSUME TypeOK, Shape, NEW r \in Requests, CheckIdle(r) \/ EndIdle(r) \/ Touch(r)
  PROVE  Called(r)
<1>t. /\ requests[r].op \in AllOps \cup {"none"}
      /\ requests[r].todo \subseteq StepsOf(requests[r].op)
      /\ requests[r].token \in Requests \cup {None}
  BY DEF TypeOK, Shape, ShapeOf, Request
<1>1. CASE CheckIdle(r)
  <2> DEFINE next == IF IdleTooLong(Session(r)) THEN {"endIdle"} ELSE {"touch"}
  <2>1. Make(r, "checkIdle", next) /\ next \in SUBSET Steps
    BY <1>1 DEF CheckIdle, IdleTooLong, Steps
  <2>2. next \subseteq After("checkIdle") /\ next \subseteq StepsOf(requests[r].op)
        /\ \A s \in next \cap Alone : next = {s}
    BY <1>t, <2>1, OperationOf DEF Alone, Make, After, StepsOf, Checking, Holders, Authenticated
  <2>3. Stores(r, "checkIdle", next) /\ tokens' = tokens /\ account' = account
    BY <1>1 DEF CheckIdle, IdleTooLong, Stores, TypeOK, redisVars
  <2> HIDE DEF next
  <2>4. QED
    BY <2>1, <2>2, <2>3, PlainCall DEF Steps, Called
<1>2. CASE EndIdle(r)
  <2> DEFINE next == {}
  <2>1. Make(r, "endIdle", next) /\ next \in SUBSET Steps
    BY <1>2 DEF EndIdle, Steps
  <2>2. next \subseteq After("endIdle") /\ next \subseteq StepsOf(requests[r].op)
        /\ \A s \in next \cap Alone : next = {s}
    BY <1>t, <2>1, OperationOf DEF Alone, Make, After, StepsOf
  <2>3. Stores(r, "endIdle", next) /\ tokens' = tokens /\ account' = account
    BY <1>2 DEF EndIdle, Stores, TypeOK, redisVars
  <2> HIDE DEF next
  <2>4. QED
    BY <2>1, <2>2, <2>3, PlainCall DEF Steps, Called
<1>3. CASE Touch(r)
  <2> DEFINE next == AfterIdleCheck(requests[r].op)
  <2>1. Make(r, "touch", next) /\ next \in SUBSET Steps
    BY <1>3 DEF Touch, AfterIdleCheck, Steps
  <2>2. next \subseteq After("touch") /\ next \subseteq StepsOf(requests[r].op)
        /\ \A s \in next \cap Alone : next = {s}
    BY <1>t, <2>1, OperationOf DEF Alone, Make, After, StepsOf, Checking, Holders, Authenticated, AfterIdleCheck
  <2>3. Stores(r, "touch", next) /\ tokens' = tokens /\ account' = account
    BY <1>3 DEF Touch, AfterIdleCheck, Stores, TypeOK, redisVars
  <2> HIDE DEF next
  <2>4. QED
    BY <2>1, <2>2, <2>3, PlainCall DEF Steps, Called
<1>4. QED
  BY <1>1, <1>2, <1>3

LEMMA RefreshCalls ==
  ASSUME TypeOK, Shape, NEW r \in Requests,
         CheckUsed(r) \/ ReadUser(r) \/ Drop(r) \/ Use(r) \/ Unlist(r)
  PROVE  Called(r)
<1>t. /\ requests[r].op \in AllOps \cup {"none"}
      /\ requests[r].todo \subseteq StepsOf(requests[r].op)
      /\ requests[r].token \in Requests \cup {None}
  BY DEF TypeOK, Shape, ShapeOf, Request
<1>1. CASE CheckUsed(r)
  <2> DEFINE next == IF WasUsed(requests[r].token) THEN {"bump"} ELSE {}
  <2>1. Make(r, "checkUsed", next) /\ next \in SUBSET Steps
    BY <1>1 DEF CheckUsed, WasUsed, Steps
  <2>2. next \subseteq After("checkUsed") /\ next \subseteq StepsOf(requests[r].op)
        /\ \A s \in next \cap Alone : next = {s}
    BY <1>t, <2>1, OperationOf DEF Alone, Make, After, StepsOf
  <2>3. Stores(r, "checkUsed", next) /\ tokens' = tokens /\ account' = account
    BY <1>1 DEF CheckUsed, WasUsed, Stores, TypeOK, redisVars
  <2> HIDE DEF next
  <2>4. QED
    BY <2>1, <2>2, <2>3, PlainCall DEF Steps, Called
<1>2. CASE ReadUser(r)
  <2> DEFINE next == IF Accepts({"active"}, requests[r].token) THEN {"use", "unlist"} ELSE {"drop"}
             user == [version |-> account.version, password |-> account.password]
             todo == (requests[r].todo \ {"readUser"}) \cup next
  <2>1. next \in SUBSET Steps /\ user \in [version : Nat, password : Nat]
    BY DEF Steps, TypeOK, Account
  <2>2. next \subseteq After("readUser") /\ next \subseteq StepsOf(requests[r].op)
        /\ \A s \in next \cap Alone : next = {s}
    BY <1>t, <1>2, OperationOf DEF Alone, ReadUser, After, StepsOf
  <2>3. /\ "readUser" \in requests[r].todo
        /\ requests' = [requests EXCEPT ![r].user = user, ![r].todo = todo]
    BY <1>2, requests \in [Requests -> Request] DEF ReadUser, TypeOK
  <2>4. Stores(r, "readUser", next) /\ tokens' = tokens /\ account' = account
    BY <1>2 DEF ReadUser, Stores, TypeOK, redisVars
  <2>5. \/ next = {"drop"}
        \/ next = {"use", "unlist"} /\ Accepts({"active"}, requests[r].token)
    OBVIOUS
  <2>6. requests[r] \in Request /\ todo \in SUBSET Steps
    BY <2>1 DEF TypeOK, Request
  <2> HIDE DEF next, todo, user
  <2>7. [requests[r] EXCEPT !.user = user, !.todo = todo] \in Request
    BY <2>1, <2>6 DEF Request
  <2>8. /\ requests' \in [Requests -> Request]
        /\ \A q \in Requests \ {r} : requests'[q] = requests[q]
        /\ requests'[r] = [requests[r] EXCEPT !.user = user, !.todo = todo]
    BY <2>3, <2>7 DEF TypeOK
  <2>9. Moved(r, "readUser", next) /\ requests'[r].user = user
    BY <2>3, <2>6, <2>8 DEF Moved, todo, Request
  <2>10. Remembers(r, "readUser", next)
    BY <2>5, <2>9 DEF Remembers, user
  <2>11. Call(r, "readUser", next)
    BY <2>2, <2>4, <2>9, <2>10 DEF Call, Signs, Writes
  <2>12. QED
    BY <2>1, <2>11 DEF Called, Steps
<1>3. CASE Drop(r)
  <2>1. Make(r, "drop", {}) /\ Stores(r, "drop", {}) /\ tokens' = tokens /\ account' = account
    BY <1>3 DEF Drop, Stores, TypeOK
  <2>2. QED
    BY <2>1, PlainCall DEF Steps, Called
<1>4. ASSUME NEW step \in {"use", "unlist"}, Rotate(r, step), Stores(r, step, {}), account' = account
      PROVE  Called(r)
  <2>1. PICK next \in SUBSET Issuing :
          /\ Make(r, step, next)
          /\ \/ next = {} /\ tokens' = tokens
             \/ /\ requests[r].todo = {step}
                /\ Issue(r, requests[r].user.version, tokens[requests[r].token].password,
                         tokens[requests[r].token].session, requests[r].token)
    BY <1>4 DEF Rotate
  <2>2. next \in SUBSET Steps /\ step \in Steps /\ Stores(r, step, next)
    BY <1>4 DEF Issuing, Steps, Stores
  <2>3. next \subseteq After(step) /\ next \subseteq StepsOf(requests[r].op)
        /\ next \cap Alone = {}
    BY <1>t, <2>1, OperationOf DEF Alone, Issuing, Make, After, StepsOf
  <2>4. Moved(r, step, next) /\ requests'[r].user = requests[r].user
    BY <2>1, <2>2, MakeMoves
  <2>5. Call(r, step, next)
    BY <1>4, <2>1, <2>2, <2>3, <2>4 DEF Call, Signs, Writes, Remembers
  <2>6. QED
    BY <2>2, <2>5 DEF Called
<1>5. CASE Use(r)
  <2>1. Rotate(r, "use") /\ Stores(r, "use", {}) /\ account' = account
    BY <1>5 DEF Use, Stores, TypeOK
  <2>2. QED
    BY <1>4, <2>1
<1>6. CASE Unlist(r)
  <2>1. Rotate(r, "unlist") /\ Stores(r, "unlist", {}) /\ account' = account
    BY <1>6 DEF Unlist, Stores, TypeOK
  <2>2. QED
    BY <1>4, <2>1
<1>7. QED
  BY <1>1, <1>2, <1>3, <1>5, <1>6
LEMMA RevokeCalls ==
  ASSUME TypeOK, Shape, NEW r \in Requests,
         \/ \E right \in BOOLEAN : ReadPassword(r, right)
         \/ ReadList(r) \/ Revoke(r)
  PROVE  Called(r)
<1>t. /\ requests[r].op \in AllOps \cup {"none"}
      /\ requests[r].todo \subseteq StepsOf(requests[r].op)
      /\ requests[r].token \in Requests \cup {None}
      /\ requests[r].seen \subseteq Requests
  BY DEF TypeOK, Shape, ShapeOf, Request
<1>1. CASE \E right \in BOOLEAN : ReadPassword(r, right)
  <2>1. PICK next \in SUBSET {"readList"} : Make(r, "readPassword", next)
    BY <1>1 DEF ReadPassword
  <2>2. next \in SUBSET Steps /\ next \subseteq After("readPassword")
    BY DEF Steps, After
  <2>3. next \subseteq StepsOf(requests[r].op) /\ next \cap Alone = {}
    BY <1>t, <2>1, OperationOf DEF Make, StepsOf, Alone
  <2>4. Stores(r, "readPassword", next) /\ tokens' = tokens /\ account' = account
    BY <1>t, <1>1 DEF ReadPassword, Stores, TypeOK, redisVars
  <2>5. QED
    BY <2>1, <2>2, <2>3, <2>4, PlainCall DEF Steps, Called
<1>2. CASE ReadList(r)
  <2> DEFINE next == {"revoke"}
             seen == listed
             todo == (requests[r].todo \ {"readList"}) \cup next
  <2>1. /\ "readList" \in requests[r].todo
        /\ requests' = [requests EXCEPT ![r].seen = seen, ![r].todo = todo]
    BY <1>2, requests \in [Requests -> Request] DEF ReadList, TypeOK
  <2>2. next \in SUBSET Steps /\ seen \in SUBSET Requests
    BY DEF Steps, TypeOK
  <2>3. next \subseteq After("readList") /\ next \subseteq StepsOf(requests[r].op)
        /\ \A s \in next \cap Alone : next = {s}
    BY <1>t, <2>1, OperationOf DEF Alone, After, StepsOf
  <2>4. Stores(r, "readList", next) /\ tokens' = tokens /\ account' = account
    BY <1>2 DEF ReadList, Stores, TypeOK, redisVars
  <2>5. requests[r] \in Request /\ todo \in SUBSET Steps
    BY <2>2 DEF TypeOK, Request
  <2> HIDE DEF next, seen, todo
  <2>6. [requests[r] EXCEPT !.seen = seen, !.todo = todo] \in Request
    BY <2>2, <2>5 DEF Request
  <2>7. /\ requests' \in [Requests -> Request]
        /\ \A q \in Requests \ {r} : requests'[q] = requests[q]
        /\ requests'[r] = [requests[r] EXCEPT !.seen = seen, !.todo = todo]
    BY <2>1, <2>6 DEF TypeOK
  <2>8. Moved(r, "readList", next) /\ requests'[r].user = requests[r].user
    BY <2>1, <2>5, <2>7 DEF Moved, todo, Request
  <2>9. Call(r, "readList", next)
    BY <2>3, <2>4, <2>8 DEF Call, Signs, Writes, Remembers
  <2>10. QED
    BY <2>2, <2>9 DEF Called, Steps
<1>3. CASE Revoke(r)
  <2> DEFINE next == CASE requests[r].op = "logout"        -> {"bump"}
               [] requests[r].op = "resetPassword" -> {}
               [] OTHER                            -> {"write"}
  <2>1. Make(r, "revoke", next) /\ next \in SUBSET Steps
    BY <1>3 DEF Revoke, Steps
  <2>2. next \subseteq After("revoke") /\ next \subseteq StepsOf(requests[r].op)
        /\ \A s \in next \cap Alone : next = {s}
    BY <1>t, <2>1, OperationOf DEF Alone, Make, After, StepsOf
  <2>3. Stores(r, "revoke", next) /\ tokens' = tokens /\ account' = account
    BY <1>t, <1>3 DEF Revoke, Stores, TypeOK, redisVars
  <2> HIDE DEF next
  <2>4. QED
    BY <2>1, <2>2, <2>3, PlainCall DEF Steps, Called
<1>4. QED
  BY <1>1, <1>2, <1>3

LEMMA ResetCalls ==
  ASSUME TypeOK, Shape, NEW r \in Requests,
         \/ ReadReset(r) \/ DropReset(r) \/ StoreReset(r) \/ StoreLatest(r)
         \/ \E delivered \in BOOLEAN : Mail(r, delivered)
         \/ UndoReset(r) \/ Forget(r)
  PROVE  Called(r)
<1>t. /\ requests[r].op \in AllOps \cup {"none"}
      /\ requests[r].todo \subseteq StepsOf(requests[r].op)
      /\ requests[r].token \in Requests \cup {None}
      /\ requests[r].seen \subseteq Requests
  BY DEF TypeOK, Shape, ShapeOf, Request
<1>1. CASE ReadReset(r)
  <2> DEFINE next == IF latestReset = None THEN {"storeReset", "storeLatest"} ELSE {"dropReset"}
             seen == {latestReset} \ {None}
             todo == (requests[r].todo \ {"readReset"}) \cup next
  <2>1. /\ "readReset" \in requests[r].todo
        /\ requests' = [requests EXCEPT ![r].seen = seen, ![r].todo = todo]
    BY <1>1, requests \in [Requests -> Request] DEF ReadReset, TypeOK
  <2>2. next \in SUBSET Steps /\ seen \in SUBSET Requests
    BY DEF Steps, TypeOK
  <2>3. next \subseteq After("readReset") /\ next \subseteq StepsOf(requests[r].op)
        /\ \A s \in next \cap Alone : next = {s}
    BY <1>t, <2>1, OperationOf DEF Alone, After, StepsOf
  <2>4. Stores(r, "readReset", next) /\ tokens' = tokens /\ account' = account
    BY <1>1 DEF ReadReset, Stores, TypeOK, redisVars
  <2>5. requests[r] \in Request /\ todo \in SUBSET Steps
    BY <2>2 DEF TypeOK, Request
  <2> HIDE DEF next, seen, todo
  <2>6. [requests[r] EXCEPT !.seen = seen, !.todo = todo] \in Request
    BY <2>2, <2>5 DEF Request
  <2>7. /\ requests' \in [Requests -> Request]
        /\ \A q \in Requests \ {r} : requests'[q] = requests[q]
        /\ requests'[r] = [requests[r] EXCEPT !.seen = seen, !.todo = todo]
    BY <2>1, <2>6 DEF TypeOK
  <2>8. Moved(r, "readReset", next) /\ requests'[r].user = requests[r].user
    BY <2>1, <2>5, <2>7 DEF Moved, todo, Request
  <2>9. Call(r, "readReset", next)
    BY <2>3, <2>4, <2>8 DEF Call, Signs, Writes, Remembers
  <2>10. QED
    BY <2>2, <2>9 DEF Called, Steps
<1>2. CASE DropReset(r)
  <2> DEFINE next == {"storeReset", "storeLatest"}
  <2>1. Make(r, "dropReset", next) /\ next \in SUBSET Steps
    BY <1>2 DEF DropReset, Steps
  <2>2. next \subseteq After("dropReset") /\ next \subseteq StepsOf(requests[r].op)
        /\ \A s \in next \cap Alone : next = {s}
    BY <1>t, <2>1, OperationOf DEF Alone, Make, After, StepsOf
  <2>3. Stores(r, "dropReset", next) /\ tokens' = tokens /\ account' = account
    BY <1>t, <1>2 DEF DropReset, Stores, TypeOK, redisVars
  <2> HIDE DEF next
  <2>4. QED
    BY <2>1, <2>2, <2>3, PlainCall DEF Steps, Called
<1>3. CASE StoreReset(r)
  <2>1. PICK next \in SUBSET {"mail"} : Make(r, "storeReset", next)
    BY <1>3 DEF StoreReset, ThenMail
  <2>2. next \in SUBSET Steps /\ next \subseteq After("storeReset")
    BY DEF Steps, After
  <2>3. next \subseteq StepsOf(requests[r].op) /\ next \cap Alone = {}
    BY <1>t, <2>1, OperationOf DEF Make, StepsOf, Alone
  <2>4. Stores(r, "storeReset", next) /\ tokens' = tokens /\ account' = account
    BY <1>t, <1>3 DEF StoreReset, ThenMail, Stores, TypeOK, redisVars
  <2>5. QED
    BY <2>1, <2>2, <2>3, <2>4, PlainCall DEF Steps, Called
<1>4. CASE StoreLatest(r)
  <2>1. PICK next \in SUBSET {"mail"} : Make(r, "storeLatest", next)
    BY <1>4 DEF StoreLatest, ThenMail
  <2>2. next \in SUBSET Steps /\ next \subseteq After("storeLatest")
    BY DEF Steps, After
  <2>3. next \subseteq StepsOf(requests[r].op) /\ next \cap Alone = {}
    BY <1>t, <2>1, OperationOf DEF Make, StepsOf, Alone
  <2>4. Stores(r, "storeLatest", next) /\ tokens' = tokens /\ account' = account
    BY <1>t, <1>4 DEF StoreLatest, ThenMail, Stores, TypeOK, redisVars
  <2>5. QED
    BY <2>1, <2>2, <2>3, <2>4, PlainCall DEF Steps, Called
<1>5. CASE \E delivered \in BOOLEAN : Mail(r, delivered)
  <2>1. PICK next \in SUBSET {"undoReset"} : Make(r, "mail", next)
    BY <1>5 DEF Mail
  <2>2. next \in SUBSET Steps /\ next \subseteq After("mail")
    BY DEF Steps, After
  <2>3. next \subseteq StepsOf(requests[r].op) /\ next \cap Alone = {}
    BY <1>t, <2>1, OperationOf DEF Make, StepsOf, Alone
  <2>4. Stores(r, "mail", next) /\ tokens' = tokens /\ account' = account
    BY <1>t, <1>5 DEF Mail, Stores, TypeOK, redisVars
  <2>5. QED
    BY <2>1, <2>2, <2>3, <2>4, PlainCall DEF Steps, Called
<1>6. CASE UndoReset(r)
  <2> DEFINE next == {}
  <2>1. Make(r, "undoReset", next) /\ next \in SUBSET Steps
    BY <1>6 DEF UndoReset, Steps
  <2>2. next \subseteq After("undoReset") /\ next \subseteq StepsOf(requests[r].op)
        /\ \A s \in next \cap Alone : next = {s}
    BY <1>t, <2>1, OperationOf DEF Alone, Make, After, StepsOf
  <2>3. Stores(r, "undoReset", next) /\ tokens' = tokens /\ account' = account
    BY <1>t, <1>6 DEF UndoReset, Stores, TypeOK, redisVars
  <2> HIDE DEF next
  <2>4. QED
    BY <2>1, <2>2, <2>3, PlainCall DEF Steps, Called
<1>7. CASE Forget(r)
  <2> DEFINE next == {}
  <2>1. Make(r, "forget", next) /\ next \in SUBSET Steps
    BY <1>7 DEF Forget, Steps
  <2>2. next \subseteq After("forget") /\ next \subseteq StepsOf(requests[r].op)
        /\ \A s \in next \cap Alone : next = {s}
    BY <1>t, <2>1, OperationOf DEF Alone, Make, After, StepsOf
  <2>3. Stores(r, "forget", next) /\ tokens' = tokens /\ account' = account
    BY <1>t, <1>7 DEF Forget, Stores, TypeOK, redisVars
  <2> HIDE DEF next
  <2>4. QED
    BY <2>1, <2>2, <2>3, PlainCall DEF Steps, Called
<1>8. QED
  BY <1>1, <1>2, <1>3, <1>4, <1>5, <1>6, <1>7

LEMMA RowCalls ==
  ASSUME TypeOK, Shape, NEW r \in Requests, Bump(r) \/ Write(r) \/ AdminWrites(r)
  PROVE  Called(r)
<1>1. ASSUME NEW step \in {"bump", "write"}, Make(r, step, {}), Writes(r, step),
             UNCHANGED <<tokens, redisVars>>
      PROVE  Called(r)
  <2>1. step \in Steps
    BY DEF Steps
  <2>2. Moved(r, step, {}) /\ requests'[r].user = requests[r].user
    BY <1>1, <2>1, MakeMoves
  <2>3. Stores(r, step, {}) /\ tokens' = tokens
    BY <1>1 DEF Stores, TypeOK, redisVars
  <2>4. Call(r, step, {})
    BY <1>1, <2>2, <2>3 DEF Call, Signs, Remembers
  <2>5. QED
    BY <2>1, <2>4 DEF Called
<1>2. CASE Bump(r)
  <2>1. Writes(r, "bump")
    BY <1>2 DEF Bump, Writes
  <2>2. QED
    BY <1>1, <1>2, <2>1 DEF Bump
<1>3. CASE Write(r)
  <2>1. \/ NewPassword(account.status, account.erased)
        \/ NewPassword("suspended", TRUE)
        \/ NewPassword("active", account.erased)
    BY <1>3 DEF Write
  <2>2. account.erased \in BOOLEAN /\ {"suspended", "active"} \subseteq Statuses \ {"archived"}
    BY DEF TypeOK, Account, Statuses
  <2>3. Writes(r, "write")
    BY <2>1, <2>2 DEF Writes
  <2>4. QED
    BY <1>1, <1>3, <2>3 DEF Write
<1>4. CASE AdminWrites(r)
  <2>1. Writes(r, "write")
    BY <1>4 DEF AdminWrites, ArchiveAccount, Writes
  <2>2. QED
    BY <1>1, <1>4, <2>1 DEF AdminWrites
<1>5. QED
  BY <1>2, <1>3, <1>4

\* Whatever a request does next is one call.
LEMMA ProceedsIsCall ==
  ASSUME TypeOK, Shape, NEW r \in Requests, Proceeds(r)
  PROVE  Called(r)
  BY LoginCalls, IssueCalls, IdleCalls, RefreshCalls, RevokeCalls, ResetCalls, RowCalls
     DEF Proceeds
----------------------------------------------------------------------------
(* The other steps: a request begins, fails, or time passes.               *)

\* What an operation does first.
First(op) ==
  CASE op = "login"   -> {{"clearFailures"}, {"countFailure"}}
    [] op = "refresh" -> {{"checkIdle"}, {"checkUsed"}}
    [] op \in Authenticated -> {{"checkIdle"}}
    [] op = "forgot"  -> {{"readReset"}}
    [] op = "resetPassword" -> {{"readList", "forget", "write"}}
    [] op \in {"adminArchiveUser", "adminRestoreUser"} -> {{"write"}}
    [] OTHER          -> {{}}

SetStatus(status) ==
  account' = [account EXCEPT !.status = status,
                             !.version = IF status = "active" THEN @ ELSE @ + 1]
Starts(r, op, token, todo) ==
  /\ todo \in First(op)
  /\ requests[r].op = "none"
  /\ requests' \in [Requests -> Request]
  /\ \A q \in Requests \ {r} : requests'[q] = requests[q]
  /\ requests'[r].op = op
  /\ requests'[r].token = token
  /\ requests'[r].user = [version |-> account.version, password |-> account.password]
  /\ requests'[r].todo = todo
  /\ op \in Holders => token \in Requests /\ Delivered(token)
  /\ op \notin Holders => token = None
  /\ "clearFailures" \in todo => account.status = "active"
  /\ op = "refresh" => /\ records' = records \ {token}
                       /\ "checkIdle" \in todo => token \in records
  /\ op # "refresh" => records' = records
  /\ op # "adminUpdateUser" => account' = account
  /\ op = "adminUpdateUser" =>
       \E status \in Statuses \ {"archived"} : SetStatus(status)
  /\ UNCHANGED <<tokens, used, listed, active, failures, latestReset>>
  /\ resets' \subseteq resets
Started(r) ==
  \E op \in AllOps, token \in Requests \cup {None}, todo \in SUBSET Steps :
    Starts(r, op, token, todo)

LEMMA BeginStarts ==
  ASSUME TypeOK, NEW r \in Requests, NEW op \in AllOps, NEW token \in Requests \cup {None},
         NEW todo \in SUBSET Steps, Begin(r, op, token, todo)
  PROVE  /\ requests[r].op = "none"
         /\ requests' \in [Requests -> Request]
         /\ \A q \in Requests \ {r} : requests'[q] = requests[q]
         /\ requests'[r].op = op
         /\ requests'[r].token = token
         /\ requests'[r].user = [version |-> account.version, password |-> account.password]
         /\ requests'[r].todo = todo
<1> DEFINE user == [version |-> account.version, password |-> account.password]
           new == [op |-> op, token |-> token, user |-> user, seen |-> {}, todo |-> todo,
                   failed |-> FALSE]
<1>1. user \in [version : Nat, password : Nat]
  BY DEF TypeOK, Account
<1>3. requests' = [requests EXCEPT ![r] = new]
  BY DEF Begin
<1> HIDE DEF user
<1>4. new \in Request
  BY <1>1 DEF Request
<1>5. requests'[r] = new
  BY <1>3 DEF TypeOK
<1>6. /\ requests' \in [Requests -> Request]
      /\ \A q \in Requests \ {r} : requests'[q] = requests[q]
  BY <1>3, <1>4 DEF TypeOK
<1>7. QED
  BY <1>5, <1>6 DEF Begin, user

LEMMA BeginsStarts ==
  ASSUME TypeOK, NEW r \in Requests, Begins(r)
  PROVE  Started(r)
<1>1. ASSUME NEW right \in BOOLEAN, Login(r, right)
      PROVE  Started(r)
  <2> DEFINE todo == IF right THEN {"clearFailures"} ELSE {"countFailure"}
  <2>1. Begin(r, "login", None, todo) /\ todo \in SUBSET Steps
    BY <1>1 DEF Login, Steps
  <2>2. \/ todo = {"clearFailures"} /\ account.status = "active"
        \/ todo = {"countFailure"}
    BY <1>1 DEF Login
  <2> HIDE DEF todo
  <2>3. todo \in First("login") /\ "login" \in AllOps
        /\ ("clearFailures" \in todo => account.status = "active")
    BY <2>2 DEF First, AllOps, Authenticated
  <2>4. Starts(r, "login", None, todo)
    BY <1>1, <2>1, <2>3, BeginStarts DEF Starts, Login, redisVars, Holders, Authenticated
  <2>5. QED
    BY <2>1, <2>3, <2>4 DEF Started
<1>2. ASSUME NEW t \in Requests, Refresh(r, t)
      PROVE  Started(r)
  <2> DEFINE todo == IF t \in records THEN {"checkIdle"} ELSE {"checkUsed"}
  <2>1. Begin(r, "refresh", t, todo) /\ todo \in SUBSET Steps
    BY <1>2 DEF Refresh, Steps
  <2>2. \/ todo = {"checkIdle"} /\ t \in records
        \/ todo = {"checkUsed"}
    OBVIOUS
  <2> HIDE DEF todo
  <2>3. todo \in First("refresh") /\ "refresh" \in AllOps /\ "clearFailures" \notin todo
        /\ ("checkIdle" \in todo => t \in records)
    BY <2>2 DEF First, AllOps, Authenticated
  <2>4. Starts(r, "refresh", t, todo)
    BY <1>2, <2>1, <2>3, BeginStarts DEF Starts, Refresh, TakeRecord, Holders
  <2>5. QED
    BY <2>1, <2>3, <2>4 DEF Started
<1>3. ASSUME NEW t \in Requests, ResetPassword(r, t)
      PROVE  Started(r)
  <2> DEFINE todo == {"readList", "forget", "write"}
  <2>1. Begin(r, "resetPassword", None, todo) /\ todo \in SUBSET Steps
    BY <1>3 DEF ResetPassword, Steps
  <2>2. todo \in First("resetPassword") /\ "resetPassword" \in AllOps /\ "clearFailures" \notin todo
    BY DEF First, AllOps, Authenticated
  <2> HIDE DEF todo
  <2>3. Starts(r, "resetPassword", None, todo)
    BY <1>3, <2>1, <2>2, BeginStarts DEF Starts, ResetPassword, Holders, Authenticated
  <2>4. QED
    BY <2>1, <2>2, <2>3 DEF Started
<1>4. ASSUME NEW t \in Requests, NEW op \in Authenticated, Authenticate(r, op, t)
      PROVE  Started(r)
  <2>1. Begin(r, op, t, {"checkIdle"}) /\ {"checkIdle"} \in SUBSET Steps
    BY <1>4 DEF Authenticate, Steps
  <2>2. {"checkIdle"} \in First(op) /\ op \in AllOps
        /\ op \notin {"refresh", "adminUpdateUser"}
    BY DEF First, AllOps, Authenticated
  <2>3. Delivered(t) /\ UNCHANGED <<account, tokens, redisVars>>
    BY <1>4 DEF Authenticate
  <2>4. Starts(r, op, t, {"checkIdle"})
    BY <2>1, <2>2, <2>3, BeginStarts DEF Starts, redisVars, Holders
  <2>5. QED
    BY <2>1, <2>2, <2>4 DEF Started
<1>5. CASE Forgot(r)
  <2>1. Begin(r, "forgot", None, {"readReset"}) /\ {"readReset"} \in SUBSET Steps
    BY <1>5 DEF Forgot, Steps
  <2>2. {"readReset"} \in First("forgot") /\ "forgot" \in AllOps
    BY DEF First, AllOps, Authenticated
  <2>3. Starts(r, "forgot", None, {"readReset"})
    BY <1>5, <2>1, <2>2, BeginStarts DEF Starts, Forgot, redisVars, Holders, Authenticated
  <2>4. QED
    BY <2>1, <2>2, <2>3 DEF Started
<1>6. ASSUME NEW status \in Statuses, AdminUpdateUser(r, status)
      PROVE  Started(r)
  <2>1. Begin(r, "adminUpdateUser", None, {}) /\ {} \in SUBSET Steps
    BY <1>6 DEF AdminUpdateUser
  <2>2. {} \in First("adminUpdateUser") /\ "adminUpdateUser" \in AllOps
    BY DEF First, AllOps, Authenticated
  <2>3. \E s \in Statuses \ {"archived"} : SetStatus(s)
    BY <1>6 DEF AdminUpdateUser, SetStatus
  <2>4. UNCHANGED <<tokens, redisVars>>
    BY <1>6 DEF AdminUpdateUser
  <2>5. Starts(r, "adminUpdateUser", None, {})
    BY <2>1, <2>2, <2>3, <2>4, BeginStarts DEF Starts, redisVars, Holders, Authenticated
  <2>6. QED
    BY <2>1, <2>2, <2>5 DEF Started
<1>7. ASSUME NEW op \in AllOps, AdminSetsOut(r, op)
      PROVE  Started(r)
  <2>1. Begin(r, op, None, {"write"}) /\ {"write"} \in SUBSET Steps
        /\ op \in {"adminRestoreUser", "adminArchiveUser"}
    BY <1>7 DEF AdminSetsOut, Steps
  <2>2. {"write"} \in First(op)
    BY <2>1 DEF First, Authenticated
  <2>3. Starts(r, op, None, {"write"})
    BY <1>7, <2>1, <2>2, BeginStarts DEF Starts, AdminSetsOut, redisVars, Holders, Authenticated
  <2>4. QED
    BY <2>1, <2>2, <2>3 DEF Started
<1>8. QED
  BY <1>1, <1>2, <1>3, <1>4, <1>5, <1>6, <1>7 DEF Begins

\* A call of r fails: some of what it would have done is not done.
Fails(r) ==
  /\ requests' \in [Requests -> Request]
  /\ \A q \in Requests \ {r} : requests'[q] = requests[q]
  /\ requests'[r].op = requests[r].op
  /\ requests'[r].token = requests[r].token
  /\ requests'[r].user = requests[r].user
  /\ requests'[r].todo \subseteq requests[r].todo
  /\ requests[r].todo # {}
  /\ UNCHANGED <<account, tokens, redisVars>>

\* Time passes.
Passes ==
  /\ active' \subseteq active /\ failures' \in Nat
  /\ UNCHANGED <<account, tokens, records, used, listed, resets, latestReset, requests>>

LEMMA StepIs ==
  ASSUME TypeOK, Shape, [Next]_vars
  PROVE  (\E r \in Requests : Called(r) \/ Started(r) \/ Fails(r)) \/ Passes
<1>1. ASSUME NEW r \in Requests, NEW rest \in SUBSET requests[r].todo, Fail(r, rest)
      PROVE  Fails(r)
  <2>1. requests[r] \in Request /\ rest \in SUBSET Steps
    BY DEF TypeOK, Request
  <2>2. [requests[r] EXCEPT !.todo = rest, !.failed = TRUE] \in Request
    BY <2>1 DEF Request
  <2>3. /\ requests' \in [Requests -> Request]
        /\ \A q \in Requests \ {r} : requests'[q] = requests[q]
        /\ requests'[r] = [requests[r] EXCEPT !.todo = rest, !.failed = TRUE]
    BY <1>1, <2>2 DEF Fail, TypeOK
  <2>4. QED
    BY <1>1, <2>1, <2>3 DEF Fails, Fail, Request
<1>2. ASSUME NEW s \in Requests, Lapse(s)
      PROVE  Passes
  BY <1>2 DEF Lapse, Passes, TypeOK
<1>3. CASE WindowEnds \/ UNCHANGED vars
  BY <1>3 DEF WindowEnds, Passes, vars, redisVars, TypeOK
<1>4. QED
  BY <1>1, <1>2, <1>3, ProceedsIsCall, BeginsStarts DEF Next
----------------------------------------------------------------------------
(* Layer 1: types and the shape of requests.                               *)

\* Request r signs its tokens.
SignsNow(r) ==
  LET t == requests[r].token
  IN  /\ ~Signed(r)
      /\ requests[r].op \in {"login", "refresh"}
      /\ tokens' \in [Requests -> Token \cup {NoToken}]
      /\ \A q \in Requests \ {r} : tokens'[q] = tokens[q]
      /\ tokens'[r] \in Token
      /\ tokens'[r].version = requests[r].user.version
      /\ requests[r].op = "login" => /\ tokens'[r].password = requests[r].user.password
                                     /\ tokens'[r].session = r
                                     /\ tokens'[r].parent = None
      /\ requests[r].op = "refresh" => /\ tokens'[r].password = tokens[t].password
                                       /\ tokens'[r].session = tokens[t].session
                                       /\ tokens'[r].parent = t

LEMMA SignedHasToken ==
  ASSUME TypeOK, NEW r \in Requests
  PROVE  Signed(r) <=> tokens[r] \in Token
  BY SessionAssumption DEF TypeOK, Signed, Token, NoToken

LEMMA CallSigns ==
  ASSUME TypeOK, Shape, NEW r \in Requests, NEW step \in Steps, NEW next \in SUBSET Steps,
         Call(r, step, next)
  PROVE  \/ tokens' = tokens /\ next \cap Issuing = {}
         \/ /\ SignsNow(r)
            /\ requests[r].todo = {step} /\ next \subseteq Issuing
            /\ requests[r].op = "login" => step = "clearFailures"
            /\ requests[r].op = "refresh" => step \in {"use", "unlist"}
<1> DEFINE t == requests[r].token
           op == requests[r].op
<1>1. /\ step \in requests[r].todo
      /\ step \in StepsOf(op)
      /\ op \in AllOps \cup {"none"}
      /\ requests[r].user \in [version : Nat, password : Nat]
      /\ t \in Requests \cup {None}
  BY DEF TypeOK, Shape, ShapeOf, Request, Call, Moved
<1>2. CASE step = "clearFailures"
  <2> DEFINE new == [version |-> requests[r].user.version,
                     password |-> requests[r].user.password,
                     session |-> r, parent |-> None]
  <2>1. op = "login" /\ requests[r].todo = {step} /\ ~Signed(r)
    BY <1>1, <1>2, OperationOf DEF Shape, ShapeOf, Alone, Issuing
  <2>2. tokens' = [tokens EXCEPT ![r] = new] /\ next \subseteq Issuing
    BY <1>2 DEF Call, Signs, Issue, After
  <2>3. new \in Token
    BY <1>1 DEF Token
  <2>4. SignsNow(r)
    BY <2>1, <2>2, <2>3 DEF SignsNow, TypeOK
  <2>5. QED
    BY <1>2, <2>1, <2>2, <2>4
<1>3. CASE step \in {"use", "unlist"}
  <2>1. op = "refresh" /\ ~Signed(r) /\ t \in Requests /\ Signed(t)
    BY <1>1, <1>3, OperationOf DEF Shape, ShapeOf, Issuing, Holders
  <2>2. next \subseteq Issuing
    BY <1>3 DEF Call, After
  <2>3. CASE next = {} /\ tokens' = tokens
    BY <2>3
  <2>4. CASE /\ requests[r].todo = {step}
             /\ Issue(r, requests[r].user.version, tokens[t].password, tokens[t].session, t)
    <3> DEFINE new == [version |-> requests[r].user.version,
                       password |-> tokens[t].password,
                       session |-> tokens[t].session, parent |-> t]
    <3>1. tokens' = [tokens EXCEPT ![r] = new]
      BY <2>4 DEF Issue
    <3>2. tokens[t] \in Token
      BY <2>1, SignedHasToken
    <3>3. new \in Token
      BY <1>1, <2>1, <3>2 DEF Token
    <3>4. SignsNow(r)
      BY <2>1, <3>1, <3>3 DEF SignsNow, TypeOK
    <3>5. QED
      BY <1>3, <2>1, <2>2, <2>4, <3>4
  <2>5. QED
    BY <1>3, <2>3, <2>4 DEF Call, Signs
<1>4. CASE step \notin {"clearFailures", "use", "unlist"}
  <2>1. tokens' = tokens
    BY <1>4 DEF Call, Signs
  <2>2. next \cap Issuing = {}
    BY <1>4 DEF Call, After, Issuing, Steps
  <2>3. QED
    BY <2>1, <2>2
<1>5. QED
  BY <1>2, <1>3, <1>4

LEMMA CallKeepsTypes ==
  ASSUME TypeOK, Shape, NEW r \in Requests, NEW step \in Steps, NEW next \in SUBSET Steps,
         Call(r, step, next)
  PROVE  TypeOK'
<1>1. tokens' \in [Requests -> Token \cup {NoToken}]
  BY CallSigns DEF SignsNow, TypeOK
<1>2. account' \in Account
  <2>1. CASE step = "lock"
    BY <2>1 DEF Call, Writes, TypeOK, Account, Statuses
  <2>2. CASE step = "bump"
    BY <2>2 DEF Call, Writes, TypeOK, Account, Statuses
  <2>3. CASE step = "write"
    <3>1. CASE account' = [account EXCEPT !.status = "active"]
      BY <3>1, account \in Account DEF TypeOK, Account, Statuses
    <3>2. CASE account' = [account EXCEPT !.status = "archived", !.version = @ + 1]
      <4> DEFINE version == account.version + 1
      <4>1. account \in Account /\ version \in Nat
        BY DEF TypeOK, Account
      <4>2. account' = [account EXCEPT !.status = "archived", !.version = version]
        BY <3>2
      <4> HIDE DEF version
      <4>3. QED
        BY <4>1, <4>2 DEF Account, Statuses
    <3>3. ASSUME NEW status \in Statuses, NEW erased \in BOOLEAN, NewPassword(status, erased)
          PROVE  account' \in Account
      BY <3>3 DEF NewPassword, TypeOK, Account
    <3>4. account.status \in Statuses /\ account.erased \in BOOLEAN
      BY DEF TypeOK, Account
    <3>5. QED
      BY <2>3, <3>1, <3>2, <3>3, <3>4 DEF Call, Writes
  <2>4. QED
    BY <2>1, <2>2, <2>3 DEF Call, Writes, TypeOK
<1>3. active' \subseteq Requests
  <2>1. ASSUME step = "activate"
        PROVE  tokens[r].session \in Requests
    <3>1. Signed(r)
      BY <2>1 DEF Call, Moved, Shape, ShapeOf, Issuing
    <3>2. QED
      BY <3>1, SignedHasToken DEF Token
  <2>2. ASSUME step = "touch"
        PROVE  Session(r) \in Requests
    <3>1. requests[r].op \in AllOps \cup {"none"} /\ "touch" \in StepsOf(requests[r].op)
      BY <2>2 DEF Call, Moved, Shape, ShapeOf, TypeOK, Request
    <3>2. requests[r].op \in Holders
      BY <3>1, OperationOf DEF Checking
    <3>3. requests[r].token \in Requests /\ Signed(requests[r].token)
      BY <3>2 DEF Shape, ShapeOf
    <3>4. QED
      BY <3>3, SignedHasToken DEF Token, Session
  <2>3. QED
    BY <2>1, <2>2 DEF Call, Stores, TypeOK
<1>4. used' \subseteq Requests
  <2>1. ASSUME step = "use"
        PROVE  requests[r].token \in Requests
    <3>1. requests[r].op \in AllOps \cup {"none"} /\ "use" \in StepsOf(requests[r].op)
      BY <2>1 DEF Call, Moved, Shape, ShapeOf, TypeOK, Request
    <3>2. requests[r].op \in Holders
      BY <3>1, OperationOf DEF Holders
    <3>3. QED
      BY <3>2 DEF Shape, ShapeOf
  <2>2. QED
    BY <2>1 DEF Call, Stores, TypeOK
<1>5. QED
  BY <1>1, <1>2, <1>3, <1>4 DEF TypeOK, Call, Stores, Moved

LEMMA CallKeepsShape ==
  ASSUME TypeOK, Shape, NEW r \in Requests, NEW step \in Steps, NEW next \in SUBSET Steps,
         Call(r, step, next)
  PROVE  Shape'
<1>1. TypeOK'
  BY CallKeepsTypes
<1>2. ASSUME NEW q \in Requests
      PROVE  Signed(q)' <=> Signed(q) \/ (q = r /\ SignsNow(r))
  <2>1. CASE tokens' = tokens /\ next \cap Issuing = {}
    BY <2>1, SessionAssumption DEF Signed, SignsNow, Token, NoToken
  <2>2. CASE SignsNow(r)
    <3>1. tokens'[r] # NoToken
      BY <2>2, SessionAssumption DEF SignsNow, Token, NoToken
    <3>2. QED
      BY <2>2, <3>1 DEF Signed, SignsNow
  <2>3. QED
    BY <2>1, <2>2, CallSigns
<1>3. ASSUME NEW q \in Requests, requests[q].op \in Holders
      PROVE  /\ requests[q].token # r
             /\ requests'[q].token = requests[q].token
             /\ tokens'[requests[q].token] = tokens[requests[q].token]
             /\ requests'[requests[q].token] = requests[requests[q].token]
  <2>1. requests[q].token \in Requests /\ requests[q].token # r
    BY <1>3 DEF Shape, ShapeOf, Call, Moved
  <2>2. QED
    BY <2>1, CallSigns DEF SignsNow, Call, Moved
<1>4. ASSUME NEW q \in Requests, q # r
      PROVE  ShapeOf(q)'
  <2>1. requests'[q] = requests[q] /\ ShapeOf(q)
    BY <1>4 DEF Call, Moved, Shape
  <2>2. tokens'[q] = tokens[q] /\ (Signed(q)' <=> Signed(q))
    BY <1>4, CallSigns DEF SignsNow, Signed
  <2>3. requests[q].op \in Holders =>
          Signed(requests[q].token) /\ Signed(requests[q].token)'
    <3>1. requests[q].op \in Holders =>
            requests[q].token \in Requests /\ Signed(requests[q].token)
      BY <2>1 DEF ShapeOf
    <3>2. QED
      BY <1>2, <2>1, <3>1
  <2>4. QED
    BY <1>3, <2>1, <2>2, <2>3 DEF ShapeOf, Holders
<1>5. ShapeOf(r)'
  <2>1. /\ requests'[r].op = requests[r].op
        /\ requests'[r].token = requests[r].token
        /\ requests'[r].todo = (requests[r].todo \ {step}) \cup next
        /\ step \in requests[r].todo
        /\ next \subseteq StepsOf(requests[r].op)
        /\ ShapeOf(r)
    BY DEF Call, Moved, Shape
  <2>2. requests'[r].todo \subseteq StepsOf(requests'[r].op)
    BY <2>1 DEF ShapeOf
  <2>3. requests[r].op \in Holders =>
          /\ requests'[r].token \in Requests
          /\ Signed(requests[r].token)'
          /\ requests'[requests'[r].token].todo = {}
    BY <1>2, <1>3, <2>1 DEF ShapeOf
  <2>4. \A s \in requests'[r].todo \cap Alone : requests'[r].todo = {s}
    <3>1. next \cap Alone # {} => step \in {"checkIdle", "touch"}
      BY DEF Call, After, Issuing, Alone
    <3>2. step \in Alone => requests'[r].todo = next
      BY <2>1 DEF ShapeOf
    <3>3. step \notin Alone => requests'[r].todo \cap Alone = {}
      BY <2>1, <3>1 DEF ShapeOf, Alone
    <3>4. QED
      BY <3>2, <3>3 DEF Call
  <2>5. CASE tokens' = tokens /\ next \cap Issuing = {}
    <3>1. Signed(r)' <=> Signed(r)
      BY <2>5 DEF Signed
    <3>2. requests'[r].todo \cap Issuing # {} => Signed(r)
      BY <2>1, <2>5 DEF ShapeOf
    <3>3. ASSUME Signed(r)
          PROVE  requests'[r].todo \subseteq Issuing
      <4>1. step \in Issuing
        BY <2>1, <3>3 DEF ShapeOf
      <4>2. next = {}
        BY <4>1 DEF Call, After, Issuing
      <4>3. QED
        BY <2>1, <3>3, <4>2 DEF ShapeOf
    <3>4. QED
      BY <2>1, <2>2, <2>3, <2>4, <2>5, <3>1, <3>2, <3>3 DEF ShapeOf
  <2>6. CASE SignsNow(r) /\ requests[r].todo = {step} /\ next \subseteq Issuing
    <3>1. requests'[r].todo \subseteq Issuing
      BY <2>1, <2>6
    <3>2. requests[r].op = "refresh" =>
            tokens'[requests'[r].token].session = tokens[requests[r].token].session
      BY <1>3, <2>1 DEF Holders
    <3>3. Signed(r)' /\ requests'[r].op \in {"login", "refresh"}
      BY <1>2, <2>1, <2>6 DEF SignsNow
    <3>4. QED
      BY <2>1, <2>2, <2>3, <2>4, <2>6, <3>1, <3>2, <3>3 DEF ShapeOf, SignsNow
  <2>7. QED
    BY <2>5, <2>6, CallSigns
<1>6. QED
  BY <1>4, <1>5 DEF Shape
LEMMA StartKeepsShape ==
  ASSUME TypeOK, Shape, NEW r \in Requests, NEW op \in AllOps,
         NEW token \in Requests \cup {None}, NEW todo \in SUBSET Steps,
         Starts(r, op, token, todo)
  PROVE  TypeOK' /\ Shape'
<1>1. account' \in Account
  <2>1. ASSUME NEW status \in Statuses, SetStatus(status)
        PROVE  account' \in Account
    <3> DEFINE version == IF status = "active" THEN account.version ELSE account.version + 1
    <3>1. account \in Account /\ version \in Nat
      BY DEF TypeOK, Account
    <3>2. account' = [account EXCEPT !.status = status, !.version = version]
      BY <2>1 DEF SetStatus
    <3> HIDE DEF version
    <3>3. QED
      BY <3>1, <3>2 DEF Account
  <2>2. QED
    BY <2>1 DEF Starts, TypeOK
<1>2. TypeOK'
  BY <1>1 DEF TypeOK, Starts
<1>3. /\ todo \subseteq StepsOf(op) /\ todo \cap Issuing = {}
      /\ \A s \in todo \cap Alone : todo = {s}
  <2>1. CASE op \in {"login", "refresh", "forgot", "resetPassword"} \cup Authenticated
    BY <2>1 DEF Starts, First, StepsOf, Issuing, Checking, Alone, Authenticated
  <2>2. CASE op \in {"adminUpdateUser", "adminArchiveUser", "adminRestoreUser"}
    BY <2>2 DEF Starts, First, StepsOf, Issuing, Checking, Alone, Authenticated
  <2>3. QED
    BY <2>1, <2>2 DEF AllOps, Authenticated
<1>4. ~Signed(r) /\ requests[r].todo = {}
  <2>1. requests[r].op = "none" /\ ShapeOf(r)
    BY DEF Starts, Shape
  <2>2. QED
    BY <2>1 DEF ShapeOf, StepsOf
<1>5. \A q \in Requests : Signed(q)' <=> Signed(q)
  BY DEF Starts, Signed
<1>6. ASSUME NEW q \in Requests, q # r
      PROVE  ShapeOf(q)'
  <2>1. requests'[q] = requests[q] /\ ShapeOf(q) /\ tokens' = tokens
    BY <1>6 DEF Starts, Shape
  <2>2. requests[q].op \in Holders =>
          /\ requests[q].token \in Requests \ {r}
          /\ Signed(requests[q].token)'
          /\ requests'[requests[q].token] = requests[requests[q].token]
    BY <1>4, <1>5, <2>1 DEF ShapeOf, Starts
  <2>3. QED
    BY <1>5, <2>1, <2>2 DEF ShapeOf
<1>7. ShapeOf(r)'
  <2>1. requests'[r].op = op /\ requests'[r].token = token /\ requests'[r].todo = todo
    BY DEF Starts
  <2>2. op \in Holders =>
          /\ token \in Requests \ {r} /\ Signed(token)' /\ requests'[token].todo = {}
    BY <1>4, <1>5 DEF Starts, Delivered
  <2>3. op \notin Holders => token = None
    BY DEF Starts
  <2>4. QED
    BY <1>3, <1>4, <1>5, <2>1, <2>2, <2>3 DEF ShapeOf
<1>8. QED
  BY <1>2, <1>6, <1>7 DEF Shape

LEMMA FailKeepsShape ==
  ASSUME TypeOK, Shape, NEW r \in Requests, Fails(r)
  PROVE  TypeOK' /\ Shape'
<1>1. TypeOK'
  BY DEF TypeOK, Fails, redisVars
<1>2. ASSUME NEW q \in Requests
      PROVE  ShapeOf(q)'
  <2>1. /\ tokens' = tokens /\ ShapeOf(q)
        /\ requests'[q].op = requests[q].op
        /\ requests'[q].token = requests[q].token
        /\ requests'[q].todo \subseteq requests[q].todo
    BY DEF Fails, Shape
  <2>2. \A t \in Requests : requests[t].todo = {} => requests'[t].todo = {}
    BY DEF Fails
  <2>3. \A s \in requests'[q].todo \cap Alone : requests'[q].todo = {s}
    BY <2>1 DEF ShapeOf
  <2>4. Signed(q)' <=> Signed(q)
    BY <2>1 DEF Signed
  <2>5. requests[q].op \in Holders =>
          /\ requests'[q].token \in Requests
          /\ Signed(requests[q].token)'
          /\ requests'[requests'[q].token].todo = {}
    BY <2>1, <2>2 DEF ShapeOf, Signed
  <2>6. QED
    BY <2>1, <2>3, <2>4, <2>5 DEF ShapeOf
<1>3. QED
  BY <1>1, <1>2 DEF Shape

LEMMA PassKeepsShape ==
  ASSUME TypeOK, Shape, Passes
  PROVE  TypeOK' /\ Shape'
<1>1. TypeOK'
  BY DEF TypeOK, Passes
<1>2. requests' = requests /\ tokens' = tokens
  BY DEF Passes
<1>3. Shape'
  BY <1>2 DEF Shape, ShapeOf, Signed
<1>4. QED
  BY <1>1, <1>3

LEMMA InitRequests ==
  ASSUME Init, NEW r \in Requests
  PROVE  /\ requests[r].op = "none" /\ requests[r].token = None /\ requests[r].todo = {}
         /\ ~Signed(r)
  BY DEF Init, Signed, Unmade

LEMMA InitShape ==
  ASSUME Init
  PROVE  TypeOK /\ Shape
<1>1. Unmade \in Request
  BY DEF Unmade, Request
<1>2. TypeOK
  BY <1>1 DEF Init, TypeOK, Account, Statuses
<1>3. Shape
  BY InitRequests DEF Shape, ShapeOf, Holders, Authenticated
<1>4. QED
  BY <1>2, <1>3

LEMMA ShapeInvariant ==
  Spec => [](TypeOK /\ Shape)
<1>1. TypeOK /\ Shape /\ [Next]_vars => TypeOK' /\ Shape'
  BY StepIs, CallKeepsTypes, CallKeepsShape, StartKeepsShape, FailKeepsShape, PassKeepsShape
     DEF Called, Started
<1>2. QED
  BY <1>1, InitShape, PTL DEF Spec

\* However requests overlap and fail, the account, Redis and what every request carries
\* keep their types: tokens are signed whole, and every token a request presents, a
\* session it marks and a reset it redeems was issued by a request.
THEOREM TypeCorrect == Spec => []TypeOK
  BY ShapeInvariant, PTL
----------------------------------------------------------------------------
(* Layer 2: what a version of the account stands for.  Whenever the password *)
(* or the archiving changes, so does the version: one that is still the     *)
(* account's was read with the account's password, before any archiving.    *)

Good(version, password) ==
  /\ version <= account.version
  /\ version = account.version =>
       password = account.password /\ account.status # "archived"

\* The versions of tokens, and of what a login or a refresh will sign next.
StandsFor(r) ==
  /\ Signed(r) => Good(tokens[r].version, tokens[r].password)
  /\ "clearFailures" \in requests[r].todo =>
       Good(requests[r].user.version, requests[r].user.password)
  /\ requests[r].todo \cap {"use", "unlist"} # {} =>
       requests[r].user.version = tokens[requests[r].token].version
Standing == \A r \in Requests : StandsFor(r)

AccountStep ==
  \/ /\ account'.version = account.version
     /\ account'.password = account.password
     /\ account'.status = "archived" => account.status = "archived"
  \/ account'.version = account.version + 1

LEMMA AccountSteps ==
  ASSUME TypeOK, Shape, [Next]_vars
  PROVE  AccountStep
<1>0. account \in Account
  BY DEF TypeOK
<1>1. ASSUME NEW r \in Requests, NEW step \in Steps, Writes(r, step)
      PROVE  AccountStep
  <2>1. CASE step = "lock"
    BY <1>0, <1>1, <2>1 DEF Writes, AccountStep, Account
  <2>2. CASE step = "bump"
    BY <1>0, <1>1, <2>2 DEF Writes, AccountStep, Account
  <2>3. CASE step = "write"
    <3>1. CASE account' = [account EXCEPT !.status = "active"]
      BY <1>0, <3>1 DEF AccountStep, Account
    <3>2. CASE account' = [account EXCEPT !.status = "archived", !.version = @ + 1]
      BY <1>0, <3>2 DEF AccountStep, Account
    <3>3. ASSUME NEW status, NEW erased, NewPassword(status, erased)
          PROVE  AccountStep
      BY <3>3 DEF NewPassword, AccountStep
    <3>4. CASE NewPassword(account.status, account.erased)
      BY <3>4 DEF NewPassword, AccountStep
    <3>5. QED
      BY <1>1, <2>3, <3>1, <3>2, <3>3, <3>4 DEF Writes
  <2>4. QED
    BY <1>1, <2>1, <2>2, <2>3 DEF Writes, AccountStep
<1>2. ASSUME NEW status \in Statuses \ {"archived"}, SetStatus(status)
      PROVE  AccountStep
  BY <1>0, <1>2 DEF SetStatus, AccountStep, Account
<1>3. account' = account => AccountStep
  BY DEF AccountStep
<1>4. QED
  BY <1>1, <1>2, <1>3, StepIs DEF Called, Call, Started, Starts, Fails, Passes

LEMMA StandingKept ==
  ASSUME TypeOK, Shape, Standing, [Next]_vars
  PROVE  Standing'
<1>1. AccountStep
  BY AccountSteps
<1>2. account.version \in Nat /\ account.password \in Nat
  BY DEF TypeOK, Account
<1>3. \A version, password \in Nat :
        Good(version, password) =>
          /\ version <= account'.version
          /\ version = account'.version =>
               password = account'.password /\ account'.status # "archived"
  BY <1>1, <1>2 DEF Good, AccountStep
<1>4. ASSUME NEW r \in Requests
      PROVE  /\ requests[r].user.version \in Nat /\ requests[r].user.password \in Nat
             /\ Signed(r) => tokens[r].version \in Nat /\ tokens[r].password \in Nat
  BY SignedHasToken DEF TypeOK, Request, Token
\* A request that makes no call keeps what its tokens and its row stand for.
<1>5. ASSUME NEW q \in Requests, tokens'[q] = tokens[q],
             requests'[q].token = requests[q].token,
             requests'[q].user = requests[q].user,
             requests'[q].todo \subseteq requests[q].todo,
             requests[q].todo \cap {"use", "unlist"} # {} =>
               tokens'[requests[q].token] = tokens[requests[q].token]
      PROVE  StandsFor(q)'
  <2>1. StandsFor(q)
    BY DEF Standing
  <2>2. Signed(q)' <=> Signed(q)
    BY <1>5 DEF Signed
  <2>3. QED
    BY <1>3, <1>4, <1>5, <2>1, <2>2 DEF StandsFor, Good
<1>6. ASSUME NEW q \in Requests, requests[q].todo \cap {"use", "unlist"} # {}
      PROVE  /\ requests[q].op = "refresh" /\ requests[q].token \in Requests
             /\ Signed(requests[q].token) /\ requests[requests[q].token].todo = {}
  <2>1. requests[q].op \in AllOps \cup {"none"} /\ ShapeOf(q)
    BY DEF TypeOK, Request, Shape
  <2>2. requests[q].op = "refresh"
    BY <1>6, <2>1, OperationOf DEF ShapeOf
  <2>3. QED
    BY <2>1, <2>2 DEF ShapeOf, Holders
<1>7. ASSUME NEW r \in Requests, NEW step \in Steps, NEW next \in SUBSET Steps,
             Call(r, step, next)
      PROVE  Standing'
  <2>1. /\ step \in requests[r].todo
        /\ requests'[r].todo = (requests[r].todo \ {step}) \cup next
        /\ requests'[r].token = requests[r].token
        /\ requests'[r].op = requests[r].op
    BY <1>7 DEF Call, Moved
  <2>2. ASSUME NEW q \in Requests, Signed(q), q # r \/ tokens' = tokens
        PROVE  tokens'[q] = tokens[q]
    BY <1>7, <2>2, CallSigns DEF SignsNow
  <2>3. ASSUME NEW q \in Requests, requests[q].todo \cap {"use", "unlist"} # {}
        PROVE  tokens'[requests[q].token] = tokens[requests[q].token]
    BY <1>6, <2>1, <2>2, <2>3
  <2>4. ASSUME NEW q \in Requests, q # r
        PROVE  StandsFor(q)'
    <3>1. requests'[q] = requests[q] /\ tokens'[q] = tokens[q]
      BY <1>7, <2>4, CallSigns DEF Call, Moved, SignsNow
    <3>2. QED
      BY <1>5, <2>3, <3>1
  <2>5. StandsFor(r)'
    <3>1. CASE SignsNow(r)
      <4>1. requests[r].op \in AllOps \cup {"none"} /\ requests'[r].todo \subseteq Issuing
        BY <1>7, <2>1, <3>1, SessionAssumption, CallSigns
           DEF TypeOK, Request, SignsNow, Signed, Token, NoToken
      <4>2. tokens'[r].version = requests[r].user.version
        BY <3>1 DEF SignsNow
      <4>3. CASE requests[r].op = "login"
        <5>1. Good(requests[r].user.version, requests[r].user.password)
          BY <1>7, <2>1, <3>1, <4>3, SessionAssumption, CallSigns
             DEF Standing, StandsFor, SignsNow, Signed, Token, NoToken
        <5>2. tokens'[r].password = requests[r].user.password
          BY <3>1, <4>3 DEF SignsNow
        <5>3. QED
          BY <1>3, <1>4, <4>1, <4>2, <5>1, <5>2 DEF StandsFor, Good, Issuing
      <4>4. CASE requests[r].op = "refresh"
        <5> DEFINE t == requests[r].token
        <5>1. requests[r].todo \cap {"use", "unlist"} # {}
          BY <1>7, <2>1, <3>1, <4>4, SessionAssumption, CallSigns
             DEF SignsNow, Signed, Token, NoToken
        <5>2. t \in Requests /\ Signed(t) /\ requests[r].user.version = tokens[t].version
          BY <1>6, <5>1 DEF Standing, StandsFor
        <5>3. Good(tokens[t].version, tokens[t].password)
          BY <5>2 DEF Standing, StandsFor
        <5>4. tokens'[r].password = tokens[t].password
          BY <3>1, <4>4 DEF SignsNow
        <5>5. QED
          BY <1>3, <1>4, <4>1, <4>2, <5>2, <5>3, <5>4 DEF StandsFor, Good, Issuing
      <4>5. QED
        BY <3>1, <4>3, <4>4 DEF SignsNow
    <3>2. CASE tokens' = tokens
      <4>1. CASE step = "readUser"
        <5>1. \/ next = {"drop"}
              \/ /\ next = {"use", "unlist"}
                 /\ account.version = tokens[requests[r].token].version
          BY <1>7, <4>1 DEF Call, Remembers, Accepts
        <5>2. requests'[r].user.version = account.version
          BY <1>7, <4>1 DEF Call, Remembers
        <5>3. requests'[r].todo = next
          BY <2>1, <4>1 DEF Shape, ShapeOf, Alone
        <5>4. Signed(r)' <=> Signed(r)
          BY <3>2 DEF Signed
        <5>5. ~Signed(r)
          BY <2>1, <4>1 DEF Shape, ShapeOf, Issuing
        <5>6. QED
          BY <2>1, <3>2, <5>1, <5>2, <5>3, <5>4, <5>5 DEF StandsFor
      <4>2. CASE step # "readUser"
        <5>1. requests'[r].user = requests[r].user
          BY <1>7, <4>2 DEF Call, Remembers
        <5>2. next \cap {"use", "unlist", "clearFailures"} = {}
          BY <1>7, <4>2 DEF Call, After, Issuing
        <5>3. Signed(r)' <=> Signed(r)
          BY <3>2 DEF Signed
        <5>4. StandsFor(r)
          BY DEF Standing
        <5>5. /\ "clearFailures" \in requests'[r].todo => "clearFailures" \in requests[r].todo
              /\ requests'[r].todo \cap {"use", "unlist"} # {} =>
                   requests[r].todo \cap {"use", "unlist"} # {}
          BY <2>1, <5>2
        <5>6. QED
          BY <1>3, <1>4, <2>1, <3>2, <5>1, <5>3, <5>4, <5>5 DEF StandsFor, Good
      <4>3. QED
        BY <4>1, <4>2
    <3>3. QED
      BY <1>7, <3>1, <3>2, CallSigns
  <2>6. QED
    BY <2>4, <2>5 DEF Standing
<1>8. ASSUME NEW r \in Requests, NEW op \in AllOps, NEW token \in Requests \cup {None},
             NEW todo \in SUBSET Steps, Starts(r, op, token, todo)
      PROVE  Standing'
  <2>1. ~Signed(r)
    <3>1. requests[r].op = "none" /\ ShapeOf(r)
      BY <1>8 DEF Starts, Shape
    <3>2. QED
      BY <3>1 DEF ShapeOf
  <2>2. tokens' = tokens /\ ~Signed(r)'
    BY <1>8, <2>1 DEF Starts, Signed
  <2>3. ASSUME NEW q \in Requests, q # r
        PROVE  StandsFor(q)'
    <3>1. requests'[q] = requests[q]
      BY <1>8, <2>3 DEF Starts
    <3>2. QED
      BY <1>5, <2>2, <3>1
  <2>4. StandsFor(r)'
    <3>1. /\ requests'[r].todo = todo
          /\ requests'[r].user = [version |-> account.version, password |-> account.password]
      BY <1>8 DEF Starts
    <3>2. todo \cap {"use", "unlist"} = {}
      BY <1>8 DEF Starts, First, AllOps, Authenticated
    <3>3. "clearFailures" \in todo => Good(account.version, account.password)
      BY <1>2, <1>8 DEF Starts, Good
    <3>4. QED
      BY <1>2, <1>3, <2>2, <3>1, <3>2, <3>3 DEF StandsFor, Good
  <2>5. QED
    BY <2>3, <2>4 DEF Standing
<1>9. ASSUME NEW r \in Requests, Fails(r)
      PROVE  Standing'
  BY <1>5, <1>9 DEF Fails, Standing
<1>10. CASE Passes
  BY <1>5, <1>10 DEF Passes, Standing
<1>11. QED
  BY <1>7, <1>8, <1>9, <1>10, StepIs DEF Called, Started

LEMMA StandingInvariant ==
  Spec => [](TypeOK /\ Shape /\ Standing)
<1>1. Init => Standing
  BY InitRequests DEF Standing, StandsFor
<1>2. TypeOK /\ Shape /\ Standing /\ [Next]_vars => Standing'
  BY StandingKept
<1>3. QED
  BY <1>1, <1>2, ShapeInvariant, PTL DEF Spec

\* However a login or a refresh overlaps changePassword, resetPassword or deleteMyAccount,
\* tokens that the account still accepts come from its present password.
THEOREM PasswordsHold == Spec => []NoSessionOutlivesItsPassword
<1>1. Standing => NoSessionOutlivesItsPassword
  BY DEF Standing, StandsFor, Good, NoSessionOutlivesItsPassword
<1>2. QED
  BY <1>1, StandingInvariant, PTL

\* Tokens issued before or across an archiving stay refused: restoring the account brings
\* no session back.
THEOREM ArchivingHolds == Spec => []RestoringRevivesNothing
<1>1. Standing => RestoringRevivesNothing
  BY DEF Standing, StandsFor, Good, RestoringRevivesNothing
<1>2. QED
  BY <1>1, StandingInvariant, PTL
----------------------------------------------------------------------------
(* Layer 3: a refresh token is exchanged once.                             *)

\* Request r has taken the record of its refresh token, and has its tokens or is on the way
\* to them.
Pursuing == {"checkIdle", "touch", "readUser", "use", "unlist"}
Took(r) ==
  /\ requests[r].op = "refresh"
  /\ Signed(r) \/ requests[r].todo \cap Pursuing # {}

\* Whoever has taken a record is alone in that, and the record is gone.
Single ==
  \A r \in Requests :
    Took(r) => /\ requests[r].token \notin records
               /\ \A q \in Requests :
                    Took(q) /\ requests[q].token = requests[r].token => q = r

\* No record that somebody presents comes back, and nobody starts an exchange.
NothingTaken ==
  \A q \in Requests :
    /\ requests'[q].token = requests[q].token
    /\ Took(q)' => Took(q)
    /\ requests[q].op = "refresh" /\ requests[q].token \in records'
         => requests[q].token \in records

LEMMA CallTakesNothing ==
  ASSUME TypeOK, Shape, NEW r \in Requests, NEW step \in Steps, NEW next \in SUBSET Steps,
         Call(r, step, next)
  PROVE  NothingTaken
<1>1. /\ step \in requests[r].todo
      /\ \A q \in Requests \ {r} : requests'[q] = requests[q]
      /\ requests'[r].op = requests[r].op
      /\ requests'[r].token = requests[r].token
      /\ requests'[r].todo = (requests[r].todo \ {step}) \cup next
      /\ records' \subseteq records \cup {q \in {r} : step = "record"}
  BY DEF Call, Moved, Stores
<1>2. ASSUME NEW q \in Requests, Took(q)'
      PROVE  Took(q)
  <2>1. CASE q # r
    <3>1. tokens'[q] = tokens[q] /\ requests'[q] = requests[q]
      BY <1>1, <2>1, CallSigns DEF SignsNow
    <3>2. QED
      BY <1>2, <3>1 DEF Took, Signed
  <2>2. CASE q = r
    <3>1. requests[r].op = "refresh"
      BY <1>1, <1>2, <2>2 DEF Took
    <3>2. CASE SignsNow(r) /\ step \in {"use", "unlist"}
      BY <1>1, <2>2, <3>1, <3>2 DEF Took, Pursuing
    <3>3. CASE tokens' = tokens
      <4>1. Signed(r)' => Signed(r)
        BY <3>3 DEF Signed
      <4>2. next \cap Pursuing # {} => step \in Pursuing
        BY DEF Call, After, Pursuing, Issuing
      <4>3. QED
        BY <1>1, <1>2, <2>2, <3>1, <4>1, <4>2 DEF Took
    <3>4. QED
      BY <3>1, <3>2, <3>3, CallSigns
  <2>3. QED
    BY <2>1, <2>2
<1>3. ASSUME NEW q \in Requests, requests[q].op = "refresh"
      PROVE  requests[q].token # r
  BY <1>1, <1>3 DEF Shape, ShapeOf, Holders
<1>4. ASSUME NEW q \in Requests, requests[q].op = "refresh", requests[q].token \in records'
      PROVE  requests[q].token \in records
  BY <1>1, <1>3, <1>4
<1>5. \A q \in Requests : requests'[q].token = requests[q].token
  BY <1>1
<1>6. QED
  BY <1>2, <1>4, <1>5 DEF NothingTaken

LEMMA SingleKept ==
  ASSUME TypeOK, Shape, Single, [Next]_vars
  PROVE  Single'
<1>1. ASSUME NothingTaken
      PROVE  Single'
  <2>1. \A q \in Requests : Took(q) => requests[q].op = "refresh"
    BY DEF Took
  <2>2. QED
    BY <1>1, <2>1 DEF Single, NothingTaken
<1>2. ASSUME NEW r \in Requests, Called(r)
      PROVE  Single'
  <2>1. PICK step \in Steps, next \in SUBSET Steps : Call(r, step, next)
    BY <1>2 DEF Called
  <2>2. QED
    BY <1>1, <2>1, CallTakesNothing
<1>3. ASSUME NEW r \in Requests, Fails(r)
      PROVE  Single'
  <2>1. /\ tokens' = tokens /\ records' = records
        /\ \A q \in Requests : /\ requests'[q].op = requests[q].op
                              /\ requests'[q].token = requests[q].token
                              /\ requests'[q].todo \subseteq requests[q].todo
    BY <1>3 DEF Fails, redisVars
  <2>2. NothingTaken
    BY <2>1 DEF Took, Signed, NothingTaken
  <2>3. QED
    BY <1>1, <2>2
<1>4. ASSUME NEW r \in Requests, NEW op \in AllOps, NEW token \in Requests \cup {None},
             NEW todo \in SUBSET Steps, Starts(r, op, token, todo)
      PROVE  Single'
  <2>1. /\ tokens' = tokens /\ requests[r].op = "none"
        /\ \A q \in Requests \ {r} : requests'[q] = requests[q]
        /\ requests'[r].op = op /\ requests'[r].token = token /\ requests'[r].todo = todo
        /\ op = "refresh" => /\ records' = records \ {token}
                             /\ "checkIdle" \in todo => token \in records
        /\ op # "refresh" => records' = records
    BY <1>4 DEF Starts
  <2>2. ~Signed(r)'
    BY <2>1 DEF Shape, ShapeOf, Signed
  <2>3. \A q \in Requests \ {r} : Took(q)' <=> Took(q)
    BY <2>1 DEF Took, Signed
  <2>4. Took(r)' => op = "refresh" /\ "checkIdle" \in todo
    BY <1>4, <2>1, <2>2 DEF Took, Starts, First, Pursuing, Authenticated
  <2>5. Took(r)' => \A q \in Requests \ {r} : Took(q) => requests[q].token # token
    BY <2>1, <2>4 DEF Single
  <2>6. QED
    BY <2>1, <2>3, <2>4, <2>5 DEF Single
<1>5. CASE Passes
  <2>1. requests' = requests /\ tokens' = tokens /\ records' = records
    BY <1>5 DEF Passes
  <2>2. QED
    BY <2>1 DEF Single, Took, Signed
<1>6. QED
  BY <1>2, <1>3, <1>4, <1>5, StepIs DEF Started

LEMMA SingleInvariant ==
  Spec => [](Shape /\ TypeOK /\ Single)
<1>1. Init => Single
  BY InitRequests DEF Single, Took
<1>2. TypeOK /\ Shape /\ Single /\ [Next]_vars => Single'
  BY SingleKept
<1>3. QED
  BY <1>1, <1>2, ShapeInvariant, PTL DEF Spec

\* Of any number of refreshes that present one token, in any interleaving of their calls,
\* at most one gets new tokens.
THEOREM RefreshIsOnce == Spec => []RedeemedOnce
<1>1. ASSUME TypeOK, Shape, Single
      PROVE  RedeemedOnce
  <2>1. ASSUME NEW r \in Requests, Signed(r), tokens[r].parent # None
        PROVE  Took(r) /\ tokens[r].parent = requests[r].token
    BY <1>1, <2>1 DEF Shape, ShapeOf, Took
  <2>2. QED
    BY <1>1, <2>1 DEF RedeemedOnce, Single
<1>2. QED
  BY <1>1, SingleInvariant, PTL
----------------------------------------------------------------------------
(* Layer 4: a replay is one.                                               *)

\* Request q presented the refresh token t, and is not one of those that take it for a
\* replay.
Presented(q, t) ==
  /\ requests[q].op = "refresh" /\ requests[q].token = t
  /\ requests[q].todo \cap {"checkUsed", "bump"} = {}

\* Whoever takes a token for a replay found it used, and somebody else used it.
Replays ==
  /\ \A t \in used : \E q \in Requests : Presented(q, t)
  /\ \A r \in Requests :
       requests[r].op = "refresh" /\ "bump" \in requests[r].todo
         => requests[r].todo = {"bump"} /\ requests[r].token \in used

LEMMA ReplaysKept ==
  ASSUME TypeOK, Shape, Replays, [Next]_vars
  PROVE  Replays'
<1>1. ASSUME NEW r \in Requests, NEW step \in Steps, NEW next \in SUBSET Steps,
             Call(r, step, next)
      PROVE  Replays'
  <2>1. /\ step \in requests[r].todo
        /\ \A q \in Requests \ {r} : requests'[q] = requests[q]
        /\ requests'[r].op = requests[r].op
        /\ requests'[r].token = requests[r].token
        /\ requests'[r].todo = (requests[r].todo \ {step}) \cup next
        /\ used' \subseteq used \cup {q \in {requests[r].token} : step = "use"}
        /\ used \subseteq used'
        /\ step = "checkUsed" /\ next # {} => requests[r].token \in used
    BY <1>1 DEF Call, Moved, Stores
  <2>2. requests[r].op \in AllOps \cup {"none"} /\ ShapeOf(r)
    BY DEF TypeOK, Request, Shape
  <2>3. ASSUME requests[r].op = "refresh"
        PROVE  next \cap {"checkUsed", "bump"} # {} => step = "checkUsed" /\ next = {"bump"}
    <3>1. step # "revoke"
      BY <2>1, <2>2, <2>3, OperationOf DEF ShapeOf
    <3>2. QED
      BY <1>1, <3>1 DEF Call, After, Issuing
  <2>4. ASSUME NEW q \in Requests, NEW t, Presented(q, t)
        PROVE  Presented(q, t)'
    <3>1. CASE q # r
      BY <2>1, <2>4, <3>1 DEF Presented
    <3>2. CASE q = r
      BY <2>1, <2>3, <2>4, <3>2 DEF Presented
    <3>3. QED
      BY <3>1, <3>2
  <2>5. ASSUME step = "use"
        PROVE  Presented(r, requests[r].token)
    <3>1. requests[r].op = "refresh"
      BY <2>1, <2>2, <2>5, OperationOf DEF ShapeOf
    <3>2. "checkUsed" \notin requests[r].todo
      BY <2>1, <2>2, <2>5 DEF ShapeOf, Alone
    <3>3. "bump" \notin requests[r].todo
      BY <2>1, <2>5, <3>1 DEF Replays
    <3>4. QED
      BY <3>1, <3>2, <3>3 DEF Presented
  <2>6. ASSUME NEW t \in used'
        PROVE  \E q \in Requests : Presented(q, t)'
    <3>1. PICK q \in Requests : Presented(q, t)
      BY <2>1, <2>5, <2>6 DEF Replays
    <3>2. QED
      BY <2>4, <3>1
  <2>7. ASSUME NEW q \in Requests, requests'[q].op = "refresh", "bump" \in requests'[q].todo
        PROVE  requests'[q].todo = {"bump"} /\ requests'[q].token \in used'
    <3>1. CASE q # r
      BY <2>1, <2>7, <3>1 DEF Replays
    <3>2. CASE q = r /\ "bump" \in requests[r].todo
      BY <2>1, <2>3, <2>7, <3>2 DEF Replays
    <3>3. CASE q = r /\ "bump" \notin requests[r].todo
      <4>1. step = "checkUsed" /\ next = {"bump"}
        BY <2>1, <2>3, <2>7, <3>3
      <4>2. requests[r].todo = {"checkUsed"}
        BY <2>1, <2>2, <4>1 DEF ShapeOf, Alone
      <4>3. QED
        BY <2>1, <3>3, <4>1, <4>2
    <3>4. QED
      BY <3>1, <3>2, <3>3
  <2>8. QED
    BY <2>6, <2>7 DEF Replays
<1>2. ASSUME NEW r \in Requests, Fails(r)
      PROVE  Replays'
  <2>1. /\ used' = used
        /\ \A q \in Requests : /\ requests'[q].op = requests[q].op
                              /\ requests'[q].token = requests[q].token
                              /\ requests'[q].todo \subseteq requests[q].todo
    BY <1>2 DEF Fails, redisVars
  <2>2. QED
    BY <2>1 DEF Replays, Presented
<1>3. ASSUME NEW r \in Requests, NEW op \in AllOps, NEW token \in Requests \cup {None},
             NEW todo \in SUBSET Steps, Starts(r, op, token, todo)
      PROVE  Replays'
  <2>1. /\ used' = used /\ requests[r].op = "none"
        /\ \A q \in Requests \ {r} : requests'[q] = requests[q]
        /\ requests'[r].op = op /\ requests'[r].todo = todo
    BY <1>3 DEF Starts
  <2>2. "bump" \notin todo
    BY <1>3 DEF Starts, First, Authenticated, AllOps
  <2>3. \A q \in Requests, t \in used : Presented(q, t) => Presented(q, t)'
    BY <2>1 DEF Presented
  <2>4. QED
    BY <2>1, <2>2, <2>3 DEF Replays
<1>4. CASE Passes
  <2>1. requests' = requests /\ used' = used
    BY <1>4 DEF Passes
  <2>2. QED
    BY <2>1 DEF Replays, Presented
<1>5. QED
  BY <1>1, <1>2, <1>3, <1>4, StepIs DEF Called, Started

LEMMA ReplaysInvariant ==
  Spec => [](TypeOK /\ Shape /\ Replays)
<1>1. Init => Replays
  BY InitRequests DEF Init, Replays
<1>2. TypeOK /\ Shape /\ Replays /\ [Next]_vars => Replays'
  BY ReplaysKept
<1>3. QED
  BY <1>1, <1>2, ShapeInvariant, PTL DEF Spec

\* Nobody is signed out for a token that was presented once and found gone, because a logout
\* or the removal of the sessions revoked it: it takes a second request with that token (the
\* retry of an exchange that failed once the token was marked is one).
THEOREM NoFalseReplay == Spec => []ReplaysAreReal
<1>1. ASSUME Replays
      PROVE  ReplaysAreReal
  <2>1. ASSUME NEW r \in Requests, requests[r].op = "refresh", "bump" \in requests[r].todo
        PROVE  \E q \in Requests \ {r} : /\ requests[q].op = "refresh"
                                         /\ requests[q].token = requests[r].token
    <3>1. PICK q \in Requests : Presented(q, requests[r].token)
      BY <1>1, <2>1 DEF Replays
    <3>2. q # r
      BY <2>1, <3>1 DEF Presented
    <3>3. QED
      BY <3>1, <3>2 DEF Presented
  <2>2. QED
    BY <2>1 DEF ReplaysAreReal
<1>2. QED
  BY <1>1, ReplaysInvariant, PTL
----------------------------------------------------------------------------
(* A session that has ended stays so.                                      *)

LEMMA CallRevivesNothing ==
  ASSUME TypeOK, Shape, NEW r \in Requests, NEW step \in Steps, NEW next \in SUBSET Steps,
         Call(r, step, next), NEW s \in Requests, Ended(s)
  PROVE  Ended(s)'
<1>1. /\ step \in requests[r].todo /\ step \in StepsOf(requests[r].op)
      /\ \A q \in Requests \ {r} : requests'[q] = requests[q]
      /\ requests'[r].op = requests[r].op
      /\ requests'[r].token = requests[r].token
      /\ requests'[r].todo = (requests[r].todo \ {step}) \cup next
      /\ requests[r].op \in AllOps \cup {"none"}
  BY DEF Call, Moved, Shape, ShapeOf, TypeOK, Request
<1>2. ASSUME NEW q \in Requests, Signed(q)
      PROVE  Signed(q)' /\ tokens'[q] = tokens[q]
  BY <1>2, CallSigns DEF SignsNow, Signed
<1>3. ASSUME NEW q \in Requests
      PROVE  /\ requests[q].token = None \/ requests[q].op \in Holders
             /\ requests[q].op \in Holders =>
                  /\ requests[q].token \in Requests
                  /\ Session(q)' = Session(q)
  <2>1. ShapeOf(q) /\ requests'[q].token = requests[q].token
    BY <1>1 DEF Shape
  <2>2. QED
    BY <1>2, <2>1 DEF ShapeOf, Session
<1>4. s \notin active'
  <2>1. ASSUME step = "activate"
        PROVE  tokens[r].session # s
    <3>1. /\ r # s
          /\ requests[r].token = None \/ Session(r) # s
      BY <1>1, <2>1 DEF Ended, MayRevive
    <3>2. ShapeOf(r) /\ Signed(r)
      BY <1>1, <2>1 DEF Shape, ShapeOf, Issuing
    <3>3. QED
      BY <1>3, <3>1, <3>2, SessionAssumption DEF ShapeOf, Session, Holders
  <2>2. ASSUME step = "touch"
        PROVE  Session(r) # s
    <3>1. requests[r].op \in Holders
      BY <1>1, <2>2, OperationOf DEF Checking
    <3>2. QED
      BY <1>1, <1>3, <2>2, <3>1, SessionAssumption DEF Ended, MayRevive
  <2>3. QED
    BY <2>1, <2>2 DEF Call, Stores, Ended
<1>5. ASSUME NEW q \in Requests, requests'[q].todo \cap MayRevive # {}
      PROVE  q # s /\ (requests[q].token = None \/ Session(q) # s)
  <2>1. CASE requests[q].todo \cap MayRevive # {}
    BY <2>1 DEF Ended
  <2>2. CASE requests[q].todo \cap MayRevive = {}
    <3>1. q = r /\ next \cap MayRevive # {}
      BY <1>1, <1>5, <2>2
    <3>2. step \in {"checkIdle", "clearFailures"}
      BY <1>1, <2>2, <3>1 DEF Call, After, MayRevive, Issuing
    <3>3. ~Signed(r) /\ r # s
      BY <1>1, <3>2 DEF Shape, ShapeOf, Issuing, Ended
    <3>4. CASE step = "checkIdle"
      <4>1. Session(r) \in active
        BY <3>1, <3>4 DEF Call, Stores, After, MayRevive
      <4>2. QED
        BY <3>1, <3>3, <4>1 DEF Ended
    <3>5. CASE step = "clearFailures"
      <4>1. requests[r].op = "login"
        BY <1>1, <3>5, OperationOf
      <4>2. QED
        BY <1>3, <3>1, <3>3, <4>1 DEF Holders, Authenticated
    <3>6. QED
      BY <3>2, <3>4, <3>5
  <2>3. QED
    BY <2>1, <2>2
<1>6. ASSUME NEW q \in Requests, requests'[q].todo \cap MayRevive # {}
      PROVE  q # s /\ (requests'[q].token = None \/ Session(q)' # s)
  BY <1>1, <1>3, <1>5, <1>6
<1>7. QED
  BY <1>2, <1>4, <1>6 DEF Ended

\* Once a session has lapsed, and no request of it had passed its idle check before, no
\* request ever marks it as active again.
THEOREM EndedForGood == Spec => EndedStaysEnded
<1>1. ASSUME TypeOK, Shape, [Next]_vars, NEW s \in Requests, Ended(s)
      PROVE  Ended(s)'
  <2>1. ASSUME NEW r \in Requests, Called(r)
        PROVE  Ended(s)'
    <3>1. PICK step \in Steps, next \in SUBSET Steps : Call(r, step, next)
      BY <2>1 DEF Called
    <3>2. QED
      BY <1>1, <3>1, CallRevivesNothing
  <2>2. ASSUME NEW r \in Requests, Started(r)
        PROVE  Ended(s)'
    <3>1. PICK op \in AllOps, token \in Requests \cup {None}, todo \in SUBSET Steps :
            Starts(r, op, token, todo)
      BY <2>2 DEF Started
    <3>2. /\ tokens' = tokens /\ active' = active
          /\ \A q \in Requests \ {r} : requests'[q] = requests[q]
          /\ requests'[r].todo = todo
      BY <3>1 DEF Starts
    <3>3. todo \cap MayRevive = {}
      BY <3>1 DEF Starts, First, AllOps, Authenticated, MayRevive
    <3>4. QED
      BY <1>1, <3>2, <3>3 DEF Ended, Signed, Session
  <2>3. ASSUME NEW r \in Requests, Fails(r)
        PROVE  Ended(s)'
    <3>1. /\ tokens' = tokens /\ active' = active
          /\ \A q \in Requests : /\ requests'[q].token = requests[q].token
                                /\ requests'[q].todo \subseteq requests[q].todo
      BY <2>3 DEF Fails, redisVars
    <3>2. QED
      BY <1>1, <3>1 DEF Ended, Signed, Session
  <2>4. CASE Passes
    BY <1>1, <2>4 DEF Passes, Ended, Signed, Session
  <2>5. QED
    BY <1>1, <2>1, <2>2, <2>3, <2>4, StepIs
<1>2. TypeOK /\ Shape /\ [Next]_vars => [\A s \in Requests : Ended(s) => Ended(s)']_vars
  BY <1>1
<1>3. QED
  BY <1>2, ShapeInvariant, PTL DEF Spec, EndedStaysEnded
=============================================================================
