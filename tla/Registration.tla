---------------------------- MODULE Registration ----------------------------
(***************************************************************************)
(* A new account: the code that is e-mailed, the counters that limit codes   *)
(* and wrong entries, and the registration that spends the code              *)
(* (apps/api/src/app.service.ts, redis.service.ts), with the form that asks  *)
(* for it (apps/web/src/ui/AuthScreen.tsx).                                  *)
(*                                                                         *)
(* One address.  The form is one of several clients: an entry is in flight   *)
(* for each member of Entries, and each Redis or database call of the API is *)
(* a step.  A code is its number; whoever enters one enters a code that was  *)
(* mailed or a wrong one.                                                   *)
(***************************************************************************)
EXTENDS Integers, FiniteSets

CONSTANTS Entries,      \* register requests that can be in flight at once
          MaxAttempts,  \* REGISTRATION_OTP_MAX_ATTEMPTS
          MaxSends,     \* REGISTRATION_OTP_MAX_SENDS
          MaxCodes      \* bound: codes made

ASSUME RegistrationAssumption ==
  IsFiniteSet(Entries) /\ {MaxAttempts, MaxSends, MaxCodes} \subseteq Nat \ {0}

VARIABLES codes,    \* registrationOtpKey: the codes that are stored
          made,     \* codes made and mailed so far
          sends,    \* registrationOtpRateKey
          attempts, \* registrationOtpAttemptKey, up to one past the limit
          wrong,    \* wrong entries compared with each code, less those that failed after that
          entries,  \* the progress of each registration
          form,     \* AuthScreen: what it shows, the verificationId it holds, the request it awaits
          account   \* whether a User has the address

regVars == <<codes, made, sends, attempts, wrong, entries, form, account>>

Ids == 1..MaxCodes
NoEntry == [at |-> "none", id |-> 0, right |-> FALSE]

RegInit ==
  /\ codes = {} /\ made = 0 /\ sends = 0 /\ account = FALSE
  /\ attempts = [c \in Ids |-> 0] /\ wrong = [c \in Ids |-> 0]
  /\ entries = [e \in Entries |-> NoEntry]
  /\ form = [mode |-> "register", id |-> 0, busy |-> FALSE]

-----------------------------------------------------------------------------
\* submitRegister, resendVerification: sendRegistrationOtp counts the send, also one it refuses,
\* and mails the code before it stores it.
SendOtp ==
  /\ ~form.busy /\ form.mode \in {"register", "verify"}
  /\ ~account
  /\ sends < MaxSends + 1
  /\ sends' = sends + 1
  /\ IF sends' > MaxSends \/ made = MaxCodes THEN UNCHANGED <<made, form>>
     ELSE made' = made + 1 /\ form' = [form EXCEPT !.busy = TRUE]
  /\ UNCHANGED <<codes, attempts, wrong, entries, account>>
StoreOtp ==
  /\ form.busy
  /\ codes' = codes \cup {made}
  /\ form' = [mode |-> "verify", id |-> made, busy |-> FALSE]
  /\ UNCHANGED <<made, sends, attempts, wrong, entries, account>>
\* The code has been mailed and is never stored: the form keeps the one it had.
FailOtp ==
  /\ form.busy
  /\ form' = [form EXCEPT !.busy = FALSE]
  /\ UNCHANGED <<codes, made, sends, attempts, wrong, entries, account>>
ChangeMode ==
  /\ ~form.busy
  /\ form' = [form EXCEPT !.mode = IF @ = "register" THEN "login" ELSE "register"]
  /\ UNCHANGED <<codes, made, sends, attempts, wrong, entries, account>>

\* The window of the sends ends; a code ends.  The counter of a code's wrong entries was started
\* after the code and with the same time to live, so it ends later.
WindowEnds ==
  /\ sends > 0 /\ sends' = 0
  /\ UNCHANGED <<codes, made, attempts, wrong, entries, form, account>>
OtpEnds(c) ==
  /\ c \in codes /\ codes' = codes \ {c}
  /\ UNCHANGED <<made, sends, attempts, wrong, entries, form, account>>
AttemptsEnd(c) ==
  /\ c \notin codes /\ attempts[c] > 0
  /\ attempts' = [attempts EXCEPT ![c] = 0]
  /\ UNCHANGED <<codes, made, sends, wrong, entries, form, account>>

-----------------------------------------------------------------------------
Step(e, at) == entries' = [entries EXCEPT ![e].at = at]
Finish(e) == entries' = [entries EXCEPT ![e] = NoEntry]

\* register: the stored code is read and compared, the address too; without one the entry fails.
\* The form sends its verificationId; another client the one it was given.
Enter(e, c, right) ==
  /\ entries[e].at = "none" /\ c \in codes
  /\ wrong' = [wrong EXCEPT ![c] = IF right THEN @ ELSE @ + 1]
  /\ entries' = [entries EXCEPT ![e] = [at |-> IF right THEN "claim" ELSE "count",
                                        id |-> c, right |-> right]]
  /\ UNCHANGED <<codes, made, sends, attempts, form, account>>

\* A wrong entry is counted; the one that reaches the limit deletes the code, in a call of its own.
TooManyLate(n) == n > MaxAttempts   \* a mutant
TooMany(n) == n >= MaxAttempts
Count(e) ==
  LET c == entries[e].id IN
  /\ entries[e].at = "count"
  /\ attempts' = [attempts EXCEPT ![c] = IF @ > MaxAttempts THEN @ ELSE @ + 1]
  /\ IF TooMany(attempts'[c]) THEN Step(e, "delete") ELSE Finish(e)
  /\ UNCHANGED <<codes, made, sends, wrong, form, account>>
DeleteOtp(e) ==
  LET c == entries[e].id IN
  /\ entries[e].at = "delete"
  /\ codes' = codes \ {c}
  /\ attempts' = [attempts EXCEPT ![c] = 0]
  /\ Finish(e)
  /\ UNCHANGED <<made, sends, wrong, form, account>>

\* take: whoever gets the code goes on, and has spent it whether the account is made or not.
Claim(e) ==
  LET c == entries[e].id IN
  /\ entries[e].at = "claim"
  /\ codes' = codes \ {c}
  /\ IF c \in codes THEN Step(e, "create") ELSE Finish(e)
  /\ UNCHANGED <<made, sends, attempts, wrong, form, account>>
Create(e) ==
  /\ entries[e].at = "create"
  /\ ~account /\ account' = TRUE
  /\ attempts' = [attempts EXCEPT ![entries[e].id] = 0]
  /\ form' = IF form.id = entries[e].id THEN [mode |-> "login", id |-> 0, busy |-> FALSE] ELSE form
  /\ Finish(e)
  /\ UNCHANGED <<codes, made, sends, wrong>>
\* EMAIL_IN_USE, a rejected call, the end of the process.
FailEntry(e) ==
  /\ entries[e].at # "none"
  /\ wrong' = [wrong EXCEPT ![entries[e].id] = IF entries[e].right THEN @ ELSE @ - 1]
  /\ Finish(e)
  /\ UNCHANGED <<codes, made, sends, attempts, form, account>>

RegNext ==
  \/ SendOtp \/ StoreOtp \/ FailOtp \/ ChangeMode \/ WindowEnds
  \/ \E c \in Ids : OtpEnds(c) \/ AttemptsEnd(c)
  \/ \E e \in Entries : \/ \E c \in Ids, right \in BOOLEAN : Enter(e, c, right)
                        \/ Count(e) \/ DeleteOtp(e) \/ Claim(e) \/ Create(e) \/ FailEntry(e)

RegSpec == RegInit /\ [][RegNext]_regVars

RegTypeOK ==
  /\ codes \subseteq 1..made /\ made \in 0..MaxCodes /\ account \in BOOLEAN
  /\ sends \in 0..(MaxSends + 1)
  /\ attempts \in [Ids -> 0..(MaxAttempts + 1)] /\ wrong \in [Ids -> Nat]
  /\ entries \in [Entries -> [at : {"none", "count", "delete", "claim", "create"},
                              id : 0..MaxCodes, right : BOOLEAN]]
  /\ form \in [mode : {"register", "verify", "login"}, id : 0..MaxCodes, busy : BOOLEAN]

-----------------------------------------------------------------------------
\* register (294-314): at most REGISTRATION_OTP_MAX_ATTEMPTS wrong entries are compared with a
\* code, and one more for each other entry that is in flight when the limit is reached: the
\* counter outlives the code, is not shared by codes, and no send resets it.
\* An entry that fails before it is counted, or before the code is deleted, is left out.
WrongGuessesBounded ==
  \A c \in Ids : wrong[c] <= MaxAttempts + Cardinality(Entries) - 1
=============================================================================
