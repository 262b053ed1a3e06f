----------------------------- MODULE BrowserPush -----------------------------
(***************************************************************************)
(* Notifications that browsers show: the switch on the settings page         *)
(* (apps/web/src/push.ts, ui/LegacyPages.tsx), the subscriptions it leaves   *)
(* at the server (apps/api/src/app.service.ts) and the deliveries that use   *)
(* and prune them (push.service.ts).                                        *)
(*                                                                         *)
(* A browser has one subscription at most, whoever is signed in, and every   *)
(* tab shares it.  Each call of a switch is a step.  The browser's push      *)
(* service is external: it knows an endpoint as long as the browser has it.  *)
(* Expo tokens are left out: nothing in the repository registers one.       *)
(***************************************************************************)
EXTENDS Integers, FiniteSets

CONSTANTS Pages,      \* settings pages, each in some browser
          Browsers, Owners,
          NoOwner,    \* of the people who sign in, nobody
          MaxMade     \* bound: endpoints and rows made

ASSUME PushAssumption == NoOwner \notin Owners /\ MaxMade \in Nat

VARIABLES settings, \* each page: its browser, who is signed in, what the switch shows, the
                    \* next step of a change and the endpoint it is about
          sub,      \* the endpoint of each browser's subscription, 0 without one
          rows,     \* PushSubscription
          numbers,  \* endpoints and rows made so far
          wants,    \* NotificationPreference.pushEnabled
          sends,    \* rows that deliveries have read and not tried
          switched  \* each browser: who enabled push last, whether a change of it stopped
                    \* half-way or met another one, and whether that account has switched push
                    \* off in another browser since

pushVars == <<settings, sub, rows, numbers, wants, sends, switched>>

PushInit ==
  /\ settings \in [Pages -> [in : Browsers, by : Owners, on : {FALSE}, at : {"idle"}, about : {0}]]
  /\ sub = [b \in Browsers |-> 0]
  /\ rows = {} /\ numbers = 0 /\ sends = {}
  /\ wants = [u \in Owners |-> TRUE]
  /\ switched = [b \in Browsers |-> [by |-> NoOwner, torn |-> FALSE, muted |-> FALSE]]

Step(p, from, to) == settings[p].at = from /\ settings' = [settings EXCEPT ![p] = [@ EXCEPT !.at = to]]
Others(p) == {q \in Pages \ {p} : settings[q].in = settings[p].in /\ settings[q].at # "idle"}
Has(b, e) == e # 0 /\ sub[b] = e

-----------------------------------------------------------------------------
\* The page is opened, by whoever is signed in: pushStatus looks at the browser alone.
OpenSettings(p, u) ==
  /\ settings[p].at = "idle"
  /\ settings' = [settings EXCEPT ![p] = [@ EXCEPT !.by = u, !.on = sub[settings[p].in] # 0]]
  /\ UNCHANGED <<sub, rows, numbers, wants, sends, switched>>

\* enablePush: the browser's subscription, or a new one; disablePush: the one there is, if any.
\* The switch of a page is disabled while it changes; that of another tab is not.
Switch(p) ==
  LET b == settings[p].in
      new == ~settings[p].on /\ sub[b] = 0
      e == IF new THEN numbers + 1 ELSE sub[b]
      clean == Others(p) = {} /\ ~settings[p].on   \* all that was stored is replaced
  IN /\ settings[p].at = "idle" /\ numbers + (IF new THEN 2 ELSE 1) <= MaxMade
     /\ settings' = [settings EXCEPT ![p] = [@ EXCEPT !.about = e,
          !.at = CASE ~settings[p].on -> "clear" [] e = 0 -> "wants" [] OTHER -> "delete"]]
     /\ sub' = [sub EXCEPT ![b] = e]
     /\ numbers' = IF new THEN e ELSE numbers
     /\ switched' = [switched EXCEPT ![b].torn = (@ /\ ~clean) \/ Others(p) # {}]
     /\ UNCHANGED <<rows, wants, sends>>

\* subscribePush: whatever there is of the endpoint is deleted, then a row made.  The column is
\* not unique, so two of them may both make one.
ReplacesOwn(p) ==   \* a mutant: the rows of others are left
  {r \in rows : r.endpoint = settings[p].about /\ r.user = settings[p].by}
Replaces(p) == {r \in rows : r.endpoint = settings[p].about}
Clear(p) ==
  /\ Step(p, "clear", "create")
  /\ rows' = rows \ Replaces(p)
  /\ UNCHANGED <<sub, numbers, wants, sends, switched>>
Create(p) ==
  /\ Step(p, "create", "wants") /\ numbers < MaxMade
  /\ numbers' = numbers + 1
  /\ rows' = rows \cup {[id |-> numbers', user |-> settings[p].by, endpoint |-> settings[p].about]}
  /\ switched' = [switched EXCEPT ![settings[p].in].by = settings[p].by]
  /\ UNCHANGED <<sub, wants, sends>>

\* unsubscribePush deletes the caller's row; then the browser ends its subscription.
Delete(p) ==
  /\ Step(p, "delete", "unsubscribe")
  /\ rows' = {r \in rows : r.endpoint # settings[p].about \/ r.user # settings[p].by}
  /\ UNCHANGED <<sub, numbers, wants, sends, switched>>
Unsubscribe(p) ==
  LET b == settings[p].in IN
  /\ Step(p, "unsubscribe", "wants")
  /\ sub' = [sub EXCEPT ![b] = IF @ = settings[p].about THEN 0 ELSE @]
  /\ UNCHANGED <<rows, numbers, wants, sends, switched>>

\* PUT notifications/preferences, for every browser of the account; then the switch moves.
SaveWants(p) ==
  /\ settings[p].at = "wants"
  /\ switched' = [b \in Browsers |->
       IF b # settings[p].in /\ switched[b].by # settings[p].by THEN switched[b]
       ELSE [switched[b] EXCEPT !.muted = b # settings[p].in /\ settings[p].on]]
  /\ wants' = [wants EXCEPT ![settings[p].by] = ~settings[p].on]
  /\ settings' = [settings EXCEPT ![p] = [@ EXCEPT !.at = "idle", !.about = 0, !.on = ~settings[p].on]]
  /\ UNCHANGED <<sub, rows, numbers, sends>>

\* A call is refused or the page is left: the switch stays, what was done is not undone.
FailSwitch(p) ==
  /\ settings[p].at # "idle"
  /\ settings' = [settings EXCEPT ![p] = [@ EXCEPT !.at = "idle", !.about = 0]]
  /\ switched' = [switched EXCEPT ![settings[p].in].torn =
                    \/ @ \/ settings[p].at \in {"clear", "create", "unsubscribe"}
                    \/ settings[p].at = "wants" /\ ~settings[p].on]
  /\ UNCHANGED <<sub, rows, numbers, wants, sends>>

\* The push service or the browser ends a subscription by itself.
SubscriptionEnds(b) ==
  /\ sub[b] # 0
  /\ sub' = [sub EXCEPT ![b] = 0]
  /\ UNCHANGED <<settings, rows, numbers, wants, sends, switched>>

-----------------------------------------------------------------------------
\* deliver, for a notification of one user: the preference, then the rows.
Deliver(u) ==
  /\ wants[u]
  /\ sends' = sends \cup {r \in rows : r.user = u}
  /\ UNCHANGED <<settings, sub, rows, numbers, wants, switched>>

\* An endpoint that is gone for good has its row deleted; any other failure is passed over.
Prunes(r) == {s \in rows : s.id = r.id}
Send(r, reached) ==
  /\ r \in sends /\ sends' = sends \ {r}
  /\ rows' = IF reached /\ \A b \in Browsers : ~Has(b, r.endpoint) THEN rows \ Prunes(r) ELSE rows
  /\ UNCHANGED <<settings, sub, numbers, wants, switched>>

PushNext ==
  \/ \E p \in Pages :
       \/ \E u \in Owners : OpenSettings(p, u)
       \/ Switch(p) \/ Clear(p) \/ Create(p) \/ Delete(p) \/ Unsubscribe(p) \/ SaveWants(p)
       \/ FailSwitch(p)
  \/ \E b \in Browsers : SubscriptionEnds(b)
  \/ \E u \in Owners : Deliver(u)
  \/ \E r \in sends, reached \in BOOLEAN : Send(r, reached)

PushSpec == PushInit /\ [][PushNext]_pushVars

PushTypeOK ==
  /\ settings \in [Pages -> [in : Browsers, by : Owners, on : BOOLEAN, about : 0..MaxMade,
                     at : {"idle", "clear", "create", "delete", "unsubscribe", "wants"}]]
  /\ sub \in [Browsers -> 0..MaxMade] /\ numbers \in 0..MaxMade
  /\ rows \cup sends \subseteq [id : 1..MaxMade, user : Owners, endpoint : 1..MaxMade]

-----------------------------------------------------------------------------
\* subscribePush (app.service 1111), deliver (push.service 34) and deliverWeb (46): a browser that
\* shows push as enabled is told everything once, for the account that enabled it last, however
\* deliveries and the switches of other browsers and accounts come between.  The exceptions: a
\* change of its switch stopped half-way, or two tabs changed it at a time; or the same account
\* has switched push off in another browser since, which ends every delivery to the account,
\* while this browser goes on to show push as enabled.
EnabledBrowserIsToldOnce ==
  \A b \in Browsers :
    sub[b] # 0 /\ ~switched[b].torn /\ (\A p \in Pages : settings[p].in = b => settings[p].at = "idle") =>
      /\ wants[switched[b].by] \/ switched[b].muted
      /\ \E r \in rows : r.user = switched[b].by /\ {s \in rows : s.endpoint = sub[b]} = {r}
=============================================================================
