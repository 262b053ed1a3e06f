----------------------------- MODULE Connections -----------------------------
(***************************************************************************)
(* One user's connection to one provider: how it is granted, how its tokens  *)
(* are refreshed, and how a calendar is mirrored through it                 *)
(* (apps/api/src/app.service.ts, apps/api/src/connectors.ts).               *)
(*                                                                         *)
(* A pass over the calendar is a sync the user asked for or the sweep of an  *)
(* API instance, whose flag keeps its own sweeps apart.  Every call it makes *)
(* to the provider or the database is a step; what it read of the connection *)
(* is in `saw`.  Outlook's calendar and the provider's tokens are external.  *)
(***************************************************************************)
EXTENDS Integers, FiniteSets

CONSTANTS Syncs,       \* the user's syncs that may run at a time
          Sweeps,      \* API instances, one sweep each
          Events,      \* external ids of events
          MaxChanges,  \* bound: changes of the calendar
          MaxGrants    \* bound: grants of a token, by code or by refresh

ASSUME ConnectionAssumption ==
  MaxChanges \in Nat /\ MaxGrants \in Nat \ {0} /\ IsFiniteSet(Events)

Passes == Syncs \cup Sweeps

VARIABLES provider,  \* the provider the connection is to
          conn,      \* the ToolConnection row; its id is 0 when there is none
          mirror,    \* CalendarEvent rows with source outlook: the version of each event
          calendar,  \* Outlook: the version of each event, 0 when it does not exist
          changed,   \* Outlook: when each event changed last
          clock,     \* Outlook: changes so far; a cursor is a moment
          states,    \* the oauth:state entries in Redis that have not been taken, as
                     \* whether they hold a code verifier
          tokens,    \* the provider: the refresh tokens that are still good, and whether using
                     \* one ends it and gives another
          passes,    \* the progress and the locals of each pass
          ghosts     \* what happened that the promises make an exception for

connVars == <<provider, conn, mirror, calendar, changed, clock, states, tokens, passes, ghosts>>

-----------------------------------------------------------------------------
(* The connectors: whether a code is exchanged with a verifier, whether offline access, and with
   it a refresh token, is asked for, whether there is a calendar, and when a sync passes on that
   the provider refused: with or without linked targets.                                  *)
Direct    == [pkce |-> FALSE, offline |-> TRUE, calendar |-> FALSE, passesOn |-> {TRUE, FALSE}]
Google    == [Direct EXCEPT !.passesOn = {}]
Microsoft == [Direct EXCEPT !.calendar = TRUE]
Notion    == [pkce |-> FALSE, offline |-> FALSE, calendar |-> FALSE, passesOn |-> {TRUE, FALSE}]
Trello    == [pkce |-> TRUE, offline |-> TRUE, calendar |-> FALSE, passesOn |-> {TRUE, FALSE}]
Asana     == [pkce |-> TRUE, offline |-> FALSE, calendar |-> FALSE, passesOn |-> {}]
Canva     == [pkce |-> TRUE, offline |-> FALSE, calendar |-> FALSE, passesOn |-> {FALSE}]
connectors == [google |-> Google, microsoft |-> Microsoft, notion |-> Notion,
               trello |-> Trello, asana |-> Asana, canva |-> Canva]
connector == connectors[provider]

NoCursor == -1
NoConn == [id |-> 0, status |-> "none", refresh |-> 0, expired |-> FALSE, cursor |-> NoCursor]
\* What a pass uses of the row: the refresh token until it has been refreshed.
Seen(c) == [id |-> c.id, refresh |-> IF c.expired THEN c.refresh ELSE 0, cursor |-> c.cursor]
NoGhosts == [crossed |-> FALSE, orphans |-> {}, forgotten |-> {}, contested |-> FALSE]
Idle == [at |-> "idle", saw |-> Seen(NoConn), todo |-> {}, found |-> 0, end |-> NoCursor]

ConnInit ==
  /\ provider \in DOMAIN connectors
  /\ conn = NoConn
  /\ mirror = [e \in Events |-> 0]
  /\ calendar \in [Events -> IF connector.calendar THEN {0, 1} ELSE {0}]
  /\ changed = [e \in Events |-> 0]
  /\ clock = 0
  /\ states = {}
  /\ tokens \in [last : {0}, good : {{}}, rotates : BOOLEAN]
  /\ passes = [p \in Passes |-> Idle]
  /\ ghosts = NoGhosts

Busy == {p \in Passes : passes[p].at # "idle"}
Refreshing == {p \in Passes : passes[p].at \in {"refresh", "store", "expire"}}
At(p, step) == passes[p].at = step
Goto(p, step) == [passes EXCEPT ![p].at = step]
Stop(p) == passes' = [passes EXCEPT ![p] = Idle]
Live(p) == conn.id = passes[p].saw.id     \* an update by id finds the row

-----------------------------------------------------------------------------
(* Granting *)

\* oauthAuthorize: the state is stored for ten minutes, with a verifier where this file thinks
\* the provider wants one; authorizeUrl refuses to go on without one it needs.
codeVerifier == provider \in {"trello", "asana", "canva"}
Authorize ==
  /\ states = {}
  /\ connector.pkce => codeVerifier
  /\ states' = {codeVerifier}
  /\ UNCHANGED <<provider, conn, mirror, calendar, changed, clock, tokens, passes, ghosts>>

\* tokensFrom: a provider that does not rotate may leave the old refresh token in use.
IssuedForgetting(old) == IF tokens.rotates THEN tokens.last + 1 ELSE 0   \* a mutant
Issued(old) == IF tokens.rotates THEN tokens.last + 1 ELSE old

\* oauthCallback: the state is taken, the code exchanged, the row written.  The exchange is
\* this callback's own, so nothing can come between that matters.  A provider that was not
\* asked for offline access may give no refresh token.
OAuthCallback(offline) ==
  /\ tokens.last < MaxGrants
  /\ connector.offline => offline
  /\ \E verifier \in states : connector.pkce => verifier
  /\ LET t == tokens.last + 1 IN
       /\ states' = {}
       /\ tokens' = [tokens EXCEPT !.last = t, !.good = IF offline THEN @ \cup {t} ELSE @]
       /\ conn' = [id |-> IF conn.id = 0 THEN t ELSE conn.id, status |-> "connected",
                   refresh |-> IF offline THEN t ELSE 0, expired |-> FALSE, cursor |-> NoCursor]
  /\ ghosts' = [ghosts EXCEPT !.crossed = Busy # {}, !.contested = Refreshing # {}]
  /\ UNCHANGED <<provider, mirror, calendar, changed, clock, passes>>

\* The ten minutes pass, or the exchange fails: the state is used up either way.
StateLost ==
  /\ states # {}
  /\ states' = {}
  /\ UNCHANGED <<provider, conn, mirror, calendar, changed, clock, tokens, passes, ghosts>>

\* disconnectIntegration: the connection and every mirrored event, in one transaction.
ClearedNothing == mirror   \* a mutant: the mirrored events are left
Cleared == [e \in Events |-> IF connector.calendar THEN 0 ELSE mirror[e]]
Disconnect ==
  /\ conn.id # 0
  /\ conn' = NoConn
  /\ mirror' = Cleared
  /\ ghosts' = NoGhosts
  /\ UNCHANGED <<provider, calendar, changed, clock, states, tokens, passes>>

\* The access token comes within thirty seconds of its end.
AccessExpires ==
  /\ conn.status = "connected" /\ ~conn.expired
  /\ conn' = [conn EXCEPT !.expired = TRUE]
  /\ UNCHANGED <<provider, mirror, calendar, changed, clock, states, tokens, passes, ghosts>>

-----------------------------------------------------------------------------
(* A pass: syncIntegration, sweepOutlook, reconcileOutlook *)

\* A sync asks the provider for its files before it looks at the calendar.
First(p) == IF p \in Syncs THEN "sync" ELSE "fetch"

\* findFirst or findMany of a connected row; a sweep's flag is its place in `passes`.
StartPass(p) ==
  /\ At(p, "idle") /\ conn.status = "connected"
  /\ p \in Sweeps => connector.calendar
  /\ passes' = [passes EXCEPT ![p] = [Idle EXCEPT !.saw = Seen(conn),
                  !.at = IF conn.expired THEN "refresh" ELSE First(p)]]
  /\ ghosts' = [ghosts EXCEPT !.crossed = @ \/ Busy # {}]
  /\ UNCHANGED <<provider, conn, mirror, calendar, changed, clock, states, tokens>>

\* connectionTokens asks the provider; a refresh token that was rotated away is refused.
AskRefresh(p) ==
  LET old == passes[p].saw.refresh IN
  /\ At(p, "refresh") /\ old \in tokens.good
  /\ tokens.rotates => tokens.last < MaxGrants
  /\ passes' = [passes EXCEPT ![p].at = "store", ![p].found = Issued(old)]
  /\ tokens' = IF tokens.rotates
               THEN [tokens EXCEPT !.last = @ + 1, !.good = (@ \ {old}) \cup {Issued(old)}]
               ELSE tokens
  /\ UNCHANGED <<provider, conn, mirror, calendar, changed, clock, states, ghosts>>

\* Every failure counts as a refusal, also that of a provider that cannot be reached.
RefreshFails(p) ==
  LET old == passes[p].saw.refresh IN
  /\ At(p, "refresh")
  /\ passes' = Goto(p, "expire")
  /\ ghosts' = [ghosts EXCEPT !.contested = @ \/ old \in tokens.good \/ conn.refresh # old
                                               \/ \E q \in Passes : At(q, "store")]
  /\ UNCHANGED <<provider, conn, mirror, calendar, changed, clock, states, tokens>>

StoreTokens(p) ==
  /\ At(p, "store") /\ Live(p)
  /\ conn' = [conn EXCEPT !.refresh = passes[p].found, !.expired = FALSE]
  /\ passes' = [passes EXCEPT ![p].at = First(p), ![p].found = 0, ![p].saw.refresh = 0]
  /\ ghosts' = [ghosts EXCEPT !.contested = @ \/ conn.refresh # passes[p].saw.refresh]
  /\ UNCHANGED <<provider, mirror, calendar, changed, clock, states, tokens>>

MarkExpired(p) ==
  /\ At(p, "expire") /\ Live(p)
  /\ conn' = [conn EXCEPT !.status = "expired"]
  /\ ghosts' = [ghosts EXCEPT !.contested = @ \/ conn.refresh # passes[p].saw.refresh]
  /\ Stop(p)
  /\ UNCHANGED <<provider, mirror, calendar, changed, clock, states, tokens>>

\* connector.sync: a refusal ends the sync where the connector passes it on (else the summary
\* counts fewer files); a provider without a calendar is done.
AskFiles(p, refused, targets) ==
  /\ At(p, "sync")
  /\ passes' = IF connector.calendar /\ ~(refused /\ targets \in connector.passesOn)
               THEN Goto(p, "fetch")
               ELSE [passes EXCEPT ![p] = Idle]
  /\ UNCHANGED <<provider, conn, mirror, calendar, changed, clock, states, tokens, ghosts>>

\* fetchCalendar: with a cursor, what changed after it; without one, or when the cursor is
\* refused as gone, what there is now, which says nothing of events that are gone.
Delta(cursor) == IF cursor = NoCursor THEN {e \in Events : calendar[e] # 0}
                 ELSE {e \in Events : changed[e] > cursor}
\* The pages end with the new cursor, or after fifty without one.
Fetch(p, cursor, complete) ==
  /\ At(p, "fetch")
  /\ cursor \in {passes[p].saw.cursor, NoCursor}
  /\ \E part \in IF complete THEN {Delta(cursor)} ELSE SUBSET Delta(cursor) :
       passes' = [passes EXCEPT ![p].at = "apply",
                    ![p].end = IF complete THEN clock ELSE passes[p].saw.cursor,
                    ![p].todo = {<<e, calendar[e]>> : e \in part}]
  /\ ghosts' = IF cursor = NoCursor
               THEN [ghosts EXCEPT !.forgotten = @ \cup {e \in Events : calendar[e] = 0}]
               ELSE ghosts
  /\ UNCHANGED <<provider, conn, mirror, calendar, changed, clock, states, tokens>>

\* One event of the answer: the row is looked for and then written.  A row that came or went in
\* between makes the call fail, which is FailPass.
Apply(p, item) ==
  LET e == item[1] IN
  /\ At(p, "apply") /\ item \in passes[p].todo
  /\ mirror' = [mirror EXCEPT ![e] = item[2]]
  /\ passes' = [passes EXCEPT ![p].todo = @ \ {item}]
  /\ ghosts' = IF Live(p) \/ item[2] = 0 THEN ghosts
               ELSE [ghosts EXCEPT !.orphans = @ \cup {e}]
  /\ UNCHANGED <<provider, conn, calendar, changed, clock, states, tokens>>

\* The cursor is stored when every event has been applied, and only if it is news.
AppliedSome(p) == TRUE   \* a mutant: the cursor does not wait for the events
AppliedAll(p) == passes[p].todo = {}
SaveCursor(p) ==
  /\ At(p, "apply") /\ AppliedAll(p)
  /\ IF passes[p].end = passes[p].saw.cursor THEN UNCHANGED conn
     ELSE Live(p) /\ conn' = [conn EXCEPT !.cursor = passes[p].end]
  /\ Stop(p)
  /\ UNCHANGED <<provider, mirror, calendar, changed, clock, states, tokens, ghosts>>

\* Any call fails, also one on a row that is gone, or the process ends; a sync and a sweep both
\* swallow it.  Tokens that were not stored are lost.
FailPass(p) ==
  /\ ~At(p, "idle")
  /\ ghosts' = [ghosts EXCEPT !.contested = @ \/ At(p, "store")]
  /\ Stop(p)
  /\ UNCHANGED <<provider, conn, mirror, calendar, changed, clock, states, tokens>>

\* updateCalendarEvent, deleteCalendarEvent: the user may change a mirrored row, which lasts
\* until Outlook's event changes.
EditEvent(e, version) ==
  /\ mirror[e] # 0 /\ version # mirror[e]
  /\ mirror' = [mirror EXCEPT ![e] = version]
  /\ ghosts' = [ghosts EXCEPT !.forgotten = @ \cup {e}]
  /\ UNCHANGED <<provider, conn, calendar, changed, clock, states, tokens, passes>>

\* Outlook: an event is created, edited or cancelled.
CalendarChanges(e, version) ==
  /\ clock < MaxChanges /\ connector.calendar
  /\ version \in {0, clock + 2} /\ version # calendar[e]
  /\ calendar' = [calendar EXCEPT ![e] = version]
  /\ changed' = [changed EXCEPT ![e] = clock + 1]
  /\ clock' = clock + 1
  /\ ghosts' = [ghosts EXCEPT !.forgotten = @ \ {e}]
  /\ UNCHANGED <<provider, conn, mirror, states, tokens, passes>>

ConnNext ==
  \/ Authorize \/ OAuthCallback(TRUE) \/ OAuthCallback(FALSE) \/ StateLost \/ Disconnect \/ AccessExpires
  \/ \E p \in Passes :
       \/ StartPass(p) \/ AskRefresh(p) \/ RefreshFails(p) \/ StoreTokens(p) \/ MarkExpired(p)
       \/ AskFiles(p, TRUE, TRUE) \/ AskFiles(p, TRUE, FALSE)
       \/ AskFiles(p, FALSE, TRUE)
       \/ \E complete \in BOOLEAN :
            Fetch(p, passes[p].saw.cursor, complete) \/ Fetch(p, NoCursor, complete)
       \/ \E item \in passes[p].todo : Apply(p, item)
       \/ SaveCursor(p) \/ FailPass(p)
  \/ \E e \in Events, version \in 0..(MaxChanges + 1) :
       EditEvent(e, version) \/ CalendarChanges(e, version)

ConnSpec == ConnInit /\ [][ConnNext]_connVars

ConnTypeOK ==
  /\ conn \in [id : 0..MaxGrants, status : {"none", "connected", "expired"},
               refresh : 0..MaxGrants, expired : BOOLEAN, cursor : NoCursor..MaxChanges]
  /\ mirror \in [Events -> 0..(MaxChanges + 1)]
  /\ calendar \in [Events -> 0..(MaxChanges + 1)]
  /\ tokens.last \in 0..MaxGrants /\ tokens.good \subseteq 1..MaxGrants
  /\ \A p \in Passes : passes[p].at \in {"idle", "refresh", "store", "expire", "sync", "fetch", "apply"}
  /\ provider \in DOMAIN connectors /\ states \subseteq BOOLEAN

\* reconcileOutlook (864) stores the cursor last: however passes fail, a stored cursor is never
\* ahead of the mirror.  Excepted: events that were already gone at a full resync or that the
\* user has changed here, and connections whose passes overlapped each other, a reconnect or a
\* disconnect.
CursorNeverAhead ==
  ~ghosts.crossed /\ conn.cursor # NoCursor =>
    \A e \in Events \ ghosts.forgotten :
      changed[e] <= conn.cursor => mirror[e] = calendar[e]

\* disconnectIntegration (794): nothing that came through a connection is left without it,
\* unless a pass that had read the connection before wrote it afterwards.
MirrorGoesWithConnection ==
  conn.id = 0 => \A e \in Events : mirror[e] # 0 => e \in ghosts.orphans

\* connectionTokens (1317): a connection has to be made again only when the provider no longer
\* honours the refresh token it gave last, or gave none, unless the provider could not be
\* reached, two passes used the token at a time, or one could not store what it was given.
ExpiredOnlyIfRefused ==
  conn.status = "expired" => tokens.last \notin tokens.good \/ ghosts.contested
=============================================================================
