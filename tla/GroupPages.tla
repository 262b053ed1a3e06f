----------------------------- MODULE GroupPages -----------------------------
(***************************************************************************)
(* What the workspace shows and which request it shows it for: the hub of a  *)
(* group with its chat and its vote (apps/web/src/ui/GroupChatPage.tsx,      *)
(* IdeasPage.tsx, PollStatus.tsx) and the page that a notification opens     *)
(* (Workspace.tsx).                                                         *)
(*                                                                         *)
(* Requests are answered in any order and nothing cancels them.  The page    *)
(* learns of changes from a socket that joins the room of the selected       *)
(* group after the page has asked for the hub, and of some changes it is not *)
(* told.  A group is a count of the changes of what its hub shows and a      *)
(* count of the messages in its chat.                                       *)
(***************************************************************************)
EXTENDS Integers, FiniteSets

CONSTANTS Groups, NoGroup,
          MaxHappenings,   \* bound: changes of a group and messages in its chat
          MaxAsks,         \* bound: requests for a hub in flight
          MaxNotes         \* bound: notifications opened

ASSUME PageAssumption == NoGroup \notin Groups /\ {MaxHappenings, MaxAsks, MaxNotes} \subseteq Nat

VARIABLES group,    \* the server: the changes and the messages of each group
          selected, \* selectedGroupId
          hub,      \* what is shown, with the group it was asked for
          asks,     \* requests for a hub, with the answer when the server has given it
          acts,     \* the user's calls in flight, each with the group it was made for
          link,     \* whether the socket of the selected group is in its room
          missed,   \* whether the page was told late, or not at all, of what it should show
          opened,   \* notificationRequestRef: notifications opened so far
          lookups,  \* opened notifications whose task is being asked for
          page      \* the notification that chose the page; 0 for the menu

hubVars == <<group, selected, hub, asks, acts, link, missed>>
navVars == <<opened, lookups, page>>
pageVars == <<hubVars, navVars>>

Fresh(g) == [of |-> g, changes |-> group[g].changes, posts |-> 1..group[g].posts, foreign |-> FALSE]
NoHub == [of |-> NoGroup, changes |-> 0, posts |-> {}, foreign |-> FALSE]
Unanswered(g) == [of |-> g, at |-> "server", answer |-> NoHub]

PageInit ==
  /\ group = [g \in Groups |-> [changes |-> 0, posts |-> 0]]
  /\ selected = NoGroup /\ hub = NoHub /\ asks = {} /\ acts = {} /\ link = FALSE /\ missed = FALSE
  /\ opened = 0 /\ lookups = {} /\ page = 0

\* request('/groups/:id/hub'), by refreshHub or by an effect, for the group it was made with.
Ask(gs) == asks' = asks \cup {Unanswered(g) : g \in gs}
Room(gs) == Cardinality(asks \cup {Unanswered(g) : g \in gs}) <= MaxAsks

-----------------------------------------------------------------------------
\* The effects of selectedGroupId: the hub is asked for and a socket made; what was shown stays
\* until an answer comes.  With no selection nothing is shown.
Select(g) ==
  /\ g # selected /\ Room({g} \ {NoGroup})
  /\ selected' = g
  /\ Ask({g} \ {NoGroup})
  /\ hub' = IF g = NoGroup THEN NoHub ELSE hub
  /\ link' = FALSE
  /\ UNCHANGED <<group, acts, missed, navVars>>

\* 'connect' joins the room, also when the connection was lost; nothing is asked for again.
Connect ==
  /\ selected # NoGroup /\ ~link
  /\ link' = TRUE
  /\ UNCHANGED <<group, selected, hub, asks, acts, missed, navVars>>
LoseConnection ==
  /\ link
  /\ link' = FALSE
  /\ UNCHANGED <<group, selected, hub, asks, acts, missed, navVars>>

\* The server answers, and later the answer is shown, whatever is selected by then.
AnswerAsk(r) ==
  /\ r.at = "server"
  /\ asks' = (asks \ {r}) \cup {[r EXCEPT !.at = "page", !.answer = Fresh(r.of)]}
  /\ UNCHANGED <<group, selected, hub, acts, link, missed, navVars>>
ShowAnswer(r) ==
  /\ r.at = "page"
  /\ hub' = r.answer
  /\ asks' = asks \ {r}
  /\ missed' = (r.of = selected => r.answer # Fresh(r.of))
  /\ UNCHANGED <<group, selected, acts, link, navVars>>
FailAsk(r) ==
  /\ asks' = asks \ {r}
  /\ missed' = TRUE
  /\ UNCHANGED <<group, selected, hub, acts, link, navVars>>

-----------------------------------------------------------------------------
\* poll:tally: the page asks again, when its socket is in the room.
HearsNothing(g) == {}   \* a mutant: the tally is not for this group
Hears(g) == IF link /\ g = selected THEN {g} ELSE {}
Changed(g) ==
  /\ group[g].changes < MaxHappenings
  /\ group' = [group EXCEPT ![g].changes = @ + 1]

\* Somebody votes, or a vote is opened or closed: the room is told.
Change(g) ==
  /\ Changed(g) /\ Room(Hears(g))
  /\ Ask(Hears(g))
  /\ missed' = (missed \/ (g = selected /\ ~link))
  /\ UNCHANGED <<selected, hub, acts, link, navVars>>

\* Somebody else extends a vote or deletes a finished one: nobody is told.
ChangeUntold(g) ==
  /\ Changed(g)
  /\ missed' = (missed \/ g = selected)
  /\ UNCHANGED <<selected, hub, asks, acts, link, navVars>>

\* The vote that is shown has run out by the page's clock: it asks again, and learns what it missed.
RunsOut ==
  /\ hub # NoHub /\ selected # NoGroup /\ Room({selected})
  /\ Ask({selected})
  /\ UNCHANGED <<group, selected, hub, acts, link, missed, navVars>>

\* chat:message: it is put before the messages that are shown, whichever group's they are.
Post(g) ==
  /\ group[g].posts < MaxHappenings
  /\ group' = [group EXCEPT ![g].posts = @ + 1]
  /\ IF link /\ g = selected
     THEN /\ hub' = CASE hub = NoHub -> hub
                      [] hub.of = g  -> [hub EXCEPT !.posts = @ \cup {group[g].posts + 1}]
                      [] OTHER       -> [hub EXCEPT !.foreign = TRUE]
          /\ missed' = (missed \/ hub.of # g)
     ELSE missed' = (missed \/ g = selected) /\ UNCHANGED hub
  /\ UNCHANGED <<selected, asks, acts, link, navVars>>

\* vote, closeVoting, extendVoting, deleteFinishedVoting, startProject and their like: a call for
\* the hub that is shown, and when it is answered the hub of the group that was selected.
Act ==
  /\ hub # NoHub /\ acts = {}
  /\ acts' = {selected} \ {NoGroup}
  /\ UNCHANGED <<group, selected, hub, asks, link, missed, navVars>>
ActDone(g) ==
  /\ g \in acts /\ Changed(g) /\ Room({g})
  /\ Ask({g})
  /\ acts' = acts \ {g}
  /\ UNCHANGED <<selected, hub, link, missed, navVars>>
\* It is refused: a vote asks for the hub again, the others do not.
ActFails(g, asksAgain) ==
  /\ g \in acts /\ (asksAgain => Room({g}))
  /\ Ask(IF asksAgain THEN {g} ELSE {})
  /\ acts' = acts \ {g}
  /\ UNCHANGED <<group, selected, hub, link, missed, navVars>>

\* group:removed, or the user leaves the group.
Removed ==
  /\ selected # NoGroup
  /\ selected' = NoGroup /\ hub' = NoHub /\ link' = FALSE
  /\ UNCHANGED <<group, asks, acts, missed, navVars>>

-----------------------------------------------------------------------------
\* openNotification: most go to their page at once, a task is asked for first.
OpenNotification(task) ==
  /\ opened < MaxNotes
  /\ opened' = opened + 1
  /\ lookups' = IF task THEN lookups \cup {opened + 1} ELSE lookups
  /\ page' = IF task THEN page ELSE opened + 1
  /\ UNCHANGED hubVars
\* Only the answer for the notification that was opened last is heeded.
HeedsAny(n) == TRUE   \* a mutant: the answer is not compared with the counter
Heeds(n) == opened = n
AnswerLookup(n, failed) ==
  /\ lookups' = lookups \ {n}
  /\ page' = IF Heeds(n) /\ ~failed THEN n ELSE page
  /\ UNCHANGED <<opened, hubVars>>
\* The menu leaves the counter alone, so that an answer may still change the page after it.
Menu ==
  /\ page' = 0
  /\ UNCHANGED <<opened, lookups, hubVars>>

HubNext ==
  \/ \E g \in Groups \cup {NoGroup} : Select(g)
  \/ Connect \/ LoseConnection \/ RunsOut \/ Act \/ Removed
  \/ \E r \in asks : AnswerAsk(r) \/ ShowAnswer(r) \/ FailAsk(r)
  \/ \E g \in Groups : \/ Change(g) \/ ChangeUntold(g) \/ Post(g)
                       \/ ActDone(g) \/ ActFails(g, TRUE) \/ ActFails(g, FALSE)
NavNext ==
  \/ \E task \in BOOLEAN : OpenNotification(task)
  \/ \E n \in lookups, failed \in BOOLEAN : AnswerLookup(n, failed)
  \/ Menu

PageNext == HubNext \/ NavNext
PageSpec == PageInit /\ [][PageNext]_pageVars

Hubs == [of : Groups \cup {NoGroup}, changes : Nat, posts : SUBSET Nat, foreign : BOOLEAN]
PageTypeOK ==
  /\ group \in [Groups -> [changes : Nat, posts : Nat]]
  /\ selected \in Groups \cup {NoGroup} /\ hub \in Hubs
  /\ asks \subseteq [of : Groups, at : {"server", "page"}, answer : Hubs]
  /\ acts \subseteq Groups /\ link \in BOOLEAN /\ missed \in BOOLEAN
  /\ opened \in Nat /\ lookups \subseteq 1..opened /\ page \in 0..opened

-----------------------------------------------------------------------------
\* GroupChatPage 96-116, 353-354: when nothing is in flight the page shows the selected group as it
\* is, its vote and every message, although what it shows is put together from answers in any
\* order and from the room.  The exceptions, until an answer repairs them: an answer came after a
\* later one or for an earlier selection, or it failed; something happened while the socket was
\* not in the room, which it joins after the hub is asked for; a message came while another
\* group's hub was shown; somebody else extended or deleted the vote, of which no room is told.
PageShowsGroup ==
  asks = {} /\ acts = {} /\ selected # NoGroup /\ ~missed => hub = Fresh(selected)

\* openNotification (Workspace 113, 128): however the answers are ordered, the page is never left
\* to a notification opened before another that chose it.
LaterNotificationStays ==
  [][opened' = opened => page' \in {0, page, opened}]_pageVars
=============================================================================
