# WebSphere in TLA+

WebSphere is a collaboration platform for student groups: a NestJS API over
MySQL (Prisma) and Redis, a BullMQ worker, a socket.io gateway and a React
client. This directory holds TLA+ models of its stateful parts, the TLC
configurations that check them on small instances, and TLAPS proofs of the
properties that matter most.

The API is ordinary `async` TypeScript: a handler runs until its next `await`,
then any other handler, in this process or in another instance, may run. Few
handlers use a transaction and none takes a lock, so almost everything that can
go wrong goes wrong *between two awaits*. The models therefore make every
database or Redis call a step of its own, keep what a handler has read in local
variables, and let requests, timers and failures interleave freely.

## The system and its components

`APP` is `src/apps/api/src/app.service.ts`, where nearly all of the server's
logic lives.

| Component | State | Operations | What is hard | What makes it correct |
|---|---|---|---|---|
| **Idea polls** (APP 902-1009) | `IdeaPoll`, `PollOption`, `Vote` rows | open, vote, close, extend, delete, results, 30 s sweep | every reader may close an expired poll; checks and writes are separate calls; the sweep runs in every instance | one running poll; a poll closes once, with a true record, and is announced once; expired polls get closed; votes die with their poll |
| **Sessions and tokens** (APP 107-136, 250-263, 324-430, 1561-1620) | user row (status, password, token version); Redis: refresh records, used tokens, session activity, per-user set | login, refresh, authenticate, logout, change / forgot / reset password, delete, archive, restore | Redis and the database change in separate calls; single-use tokens; idle timeout; administrators change the same row | a refresh token is exchanged once; signing out ends everything issued before; no session outlives the password it was opened with; restoring revives nothing |
| **Registration** (APP 264-323, `redis.service.ts`, `AuthScreen.tsx`) | codes, counters of sends and of wrong entries | send, resend, enter, claim | wrong entries are compared before they are counted; the counter outlives the code | guesses at a code are bounded |
| **Group membership** (APP 431-495) | `GroupMember`, `JoinCode`, socket rooms | create, join, add, remove, leave, delete account; room joins | check-then-act on the leaders; rooms are joined after the check | a leader leaves only with another left; who is removed is out of the rooms |
| **Ideas** (APP 881-901, 995, 1010) | `Idea.status`, `Project.ideaId` | propose, revise, reject, merge, begin | begin is two writes; polls delete ideas | an idea with a project is kept and is 'selected'; an idea is begun once |
| **Projects and tasks** (APP 496-725) | project, task, assignment, workflow events | create, update, assign, status, delete | decisions before the transaction; four handlers write the same facts | events, stamps and assignment agree with the task; a control that is offered is honoured |
| **Deadline reminders** (worker, `notification-dispatch.service.ts`) | notification rows, two queues | scan at 10:00 and 20:00, deliver, e-mail | retries, duplicated scans, stale deliveries, missed slots | at most one reminder per slot; none that is out of date |
| **Notifications and push** (APP 1109-1148, `push.service.ts`, `push.ts`) | notification rows, subscriptions, the browser's own subscription | notify, deliver, switch on and off, unsubscribe dead endpoints | a browser is shared by accounts and tabs; the endpoint column is not unique | an enabled browser is told once, for the account that enabled it |
| **Maintenance mode, digest** (APP 164, 1011-1036, worker 34-100) | three settings rows | announce, schedule, enable, end, guard, scans | copies written back | maintenance that was ended stays ended; one digest a day |
| **Calls and presence** (`realtime.gateway.ts`, `GroupChatPage.tsx`) | rooms (shared), hosts, hands, presence (per instance); the clients' peers | join, leave, signal, raise hand, host actions, revoke | awaits between count and join; sockets leave through Redis; messages cross | at most six participants; clients connect to each other exactly once; the host is a participant |
| **OAuth and Outlook** (APP 798-868, 936-952, 1292-1342, `connectors.ts`) | `ToolConnection`, Redis state, calendar rows | authorise, callback, refresh, sync, sweep, disconnect | single-use refresh tokens; stale cursor; half-applied pages | the cursor never runs ahead of the mirror; nothing comes back after a disconnect; a connection expires only when refused |
| **Web client** (`api.ts`, `App.tsx`, `Workspace.tsx`, the group pages) | `localStorage` shared by tabs, module and React state, sockets | sign in, restore, refresh, ask for a hub, join its room, open notifications | answers in any order; several tabs; nothing is cancelled | a page never redeems a token twice; what is shown is the selected group's latest state |
| Calendar, announcements, tickets, analytics, AI, administration, e-mail, storage, TURN, MCP | see `PROJECT.json` | | | |

How they interact: controllers authenticate every request through
`AppService.caller` (the guards), then call one `AppService` method, which talks
to the database and Redis and raises domain events (`notification`,
`poll-tally`, `group-membership-revoked`) that the gateway of the *same
instance* relays to socket rooms; rooms span instances through the Redis
adapter. Timers (`onModuleInit`) run in every instance. The worker process
shares the database and the queues. The web client keeps its tokens in
`localStorage`, shared by all its tabs.

`PROJECT.json` lists every component with its status, and under `hazards` each
place where this code can go wrong in a way a unit test would hardly reach.

## The modules

The most important behaviour was modelled first; in this order:

| Module | Component | Run | Proofs |
|---|---|---|---|
| `PollLifecycle`, `IdeaPolls` | idea polls: the abstract life of a poll, and the code that implements it | `polls_races`, `polls_sweep`, `polls_late_vote` | `IdeaPollsProofs` |
| `AccountSessions` | one account: every operation on its sessions, password or status | `account_requests`, `account_archive` | `AccountSessionsProofs` |
| `GroupMembership` | leaders, join, leave, kick, succession, the sockets of the chat room | `group_members`, `group_rooms`, `group_last_leader` | `GroupMembershipProofs` |
| `Reminders` | scan, queue, delivery, the item edited meanwhile | `reminders`, `reminder_message` | `RemindersProofs` |
| `IdeaBoard` | ideas and begin, with the deletion of poll ideas | `server` | `ServerProofs` |
| `TaskWorkflow` | one task, its events, the tracker's controls | `server` | `ServerProofs` |
| `Connections` | OAuth, refresh, Outlook's mirror | `server` | `ConnectionsProofs` |
| `Upkeep` | maintenance mode and the inactive-account digest | `server` | `ServerProofs` |
| `Registration` | codes and their counters | `server` | `ServerProofs` |
| `GroupCalls` | the call of a group, server and clients | `browser` | `GroupCallsProofs` |
| `TabSessions` | the tabs that share a session | `browser` | `BrowserProofs` |
| `GroupPages` | the hub of a group and the navigation of notifications | `browser` | `BrowserProofs` |
| `BrowserPush` | the push switch, its subscriptions and deliveries | `browser` | `BrowserProofs` |

`MC*` modules instantiate them; `MCServer` and `MCBrowser` put several into one
run (see below). Each module has its safety properties proved in the module of
the last column. What is left to do: an abstract life of a session, with a theorem
that `AccountSessions` implements it, to which the server that `TabSessions`
carries in short can be compared.

## Idea polls

### What is modelled

`IdeaPolls` models one group. A *handler* is a running request or a sweep: its
`pc`, operation, user, and what it has read (`snaps`, the polls; `todo`, those
`settleExpired` has yet to look at; `poll`; `deadline`). `handlers[h]` goes

    idle -> settle <-> announce                 settleExpired on each poll read
            settle -> write -> idle             the check, then the final write
                      write -> announceLast     closePollRecord from closePoll

| Action | Code |
|---|---|
| `ReadPoll` | the `findUnique` and membership check that open closePoll, extendPoll, deleteFinishedPoll, vote, pollResults |
| `ReadRunningPolls` | openPoll's `findMany` of open polls |
| `ReadDuePolls` | closeExpiredPolls, with its `take: 50` as `SweepBatch` |
| `Settle` | settleExpired up to the conditional update of closePollRecord (`updateMany ... where open: true`) |
| `Announce` | the rest of closePollRecord: look the poll up, notify, emit the tally |
| `Check` | the check that follows settleExpired, and the deadline the operation will store |
| `WriteOpen`, `WriteVote`, `WriteClose`, `WriteExtend`, `WriteDelete` | the final, unconditional write (a deleted row makes it fail) |
| `Fail` | any rejected await or a killed process: the handler just stops |
| `Tick` | time |

`closesAt = NoTime` is an open-ended poll (null). A row that is deleted becomes
`NoPoll` with `stored = "deleted"`: identifiers are never reused. `votes[p]`
holds the voters with a row in `p`; which option they chose does not matter to
any property, and a second vote replaces the first (upsert). `announced[p]`
counts how often the group was told that `p` closed; the notifications and the
tally are one step. `unheard` remembers the polls whose closer failed before it
could tell. Membership does not change in this module.

Bounds, all of them constants: `MaxPolls` (`RoomForPoll` keeps a request from
opening a poll no identifier is left for), `Horizon` (the clock stops, and the
deadlines it never reaches are one value, `Capped`), `MaxFailures`, `Hours`.
They are the only reason an instance stops, hence `CHECK_DEADLOCK FALSE`.

`PollLifecycle` is what the component promises, with no handlers in it: each
poll is unused, open, closed, removed; it closes once, its outcome is final, and
the group is told at most once, after the close. `IdeaPolls` implements it under
the mapping `Phase`, `Outcome`, `announced`.

### What the runs check

| Run | Instance | Shows |
|---|---|---|
| `polls_races` | 2 requests, 2 polls, 1 leader, clock 0..1 | `ClosingRecordTruthful`, `NoOrphanVotes`, `OverlapOnlyByRace`, `ImplementsLifecycle` |
| `polls_sweep` | 1 request, 1 sweep with batch 1, 2 polls, 1 failure | `TypeOK`, and under fairness `DuePollsGetSettled`, `GroupHearsOfClose` |
| `polls_late_vote` | leader and member, 1 poll | counterexample to `VotesRefusedOnClosedPoll` |

Two requests suffice for the races: every violation of these properties needs a
reader with an old snapshot and one writer, and the proofs below cover any
number. Two polls are the least with which two can run at once, and with which a
batch of one leaves work for the next sweep. A clock of two instants has a
deadline in the future, one that has just come (`closesAt = now` counts as
passed) and one beyond the horizon.

`VotesRefusedOnClosedPoll` says what `test-cases.md` 206 and
`poll-window.spec.ts` (60) say; it fails when two requests overlap, because the
check and the write are separate calls. For the same reason two polls can be
open at once, whatever the error text at APP 960 promises. What remains true is
checked and proved: a second poll needs a race (`OverlapOnlyByRace`).

Fairness: `setInterval` starts a sweep every 30 s in every instance (weak
fairness of `ReadDuePolls` per sweep), and the event loop resumes a handler
whose await has returned (weak fairness of `Proceed` per handler). Users owe
nothing. `GroupHearsOfClose` makes an exception for the polls in `unheard`, those
whose own closer failed between flipping the row and telling the group, because
the code does: nothing repeats the announcement. A failure of any other handler
excuses nothing.

### What is proved

`IdeaPollsProofs` proves, for any sets of members, requests and sweepers and any
bounds that satisfy `PollAssumption`: `TypeCorrect`, `RecordsTruthful`,
`VotesHavePolls`, `OverlapsComeFromRaces`, `NoCloseIsLost` (a closed poll was
announced, or a handler is about to announce it, or its closer failed: what
`GroupHearsOfClose` needs beside fairness) and `PollsImplementLifecycle`
(the refinement, without its fairness-free stuttering left to TLC).

The argument is one inductive invariant, `Inv`. Type correctness and the
properties are not enough: that a poll is announced once depends on handlers.
`AnnouncerFlipped` says that a handler about to announce `p` finds it closed and
not yet announced (or removed), `OneAnnouncer` that no two handlers are about to
announce the same poll, `ToldOfClosed` that only closed or removed polls have
been announced, `NamesPoll` that a handler at its write names a poll that
exists or did. `OpenIsStored` and the two properties complete it. The step that
matters is `FlipInv`: a flip requires the poll to be open, so nobody has it to
announce, and the flipper becomes its only announcer. `OverlapsComeFromRaces`
adds `OpenerSawNoneRunning`: a request at its write for openPoll has no running
poll in its snapshot, and time only makes polls expire.

Liveness is out of the prover's reach and rests on `polls_sweep`.

## Sessions of an account

### What is modelled

`AccountSessions` models one account: the `User` row (status, token version,
password), and what Redis holds for it. A *request* is made once. Its `todo`
holds the calls it may make next: usually one, several where the code awaits a
`Promise.all`, so that the calls of one request interleave as freely as those of
two. What a request has read is in `token`, `user` (the version and the password
of the row it read) and `seen`. A request issues at most one pair of tokens and
a login opens one session, so requests also name tokens, sessions and reset
tokens.

| Variable | Code |
|---|---|
| `account` | `User.status`, `tokenVersion`, `passwordHash`; `erased` once deleteMyAccount has removed its address |
| `tokens` | what a signed pair of tokens claims, with two facts the code does not store: the password its session was opened with, the refresh token it replaces |
| `records`, `used`, `listed` | `auth:refresh:<hash>`, `auth:refresh:used:<hash>`, `auth:refresh:user:<id>` |
| `active` | sessions whose `auth:session:` entry is within the idle timeout |
| `failures`, `resets`, `latestReset` | failed logins of the window, `auth:reset:` and `auth:reset:user:` |

| Action | Code |
|---|---|
| `Login`, `CountFailure`, `Lock`, `ClearFailures` | login: it finds the row, verifies, then counts and perhaps locks, or clears and signs |
| `Record`, `Activate`, `List` | the `Promise.all` of issue |
| `Authenticate` | caller: the status and the token version; then, as for refreshes, `CheckIdle`, `EndIdle` or `Touch` of enforceSessionTimeout |
| `Refresh` | refreshToken's GETDEL of the record; `CheckUsed` and `Bump` when there is none; else the idle check, `ReadUser`, then `Use` and `Unlist` in parallel, and issue; or `Drop` |
| `ReadPassword`, `ReadList`, `Revoke`, `Write`, `Bump` | changePassword and deleteMyAccount, logout; removeRefreshSessions is `ReadList` and `Revoke` |
| `Forgot` ... `UndoReset`, `ResetPassword`, `Forget` | forgot with the mail that may fail; resetPassword |
| `AdminUpdateUser`, `AdminSetsOut`, `AdminWrites` | adminUpdateUser; adminArchiveUser and adminRestoreUser, which check and then write |
| `Lapse`, `WindowEnds` | the idle timeout of a session; the window of failed logins |
| `Fail(r, rest)` | a call is rejected or the process ends: of the calls started together those in `rest` still happen, and nothing follows |

Left out: signatures and expiry dates (every token is genuine and unexpired; the
hour-long life of access tokens would only refuse more), audit entries, the
`failedLogins` copy in the row. "suspended" stands for suspended, deactivated
and removed, which no code here tells apart. Registration issues tokens as a
login at version 0 does. The controller and logout both authenticate; one
stands for both.

### What the runs check

| Run | Instance | Shows |
|---|---|---|
| `account_requests` | 3 requests of any kind, or 4 that are logins, refreshes and logouts; lock-out after 1 failure | `TypeOK`, `NoSessionOutlivesItsPassword`, `RestoringRevivesNothing`, `RedeemedOnce`, `ReplaysAreReal`, `EndedStaysEnded` |
| `account_archive` | 3 requests | counterexample to `ArchivedUntilRestored` |

Requests are the only bound: each is made once, so an instance ends, hence
`CHECK_DEADLOCK FALSE`; the constraint `FewOrAboutTokens` leaves out behaviours
with a fourth request that is about something else. Three requests hold every race on passwords and status
(one that issues, one that changes, one that changes back); four hold a login, two refreshes
of its token and a logout, or a replay of a token that was itself a
replacement. A lock-out after one failure is the smallest that the configuration
accepts, and the one that needs fewest requests to reach.

`ArchivedUntilRestored`: a login decides on the status it read and then writes
`locked`; an account archived in between is no longer archived, cannot be
restored, and a reset mail makes it active. APP 1591-1595 and the refusal in
APP 324 say otherwise.

### What is proved

`AccountSessionsProofs` proves all six properties for any number of requests and
any `MaxAttempts >= 1`, under `SessionAssumption` alone. So nothing of this
component rests on the size of the instances, except that the proofs speak of
the model.

Twenty-seven actions make a long case split, so it is made once. `Call` sums up
what one call may change: which calls may follow it, whether it signs, what it
writes to the row, what it may add to Redis. `ProceedsIsCall` shows that every
action is such a call, `StepIs` that every step is a call, the start or the
failure of a request, or the passing of time. The invariants are then shown on
these four:

- `Shape`: a request makes only calls of its operation; it presents only tokens
  that were delivered, so nobody is still storing them; some calls are only made
  alone; a request signs once, and then only stores. All else rests on it.
- `Standing`: a version that is still the account's was read together with its
  password, before any archiving - for tokens, for what a login remembers and
  for what a refresh is about to sign. This is what neither property says by
  itself: the danger is in requests that have read but not yet signed. It holds
  because every change of the password and every archiving also changes the
  version (`AccountSteps`).
- `Single`: a request that took a record is the only one that did, and the
  record is gone; no record comes back, because only the issuer stores it, before
  anyone can present the token.
- `Replays`: a token marked as used was presented by a request that does not
  treat it as a replay. That request need not have succeeded: the token is marked
  beside `Unlist`, before issue (APP 348-349), so a client that retries an
  exchange which failed after the mark is signed out everywhere, as the code has
  it. `ReplaysAreReal` is about the other side: a token that was only revoked.
- `EndedForGood` needs `Shape` only, step by step.

## Group membership

### What is modelled

`GroupMembership` models one group. A *request* is made once; `at` is the
database call it makes next, `user` and `target` say who makes it and about
whom, and `saw` holds the rows it has read and decides on.

| Variable | Code |
|---|---|
| `members` | `GroupMember` rows. `by`, the request that created the row, stands for its identifier. A user without a row has the role "outside", "left" or "kicked", which the code does not store |
| `erased` | users whose account is deleted: they make no requests, but those they have made go on |
| `joinable` | whether the group has an active, unexpired `JoinCode` |
| `joining`, `room` | sockets between the membership check of `group:join` and its `socket.join`; sockets in `group:<id>` |
| `evictions` | removals on their way through the Redis adapter |
| `blind` | sockets that entered when their user had no row |

| Action | Code |
|---|---|
| `JoinGroup`, `Join` | joinGroup: the code, then the upsert. An upsert that loses to another insert is `Fail` |
| `AddGroupMember`, `Look`, `Create` | addGroupMember; a row created meanwhile violates the unique key |
| `OpenGroup`, `Issue`, `CodesExpire` | group's self-healing code; 30 days |
| `RemoveGroupMember`, `Remove`, `Evict` | removeGroupMember and its event |
| `LeaveGroup`, `Count`, `Leave` | leaveGroup; only a leader counts |
| `DeleteMyAccount`, `NoSuccessor`, `FindSuccessor`, `Promote`, `Erase` | deleteMyAccount as far as it concerns the group: the roles it reads first, the successor, the promotion by row identifier, the transaction |
| `CheckRoom`, `EnterRoom`, `Disconnect`, `RevokeGroupAccess` | the gateway |
| `Fail` | a rejected call or the end of the process |

Left out: project memberships (leaveGroup deletes them, removeGroupMember does
not), the notification of an added member, and which successor joined first: any
other member may be chosen, which allows more than the code does. A user has one
socket, because sockets do not affect each other.

### What the runs check

| Run | Instance | Shows |
|---|---|---|
| `group_members` | a leader, two members, one socket, 3 requests | `TypeOK`, `KickedAreOut`, `LastLeaderLostOnlyByRace` |
| `group_rooms` | the same, 2 requests, no symmetry | under fairness `KickedLeaveRoom` |
| `group_last_leader` | the same, no socket, 3 requests | counterexample to `LeavingKeepsALeader` |

Requests are the only bound; each is made once, hence `CHECK_DEADLOCK FALSE`.
Three hold a removal, an addition and a second removal, or a deletion that
promotes while another member leaves. Three users are the least with which two
leave and somebody stays behind; there is one leader to begin with, and only
deletions make others, so a race of two leaders needs all three requests.
Requests are interchangeable, which `MembershipSymmetry` uses except where a
liveness property forbids it.

`LeavingKeepsALeader` is the comment at APP 482. It fails: a leader who deletes
the account promotes ann, who has already been found to be an ordinary member
and is about to leave, and bob stays without a leader. What remains true is
`LastLeaderLostOnlyByRace`: the request that did it relied on a row, a count or
a successor that had changed since. `KickedAreOut` names its two exceptions, a
socket that entered between check and removal, and a process that ended between
the removal and the event; `KickedLeaveRoom` excludes the same two.

Fairness: the event loop resumes a request whose delete has returned (`Evict`),
and Redis delivers what the adapter publishes (`RevokeGroupAccess`). Users,
other requests and codes owe nothing.

### What is proved

`GroupMembershipProofs` proves the three safety properties for any users, any
number of requests and any set of connected users, under `GroupAssumption`
(that `Users` is finite is needed for the count of leaders to mean anything).

`TypeCorrect` needs more than types: a request's `user` and `target` may be
`None`, and the next call uses them. `Evidence` says when they are not, and also
what a request that has got as far as `leave` or `erase` has seen: it is not a
leader, or another leader is in `saw`, or (for a deletion) nobody else is in the
group. `CountKnows`, `NoSuccessorKnows` and `PromoteKnows` show that the three
reads provide exactly this; the step from a count above one to a second leader
is `AnotherLeader`. `LeadersHold` then follows in one step: if what was seen
still holds, a leader or nobody remains.

`KickedHold` is inductive with the types alone: only `Remove` makes a row
"kicked", and the same step puts the request at `evict`; from there `Evict`,
`RevokeGroupAccess` and `Fail` hand the obligation on (`RequestsAnnounce`).

`KickedLeaveRoom` is liveness and rests on `group_rooms`.

## Deadline reminders

### What is modelled

`Reminders` models one task or one project (`kind`), the scans that remind its
people and the workers that deliver. `now` counts quarters of a day, of which
the first and the third are the slots.

| Variable | Code |
|---|---|
| `item` | the row, with the people `responsible` names among `Users`: active assignees, else the creator; members of a project. Every status but completed is "open" |
| `active`, `muted` | account status; `NotificationPreference.tasks` / `.deadlines` |
| `notes[id]` | the notification, as the due date its message was written for |
| `jobs[id]` | the dispatch job of the same identifier: `deadline` and `hour` are its payload, `holder` its lock, `own` whether the scan that added it also wrote the message (for the properties only) |
| `scans[s]` | a run of scanDeadlineReminders: `deadline`, `hour` and `todo` are from its three reads, which are one step |
| `deliveries[w]` | a run of deliver; `says` is the message it read, `saw` the task, `since` when it began |
| `told[id]` | how often the reminder went to sockets and devices |

| Action | Code |
|---|---|
| `StartScan` | the slot, the reads, the phase of a project |
| `ReadPreference`, `Upsert`, `Add` | the three awaits of notify |
| `FailScan` | a rejected await or a killed worker; the scan may start again while its slot lasts, and beside itself |
| `Take` | a worker takes a job and, before any await, checks the day and the hour |
| `ReadNote`, `ReadItem`, `QueueMail`, `Tell`, `Finish` | the rest of deliver. A project is not looked at again |
| `FailDelivery`, `Die`, `Stall` | a rejected await (retried up to `attempts`); a killed instance; an expired lock, whether its worker is dead or slow |
| `SetDeadline`, `SetStatus`, `SetOwners`, `Delete`, `ChangeAccount` | what users and administrators do meanwhile, each one transaction |

The e-mail queue refuses a second job of the same identifier, so `QueueMail` is
only a step; e-mail and push behind the queues are not modelled, nor are the
ages after which BullMQ forgets finished jobs (7 and 30 days, longer than the
day in an identifier). Deleting an account, which deletes its notifications, is
not among the edits.

### What the runs check

| Run | Instance | Shows |
|---|---|---|
| `reminders` | one person, 2 scans, 2 workers, 2 due dates | `TypeOK`, `ToldOnceUnlessRetried`, `RemindersAreTrue` |
| `reminder_message` | one person, 1 scan, 1 worker | counterexample to `MessageNamesDueDate` |

Bounds: `LastHour` ends a task's clock after its morning slot, because its slots
have identifiers of their own and do not meet, and a project's at 20:00, where
the second scan meets the job of the first. `Attempts` = 2 (the code has 5),
`MaxStalls` = 1 (BullMQ's default) and `MaxEdits` = 1 allow a retry beside a
slow delivery and a change between any two steps. The person can be the one
responsible or not; recipients do not affect each other, so one is enough, and
administrators, who are reminded and responsible in the same two places, are
left to larger instances. The clock stops, hence `CHECK_DEADLOCK FALSE`.

`ToldOnceUnlessRetried` is the promise that scans, however often and however
overlapped, never cause a second delivery; only a job's own retries and stalls
can, because the socket event and the push come after nothing that would
remember them. `RemindersAreTrue` is the check before dispatch as far as it
reaches: unless the task changed after it was read, the recipient is responsible
for an open task, and the message names its due date *if the message and the job
come from one scan*. Without this condition the property is
`MessageNamesDueDate`, which fails: a scan ends between `Upsert` and `Add`, the
due date moves, and the scan's retry keeps the old message (`update: {}`) but
adds a job with the new date, which passes the check in deliver.

The run also reaches, without contradicting any promise, a project whose 10:00
delivery came too late: its job is completed, so the 20:00 scan cannot add one,
and there is no reminder that day.

No liveness is stated: whether a job ends is up to BullMQ.

### What is proved

`RemindersProofs` proves `RemindersTyped`, `ToldOnce` and `RemindersTrue` for any
people, any number of scans, workers, attempts, stalls, edits and hours, under
the assumptions of the module. The inductive invariant `RemindInv` has four
parts.

- `Shape`: the types, and that a job which waits or runs has attempts left, and
  only a running one is held.
- `Counted`: for each reminder, what was told and the deliveries that can still
  tell it are together no more than the runs its job has had. This is what makes
  `ToldOnceUnlessRetried` inductive: a delivery that has not yet told anybody is
  already paid for. That only finitely many are pending at a time is part of it; no
  bound on the workers is needed.
- `Messages`: a message stays what it was written for, from the scan's upsert to
  its job, unless the item is deleted.
- `Knows`: what a delivery has read still fits its job, so that what it tells
  was true when it looked.

## The rest of the server

### How it is checked

Five modules model parts of the server that share no state with one another:
`IdeaBoard`, `TaskWorkflow`, `Connections`, `Upkeep` and `Registration`. Run
`server` checks all of them. In `MCServer` the variable `part` is chosen at the
start and never changes; only that part takes steps and all others stay in one
initial state. Since no action of a part reads or writes a variable of another,
the reachable states of a part are those it has by itself, and an invariant
that speaks of one part holds of the sum exactly if it holds of that part.
`Upkeep` counts twice, as its maintenance and its digest, which only share the
clock. `CHECK_DEADLOCK FALSE`: requests are made once and clocks, grants and
codes are bounded, so a part may stop.

| Part | Instance | Checks |
|---|---|---|
| `IdeaBoard` | 2 ideas, 2 polls, 2 requests at a time | `BegunIdeasSelected`, `BegunOnce` |
| `TaskWorkflow` | a leader and a member, 3 changes | `OffersAreHonoured`, `HistoryAccountsForTask`, `HistoryChains` |
| `Connections` | each of the six providers, a sync and a sweep, 1 event, `MaxChanges` 1, `MaxGrants` 2 | `CursorNeverAhead`, `MirrorGoesWithConnection`, `ExpiredOnlyIfRefused` |
| `Upkeep` | `MaxNow` 2: three days | `MaintenanceStaysEnded`, `DigestOncePerDay` |
| `Registration` | 2 codes, 2 entries in flight, `MaxAttempts` 2, `MaxSends` 2 | `WrongGuessesBounded` |

Two requests are the least that race, and the request that was overtaken can be
followed by a third where it matters (tasks). Two ideas and two polls let the
options of two polls overlap. A second grant is what a refresh or a reconnect
needs. With one change of the calendar an event can be older or newer than the
cursor; the run starts with the event in Outlook, and refresh tokens that stay
good there, which leaves the other kind of token to the other providers. Type
correctness of these parts is not a property of the run but a theorem.

### Ideas

| Variable | Code |
|---|---|
| `status`, `project` | `Idea.status`; whether a `Project` has the idea's id (unique) |
| `polls` | the group's polls and the ideas of their options |
| `writers` | requests that revise, reject or begin, between what they read and what they write |
| `begun`, `broken` | not in the code: how often a project was begun; ideas of which a begin stopped half-way, met a request that had read them, or lost its project before the idea was marked |

`ReadIdea` is the check with which the three handlers open, `WriteIdea` the
update of revise and reject, `CreateProject` and `MarkSelected` the two writes of
begin, `FailWriter` a rejected call or the end of the process. `SubmitIdea`,
`OpenPoll`, `ClosePoll`, `DeleteFinishedPoll` and `DeleteProject` are one step
each: the first two are inserts, the races of polls are `IdeaPolls`' matter, and
the last two are transactions.

`BegunIdeasSelected` and `BegunOnce` are what the unique link and the status
are for; both hold but for the ideas in `broken`, which the code neither
prevents nor repairs: an idea whose begin stopped between its two writes looks
open and can never be begun.

`ServerProofs` proves both for any ideas, polls and requests. By themselves
they are not inductive: `BoardInv` adds `ReadersKnown` (who read an idea before
it was marked is known to have met the begin) and `BegunIsTaken` (an idea that
was begun has its project, or only those who are known can begin it again).

### Tasks

| Variable | Code |
|---|---|
| `task` | status, `startedAt` and `completedAt` as present or absent |
| `active`, `members` | active `TaskAssignment` rows; `ProjectMember` rows |
| `history`, `handed` | the status events; the last assignment event and whether they all chain |
| `changes` | a request: what it read (`from`, `unstarted`, `holder`), what it will write, and, for the properties, whether another request wrote since (`overtaken`) |

`ReadTask` is everything taskStatus, updateTask, linkTaskResource and
updateLinkedResource read and decide, with the four different guards
(`Permitted`); `WriteTask` is their transaction. `DeleteTask` and
`ChangeMembership` come between. The controls that taskTracker and myTasks offer
are operators, `OffersStatus` and its neighbours.

`HistoryAccountsForTask` holds without exception: the transaction writes the
row and the events together. `HistoryChains` holds but for requests that were
overtaken: they record as the old value what they had read. `OffersAreHonoured`
compares two pieces of code written apart, the tracker and the guards. All three
are proved for any people and requests (`ServerProofs`); `WritersKnow`, the
strengthening, says that a request which nobody overtook still knows the task.

### Connections and the Outlook calendar

| Variable | Code |
|---|---|
| `provider`, `connector` | which of the six connectors, and what `connectors.ts` makes of it: verifier, offline access, a calendar, which refusals a sync passes on |
| `conn` | the `ToolConnection` row, 0 as identifier when there is none |
| `states` | `oauth:state:` entries in Redis |
| `mirror` | `CalendarEvent` rows from Outlook |
| `passes` | a user's sync or an instance's sweep: its next call, what it read of the row (`saw`), the events it has still to apply (`todo`) and the cursor it will store (`end`) |
| `calendar`, `changed`, `clock`, `tokens` | external: Outlook's events and when they changed; which refresh tokens the provider still honours, and whether using one replaces it |

| Action | Code |
|---|---|
| `Authorize`, `OAuthCallback`, `StateLost`, `Disconnect` | oauthAuthorize, oauthCallback, disconnectIntegration |
| `StartPass` | the read of the row by syncIntegration and sweepOutlook |
| `AskRefresh`, `RefreshFails`, `StoreTokens`, `MarkExpired` | connectionTokens |
| `AskFiles`, `Fetch`, `Apply`, `SaveCursor` | connector.sync; fetchCalendar, with or without the cursor and with or without an end; reconcileOutlook |
| `FailPass` | any call fails or the process ends |
| `EditEvent`, `CalendarChanges`, `AccessExpires` | the user changes a mirrored row here; Outlook changes; an hour passes |

`ghosts` remembers what the properties make an exception for. `crossed`: two
passes, or a pass and a reconnect, overlapped, so that an older pass may store
its cursor last. `forgotten`: events that were gone before a full resync, which
lists what there is and so never removes them, and rows that the user changed
here. `orphans`: rows that a pass wrote after the disconnect. `contested`: the
provider could not be reached (every failure of a refresh counts as a refusal),
two passes used the same token, or a new one could not be stored.

Without these exceptions the three properties fail, and the code says of none of
them that it should hold with them. With them they are proved for any number of
events, passes, changes and grants (`ConnectionsProofs`). `ConnInv` consists of
`Shape` (types; nothing is newer than the last grant and the last change; a pass
has seen a row), `Uncrossed` (while nothing is crossed, at most one pass is
busy, and what it fetched, together with the mirror, is what the cursor it will
store promises) and `Uncontested` (while nothing is contested, who is storing or
expiring holds the row's own token, and the last token that was given is the
one stored or about to be).

### Maintenance and the digest

`mode`, `schedule` and `alerts` are the three settings rows; `announcing`,
`ending`, `saving`, `scan` and `digest` are requests and the worker's two scans
between a read and a write, with the copy they will write back. Ending the
maintenance is two writes, in either order (`AskEnd`, `WriteEnd`, `FailEnd`).
`MaintenanceStaysEnded` names its exception in `ended = "undone"`: somebody
enabled or scheduled after the end was asked for, or a scan wrote back what it
had read before. `DigestOncePerDay` names its own in `unstamped`: the scan died
between mail and stamp, ran past midnight, or an administrator saved the alerts
in between, which drops the stamp.

Both are proved for any number of days (`ServerProofs`). `EndingKnows` says that
what is still on while a request ends the maintenance is what it has still to
write; `DigestKnows` that a digest of this day is stamped, about to be, or known
not to be.

### Registration

`codes`, `sends`, `attempts` are the Redis keys of one address; `entries` the
register requests in flight, `form` the sign-up screen with the `verificationId`
it holds. `Enter` compares, `Count` counts afterwards, `DeleteOtp` deletes the
code that reached the limit, `Claim` takes it and `Create` makes the account.
`WrongGuessesBounded`: entries are compared before they are counted, so as many
more can be compared as are in flight when the limit is reached, and no more;
neither a resend nor the end of a counter opens the way. `ServerProofs` proves it
(`GuessesBounded`, with the types in `RegTyped`) for any number of codes, sends,
attempts and a finite set of entries. The strengthening is `LimitHolds`: the wrong
entries that are not yet counted are those in flight, so that what was compared
is never ahead of the counter by more than these, also after the code is gone.

## The client

### How it is checked

`GroupCalls`, `TabSessions`, `GroupPages` and `BrowserPush` share no state either,
and `MCBrowser` adds them up in run `browser` as `MCServer` does; `GroupPages`
counts twice, as the hub and the navigation. The first two include the server
side they talk to. Two sockets, the tabs, the groups and the settings pages have
the same two names, so that one symmetry serves every part; the third socket,
`Guest`, is not one of them. The calls count twice too: part `call` has two
sockets and all their steps, but for the end of a call after a revocation
(`EndsFirst`; the theorems have both in any order), part `third` starts with a call of two and lets the
guest join while those in it leave or are put out. Bounds end every part
(`CHECK_DEADLOCK FALSE`). Of the properties only `LaterNotificationStays` is an
action property, for which symmetry is sound; there is no liveness.

| Part | Instance | Checks |
|---|---|---|
| `GroupCalls` | 2 sockets, a call of 1 or 2 seats, 2 joins, 1 revocation; and 3 sockets, a call of 3 seats with two in it, 1 join | `SeatsWithinLimit`, `CallersConnect`, `SeatsAreUsed`, `HostIsPresent` |
| `TabSessions` | 2 tabs, 1 account, 3 pairs of tokens | `PageRedeemsOnce`, `StoredTokenIsGood` |
| `GroupPages` | 2 groups, 1 change and 1 message each, 2 requests in flight, 3 notifications | `PageShowsGroup`, `LaterNotificationStays` |
| `BrowserPush` | 2 settings pages in one browser or two, 2 accounts, 4 endpoints and rows | `EnabledBrowserIsToldOnce` |

A call of six is full for a seventh; one of one seat is full for a second, and
the code treats the limit as a number. Two joins make two clients meet or one
client come back. A third client is the least that can hear of somebody who
connects to it while being put out by another. Three pairs are one sign-in and two exchanges, the second with
the first one's token or with a token put back. Three notifications are the
least of which the middle one can be overtaken from both sides.

### What is proved

`GroupCallsProofs` proves the four properties of calls for any sockets, limits,
joins and revocations, and `BrowserProofs` the other five for any tabs and pairs,
any groups, notifications and requests in flight, any browsers, pages and
people, under the assumptions that the modules name. The type invariants are
theorems too (`CallTyped`, `TabsTyped`, `PagesTyped`, `PushIsTyped`) and not part of
the run.

The smaller parts need one strengthening each. `TabInv`: the pair that an exchange
brought is nowhere else (`NewPairFresh`), and a stored token that a tab has spent
is the one it still waits for (`TokenOnce`). `PageInv`: what is shown is up to
date or an answer is still to come. `PushInv`: numbers of rows and endpoints are
never used again, no two browsers share a subscription, and the rows of a
subscription are as far as the one page that changes the switch (`BrowserKnown`).
`WantInv` adds the preference: the account of an enabled browser is told or
`muted` until a page of it is about to save otherwise (`BrowserWanted`).

Calls are the hardest argument of the project, because what is wrong with them is
never in one place: it is in the difference between what the server has done and
what a client has still to read.

- `SeatsCounted`: while no two joins overlapped, one handler at most is between
  its look at the room and the room, and a seat is free for it.
- `FollowInv`: a client with a call has its seat, is on the way to it, or has in
  its inbox the message that ends the call; a seat without a call is being given
  up. `SeatsAreUsed` is what is left of it when nothing is on its way.
- `HostKept` and `HostShown`: the host keeps its seat, is being replaced, or was
  dropped with its group, and the *last* of a client's messages that names a host names this one.
- `PairInv`, for any two clients whose comings and goings did not cross: the one
  that joins is not coming while the other moves (`Apart`), what its handler saw
  of the other is still so (`Seen`), nobody keeps, or will after reading its
  inbox, a peer that is gone (`Forgotten`), what is read about the other is in an
  order that makes sense (`InOrder`), and of two that are present one was there
  first and has made, or is going to make, the offer that the other took or is
  going to take (`Link`). `CallersConnect` is `Link` and `Forgotten` when all
  inboxes are empty. What a message at the head of the inbox does, and what one
  that is appended does, to each of these is shown once, as lemmas about
  sequences of messages that know nothing of calls.

The attempt to prove `CallersConnect` found two places where an earlier form of
the model was wrong. The guards of `Shown`'s cases overlapped, and a CASE of which two guards are true
does not say which it takes; the code does. And the property was
false with three sockets, which the run of two could not show; see below.

### Calls

`room` is the socket room in its order, `leaving` the sockets that `socketsLeave`
has put out but Redis has not, `host` is `callHosts`; `joining` and `removals` are
handlers past an await. `ui` and `inbox` are the clients. `AskJoin`, `EnterRoom`,
`TellRoom` are callJoin's three stretches; `Leave`, `Disconnect`, `PutOut`,
`HandOver` are callLeave and removeCallParticipant; `EndCall` and `EndRoom` the
end of a call before and after its look at the room (108), between which others
may come and go; `RemoveParticipant`, `Revoke` the rest of the gateway; `Handle` is
the client.

`past` names the exceptions: `overlap` (two joins between count and room),
`crossed` (two clients of which one came or went while the other did, or of which
one was being put out of the room and still made the other an offer), `hasty`
(a client that left, or clicked again, while its join was under way, or that came
while the call was being ended and is put out of it untold), `adrift` (the call
was last passed to a socket that was coming or going, or to nobody with others
in it), `revoked` (put out of the group) and `dropped`. A client that is put out of
the group leaves its page and disconnects, and removeSocketFromCalls (159-161)
then replaces it as host, if it still finds the call among the rooms of the
socket. `revokeGroupAccess` (39-44) has asked for the socket to leave that room,
and when this comes about first nobody replaces the host: `callHosts` keeps a
socket that is gone, every later join is told of it, and the controls are
nobody's as long as the process lives. `dropped` are the sockets for which
it happened in that order; `HostIsPresent` excepts a host in `dropped`, not every
revoked one, and claims of every client that was not hasty that it shows the host
the server has, also when that host is `dropped` or `adrift`. The second half of
`crossed` is this: `socketsLeave` and `participant-left`
(realtime.gateway.ts 146-148) do not wait for the client that is put out. If it
reads in between that a third one came, it makes that one an offer, as createPeer
does, and the third one, which has already read that it left, takes the offer and
keeps a peer that is gone until its connection is seen to fail. Raised hands, mute requests, presenting and the media decide nothing
here and are left out.

### Tabs

`stored` is `localStorage`, `tab` each tab's module and React state (its access
token, whether calls wait for an exchange, the exchange in flight, whether it
restores). `Refused` is request's 401 with refreshOnce, `Exchange` and `Answered`
exchangeRefreshToken, `SentAgain` the retry, `Accepted`, `Restore`,
`RestoreFails` performRestore, `Load` a new tab or a reload, after which the
exchange it cut off is an orphan. The server is AccountSessions' in short.

`PageRedeemsOnce` is what refreshOnce is for (api.ts 102). The exceptions in
`history`: a restore may store once more a token it had read before another tab
redeemed it, and a reload cuts off an exchange whose answer nobody stores
(`unsaved`). Two *tabs* do redeem the same token, which ends every session of the
account; the code makes no promise about that. The model also shows that
signOutForInactivity (Workspace 177) asks for the logout with a GET, which no
route answers: the idle tab's session goes on at the server until it lapses.

### Pages

`asks` are requests for a hub with their answers, `acts` the user's calls, `link`
whether the page's socket is in the room of the selected group. `Change` is a vote,
or a poll that opens or closes, which the room is told of (`poll:tally`: openPoll
965, closePollRecord 917, app.controller 71); `ChangeUntold` is what somebody else
does that no room is told of: extendPoll (976) and deleteFinishedPoll (985). The
page that shows the old deadline asks again when that has come (`RunsOut`,
PollStatus 37-41). `PageShowsGroup` holds unless the page was told late or not at
all (`missed`, until an answer repairs it): an answer came after a later one or
for an earlier selection, or failed; something happened while the socket was not
in the room, which it joins only after it has asked for the hub, and it does not
ask again then; a message came while another group's hub was shown; or an untold
change. `LaterNotificationStays` is openNotification's counter, with no exception.

### Push

`settings` are the pages with the switch, `sub` each browser's subscription,
`rows` the `PushSubscription` table, `sends` what deliveries have read. `Switch`,
`Clear`, `Create`, `Delete`, `Unsubscribe`, `SaveWants` are the calls of enablePush
and disablePush in order; `Deliver` and `Send` those of the push service.
`EnabledBrowserIsToldOnce` says of a browser that shows push as enabled that it has
exactly one row, of the account that enabled it last, and that this account is
told (`wants`). It makes two exceptions. A change of the switch stopped half-way
or met another tab's (`torn`): the endpoint column is not unique, so two tabs leave
two rows. And the account switched push off in another browser since (`muted`):
the preference is the account's (LegacyPages 315), so deliver (push.service 34)
tells it nothing, while this browser has its subscription and its row and, since
pushStatus looks at the browser alone, goes on to show push as enabled.

## Not modelled

- *Parts of modelled components*: dependencies, phases, comments and files of
  projects; media, hands and presence of calls; Expo tokens, which nothing in the
  repository registers; the e-mail worker; the rows of notifications, which are
  only created and marked read.
- *Single-row operations* behind one permission check: calendar, announcements,
  support tickets, profile and project fields.
- *Analytics and risk*: scores in floating point, pure functions that nothing
  else depends on.
- *Administration*: console queries, an append-only audit log, one subprocess
  per backup. What administrators do to an account is in `AccountSessions`, to
  the settings in `Upkeep`.
- *AI assistant, e-mail, storage, TURN, configuration, validation, MCP server*:
  input and output, hashing and parsing.

## What rests on what

Every safety property that a passing run checks, invariant or action property,
is a theorem: it holds for every value of the constants that satisfies the named
assumptions, and the runs show in addition that the models reach the cases the
properties are about. Liveness (`DuePollsGetSettled`, `GroupHearsOfClose`,
`KickedLeaveRoom`) is out of the prover's reach, as is anything about `ENABLED`
and about what a recursive definition computes, and rests on the runs; so do the
four counterexamples. A property whose comment names
exceptions says where the code makes no promise. Most exceptions are recorded in
a variable of the module when the race happens (`past`, `missed`, `torn` and their
like); such a variable is an approximation, and what it excepts is what its
actions set it for, which may be more than the harm that was done: a client that
was `hasty` once is excepted for good, a page that `missed` a change until its next
answer. Where a property's exception is the whole of a hazard's race, the hazard's
note in `PROJECT.json` says so: the property then shows that nothing *else* leads
there.

Of the hazards listed in `PROJECT.json` three have no property, each with its
reason: the expiry of the per-user set in Redis, the removal of a last leader by
removeGroupMember, and the evening reminder of a project whose morning delivery
was dropped.
