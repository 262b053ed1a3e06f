----------------------------- MODULE IdeaPolls -----------------------------
(***************************************************************************)
(* The timed idea polls of one group (apps/api/src/app.service.ts).        *)
(*                                                                         *)
(* Requests and timer sweeps run concurrently in one or more API           *)
(* instances.  Each runs until its next await, so every database access is *)
(* a step of its own and what a handler read (its `snaps`) may no longer   *)
(* hold when it is used.  A handler goes through                           *)
(*                                                                         *)
(*   idle -> settle <-> announce            (settleExpired on every poll)  *)
(*        settle -> write -> idle           (check, then the final write)  *)
(*                  write -> announceLast -> idle      (a leader's close)  *)
(*                                                                         *)
(* and may fail at any await (a database error, a killed process).         *)
(***************************************************************************)
EXTENDS Integers, FiniteSets

CONSTANTS Members,     \* users who belong to the group
          Leaders,     \* those of them who lead it
          Requests,    \* concurrent HTTP requests
          Sweepers,    \* API instances running the 30 s timer sweep
          Timer,       \* the null `closedBy` of a poll closed by its deadline
          Nobody,      \* the null `closedBy` of a poll nobody has closed
          MaxPolls,    \* bound: polls ever created
          Horizon,     \* bound: last instant of the clock
          Hours,       \* lengths a voting window or an extension may have
          SweepBatch,  \* most polls one sweep handles (`take: 50`)
          MaxFailures  \* bound: handlers that fail half-way

ASSUME PollAssumption ==
  /\ Leaders \subseteq Members
  /\ Timer \notin Members /\ Nobody \notin Members /\ Timer # Nobody
  /\ Requests \cap Sweepers = {}
  /\ MaxPolls \in Nat /\ Horizon \in Nat /\ MaxFailures \in Nat
  /\ Hours \subseteq Nat \ {0}
  /\ SweepBatch \in Nat \ {0}

VARIABLES now,       \* the clock
          polls,     \* the IdeaPoll table
          votes,     \* votes[p]: who has a Vote row in poll p
          announced, \* announced[p]: how often the group was told p closed
          handlers,  \* the program counter and locals of every handler
          failures,  \* handlers that failed so far
          unheard    \* history: polls whose closer failed before it could tell the group

vars == <<now, polls, votes, announced, handlers, failures, unheard>>

PollIds  == 1..MaxPolls
Handlers == Requests \cup Sweepers
NoTime   == -1                              \* a null timestamp
Times    == {NoTime} \cup 0..(Horizon + 1)
Closers  == Leaders \cup {Timer}

\* The row of a poll; `stored` says whether the row was never made, exists, or was deleted.
Poll == [stored : {"never", "yes", "deleted"}, open : BOOLEAN, closesAt : Times,
         closedAt : Times, closedBy : Closers \cup {Nobody}]
NoPoll == [stored |-> "never", open |-> FALSE, closesAt |-> NoTime,
           closedAt |-> NoTime, closedBy |-> Nobody]

\* What a handler remembers of a poll it has read.
Snapshot == [id : PollIds, open : BOOLEAN, closesAt : Times]
Snap(p)  == [id |-> p, open |-> polls[p].open, closesAt |-> polls[p].closesAt]

Ops == {"openPoll", "vote", "closePoll", "extendPoll", "deleteFinishedPoll",
        "pollResults", "sweep"}
Handler == [pc : {"idle", "settle", "announce", "write", "announceLast"},
            op : Ops, by : Members \cup {Timer},
            snaps : SUBSET Snapshot,      \* the polls as read
            todo : SUBSET Snapshot,       \* those settleExpired still has to look at
            poll : PollIds \cup {0},      \* the poll it names, or has just closed
            deadline : Times]             \* the closesAt it is about to store
Idle == [pc |-> "idle", op |-> "sweep", by |-> Timer, snaps |-> {}, todo |-> {},
         poll |-> 0, deadline |-> NoTime]

Stored(p)  == polls[p].stored = "yes"
ExpiredIgnoringNull(s) == s.open /\ s.closesAt <= now
ExpiredAfterDeadline(s) == s.open /\ s.closesAt # NoTime /\ s.closesAt < now
Expired(s) == s.open /\ s.closesAt # NoTime /\ s.closesAt <= now
\* pollIsOpen, of a poll as it was read
Running(s) == s.open /\ ~Expired(s)

\* The update-where-open of closePollRecord: who closes an open poll flips it.
CanFlipAgain(p) == Stored(p)
CanFlip(p) == Stored(p) /\ polls[p].open
Flip(p, by, at) == polls' = [polls EXCEPT ![p].open = FALSE, ![p].closedAt = at,
                                          ![p].closedBy = by]
Goto(h, pc) == handlers' = [handlers EXCEPT ![h].pc = pc]
Finish(h) == handlers' = [handlers EXCEPT ![h] = Idle]
Start(h, op, u, p, ss) ==
  /\ handlers[h].pc = "idle"
  /\ handlers' = [handlers EXCEPT ![h] =
       [pc |-> "settle", op |-> op, by |-> u, snaps |-> ss, todo |-> ss, poll |-> p,
        deadline |-> NoTime]]

Init ==
  /\ now = 0
  /\ polls = [p \in PollIds |-> NoPoll]
  /\ votes = [p \in PollIds |-> {}]
  /\ announced = [p \in PollIds |-> 0]
  /\ handlers = [h \in Handlers |-> Idle]
  /\ failures = 0 /\ unheard = {}

----------------------------------------------------------------------------
(* Reading: every operation begins by reading the poll (or the polls) it    *)
(* concerns and checking that the caller is a member, or a leader.         *)

LeaderOnlyExceptClose == {"extendPoll", "deleteFinishedPoll"}
LeaderOnly == {"closePoll", "extendPoll", "deleteFinishedPoll"}

ReadPoll(h, op, u, p) ==
  /\ op \notin {"openPoll", "sweep"}
  /\ op \in LeaderOnly => u \in Leaders
  /\ Stored(p)
  /\ Start(h, op, u, p, {Snap(p)})
  /\ UNCHANGED <<now, polls, votes, announced, failures, unheard>>

\* Bound: no request sets out to open a poll that MaxPolls leaves no identifier for.
RoomForPoll ==
  Cardinality({h \in Handlers : handlers[h].op = "openPoll"})
    < Cardinality({p \in PollIds : polls[p].stored = "never"})

ReadRunningPolls(h, u) ==
  /\ RoomForPoll
  /\ Start(h, "openPoll", u, 0,
           {Snap(p) : p \in {q \in PollIds : Stored(q) /\ polls[q].open}})
  /\ UNCHANGED <<now, polls, votes, announced, failures, unheard>>

DuePolls == {p \in PollIds : Stored(p) /\ Expired(Snap(p))}

ReadDuePolls(w) ==
  /\ \E batch \in SUBSET DuePolls :
       /\ Cardinality(batch) = IF Cardinality(DuePolls) < SweepBatch
                               THEN Cardinality(DuePolls) ELSE SweepBatch
       /\ batch # {}
       /\ Start(w, "sweep", Timer, 0, {Snap(p) : p \in batch})
  /\ UNCHANGED <<now, polls, votes, announced, failures, unheard>>

----------------------------------------------------------------------------
(* settleExpired: a poll whose window had ended when it was read is closed  *)
(* as of its deadline, and only the handler that flips it goes on to tell   *)
(* the group.                                                              *)

Settle(h, s) ==
  /\ handlers[h].pc = "settle"
  /\ s \in handlers[h].todo
  /\ IF Expired(s) /\ CanFlip(s.id)
     THEN /\ Flip(s.id, Timer, s.closesAt)
          /\ handlers' = [handlers EXCEPT ![h].todo = @ \ {s}, ![h].pc = "announce",
                                          ![h].poll = s.id]
     ELSE /\ handlers' = [handlers EXCEPT ![h].todo = @ \ {s}]
          /\ UNCHANGED polls
  /\ UNCHANGED <<now, votes, announced, failures, unheard>>

\* The notification of every member and the tally sent to the group's room.
TellNobody(p) == UNCHANGED announced
Tell(p) == announced' = [announced EXCEPT ![p] = @ + 1]

Announcing(h) == handlers[h].pc \in {"announce", "announceLast"}

\* The rest of closePollRecord: it looks the poll up again, and gives up if it is gone.
Announce(h) ==
  LET p == handlers[h].poll
  IN  /\ Announcing(h)
      /\ IF Stored(p)
         THEN /\ Tell(p)
              /\ IF handlers[h].pc = "announce" THEN Goto(h, "settle") ELSE Finish(h)
         ELSE /\ Finish(h)
              /\ UNCHANGED announced
      /\ UNCHANGED <<now, polls, votes, failures, unheard>>

----------------------------------------------------------------------------
(* The check on what was read, made as soon as settleExpired returns.      *)

\* Whether the operation goes on to its write.
AllowedUnchecked(h) == handlers[h].op \notin {"pollResults", "sweep"}
Allowed(h) ==
  LET running == \E s \in handlers[h].snaps : Running(s)
  IN  CASE handlers[h].op \in {"vote", "extendPoll"}              -> running
        [] handlers[h].op \in {"openPoll", "deleteFinishedPoll"}  -> ~running
        [] handlers[h].op = "closePoll"                           -> TRUE
        [] handlers[h].op \in {"pollResults", "sweep"}            -> FALSE

\* Bound: the clock stops at Horizon, so the deadlines it never reaches are all one.
Capped(t) == IF t > Horizon THEN Horizon + 1 ELSE t
Later(t, hours) == Capped((IF t > now THEN t ELSE now) + hours)

\* The closesAt that openPoll (which may leave the vote open-ended) or extendPoll stores.
Deadlines(h) ==
  CASE handlers[h].op = "openPoll"   -> {NoTime} \cup {Capped(now + d) : d \in Hours}
    [] handlers[h].op = "extendPoll" -> {Later(s.closesAt, d) : s \in handlers[h].snaps,
                                                                d \in Hours}
    [] OTHER                         -> {NoTime}

Check(h) ==
  /\ handlers[h].pc = "settle"
  /\ handlers[h].todo = {}
  /\ IF Allowed(h)
     THEN \E t \in Deadlines(h) :
            handlers' = [handlers EXCEPT ![h].pc = "write", ![h].deadline = t,
                           ![h].snaps = IF handlers[h].op = "openPoll" THEN @ ELSE {}]
     ELSE Finish(h)
  /\ UNCHANGED <<now, polls, votes, announced, failures, unheard>>

----------------------------------------------------------------------------
(* The final write.  Nothing in it looks at the poll again, except that a   *)
(* row deleted meanwhile makes it fail.                                    *)

Writing(h, op) == handlers[h].pc = "write" /\ handlers[h].op = op

WriteOpen(h, p) ==
  /\ Writing(h, "openPoll")
  /\ polls[p].stored = "never"
  /\ \A q \in 1..(p - 1) : polls[q].stored # "never"
  /\ polls' = [polls EXCEPT ![p] = [NoPoll EXCEPT !.stored = "yes", !.open = TRUE,
                                                  !.closesAt = handlers[h].deadline]]
  /\ Finish(h)
  /\ UNCHANGED <<now, votes, announced, failures, unheard>>

WriteVote(h) ==
  /\ Writing(h, "vote")
  /\ votes' = IF Stored(handlers[h].poll)
              THEN [votes EXCEPT ![handlers[h].poll] = @ \cup {handlers[h].by}] ELSE votes
  /\ Finish(h)
  /\ UNCHANGED <<now, polls, announced, failures, unheard>>

WriteClose(h) ==
  LET p == handlers[h].poll
  IN  /\ Writing(h, "closePoll")
      /\ IF CanFlip(p)
         THEN /\ Flip(p, handlers[h].by, now)
              /\ handlers' = [handlers EXCEPT ![h].pc = "announceLast", ![h].poll = p]
         ELSE /\ Finish(h)
              /\ UNCHANGED polls
      /\ UNCHANGED <<now, votes, announced, failures, unheard>>

WriteExtend(h) ==
  /\ Writing(h, "extendPoll")
  /\ polls' = IF Stored(handlers[h].poll)
              THEN [polls EXCEPT ![handlers[h].poll].closesAt = handlers[h].deadline]
              ELSE polls
  /\ Finish(h)
  /\ UNCHANGED <<now, votes, announced, failures, unheard>>

\* One transaction: the poll goes with its votes (and its options and unused ideas).
DeleteRow(p) == polls' = [polls EXCEPT ![p] = [NoPoll EXCEPT !.stored = "deleted"]]
DeletePollOnly(p) == DeleteRow(p) /\ UNCHANGED votes
DeletePoll(p) == DeleteRow(p) /\ votes' = [votes EXCEPT ![p] = {}]

WriteDelete(h) ==
  /\ Writing(h, "deleteFinishedPoll")
  /\ IF Stored(handlers[h].poll) THEN DeletePoll(handlers[h].poll)
                                 ELSE UNCHANGED <<polls, votes>>
  /\ Finish(h)
  /\ UNCHANGED <<now, announced, failures, unheard>>

Write(h) ==
  \/ \E p \in PollIds : WriteOpen(h, p)
  \/ WriteVote(h)
  \/ WriteClose(h)
  \/ WriteExtend(h)
  \/ WriteDelete(h)

----------------------------------------------------------------------------
\* A database error or the end of the process, at any await.
Fail(h) ==
  /\ handlers[h].pc # "idle"
  /\ failures < MaxFailures
  /\ failures' = failures + 1
  /\ unheard' = IF Announcing(h) THEN unheard \cup {handlers[h].poll} ELSE unheard
  /\ Finish(h)
  /\ UNCHANGED <<now, polls, votes, announced>>

Tick ==
  /\ now < Horizon
  /\ now' = now + 1
  /\ UNCHANGED <<polls, votes, announced, handlers, failures, unheard>>

\* What a handler does by itself once it has begun.
Proceed(h) ==
  \/ \E s \in handlers[h].todo : Settle(h, s)
  \/ Announce(h)
  \/ Check(h)
  \/ Write(h)

Next ==
  \/ \E h \in Requests, op \in Ops, u \in Members, p \in PollIds : ReadPoll(h, op, u, p)
  \/ \E h \in Requests, u \in Members : ReadRunningPolls(h, u)
  \/ \E w \in Sweepers : ReadDuePolls(w)
  \/ \E h \in Handlers : Proceed(h) \/ Fail(h)
  \/ Tick

\* setInterval starts a sweep every 30 s for as long as the process lives, and the event
\* loop resumes every handler whose await has returned.  Users need not do anything.
Fairness ==
  /\ \A w \in Sweepers : WF_vars(ReadDuePolls(w))
  /\ \A h \in Handlers : WF_vars(Proceed(h))

Spec     == Init /\ [][Next]_vars
FairSpec == Spec /\ Fairness

----------------------------------------------------------------------------
TypeOK ==
  /\ now \in 0..Horizon
  /\ polls \in [PollIds -> Poll]
  /\ votes \in [PollIds -> SUBSET Members]
  /\ announced \in [PollIds -> Nat]
  /\ handlers \in [Handlers -> Handler]
  /\ failures \in 0..MaxFailures /\ unheard \subseteq PollIds

Closed(p) == Stored(p) /\ ~polls[p].open

\* A closing record tells what happened, however settleExpired, closePoll and extendPoll
\* race: a closed poll was closed by a leader or by its deadline, not in the future, and a
\* poll that was never closed carries no closing record.
ClosingRecordTruthful ==
  \A p \in PollIds :
    IF Closed(p) THEN polls[p].closedBy \in Closers /\ polls[p].closedAt \in 0..now
                     ELSE polls[p].closedBy = Nobody /\ polls[p].closedAt = NoTime

\* Deleting a poll takes its votes along, and no vote in flight (read before, written
\* after the deletion) leaves a row behind.
NoOrphanVotes == \A p \in PollIds : votes[p] # {} => Stored(p)

\* What remains true of "one vote at a time" (openPoll only checks what it read): a new poll
\* joins one that is still running only if that one was opened, or given another deadline,
\* after the request had read the running polls.
OverlapOnlyByRace ==
  [][\A h \in Requests, p, q \in PollIds :
       WriteOpen(h, p) /\ p # q /\ Stored(q) /\ Running(Snap(q))
         => Snap(q) \notin handlers[h].snaps]_vars

\* The phases of PollLifecycle, read off the table.  The property says that however the
\* leader, late voters and several sweeps race, a poll closes once, its record is final and
\* the group is told at most once (closePollRecord's update-where-open).
Phase(p) == IF polls[p].stored = "never" THEN "unused"
            ELSE IF polls[p].stored = "deleted" THEN "removed"
            ELSE IF polls[p].open THEN "open" ELSE "closed"
Outcome(p) == [by |-> polls[p].closedBy, at |-> polls[p].closedAt]

Lifecycle == INSTANCE PollLifecycle WITH
  Polls    <- PollIds,
  Outcomes <- [by : Closers, at : 0..Horizon],
  Pending  <- [by |-> Nobody, at |-> NoTime],
  phase    <- [p \in PollIds |-> Phase(p)],
  outcome  <- [p \in PollIds |-> Outcome(p)],
  told     <- announced

ImplementsLifecycle == Lifecycle!Spec

\* The timer sweep: a poll whose window has ended does not stay open in the table, though
\* a sweep takes a batch at a time and may fail half-way (unless it is extended).
Due(p) == Stored(p) /\ polls[p].open /\ polls[p].closesAt \in 0..now
DuePollsGetSettled == \A p \in PollIds : Due(p) ~> ~Due(p)

\* The group hears of every close, unless the poll is deleted first or the handler that
\* flipped it failed before it could tell (nothing announces it later).
GroupHearsOfClose ==
  \A p \in PollIds : Closed(p) ~> (announced[p] > 0 \/ ~Stored(p) \/ p \in unheard)

\* poll-window.spec.ts:60: a vote is refused on a poll that was closed.
VotesRefusedOnClosedPoll ==
  [][\A p \in PollIds : Closed(p) => votes'[p] \subseteq votes[p]]_vars
=============================================================================
