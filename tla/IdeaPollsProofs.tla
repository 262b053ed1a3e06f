-------------------------- MODULE IdeaPollsProofs --------------------------
(***************************************************************************)
(* What IdeaPolls promises for any number of members, requests, sweepers    *)
(* and polls.  The argument: only one handler at a time can be about to     *)
(* tell the group that a given poll closed (Inv), because becoming that     *)
(* handler takes flipping the row, which a closed poll no longer allows.    *)
(***************************************************************************)
EXTENDS IdeaPolls, TLAPS

\* A handler that is about to tell the group of a close has closed that poll, nobody has
\* told the group yet, and no other handler is about to.
AnnouncerFlipped ==
  \A h \in Handlers : Announcing(h) =>
    /\ handlers[h].poll \in PollIds
    /\ polls[handlers[h].poll].stored # "never"
    /\ ~polls[handlers[h].poll].open
    /\ announced[handlers[h].poll] = 0
OneAnnouncer ==
  \A g, h \in Handlers :
    Announcing(g) /\ Announcing(h) /\ handlers[g].poll = handlers[h].poll => g = h

\* The group has been told of closed (perhaps since deleted) polls, once.
ToldOfClosed ==
  \A p \in PollIds :
    \/ announced[p] = 0
    \/ announced[p] = 1 /\ polls[p].stored # "never" /\ ~polls[p].open

\* A handler that names a poll keeps naming it, and what only leaders may ask, a leader asked.
NamesPoll ==
  \A h \in Handlers :
    /\ handlers[h].op \notin {"openPoll", "sweep"} => handlers[h].poll \in PollIds
    /\ handlers[h].op # "sweep" => handlers[h].by \in Members
    /\ handlers[h].op \in LeaderOnly => handlers[h].by \in Leaders

\* Only stored polls can be open.
OpenIsStored == \A p \in PollIds : polls[p].open => polls[p].stored = "yes"

Inv == /\ TypeOK
       /\ AnnouncerFlipped
       /\ OneAnnouncer
       /\ ToldOfClosed
       /\ NamesPoll
       /\ OpenIsStored
       /\ ClosingRecordTruthful
       /\ NoOrphanVotes

----------------------------------------------------------------------------
LEMMA IdleTyped == Idle \in Handler /\ Idle.pc = "idle" /\ Idle.op = "sweep"
  BY DEF Idle, Handler, Ops, Times

LEMMA NoPollTyped ==
  /\ NoPoll \in Poll /\ NoPoll.stored = "never" /\ NoPoll.open = FALSE
  /\ NoPoll.closedBy = Nobody /\ NoPoll.closedAt = NoTime
  BY DEF NoPoll, Poll, Times, Closers

LEMMA InitInv == Init => Inv
<1> SUFFICES ASSUME Init PROVE Inv
  OBVIOUS
<1>1. TypeOK
  BY PollAssumption, IdleTyped, NoPollTyped DEF Init, TypeOK
<1>2. AnnouncerFlipped /\ OneAnnouncer /\ ToldOfClosed /\ NamesPoll
  BY IdleTyped DEF Init, AnnouncerFlipped, OneAnnouncer, ToldOfClosed, NamesPoll,
                   Announcing, LeaderOnly
<1>3. OpenIsStored /\ ClosingRecordTruthful /\ NoOrphanVotes
  BY NoPollTyped DEF Init, OpenIsStored, ClosingRecordTruthful, NoOrphanVotes, Closed, Stored
<1>4. QED
  BY <1>1, <1>2, <1>3 DEF Inv

\* A handler that starts has read polls and announces nothing.
LEMMA StartInv ==
  ASSUME Inv, NEW h \in Handlers, NEW op \in Ops, NEW u \in Members \cup {Timer},
         NEW p \in PollIds \cup {0}, NEW ss \in SUBSET Snapshot,
         Start(h, op, u, p, ss), UNCHANGED <<now, polls, votes, announced, failures, unheard>>,
         op \notin {"openPoll", "sweep"} => p \in PollIds,
         op # "sweep" => u \in Members,
         op \in LeaderOnly => u \in Leaders
  PROVE  Inv'
<1>1. TypeOK'
  BY DEF Inv, TypeOK, Start, Handler, Times
<1>2. AnnouncerFlipped' /\ OneAnnouncer' /\ ToldOfClosed' /\ NamesPoll'
  BY DEF Inv, TypeOK, Start, AnnouncerFlipped, OneAnnouncer, ToldOfClosed, NamesPoll,
         Announcing
<1>3. OpenIsStored' /\ ClosingRecordTruthful' /\ NoOrphanVotes'
  BY DEF Inv, OpenIsStored, ClosingRecordTruthful, NoOrphanVotes, Closed, Stored
<1>4. QED
  BY <1>1, <1>2, <1>3 DEF Inv

\* The step that closes a poll: the row is flipped, and the handler that flipped it is the
\* only one that will tell the group.
LEMMA FlipInv ==
  ASSUME Inv, NEW h \in Handlers, NEW p \in PollIds, NEW by \in Closers, NEW at \in 0..now,
         NEW r \in Handler, CanFlip(p), ~Announcing(h), Flip(p, by, at),
         handlers' = [handlers EXCEPT ![h] = r],
         r.pc \in {"announce", "announceLast"}, r.poll = p,
         r.op = handlers[h].op, r.by = handlers[h].by,
         UNCHANGED <<now, votes, announced, failures, unheard>>
  PROVE  Inv'
<1> DEFINE row == [polls[p] EXCEPT !.open = FALSE, !.closedAt = at, !.closedBy = by]
<1>1. polls[p] \in Poll /\ polls[p].open /\ polls[p].stored = "yes" /\ at \in Times
  BY PollAssumption DEF CanFlip, Stored, Inv, TypeOK, Times
<1>2. /\ row \in Poll /\ row.stored = "yes" /\ row.open = FALSE
      /\ row.closedAt = at /\ row.closedBy = by
  BY <1>1 DEF Poll, Closers
<1>3. polls' = [polls EXCEPT ![p] = row]
  BY DEF Flip
<1> HIDE DEF row
<1>4. /\ polls' \in [PollIds -> Poll] /\ polls'[p] = row
      /\ \A q \in PollIds \ {p} : polls'[q] = polls[q]
  BY <1>2, <1>3 DEF Inv, TypeOK
<1>5. /\ handlers' \in [Handlers -> Handler] /\ handlers'[h] = r
      /\ \A g \in Handlers \ {h} : handlers'[g] = handlers[g]
  BY DEF Inv, TypeOK
<1>6. TypeOK'
  BY <1>4, <1>5 DEF Inv, TypeOK
<1>7. ~\E g \in Handlers : Announcing(g) /\ handlers[g].poll = p
  BY <1>1 DEF Inv, AnnouncerFlipped
<1>8. announced[p] = 0
  BY <1>1 DEF Inv, ToldOfClosed
<1>9. AnnouncerFlipped'
  BY <1>2, <1>4, <1>5, <1>8 DEF Inv, AnnouncerFlipped, Announcing
<1>10. OneAnnouncer'
  BY <1>5, <1>7 DEF Inv, OneAnnouncer, Announcing
<1>11. ToldOfClosed' /\ OpenIsStored'
  BY <1>2, <1>4 DEF Inv, ToldOfClosed, OpenIsStored
<1>12. NamesPoll'
  BY <1>5 DEF Inv, NamesPoll
<1>13. ClosingRecordTruthful' /\ NoOrphanVotes'
  BY <1>1, <1>2, <1>4 DEF Inv, ClosingRecordTruthful, NoOrphanVotes, Closed, Stored
<1>14. QED
  BY <1>6, <1>9, <1>10, <1>11, <1>12, <1>13 DEF Inv

LEMMA SettleInv ==
  ASSUME Inv, NEW h \in Handlers, NEW s \in handlers[h].todo, Settle(h, s)
  PROVE  Inv'
<1> s \in Snapshot /\ handlers[h].pc = "settle"
  BY DEF Inv, TypeOK, Handler, Settle
<1>1. CASE Expired(s) /\ CanFlip(s.id)
  <2> DEFINE r == [handlers[h] EXCEPT !.todo = @ \ {s}, !.pc = "announce", !.poll = s.id]
  <2>1. s.id \in PollIds /\ s.closesAt \in 0..now /\ Timer \in Closers
    BY <1>1, PollAssumption DEF Expired, Snapshot, Times, NoTime, Inv, TypeOK, Closers
  <2>2. /\ r \in Handler /\ r.pc = "announce" /\ r.poll = s.id
        /\ r.op = handlers[h].op /\ r.by = handlers[h].by
    BY <2>1 DEF Inv, TypeOK, Handler
  <2>3. /\ Flip(s.id, Timer, s.closesAt) /\ handlers' = [handlers EXCEPT ![h] = r]
        /\ UNCHANGED <<now, votes, announced, failures, unheard>>
    BY <1>1 DEF Settle
  <2> HIDE DEF r
  <2>4. QED
    BY <1>1, <2>1, <2>2, <2>3, FlipInv DEF Announcing
<1>2. CASE ~(Expired(s) /\ CanFlip(s.id))
  <2>1. /\ handlers' = [handlers EXCEPT ![h].todo = @ \ {s}]
        /\ UNCHANGED <<now, polls, votes, announced, failures, unheard>>
    BY <1>2 DEF Settle
  <2>2. TypeOK'
    BY <2>1 DEF Inv, TypeOK, Handler
  <2>3. AnnouncerFlipped' /\ OneAnnouncer' /\ ToldOfClosed' /\ NamesPoll'
    BY <2>1 DEF Inv, TypeOK, AnnouncerFlipped, OneAnnouncer, ToldOfClosed, NamesPoll,
                Announcing, Handler
  <2>4. OpenIsStored' /\ ClosingRecordTruthful' /\ NoOrphanVotes'
    BY <2>1 DEF Inv, OpenIsStored, ClosingRecordTruthful, NoOrphanVotes, Closed, Stored
  <2>5. QED
    BY <2>2, <2>3, <2>4 DEF Inv
<1>3. QED
  BY <1>1, <1>2

\* A handler that ends, having written nothing.
LEMMA FinishInv ==
  ASSUME Inv, NEW h \in Handlers, Finish(h),
         UNCHANGED <<now, polls, votes, announced>>, failures' \in 0..MaxFailures,
         unheard' \subseteq PollIds
  PROVE  Inv'
<1>1. TypeOK'
  BY IdleTyped DEF Inv, TypeOK, Finish
<1>2. AnnouncerFlipped' /\ OneAnnouncer' /\ ToldOfClosed' /\ NamesPoll'
  BY IdleTyped DEF Inv, TypeOK, Finish, AnnouncerFlipped, OneAnnouncer, ToldOfClosed,
                   NamesPoll, Announcing, LeaderOnly
<1>3. OpenIsStored' /\ ClosingRecordTruthful' /\ NoOrphanVotes'
  BY DEF Inv, OpenIsStored, ClosingRecordTruthful, NoOrphanVotes, Closed, Stored
<1>4. QED
  BY <1>1, <1>2, <1>3 DEF Inv

LEMMA AnnounceInv ==
  ASSUME Inv, NEW h \in Handlers, Announce(h)
  PROVE  Inv'
<1> DEFINE p == handlers[h].poll
<1>1. /\ p \in PollIds /\ polls[p].stored # "never" /\ ~polls[p].open
      /\ announced[p] = 0 /\ Announcing(h)
  BY DEF Inv, AnnouncerFlipped, Announce, Announcing
<1>2. CASE Stored(p)
  <2>1. /\ announced' = [announced EXCEPT ![p] = 1]
        /\ UNCHANGED <<now, polls, votes, failures, unheard>>
    BY <1>1, <1>2 DEF Announce, Tell, Inv, TypeOK
  <2>2. /\ handlers' \in [Handlers -> Handler]
        /\ ~Announcing(h)'
        /\ \A g \in Handlers \ {h} : handlers'[g] = handlers[g]
        /\ NamesPoll'
    <3>1. CASE Goto(h, "settle")
      BY <3>1 DEF Goto, Inv, TypeOK, Handler, NamesPoll, Announcing
    <3>2. CASE Finish(h)
      BY <3>2, IdleTyped DEF Finish, Inv, TypeOK, NamesPoll, Announcing, LeaderOnly
    <3>3. QED
      BY <1>2, <3>1, <3>2 DEF Announce
  <2>3. TypeOK'
    BY <2>1, <2>2 DEF Inv, TypeOK
  <2>4. OneAnnouncer'
    BY <2>2 DEF Inv, OneAnnouncer, Announcing
  <2>5. AnnouncerFlipped'
    BY <1>1, <2>1, <2>2 DEF Inv, TypeOK, AnnouncerFlipped, OneAnnouncer, Announcing
  <2>6. ToldOfClosed'
    BY <1>1, <2>1 DEF Inv, TypeOK, ToldOfClosed
  <2>7. OpenIsStored' /\ ClosingRecordTruthful' /\ NoOrphanVotes'
    BY <2>1 DEF Inv, OpenIsStored, ClosingRecordTruthful, NoOrphanVotes, Closed, Stored
  <2>8. QED
    BY <2>2, <2>3, <2>4, <2>5, <2>6, <2>7 DEF Inv
<1>3. CASE ~Stored(p)
  BY <1>3, FinishInv DEF Announce, Inv, TypeOK
<1>4. QED
  BY <1>2, <1>3

LEMMA DeadlineTyped ==
  ASSUME TypeOK, NEW h \in Handlers, NEW t \in Deadlines(h)
  PROVE  t \in Times
<1>1. ASSUME NEW n \in Nat PROVE Capped(n) \in Times
  BY PollAssumption DEF Capped, Times
<1>2. CASE handlers[h].op = "openPoll"
  BY <1>1, <1>2, PollAssumption DEF Deadlines, Times, TypeOK
<1>3. CASE handlers[h].op = "extendPoll"
  <2>1. PICK s \in handlers[h].snaps, d \in Hours : t = Later(s.closesAt, d)
    BY <1>3 DEF Deadlines
  <2>2. s.closesAt \in Times
    BY DEF TypeOK, Handler, Snapshot
  <2>3. QED
    BY <1>1, <2>1, <2>2, PollAssumption DEF Later, Times, NoTime, TypeOK
<1>4. CASE handlers[h].op \notin {"openPoll", "extendPoll"}
  BY <1>4 DEF Deadlines, Times
<1>5. QED
  BY <1>2, <1>3, <1>4

LEMMA CheckInv ==
  ASSUME Inv, NEW h \in Handlers, Check(h)
  PROVE  Inv'
<1>1. CASE Finish(h)
  BY <1>1, FinishInv DEF Check, Inv, TypeOK
<1>2. CASE ~Finish(h)
  <2>1. PICK t \in Deadlines(h) :
          handlers' = [handlers EXCEPT ![h].pc = "write", ![h].deadline = t,
                         ![h].snaps = IF handlers[h].op = "openPoll" THEN @ ELSE {}]
    BY <1>2 DEF Check
  <2>2. UNCHANGED <<now, polls, votes, announced, failures, unheard>> /\ t \in Times
    BY DeadlineTyped DEF Check, Inv
  <2>3. TypeOK'
    <3>1. PICK ss \in SUBSET Snapshot :
            handlers' = [handlers EXCEPT ![h].pc = "write", ![h].deadline = t, ![h].snaps = ss]
      <4>1. handlers[h].snaps \in SUBSET Snapshot /\ {} \in SUBSET Snapshot
        BY DEF Inv, TypeOK, Handler
      <4>2. QED
        BY <2>1, <4>1
    <3>2. h \in DOMAIN handlers /\ handlers[h] \in Handler
      BY DEF Inv, TypeOK
    <3>3. [handlers[h] EXCEPT !.pc = "write", !.deadline = t, !.snaps = ss] \in Handler
      BY <2>2, <3>2 DEF Handler
    <3>4. handlers' = [handlers EXCEPT ![h] =
                        [handlers[h] EXCEPT !.pc = "write", !.deadline = t, !.snaps = ss]]
      BY <3>1, <3>2
    <3>5. QED
      BY <2>2, <3>3, <3>4 DEF Inv, TypeOK
  <2>4. AnnouncerFlipped' /\ OneAnnouncer' /\ ToldOfClosed' /\ NamesPoll'
    BY <2>1, <2>2 DEF Inv, TypeOK, AnnouncerFlipped, OneAnnouncer, ToldOfClosed, NamesPoll,
                      Announcing, Handler
  <2>5. OpenIsStored' /\ ClosingRecordTruthful' /\ NoOrphanVotes'
    BY <2>2 DEF Inv, OpenIsStored, ClosingRecordTruthful, NoOrphanVotes, Closed, Stored
  <2>6. QED
    BY <2>3, <2>4, <2>5 DEF Inv
<1>3. QED
  BY <1>1, <1>2

\* Every final write but a leader's close ends its handler, so that of the invariant only
\* what concerns the tables is left to show.
LEMMA LastWrite ==
  ASSUME Inv, NEW h \in Handlers, Finish(h), UNCHANGED <<now, announced, failures, unheard>>,
         handlers[h].pc = "write",
         polls' \in [PollIds -> Poll], votes' \in [PollIds -> SUBSET Members],
         \A p \in PollIds :
           polls[p].stored # "never" /\ ~polls[p].open =>
             polls'[p].stored # "never" /\ ~polls'[p].open,
         OpenIsStored', ClosingRecordTruthful', NoOrphanVotes'
  PROVE  Inv'
<1>1. TypeOK'
  BY IdleTyped DEF Inv, TypeOK, Finish
<1>2. ~Announcing(h)' /\ \A g \in Handlers \ {h} : handlers'[g] = handlers[g]
  BY IdleTyped DEF Inv, TypeOK, Finish, Announcing
<1>3. AnnouncerFlipped' /\ OneAnnouncer'
  BY <1>2 DEF Inv, AnnouncerFlipped, OneAnnouncer, Announcing
<1>4. ToldOfClosed'
  BY DEF Inv, ToldOfClosed
<1>5. NamesPoll'
  BY IdleTyped DEF Inv, TypeOK, Finish, NamesPoll, LeaderOnly
<1>6. QED
  BY <1>1, <1>3, <1>4, <1>5 DEF Inv

LEMMA WriteOpenInv ==
  ASSUME Inv, NEW h \in Handlers, NEW p \in PollIds, WriteOpen(h, p)
  PROVE  Inv'
<1> DEFINE row == [NoPoll EXCEPT !.stored = "yes", !.open = TRUE,
                                 !.closesAt = handlers[h].deadline]
<1>1. /\ row \in Poll /\ row.stored = "yes" /\ row.open = TRUE
      /\ row.closedBy = Nobody /\ row.closedAt = NoTime
  BY DEF Inv, TypeOK, Handler, NoPoll, Poll, Times, Closers
<1>2. polls' = [polls EXCEPT ![p] = row] /\ polls[p].stored = "never"
  BY DEF WriteOpen
<1> HIDE DEF row
<1>3. OpenIsStored' /\ ClosingRecordTruthful' /\ NoOrphanVotes'
  BY <1>1, <1>2 DEF WriteOpen, Inv, TypeOK, OpenIsStored, ClosingRecordTruthful,
                    NoOrphanVotes, Closed, Stored
<1>4. /\ polls' \in [PollIds -> Poll] /\ votes' \in [PollIds -> SUBSET Members]
      /\ \A q \in PollIds : polls[q].stored # "never" => polls'[q] = polls[q]
  BY <1>1, <1>2 DEF WriteOpen, Inv, TypeOK
<1>5. QED
  BY <1>3, <1>4, LastWrite DEF WriteOpen, Writing

LEMMA WriteVoteInv ==
  ASSUME Inv, NEW h \in Handlers, WriteVote(h)
  PROVE  Inv'
<1>1. handlers[h].by \in Members /\ handlers[h].poll \in PollIds
  BY DEF WriteVote, Writing, Inv, NamesPoll
<1>2. votes' \in [PollIds -> SUBSET Members] /\ NoOrphanVotes'
  BY <1>1 DEF WriteVote, Inv, TypeOK, NoOrphanVotes, Stored
<1>3. OpenIsStored' /\ ClosingRecordTruthful'
  BY DEF WriteVote, Inv, OpenIsStored, ClosingRecordTruthful, Closed, Stored
<1>4. QED
  BY <1>2, <1>3, LastWrite DEF WriteVote, Writing, Inv, TypeOK

LEMMA WriteExtendInv ==
  ASSUME Inv, NEW h \in Handlers, WriteExtend(h)
  PROVE  Inv'
<1> DEFINE p == handlers[h].poll
<1>1. p \in PollIds /\ handlers[h].deadline \in Times
  BY DEF WriteExtend, Writing, Inv, NamesPoll, TypeOK, Handler
<1>2. /\ polls' \in [PollIds -> Poll]
      /\ \A q \in PollIds :
           /\ polls'[q].stored = polls[q].stored /\ polls'[q].open = polls[q].open
           /\ polls'[q].closedBy = polls[q].closedBy /\ polls'[q].closedAt = polls[q].closedAt
  BY <1>1 DEF WriteExtend, Inv, TypeOK, Poll
<1>3. OpenIsStored' /\ ClosingRecordTruthful' /\ NoOrphanVotes'
  BY <1>2 DEF WriteExtend, Inv, OpenIsStored, ClosingRecordTruthful, NoOrphanVotes, Closed,
              Stored
<1>4. QED
  BY <1>2, <1>3, LastWrite DEF WriteExtend, Writing, Inv, TypeOK

LEMMA WriteDeleteInv ==
  ASSUME Inv, NEW h \in Handlers, WriteDelete(h)
  PROVE  Inv'
<1> DEFINE p == handlers[h].poll
           row == [NoPoll EXCEPT !.stored = "deleted"]
<1>1. p \in PollIds
  BY DEF WriteDelete, Writing, Inv, NamesPoll
<1>2. CASE Stored(p)
  <2>1. /\ row \in Poll /\ row.stored = "deleted" /\ row.open = FALSE
        /\ row.closedBy = Nobody /\ row.closedAt = NoTime
    BY DEF NoPoll, Poll, Times, Closers
  <2>2. polls' = [polls EXCEPT ![p] = row] /\ votes' = [votes EXCEPT ![p] = {}]
    BY <1>2 DEF WriteDelete, DeletePoll, DeleteRow
  <2> HIDE DEF row
  <2>3. OpenIsStored' /\ ClosingRecordTruthful' /\ NoOrphanVotes'
    BY <1>1, <2>1, <2>2 DEF WriteDelete, Inv, TypeOK, OpenIsStored, ClosingRecordTruthful,
                            NoOrphanVotes, Closed, Stored
  <2>4. /\ polls' \in [PollIds -> Poll] /\ votes' \in [PollIds -> SUBSET Members]
        /\ \A q \in PollIds : q # p => polls'[q] = polls[q]
        /\ polls'[p].stored = "deleted" /\ ~polls'[p].open
    BY <1>1, <2>1, <2>2 DEF Inv, TypeOK
  <2>5. QED
    BY <2>3, <2>4, LastWrite DEF WriteDelete, Writing
<1>3. CASE ~Stored(p)
  BY <1>3, FinishInv DEF WriteDelete, Inv, TypeOK
<1>4. QED
  BY <1>2, <1>3

LEMMA WriteCloseInv ==
  ASSUME Inv, NEW h \in Handlers, WriteClose(h)
  PROVE  Inv'
<1> DEFINE p == handlers[h].poll
<1>1. p \in PollIds /\ handlers[h].by \in Leaders /\ handlers[h].pc = "write"
  BY DEF WriteClose, Writing, Inv, NamesPoll, LeaderOnly
<1>2. CASE CanFlip(p)
  <2> DEFINE r == [handlers[h] EXCEPT !.pc = "announceLast", !.poll = p]
  <2>1. now \in 0..now /\ handlers[h].by \in Closers
    BY <1>1 DEF Inv, TypeOK, Closers
  <2>2. /\ r \in Handler /\ r.pc = "announceLast" /\ r.poll = p
        /\ r.op = handlers[h].op /\ r.by = handlers[h].by
    BY <1>1 DEF Inv, TypeOK, Handler
  <2>3. /\ Flip(p, handlers[h].by, now) /\ handlers' = [handlers EXCEPT ![h] = r]
        /\ UNCHANGED <<now, votes, announced, failures, unheard>>
    BY <1>2 DEF WriteClose
  <2> HIDE DEF r
  <2>4. QED
    BY <1>1, <1>2, <2>1, <2>2, <2>3, FlipInv DEF Announcing
<1>3. CASE ~CanFlip(p)
  BY <1>3, FinishInv DEF WriteClose, Inv, TypeOK
<1>4. QED
  BY <1>2, <1>3

\* The reads that begin an operation: what is read is a set of snapshots.
LEMMA ReadInv ==
  ASSUME Inv
  PROVE  /\ \A h \in Requests, op \in Ops, u \in Members, p \in PollIds :
              ReadPoll(h, op, u, p) => Inv'
         /\ \A h \in Requests, u \in Members : ReadRunningPolls(h, u) => Inv'
         /\ \A w \in Sweepers : ReadDuePolls(w) => Inv'
<1>1. \A p \in PollIds : Snap(p) \in Snapshot
  BY DEF Snap, Snapshot, Inv, TypeOK, Poll
<1>2. ASSUME NEW h \in Requests, NEW op \in Ops, NEW u \in Members, NEW p \in PollIds,
             ReadPoll(h, op, u, p)
      PROVE  Inv'
  <2>1. {Snap(p)} \in SUBSET Snapshot
    BY <1>1
  <2>2. Start(h, op, u, p, {Snap(p)})
    BY <1>2 DEF ReadPoll
  <2>3. QED
    BY <1>2, <2>1, <2>2, StartInv DEF ReadPoll, Handlers
<1>3. ASSUME NEW h \in Requests, NEW u \in Members, ReadRunningPolls(h, u)
      PROVE  Inv'
  <2> DEFINE ss == {Snap(p) : p \in {q \in PollIds : Stored(q) /\ polls[q].open}}
  <2>1. ss \in SUBSET Snapshot
    BY <1>1
  <2>2. Start(h, "openPoll", u, 0, ss)
    BY <1>3 DEF ReadRunningPolls
  <2> HIDE DEF ss
  <2>3. QED
    BY <1>3, <2>1, <2>2, StartInv DEF ReadRunningPolls, Handlers, Ops, LeaderOnly
<1>4. ASSUME NEW w \in Sweepers, ReadDuePolls(w)
      PROVE  Inv'
  <2>1. PICK batch \in SUBSET DuePolls : Start(w, "sweep", Timer, 0, {Snap(p) : p \in batch})
    BY <1>4 DEF ReadDuePolls
  <2> DEFINE ss == {Snap(p) : p \in batch}
  <2>2. ss \in SUBSET Snapshot
    BY <1>1 DEF DuePolls
  <2>3. Start(w, "sweep", Timer, 0, ss)
    BY <2>1
  <2> HIDE DEF ss
  <2>4. QED
    BY <1>4, <2>2, <2>3, StartInv DEF ReadDuePolls, Handlers, Ops, LeaderOnly
<1>5. QED
  BY <1>2, <1>3, <1>4

LEMMA TickInv ==
  ASSUME Inv, Tick
  PROVE  Inv'
<1>1. TypeOK'
  BY PollAssumption DEF Inv, TypeOK, Tick
<1>2. AnnouncerFlipped' /\ OneAnnouncer' /\ ToldOfClosed' /\ NamesPoll' /\ OpenIsStored'
  BY DEF Inv, Tick, AnnouncerFlipped, OneAnnouncer, ToldOfClosed, NamesPoll, OpenIsStored,
         Announcing
<1>3. ClosingRecordTruthful' /\ NoOrphanVotes'
  BY DEF Inv, TypeOK, Tick, ClosingRecordTruthful, NoOrphanVotes, Closed, Stored
<1>4. QED
  BY <1>1, <1>2, <1>3 DEF Inv

LEMMA StutterInv ==
  ASSUME Inv, UNCHANGED vars
  PROVE  Inv'
BY DEF Inv, vars, TypeOK, AnnouncerFlipped, OneAnnouncer, ToldOfClosed, NamesPoll,
       OpenIsStored, ClosingRecordTruthful, NoOrphanVotes, Announcing, Closed, Stored

LEMMA NextInv == Inv /\ [Next]_vars => Inv'
<1> SUFFICES ASSUME Inv, [Next]_vars PROVE Inv'
  OBVIOUS
<1>1. CASE UNCHANGED vars
  BY <1>1, StutterInv
<1>2. CASE Tick
  BY <1>2, TickInv
<1>3. ASSUME NEW h \in Handlers, Proceed(h) PROVE Inv'
  BY <1>3, SettleInv, AnnounceInv, CheckInv, WriteOpenInv, WriteVoteInv, WriteCloseInv,
     WriteExtendInv, WriteDeleteInv DEF Proceed, Write
<1>4. ASSUME NEW h \in Handlers, Fail(h) PROVE Inv'
  <2>1. failures' \in 0..MaxFailures
    BY <1>4, PollAssumption DEF Fail, Inv, TypeOK
  <2>2. unheard' \subseteq PollIds
    BY <1>4 DEF Fail, Inv, TypeOK, AnnouncerFlipped
  <2>3. QED
    BY <1>4, <2>1, <2>2, FinishInv DEF Fail
<1>5. QED
  BY <1>1, <1>2, <1>3, <1>4, ReadInv DEF Next

\* The strengthening holds in every reachable state.
THEOREM InvAlways == Spec => []Inv
<1>1. QED
  BY InitInv, NextInv, PTL DEF Spec

\* Every variable keeps its type: in particular only a leader or the timer ever closes a
\* poll, and only members' votes are stored.
THEOREM TypeCorrect == Spec => []TypeOK
<1>1. Inv => TypeOK
  BY DEF Inv
<1>2. QED
  BY <1>1, InvAlways, PTL

\* Closing records are truthful (settleExpired, closePoll, extendPoll in any interleaving).
THEOREM RecordsTruthful == Spec => []ClosingRecordTruthful
<1>1. Inv => ClosingRecordTruthful
  BY DEF Inv
<1>2. QED
  BY <1>1, InvAlways, PTL

\* No vote outlives its poll (vote against deleteFinishedPoll).
THEOREM VotesHavePolls == Spec => []NoOrphanVotes
<1>1. Inv => NoOrphanVotes
  BY DEF Inv
<1>2. QED
  BY <1>1, InvAlways, PTL

----------------------------------------------------------------------------
(* Every step is a step of PollLifecycle, or leaves its state alone.       *)

LifecycleStep == [Lifecycle!Next]_(Lifecycle!lifecycleVars)

LEMMA SameLifecycle ==
  ASSUME UNCHANGED announced,
         \A p \in PollIds : Phase(p)' = Phase(p) /\ Outcome(p)' = Outcome(p)
  PROVE  LifecycleStep
BY DEF LifecycleStep, Lifecycle!lifecycleVars

LEMMA SamePolls ==
  ASSUME UNCHANGED <<polls, announced>>
  PROVE  LifecycleStep
BY SameLifecycle DEF Phase, Outcome

\* Flipping an open row is a Close.
LEMMA FlipCloses ==
  ASSUME Inv, NEW p \in PollIds, NEW by \in Closers, NEW at \in 0..now,
         CanFlip(p), Flip(p, by, at), UNCHANGED announced
  PROVE  LifecycleStep
<1> DEFINE o == [by |-> by, at |-> at]
<1>1. /\ Phase(p) = "open" /\ Phase(p)' = "closed" /\ Outcome(p)' = o
      /\ \A q \in PollIds \ {p} : Phase(q)' = Phase(q) /\ Outcome(q)' = Outcome(q)
  BY DEF CanFlip, Flip, Stored, Inv, TypeOK, Poll, Phase, Outcome
<1>2. o \in [by : Closers, at : 0..Horizon]
  BY PollAssumption DEF Inv, TypeOK
<1>3. Lifecycle!Close(p)
  BY <1>1, <1>2 DEF Lifecycle!Close
<1>4. QED
  BY <1>3 DEF LifecycleStep, Lifecycle!Next

\* Telling the group is an Announce, and happens to a closed poll it was not told of.
LEMMA TellAnnounces ==
  ASSUME Inv, NEW h \in Handlers, Announce(h)
  PROVE  LifecycleStep
<1> DEFINE p == handlers[h].poll
<1>1. p \in PollIds /\ ~polls[p].open /\ announced[p] = 0 /\ UNCHANGED polls
  BY DEF Inv, AnnouncerFlipped, Announce, Announcing
<1>2. CASE Stored(p)
  <2>1. Phase(p) = "closed" /\ announced' = [announced EXCEPT ![p] = 1]
    BY <1>1, <1>2 DEF Stored, Phase, Announce, Tell, Inv, TypeOK
  <2>2. \A q \in PollIds : Phase(q)' = Phase(q) /\ Outcome(q)' = Outcome(q)
    BY <1>1 DEF Phase, Outcome
  <2>3. Lifecycle!Announce(p)
    BY <1>1, <2>1, <2>2 DEF Lifecycle!Announce
  <2>4. QED
    BY <1>1, <2>3 DEF LifecycleStep, Lifecycle!Next
<1>3. CASE ~Stored(p)
  BY <1>1, <1>3, SamePolls DEF Announce
<1>4. QED
  BY <1>2, <1>3

LEMMA WriteSteps ==
  ASSUME Inv, NEW h \in Handlers, Write(h)
  PROVE  LifecycleStep
<1>1. ASSUME NEW p \in PollIds, WriteOpen(h, p) PROVE LifecycleStep
  <2>1. /\ Phase(p) = "unused" /\ Phase(p)' = "open" /\ Outcome(p)' = Outcome(p)
        /\ \A q \in PollIds \ {p} : Phase(q)' = Phase(q) /\ Outcome(q)' = Outcome(q)
    BY <1>1 DEF WriteOpen, Inv, TypeOK, Poll, Phase, Outcome, NoPoll, ClosingRecordTruthful,
                Closed, Stored
  <2>2. Lifecycle!Open(p)
    BY <1>1, <2>1 DEF Lifecycle!Open, WriteOpen
  <2>3. QED
    BY <2>2 DEF LifecycleStep, Lifecycle!Next
<1>2. CASE WriteVote(h)
  BY <1>2, SamePolls DEF WriteVote
<1>3. CASE WriteClose(h)
  <2>1. handlers[h].poll \in PollIds /\ handlers[h].by \in Closers /\ now \in 0..now
    BY <1>3 DEF WriteClose, Writing, Inv, TypeOK, NamesPoll, LeaderOnly, Closers
  <2>2. CASE CanFlip(handlers[h].poll)
    BY <1>3, <2>1, <2>2, FlipCloses DEF WriteClose
  <2>3. CASE ~CanFlip(handlers[h].poll)
    BY <1>3, <2>3, SamePolls DEF WriteClose
  <2>4. QED
    BY <2>2, <2>3
<1>4. CASE WriteExtend(h)
  <2>1. \A q \in PollIds : Phase(q)' = Phase(q) /\ Outcome(q)' = Outcome(q)
    BY <1>4 DEF WriteExtend, Inv, TypeOK, Poll, Phase, Outcome
  <2>2. QED
    BY <1>4, <2>1, SameLifecycle DEF WriteExtend
<1>5. CASE WriteDelete(h)
  <2> PICK p \in PollIds : p = handlers[h].poll
    BY <1>5 DEF WriteDelete, Writing, Inv, NamesPoll
  <2> DEFINE row == [NoPoll EXCEPT !.stored = "deleted"]
  <2>1. CASE Stored(p)
    <3>1. UNCHANGED announced
      BY <1>5 DEF WriteDelete
    <3>2. /\ polls' = [polls EXCEPT ![p] = row]
          /\ row.stored = "deleted" /\ row.closedBy = Nobody /\ row.closedAt = NoTime
      BY <1>5, <2>1 DEF WriteDelete, DeletePoll, DeleteRow, NoPoll
    <3> HIDE DEF row
    <3>3. /\ Phase(p) \in {"open", "closed"} /\ Phase(p)' = "removed"
          /\ Outcome(p)' = [by |-> Nobody, at |-> NoTime]
          /\ \A q \in PollIds \ {p} : Phase(q)' = Phase(q) /\ Outcome(q)' = Outcome(q)
      BY <2>1, <3>1, <3>2 DEF Inv, TypeOK, Stored, Phase, Outcome
    <3>4. Lifecycle!Remove(p)
      BY <3>1, <3>3 DEF Lifecycle!Remove
    <3>5. QED
      BY <3>1, <3>4 DEF LifecycleStep, Lifecycle!Next
  <2>2. CASE ~Stored(p)
    BY <1>5, <2>2, SamePolls DEF WriteDelete
  <2>3. QED
    BY <2>1, <2>2
<1>6. QED
  BY <1>1, <1>2, <1>3, <1>4, <1>5 DEF Write

LEMMA SettleSteps ==
  ASSUME Inv, NEW h \in Handlers, NEW s \in handlers[h].todo, Settle(h, s)
  PROVE  LifecycleStep
<1>1. CASE Expired(s) /\ CanFlip(s.id)
  <2>1. s.id \in PollIds /\ s.closesAt \in 0..now /\ Timer \in Closers
    BY <1>1, PollAssumption DEF Expired, Snapshot, Times, NoTime, Inv, TypeOK, Closers, Handler
  <2>2. QED
    BY <1>1, <2>1, FlipCloses DEF Settle
<1>2. CASE ~(Expired(s) /\ CanFlip(s.id))
  BY <1>2, SamePolls DEF Settle
<1>3. QED
  BY <1>1, <1>2

LEMMA NextRefines == Inv /\ [Next]_vars => LifecycleStep
<1> SUFFICES ASSUME Inv, [Next]_vars PROVE LifecycleStep
  OBVIOUS
<1>1. CASE UNCHANGED <<polls, announced>>
  BY <1>1, SamePolls
<1>2. ASSUME NEW h \in Handlers, Proceed(h) PROVE LifecycleStep
  BY <1>2, SettleSteps, TellAnnounces, WriteSteps, SamePolls DEF Proceed, Check
<1>3. QED
  BY <1>1, <1>2 DEF Next, vars, ReadPoll, ReadRunningPolls, ReadDuePolls, Fail, Tick

LEMMA InitRefines == Init => Lifecycle!Init
BY DEF Init, Lifecycle!Init, Phase, Outcome, NoPoll

\* closePollRecord keeps its promise for any number of requests and sweepers: a poll closes
\* once, its closing record is final and the group is told at most once, after the close.
THEOREM PollsImplementLifecycle == Spec => ImplementsLifecycle
<1>1. QED
  BY InitRefines, NextRefines, InvAlways, PTL
     DEF Spec, ImplementsLifecycle, Lifecycle!Spec, LifecycleStep

----------------------------------------------------------------------------
\* A request about to create a poll read no poll that was still running when it checked,
\* and what had expired then is still expired.
OpenerSawNoneRunning ==
  \A h \in Handlers : Writing(h, "openPoll") => \A s \in handlers[h].snaps : ~Running(s)

LEMMA NextOpener == TypeOK /\ OpenerSawNoneRunning /\ [Next]_vars => OpenerSawNoneRunning'
<1> SUFFICES ASSUME TypeOK, OpenerSawNoneRunning, [Next]_vars,
                    NEW g \in Handlers, Writing(g, "openPoll")',
                    NEW s \in handlers'[g].snaps
             PROVE  ~Running(s)'
  BY DEF OpenerSawNoneRunning
<1>1. now' \in Nat /\ now \in Nat /\ now <= now'
  <2>1. ASSUME NEW h \in Handlers, Proceed(h) PROVE now' = now
    BY <2>1 DEF Proceed, Settle, Announce, Check, Write, WriteOpen, WriteVote, WriteClose,
                WriteExtend, WriteDelete
  <2>2. now' = now \/ Tick
    BY <2>1 DEF Next, vars, ReadPoll, ReadRunningPolls, ReadDuePolls, Fail
  <2>3. QED
    BY <2>2, PollAssumption DEF TypeOK, Tick
<1>2. CASE handlers'[g] = handlers[g]
  <2>1. ~Running(s) /\ s.closesAt \in Times
    BY <1>2 DEF OpenerSawNoneRunning, Writing, TypeOK, Handler, Snapshot
  <2>2. QED
    BY <1>1, <2>1, PollAssumption DEF Running, Expired, Times, NoTime
<1>3. CASE handlers'[g] # handlers[g]
  <2>1. Check(g)
    <3>1. ASSUME NEW h \in Handlers, Finish(h) PROVE handlers'[g].pc # "write"
      BY <1>3, <3>1, IdleTyped DEF Finish, TypeOK
    <3>2. ASSUME NEW h \in Handlers, Goto(h, "settle") PROVE handlers'[g].pc # "write"
      BY <1>3, <3>2 DEF Goto, TypeOK, Handler
    <3>3. ASSUME NEW h \in Handlers, NEW op, NEW u, NEW p, NEW ss, Start(h, op, u, p, ss)
          PROVE  handlers'[g].pc # "write"
      BY <1>3, <3>3 DEF Start, TypeOK
    <3>4. ASSUME NEW h \in Handlers, NEW r \in handlers[h].todo, Settle(h, r)
          PROVE  handlers'[g].pc # "write"
      BY <1>3, <3>4 DEF Settle, TypeOK, Handler
    <3>5. ASSUME NEW h \in Handlers, Announce(h) PROVE handlers'[g].pc # "write"
      BY <3>1, <3>2, <3>5 DEF Announce
    <3>6. ASSUME NEW h \in Handlers, WriteClose(h) PROVE handlers'[g].pc # "write"
      BY <1>3, <3>1, <3>6 DEF WriteClose, TypeOK, Handler
    <3>7. ASSUME NEW h \in Handlers, Write(h) PROVE handlers'[g].pc # "write"
      BY <3>1, <3>6, <3>7 DEF Write, WriteOpen, WriteVote, WriteExtend, WriteDelete
    <3>8. ASSUME NEW h \in Handlers, Check(h) PROVE h = g
      BY <1>3, <3>1, <3>8 DEF Check, TypeOK, Finish
    <3>9. handlers'[g].pc = "write"
      BY DEF Writing
    <3>10. PICK h \in Handlers : Check(h)
      BY <1>3, <3>1, <3>3, <3>4, <3>5, <3>7, <3>9
         DEF Next, vars, Tick, ReadPoll, ReadRunningPolls, ReadDuePolls, Proceed, Fail, Handlers
    <3>11. QED
      BY <3>8, <3>10
  <2>2. Allowed(g) /\ handlers[g].op = "openPoll" /\ handlers'[g].snaps = handlers[g].snaps
        /\ now' = now
    <3>1. ~Finish(g) /\ handlers'[g].pc = "write" /\ handlers'[g].op = "openPoll"
      BY IdleTyped DEF Finish, TypeOK, Writing
    <3>2. PICK t \in Deadlines(g) :
            handlers' = [handlers EXCEPT ![g].pc = "write", ![g].deadline = t,
                           ![g].snaps = IF handlers[g].op = "openPoll" THEN @ ELSE {}]
      BY <2>1, <3>1 DEF Check
    <3>3. handlers[g].op = "openPoll"
      BY <3>1, <3>2 DEF TypeOK, Handler
    <3>4. QED
      BY <2>1, <3>1, <3>2, <3>3 DEF Check, TypeOK, Handler
  <2>3. ~Running(s)
    BY <2>2 DEF Allowed
  <2>4. QED
    BY <2>2, <2>3 DEF Running, Expired
<1>4. QED
  BY <1>2, <1>3

\* Two votes run in a group at once only if the second was requested before the first was
\* created, or before the first was given a new deadline (openPoll).
THEOREM OverlapsComeFromRaces == Spec => OverlapOnlyByRace
<1>1. Init => OpenerSawNoneRunning
  BY IdleTyped DEF Init, OpenerSawNoneRunning, Writing
<1>2. OpenerSawNoneRunning =>
        \A h \in Requests, p, q \in PollIds :
          WriteOpen(h, p) /\ p # q /\ Stored(q) /\ Running(Snap(q))
            => Snap(q) \notin handlers[h].snaps
  BY DEF OpenerSawNoneRunning, WriteOpen, Handlers
<1>3. QED
  BY <1>1, <1>2, NextOpener, TypeCorrect, PTL DEF Spec, OverlapOnlyByRace
----------------------------------------------------------------------------
Told(p) == \/ announced[p] > 0
           \/ p \in unheard
           \/ \E h \in Handlers : Announcing(h) /\ handlers[h].poll = p

\* A closed poll has been announced, a handler is about to announce it, or the handler that
\* closed it failed first: no close is lost in any other way (closePollRecord).
ClosesAreTold == \A p \in PollIds : Closed(p) => Told(p)

\* The step of a handler that was not about to announce takes nothing from what was told.
LEMMA TellersStay ==
  ASSUME NEW h \in Handlers, ~Announcing(h),
         \A g \in Handlers \ {h} : handlers'[g] = handlers[g],
         UNCHANGED <<announced, unheard>>, NEW p \in PollIds, Told(p)
  PROVE  Told(p)'
BY DEF Told, Announcing

LEMMA OthersStay ==
  ASSUME TypeOK, NEW h \in Handlers, NEW r, handlers' = [handlers EXCEPT ![h] = r]
  PROVE  /\ \A g \in Handlers \ {h} : handlers'[g] = handlers[g]
         /\ handlers'[h] = r
BY DEF TypeOK

\* A flip leaves a handler behind that will tell.
LEMMA FlipTold ==
  ASSUME Inv, ClosesAreTold, NEW h \in Handlers, ~Announcing(h), NEW q \in PollIds,
         NEW by, NEW at, Flip(q, by, at), UNCHANGED <<announced, unheard>>,
         \A g \in Handlers \ {h} : handlers'[g] = handlers[g],
         Announcing(h)', handlers'[h].poll = q
  PROVE  ClosesAreTold'
<1> SUFFICES ASSUME NEW p \in PollIds, Closed(p)' PROVE Told(p)'
  BY DEF ClosesAreTold
<1>1. CASE p = q
  BY <1>1 DEF Told
<1>2. CASE p # q
  <2>1. Closed(p)
    BY <1>2 DEF Flip, Closed, Stored, Inv, TypeOK
  <2>2. QED
    BY <2>1, TellersStay DEF ClosesAreTold
<1>3. QED
  BY <1>1, <1>2

LEMMA NextTold == Inv /\ ClosesAreTold /\ [Next]_vars => ClosesAreTold'
<1> SUFFICES ASSUME Inv, ClosesAreTold, [Next]_vars PROVE ClosesAreTold'
  OBVIOUS
<1> USE DEF Inv
<1>1. CASE UNCHANGED vars \/ Tick
  BY <1>1 DEF vars, Tick, ClosesAreTold, Told, Announcing, Closed, Stored
<1>2. ASSUME NEW h \in Handlers, ~Announcing(h), NEW r, handlers' = [handlers EXCEPT ![h] = r],
             UNCHANGED <<announced, unheard>>,
             \A p \in PollIds : Closed(p)' => Closed(p)
      PROVE  ClosesAreTold'
  BY <1>2, OthersStay, TellersStay DEF ClosesAreTold
<1>3. ASSUME NEW h \in Handlers, NEW op, NEW u, NEW p, NEW ss, Start(h, op, u, p, ss),
             UNCHANGED <<polls, announced, unheard>>
      PROVE  ClosesAreTold'
  BY <1>2, <1>3 DEF Start, Announcing, Closed, Stored
<1>4. ASSUME NEW h \in Handlers, NEW s \in handlers[h].todo, Settle(h, s)
      PROVE  ClosesAreTold'
  <2>1. ~Announcing(h) /\ UNCHANGED <<announced, unheard>> /\ s.id \in PollIds
    BY <1>4 DEF Settle, Announcing, TypeOK, Handler, Snapshot
  <2>2. CASE Expired(s) /\ CanFlip(s.id)
    <3>1. /\ Flip(s.id, Timer, s.closesAt)
          /\ handlers' = [handlers EXCEPT ![h] = [handlers[h] EXCEPT
                            !.todo = @ \ {s}, !.pc = "announce", !.poll = s.id]]
      BY <1>4, <2>2 DEF Settle
    <3>2. Announcing(h)' /\ handlers'[h].poll = s.id
      BY <3>1 DEF Announcing, TypeOK, Handler
    <3>3. QED
      BY <2>1, <3>1, <3>2, OthersStay, FlipTold
  <2>3. CASE ~(Expired(s) /\ CanFlip(s.id))
    <3>1. /\ handlers' = [handlers EXCEPT ![h] = [handlers[h] EXCEPT !.todo = @ \ {s}]]
          /\ UNCHANGED polls
      BY <1>4, <2>3 DEF Settle
    <3>2. QED
      BY <1>2, <2>1, <3>1 DEF Closed, Stored
  <2>4. QED
    BY <2>2, <2>3
<1>5. ASSUME NEW h \in Handlers, Announce(h) PROVE ClosesAreTold'
  <2> SUFFICES ASSUME NEW p \in PollIds, Closed(p)' PROVE Told(p)'
    BY DEF ClosesAreTold
  <2>1. Closed(p) /\ Told(p)
    BY <1>5 DEF Announce, Closed, Stored, ClosesAreTold
  <2>2. \A g \in Handlers \ {h} : handlers'[g] = handlers[g]
    BY <1>5 DEF Announce, Goto, Finish, TypeOK
  <2>3. CASE handlers[h].poll = p
    BY <1>5, <2>1, <2>3 DEF Announce, Tell, Told, Closed, TypeOK
  <2>4. CASE handlers[h].poll # p
    <3>1. announced'[p] = announced[p] /\ unheard' = unheard
      BY <1>5, <2>4 DEF Announce, Tell, TypeOK
    <3>2. QED
      BY <2>1, <2>2, <2>4, <3>1 DEF Told, Announcing
  <2>5. QED
    BY <2>3, <2>4
<1>6. ASSUME NEW h \in Handlers, Check(h) PROVE ClosesAreTold'
  <2>1. PICK r : handlers' = [handlers EXCEPT ![h] = r]
    BY <1>6 DEF Check, Finish
  <2>2. QED
    BY <1>2, <1>6, <2>1 DEF Check, Announcing, Closed, Stored
<1>7. ASSUME NEW h \in Handlers, Write(h) PROVE ClosesAreTold'
  <2>1. ~Announcing(h) /\ UNCHANGED <<announced, unheard>>
    BY <1>7 DEF Write, WriteOpen, WriteVote, WriteClose, WriteExtend, WriteDelete, Writing,
                Announcing
  <2>2. CASE WriteClose(h) /\ CanFlip(handlers[h].poll)
    <3> DEFINE q == handlers[h].poll
    <3>1. /\ q \in PollIds /\ Flip(q, handlers[h].by, now)
          /\ handlers' = [handlers EXCEPT ![h] = [handlers[h] EXCEPT
                            !.pc = "announceLast", !.poll = q]]
      BY <2>2 DEF WriteClose, Writing, NamesPoll
    <3>2. Announcing(h)' /\ handlers'[h].poll = q
      BY <3>1 DEF Announcing, TypeOK, Handler
    <3>3. QED
      BY <2>1, <3>1, <3>2, OthersStay, FlipTold
  <2>3. CASE ~(WriteClose(h) /\ CanFlip(handlers[h].poll))
    <3>1. Finish(h)
      BY <1>7, <2>3 DEF Write, WriteOpen, WriteVote, WriteClose, WriteExtend, WriteDelete
    <3>2. ASSUME NEW p \in PollIds, Closed(p)' PROVE Closed(p)
      <4>1. CASE \E q \in PollIds : WriteOpen(h, q)
        BY <3>2, <4>1 DEF WriteOpen, NoPoll, Closed, Stored, TypeOK
      <4>2. CASE WriteVote(h) \/ WriteClose(h)
        BY <2>3, <3>2, <4>2 DEF WriteVote, WriteClose, Closed, Stored
      <4>3. CASE WriteExtend(h)
        BY <3>2, <4>3 DEF WriteExtend, Closed, Stored, TypeOK, Poll
      <4>4. CASE WriteDelete(h)
        BY <3>2, <4>4 DEF WriteDelete, DeletePoll, DeleteRow, NoPoll, Closed, Stored, TypeOK
      <4>5. QED
        BY <1>7, <4>1, <4>2, <4>3, <4>4 DEF Write
    <3>3. QED
      BY <1>2, <2>1, <3>1, <3>2 DEF Finish
  <2>4. QED
    BY <2>2, <2>3
<1>8. ASSUME NEW h \in Handlers, Fail(h) PROVE ClosesAreTold'
  <2>1. /\ handlers' = [handlers EXCEPT ![h] = Idle] /\ UNCHANGED <<polls, announced>>
        /\ unheard' = IF Announcing(h) THEN unheard \cup {handlers[h].poll} ELSE unheard
    BY <1>8 DEF Fail, Finish
  <2>2. CASE Announcing(h)
    BY <2>1, <2>2, OthersStay DEF ClosesAreTold, Told, Announcing, Closed, Stored
  <2>3. CASE ~Announcing(h)
    BY <1>2, <2>1, <2>3 DEF Closed, Stored
  <2>4. QED
    BY <2>2, <2>3
<1>9. QED
  BY <1>1, <1>3, <1>4, <1>5, <1>6, <1>7, <1>8
     DEF Next, Proceed, ReadPoll, ReadRunningPolls, ReadDuePolls, Handlers

\* However requests, sweeps and failures interleave, a closed poll that nobody was told of is
\* one whose closer has yet to tell, or failed (what GroupHearsOfClose leaves to fairness).
THEOREM NoCloseIsLost == Spec => []ClosesAreTold
<1>1. Init => ClosesAreTold
  BY NoPollTyped DEF Init, ClosesAreTold, Closed, Stored
<1>2. QED
  BY <1>1, InvAlways, NextTold, PTL DEF Spec
=============================================================================
