----------------------------- MODULE Reminders -----------------------------
(***************************************************************************)
(* Deadline reminders of one task or one project: the worker's scan        *)
(* (apps/worker/src/deadline-reminders.ts) creates notifications and       *)
(* queues their dispatch, which the API's workers carry out                *)
(* (apps/api/src/notification-dispatch.service.ts), while the item changes.*)
(*                                                                         *)
(* Time is counted in quarters of a day: the hour of 10:00, until 20:00,   *)
(* the hour of 20:00, until 10:00.  A notification is named by its         *)
(* recipient and the period that its identifier is hashed from.  Every     *)
(* await of a scan or a delivery is a step.                                *)
(***************************************************************************)
EXTENDS Integers, FiniteSets

CONSTANTS Users,     \* people whose reminders are followed
          Admins,    \* those of them who are administrators
          Scanners,  \* runs of the scan job that can overlap
          Workers,   \* workers of the dispatch queue, one in every API instance
          Deadlines, \* days on which the item may be due
          LastHour,  \* when the clock stops, for a task and for a project
          Attempts,  \* of a dispatch job
          MaxStalls, \* of a dispatch job
          MaxEdits,  \* changes of the item and of its recipients
          None

ASSUME ReminderAssumption ==
  /\ Admins \subseteq Users
  /\ Deadlines \subseteq Int /\ LastHour \in [task : Nat, project : Nat]
  /\ Attempts \in Nat \ {0} /\ MaxStalls \in Nat /\ MaxEdits \in Nat
  /\ None \notin Users \cup Workers \cup Deadlines

VARIABLES kind,       \* what the item is
          item,       \* its row, with the people the code finds responsible
          active,     \* users whose account is active
          muted,      \* users who switched these reminders off
          notes,      \* the due date that a notification's message was written for
          jobs,       \* the dispatch queue, by notification
          told,       \* how often each was sent to sockets and devices
          scans,      \* the locals of every scan
          deliveries, \* the locals of every delivery
          now, edits

people == <<kind, item, active, muted, edits>>
vars == <<people, notes, jobs, told, scans, deliveries, now>>

Item == [deadline : Deadlines \cup {None}, status : {"open", "completed", "deleted"},
         owners : SUBSET Users] \* of the active assignees, else the creator; or the members

\* reminderSlot, calendarDay, reminderPhase.
IsSlot(hour) == hour % 2 = 0
Day(hour) == hour \div 4
Phase(deadline, day) == CASE deadline < day     -> "overdue"
                          [] deadline = day     -> "today"
                          [] deadline = day + 1 -> "upcoming"
                          [] OTHER              -> "none"

\* Tasks get a reminder in every slot, projects one a day.
Period(hour) == IF kind = "task" THEN hour ELSE 4 * Day(hour)
Hours == 0..LastHour[kind]
Ids == Users \X Hours

NoJob == [state |-> "none", deadline |-> None, hour |-> 0, own |-> FALSE, holder |-> None,
          tries |-> 0, stalls |-> 0]
Job == [state : {"none", "waiting", "active", "done", "failed"},
        deadline : Deadlines \cup {None}, hour : Hours,
        own : BOOLEAN,               \* added by the scan that wrote the message
        holder : Workers \cup {None}, \* who has its lock
        tries : 0..Attempts, stalls : 0..(MaxStalls + 1)]

NoScan == [at |-> "idle", hour |-> 0, deadline |-> None, todo |-> {}, user |-> None,
           created |-> FALSE]
Scan == [at : {"idle", "next", "upsert", "add"}, hour : Hours,
         deadline : Deadlines \cup {None}, todo : SUBSET Users, user : Users \cup {None},
         created : BOOLEAN]

Idle == [at |-> "idle", id |-> None, since |-> 0, says |-> None, saw |-> None]
Delivery == [at : {"idle", "note", "item", "mail", "tell", "finish"}, id : Ids \cup {None},
             since : Hours, says : Deadlines \cup {None}, saw : Item \cup {None}]

Init ==
  /\ kind \in {"task", "project"}
  /\ item \in {i \in Item : i.deadline # None /\ i.status = "open" /\ i.owners # {}}
  /\ active = Users /\ muted = {} /\ edits = 0
  /\ notes = [id \in Ids |-> None] /\ jobs = [id \in Ids |-> NoJob]
  /\ told = [id \in Ids |-> 0]
  /\ scans = [s \in Scanners |-> NoScan]
  /\ deliveries = [w \in Workers |-> Idle]
  /\ now = 0

----------------------------------------------------------------------------
(* scanDeadlineReminders, at 10:00 and 20:00, again when it failed.        *)

Remindable(hour) ==
  /\ item.status = "open" /\ item.deadline # None
  /\ kind = "project" => Phase(item.deadline, Day(hour)) # "none"
Recipients == item.owners \cup {u \in Admins \cap active : kind = "task"}

StartScan(s) ==
  /\ scans[s].at = "idle" /\ IsSlot(now) /\ Remindable(now) /\ Recipients # {}
  /\ scans' = [scans EXCEPT ![s] = [NoScan EXCEPT !.at = "next", !.hour = now,
                                       !.deadline = item.deadline, !.todo = Recipients]]
  /\ UNCHANGED <<people, notes, jobs, told, deliveries, now>>

\* The scan s with the recipients that are left; nobody left ends it.
Rest(s, todo) ==
  IF todo = {} THEN NoScan
  ELSE [scans[s] EXCEPT !.at = "next", !.todo = todo, !.user = None, !.created = FALSE]

ReadPreference(s, u) ==
  /\ scans[s].at = "next" /\ u \in scans[s].todo
  /\ LET todo == scans[s].todo \ {u}
     IN  scans' = [scans EXCEPT ![s] =
           IF u \in muted THEN Rest(s, todo)
           ELSE [@ EXCEPT !.at = "upsert", !.todo = todo, !.user = u]]
  /\ UNCHANGED <<people, notes, jobs, told, deliveries, now>>

Subject(s) == <<scans[s].user, Period(scans[s].hour)>>

\* A notification that exists keeps its message.
Upsert(s) ==
  LET new == notes[Subject(s)] = None
  IN  /\ scans[s].at = "upsert"
      /\ notes' = IF new THEN [notes EXCEPT ![Subject(s)] = scans[s].deadline] ELSE notes
      /\ scans' = [scans EXCEPT ![s].at = "add", ![s].created = new]
      /\ UNCHANGED <<people, jobs, told, deliveries, now>>

\* A job whose identifier is in the queue, done ones included, is not added again.
Add(s) ==
  LET job == [NoJob EXCEPT !.state = "waiting", !.deadline = scans[s].deadline,
                           !.hour = scans[s].hour, !.own = scans[s].created]
  IN  /\ scans[s].at = "add"
      /\ jobs' = IF jobs[Subject(s)].state = "none" THEN [jobs EXCEPT ![Subject(s)] = job]
                                                    ELSE jobs
      /\ scans' = [scans EXCEPT ![s] = Rest(s, scans[s].todo)]
      /\ UNCHANGED <<people, notes, told, deliveries, now>>

FailScan(s) ==
  /\ scans[s].at # "idle"
  /\ scans' = [scans EXCEPT ![s] = NoScan]
  /\ UNCHANGED <<people, notes, jobs, told, deliveries, now>>

----------------------------------------------------------------------------
(* deliver.  Its day and hour are checked before its first await.          *)

OnTimeByDay(job) == Day(now) = Day(job.hour)
OnTime(job) == now = job.hour

Take(w, id) ==
  /\ deliveries[w].at = "idle" /\ jobs[id].state = "waiting"
  /\ jobs' = [jobs EXCEPT ![id].state = "active", ![id].holder = w]
  /\ deliveries' = [deliveries EXCEPT ![w] =
       [Idle EXCEPT !.at = IF OnTime(jobs[id]) THEN "note" ELSE "finish",
                    !.id = id, !.since = now]]
  /\ UNCHANGED <<people, notes, told, scans, now>>

\* Delivery w, with what it has learned, before its next step; one that only has to
\* finish forgets it.
Before(w, step) ==
  IF step = "finish" THEN [Idle EXCEPT !.at = step, !.id = deliveries[w].id]
                     ELSE [deliveries[w] EXCEPT !.at = step]

\* Delivery w goes on from `from` to `to` without a change elsewhere.
Goes(w, from, to) ==
  /\ deliveries[w].at = from
  /\ deliveries' = [deliveries EXCEPT ![w] = Before(w, to)]

ReadNote(w) ==
  LET id == deliveries[w].id
      found == notes[id] # None /\ id[1] \in active
      next == IF kind = "task" THEN "item" ELSE "mail"
  IN  /\ deliveries[w].at = "note"
      /\ deliveries' = [deliveries EXCEPT ![w] =
           IF found THEN [Before(w, next) EXCEPT !.says = notes[id]] ELSE Before(w, "finish")]
      /\ UNCHANGED <<people, notes, jobs, told, scans, now>>

Responsible(u) == u \in item.owners \cup Admins
CurrentAnyDate(u, deadline) ==
  item.status = "open" /\ item.deadline # None /\ Responsible(u)
Current(u, deadline) ==
  /\ item.status = "open" /\ item.deadline # None /\ item.deadline = deadline
  /\ Responsible(u)

ReadItem(w) ==
  LET id == deliveries[w].id
  IN  /\ deliveries[w].at = "item"
      /\ deliveries' = [deliveries EXCEPT ![w] =
           IF Current(id[1], jobs[id].deadline) THEN [Before(w, "mail") EXCEPT !.saw = item]
                                                ELSE Before(w, "finish")]
      /\ UNCHANGED <<people, notes, jobs, told, scans, now>>

\* enqueueNotificationEmail: that queue keeps the job of every notification, too.
QueueMail(w) ==
  /\ Goes(w, "mail", "tell")
  /\ UNCHANGED <<people, notes, jobs, told, scans, now>>

Tell(w) ==
  /\ Goes(w, "tell", "finish")
  /\ told' = [told EXCEPT ![deliveries[w].id] = @ + 1]
  /\ UNCHANGED <<people, notes, jobs, scans, now>>

----------------------------------------------------------------------------
(* The dispatch queue (BullMQ): a worker that lost a job's lock leaves the *)
(* job alone.                                                              *)

Removed(job) == NoJob
Kept(job) == [job EXCEPT !.state = "done", !.holder = None]

RetriedForever(job) ==
  [job EXCEPT !.holder = None, !.tries = @ + 1, !.state = "waiting"]
Retried(job) ==
  [job EXCEPT !.holder = None, !.tries = @ + 1,
              !.state = IF job.tries + 1 < Attempts THEN "waiting" ELSE "failed"]

\* Worker w ends its delivery and, if the job is still its own, settles the job.
Ends(w, settled) ==
  LET id == deliveries[w].id
  IN  /\ deliveries' = [deliveries EXCEPT ![w] = Idle]
      /\ jobs' = IF jobs[id].holder = w THEN [jobs EXCEPT ![id] = settled] ELSE jobs
      /\ UNCHANGED <<people, notes, told, scans, now>>

Finish(w) == deliveries[w].at = "finish" /\ Ends(w, Kept(jobs[deliveries[w].id]))
FailDelivery(w) == deliveries[w].at # "idle" /\ Ends(w, Retried(jobs[deliveries[w].id]))

Die(w) ==
  /\ deliveries[w].at # "idle"
  /\ deliveries' = [deliveries EXCEPT ![w] = Idle]
  /\ UNCHANGED <<people, notes, jobs, told, scans, now>>

\* Its lock expires, although its worker may only be slow.
Stall(id) ==
  /\ jobs[id].state = "active"
  /\ jobs' = [jobs EXCEPT ![id].holder = None, ![id].stalls = @ + 1,
                          ![id].state = IF jobs[id].stalls < MaxStalls THEN "waiting"
                                                                       ELSE "failed"]
  /\ UNCHANGED <<people, notes, told, scans, deliveries, now>>

----------------------------------------------------------------------------
(* What others do: updateTask, taskStatus, updateProject, deletions,       *)
(* preferences, administrators.                                            *)

Edit == edits < MaxEdits /\ edits' = edits + 1
                         /\ UNCHANGED <<kind, jobs, told, scans, deliveries, now>>

SetDeadline(day) ==
  /\ Edit /\ item.status # "deleted" /\ item.deadline # day
  /\ item' = [item EXCEPT !.deadline = day]
  /\ UNCHANGED <<active, muted, notes>>

SetStatus(status) ==
  /\ Edit /\ item.status \notin {"deleted", status}
  /\ item' = [item EXCEPT !.status = status]
  /\ UNCHANGED <<active, muted, notes>>

SetOwners(owners) ==
  /\ Edit /\ item.status # "deleted" /\ item.owners # owners
  /\ item' = [item EXCEPT !.owners = owners]
  /\ UNCHANGED <<active, muted, notes>>

\* The notifications of the item go with it.
Delete ==
  /\ Edit /\ item.status # "deleted"
  /\ item' = [item EXCEPT !.status = "deleted"]
  /\ notes' = [id \in Ids |-> None]
  /\ UNCHANGED <<active, muted>>

ChangeAccount(u) ==
  /\ Edit
  /\ \/ active' = (IF u \in active THEN active \ {u} ELSE active \cup {u}) /\ muted' = muted
     \/ muted' = (IF u \in muted THEN muted \ {u} ELSE muted \cup {u}) /\ active' = active
  /\ UNCHANGED <<item, notes>>

Tick ==
  /\ now < LastHour[kind]
  /\ now' = now + 1
  /\ UNCHANGED <<people, notes, jobs, told, scans, deliveries>>

Scans(s) ==
  \/ StartScan(s) \/ Upsert(s) \/ Add(s) \/ FailScan(s)
  \/ \E u \in Users : ReadPreference(s, u)

Delivers(w) == ReadNote(w) \/ ReadItem(w) \/ QueueMail(w) \/ Tell(w) \/ Finish(w)

Edits ==
  \/ \E day \in Deadlines \cup {None} : SetDeadline(day)
  \/ \E status \in {"open", "completed"} : SetStatus(status)
  \/ \E owners \in SUBSET Users : SetOwners(owners)
  \/ \E u \in Users : ChangeAccount(u)
  \/ Delete

Next ==
  \/ \E s \in Scanners : Scans(s)
  \/ \E w \in Workers : \/ Delivers(w) \/ FailDelivery(w) \/ Die(w)
                        \/ \E id \in Ids : Take(w, id)
  \/ \E id \in Ids : Stall(id)
  \/ Edits \/ Tick

Spec == Init /\ [][Next]_vars

----------------------------------------------------------------------------
TypeOK ==
  /\ kind \in {"task", "project"} /\ item \in Item
  /\ active \subseteq Users /\ muted \subseteq Users
  /\ notes \in [Ids -> Deadlines \cup {None}] /\ jobs \in [Ids -> Job]
  /\ told \in [Ids -> Nat]
  /\ scans \in [Scanners -> Scan] /\ deliveries \in [Workers -> Delivery]
  /\ now \in Hours /\ edits \in 0..MaxEdits

\* docs/task-calendar-integration.md:26: a completed job is retained "to prevent repeated
\* delivery during later scans".  However often and in whatever order scans run, a reminder
\* is sent again only because its own job failed or stalled.
ToldOnceUnlessRetried ==
  \A id \in Ids : told[id] <= 1 + jobs[id].tries + jobs[id].stalls

\* docs/task-calendar-integration.md:27.  A reminder is about to be sent only if its slot had
\* not passed when the job was taken and, for a task, only to somebody responsible for an
\* open task due on the day the message was written for - unless the task has changed since
\* the delivery read it, or the job was added by another scan than the message.
Sending(w) == deliveries[w].at \in {"mail", "tell"}
RemindersAreTrue ==
  \A w \in Workers : Sending(w) =>
    /\ jobs[deliveries[w].id].hour = deliveries[w].since
    /\ kind = "task" /\ deliveries[w].saw = item =>
         /\ item.status = "open" /\ Responsible(deliveries[w].id[1])
         /\ jobs[deliveries[w].id].own => deliveries[w].says = item.deadline

\* docs/task-calendar-integration.md:25: "The message names a future due date"; 27: reminders
\* with "changed due dates ... are skipped".
MessageNamesDueDate ==
  \A w \in Workers :
    Sending(w) /\ kind = "task" /\ deliveries[w].saw = item =>
      deliveries[w].says = item.deadline
=============================================================================
