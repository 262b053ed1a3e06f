--------------------------- MODULE RemindersProofs ---------------------------
(***************************************************************************)
(* What Reminders promises for any people, any number of overlapping scans  *)
(* and deliveries, any number of attempts, and any day.                     *)
(***************************************************************************)
EXTENDS Reminders, FiniteSetTheorems, TLAPS

\* Jobs that can be taken or are running have attempts and stalls left; only a running job is
\* held; what was never added was neither retried nor stalled.
JobShape(j) ==
  /\ j.state \in {"waiting", "active"} => j.tries < Attempts /\ j.stalls <= MaxStalls
  /\ j.holder # None => j.state = "active"
  /\ j.state = "none" => j.tries = 0 /\ j.stalls = 0 /\ ~j.own

Shape ==
  /\ TypeOK
  /\ \A s \in Scanners : scans[s].at \in {"upsert", "add"} => scans[s].user \in Users
  /\ \A w \in Workers : deliveries[w].at # "idle" => deliveries[w].id \in Ids
  /\ \A id \in Ids : JobShape(jobs[id])

\* The deliveries of a job that can still reach Tell, and the runs of it that have begun.
Telling == {"note", "item", "mail", "tell"}
Pending(id) == {w \in Workers : deliveries[w].at \in Telling /\ deliveries[w].id = id}
Runs(j) == j.tries + j.stalls + (IF j.state \in {"active", "done"} THEN 1 ELSE 0)
CountOf(id) == IsFiniteSet(Pending(id)) /\ told[id] + Cardinality(Pending(id)) <= Runs(jobs[id])
Counted == \A id \in Ids : CountOf(id)

\* A message that was written for a due date stays so, unless the item is deleted.
Written(id, deadline) ==
  item.status = "deleted" \/ (deadline # None /\ notes[id] = deadline)
Messages ==
  /\ \A s \in Scanners : scans[s].at # "idle" => scans[s].deadline # None
  /\ \A s \in Scanners : scans[s].at = "add" /\ scans[s].created =>
                           Written(Subject(s), scans[s].deadline)
  /\ \A id \in Ids : jobs[id].own => Written(id, jobs[id].deadline)

\* What the delivery d knows of its job, its message and its task.
KnowsOf(d) ==
  LET j == jobs[d.id] IN
  /\ d.at \in Telling => j.state # "none" /\ j.hour = d.since
  /\ d.at \in Telling \ {"note"} /\ j.own => item.status = "deleted" \/ d.says = j.deadline
  /\ d.at \in {"mail", "tell"} /\ kind = "task" =>
       d.saw.status = "open" /\ d.saw.deadline = j.deadline /\ d.id[1] \in d.saw.owners \cup Admins
Knows == \A w \in Workers : KnowsOf(deliveries[w])

RemindInv == Shape /\ Counted /\ Messages /\ Knows

----------------------------------------------------------------------------
(* Values and their types.                                                 *)

LEMMA HourFacts ==
  ASSUME TypeOK
  PROVE  /\ LastHour[kind] \in Nat /\ Hours \subseteq Nat /\ 0 \in Hours /\ now \in Hours
         /\ \A h \in Hours : Period(h) \in Hours
<1>1. LastHour[kind] \in Nat /\ now \in Hours
  BY ReminderAssumption DEF TypeOK
<1>2. Hours \subseteq Nat /\ 0 \in Hours
  BY <1>1 DEF Hours
<1>3. ASSUME NEW h \in Hours PROVE Period(h) \in Hours
  <2>1. h \in Nat /\ h <= LastHour[kind]
    BY <1>1, <1>3 DEF Hours
  <2>2. 4 * (h \div 4) \in 0..h
    BY <2>1, SMT
  <2> QED BY <1>1, <2>1, <2>2 DEF Period, Day, Hours
<1> QED BY <1>1, <1>2, <1>3

LEMMA Blank ==
  ASSUME 0 \in Hours
  PROVE  /\ NoJob \in Job /\ NoScan \in Scan /\ Idle \in Delivery
         /\ JobShape(NoJob) /\ Runs(NoJob) = 0
         /\ NoScan.at = "idle" /\ Idle.at = "idle"
BY ReminderAssumption DEF NoJob, NoScan, Idle, Job, Scan, Delivery, JobShape, Runs, Hours

LEMMA SubjectTyped ==
  ASSUME Shape, NEW s \in Scanners, scans[s].at \in {"upsert", "add"}
  PROVE  /\ Subject(s) \in Ids /\ Subject(s)[1] = scans[s].user
         /\ scans[s] \in Scan /\ scans[s].hour \in Hours
         /\ scans[s].deadline \in Deadlines \cup {None} /\ scans[s].created \in BOOLEAN
<1>1. scans[s] \in Scan /\ scans[s].user \in Users
  BY DEF Shape, TypeOK
<1>2. scans[s].hour \in Hours /\ scans[s].deadline \in Deadlines \cup {None} /\ scans[s].created \in BOOLEAN
  BY <1>1 DEF Scan
<1>3. Period(scans[s].hour) \in Hours
  BY <1>2, HourFacts DEF Shape
<1> QED BY <1>1, <1>2, <1>3 DEF Subject, Ids

LEMMA DeliveryTyped ==
  ASSUME Shape, NEW w \in Workers, deliveries[w].at # "idle"
  PROVE  /\ deliveries[w] \in Delivery /\ deliveries[w].id \in Ids
         /\ jobs[deliveries[w].id] \in Job /\ JobShape(jobs[deliveries[w].id])
         /\ notes[deliveries[w].id] \in Deadlines \cup {None}
BY DEF Shape, TypeOK

----------------------------------------------------------------------------
(* What a step may change.                                                 *)

\* One scan changes, and of the rest nothing.
ScanOnly(s, next) ==
  /\ scans' = [scans EXCEPT ![s] = next]
  /\ next \in Scan
  /\ next.at \in {"upsert", "add"} => next.user \in Users

\* One job changes.
JobOnly(id, next) ==
  /\ jobs' = [jobs EXCEPT ![id] = next]
  /\ next \in Job /\ JobShape(next)

\* One delivery changes.
DeliveryOnly(w, next) ==
  /\ deliveries' = [deliveries EXCEPT ![w] = next]
  /\ next \in Delivery
  /\ next.at # "idle" => next.id \in Ids

LEMMA HoursKept == UNCHANGED kind => Hours' = Hours /\ Ids' = Ids /\ Job' = Job
                                     /\ Scan' = Scan /\ Delivery' = Delivery
BY DEF Hours, Ids, Job, Scan, Delivery

\* These keep the shape.
LEMMA ShapeKept ==
  ASSUME Shape, UNCHANGED kind,
         item' \in Item, active' \subseteq Users, muted' \subseteq Users,
         notes' \in [Ids -> Deadlines \cup {None}], told' \in [Ids -> Nat],
         now' \in Hours, edits' \in 0..MaxEdits,
         UNCHANGED scans \/ \E s \in Scanners, x \in Scan : ScanOnly(s, x),
         UNCHANGED jobs \/ \E id \in Ids, x \in Job : JobOnly(id, x),
         UNCHANGED deliveries \/ \E w \in Workers, x \in Delivery : DeliveryOnly(w, x)
  PROVE  Shape'
<1>1. scans' \in [Scanners -> Scan]
      /\ \A s \in Scanners : scans'[s].at \in {"upsert", "add"} => scans'[s].user \in Users
  BY DEF ScanOnly, Shape, TypeOK
<1>2. jobs' \in [Ids -> Job] /\ \A id \in Ids : JobShape(jobs'[id])
  <2>1. CASE UNCHANGED jobs
    BY <2>1 DEF Shape, TypeOK
  <2>2. ASSUME NEW id \in Ids, NEW x \in Job, JobOnly(id, x)
        PROVE  jobs' \in [Ids -> Job] /\ \A i \in Ids : JobShape(jobs'[i])
    <3>1. jobs \in [Ids -> Job] /\ jobs' = [jobs EXCEPT ![id] = x] /\ JobShape(x)
      BY <2>2 DEF JobOnly, Shape, TypeOK
    <3>2. \A i \in Ids : jobs'[i] = IF i = id THEN x ELSE jobs[i]
      BY <3>1
    <3> QED BY <3>1, <3>2 DEF Shape
  <2> QED BY <2>1, <2>2
<1>3. deliveries' \in [Workers -> Delivery]
      /\ \A w \in Workers : deliveries'[w].at # "idle" => deliveries'[w].id \in Ids
  BY DEF DeliveryOnly, Shape, TypeOK
<1>4. TypeOK'
  BY <1>1, <1>2, <1>3, HoursKept DEF TypeOK, Shape, Item
<1>5. \A id \in Ids : JobShape(jobs'[id]) => JobShape(jobs[id])'
  BY DEF JobShape
<1> QED BY <1>1, <1>2, <1>3, <1>4, <1>5, HoursKept DEF Shape

LEMMA RemindInitInv == Init => RemindInv
<1> SUFFICES ASSUME Init PROVE RemindInv
  OBVIOUS
<1>1. LastHour[kind] \in Nat
  BY ReminderAssumption DEF Init
<1>2. 0 \in Hours /\ now \in Hours
  BY <1>1 DEF Hours, Init
<1>3. TypeOK
  BY <1>2, Blank, ReminderAssumption DEF Init, TypeOK
<1>4. Shape
  BY <1>2, <1>3, Blank DEF Init, Shape
<1>5. Counted
  <2> SUFFICES ASSUME NEW id \in Ids PROVE CountOf(id)
    BY DEF Counted
  <2>1. Pending(id) = {}
    BY <1>2, Blank DEF Pending, Telling, Init
  <2>2. jobs[id] = NoJob /\ told[id] = 0
    BY DEF Init
  <2> QED BY <1>2, <2>1, <2>2, Blank, FS_EmptySet DEF CountOf
<1>6. Messages
  BY <1>2, Blank DEF Init, Messages, NoJob
<1>7. Knows
  BY <1>2, Blank DEF Init, Knows, KnowsOf, Telling
<1> QED BY <1>4, <1>5, <1>6, <1>7 DEF RemindInv

----------------------------------------------------------------------------
(* The scan.                                                               *)

\* Without jobs, deliveries, messages and the item, only the scans are to be looked at.
LEMMA ScanKeeps ==
  ASSUME RemindInv, NEW s \in Scanners, NEW x \in Scan, ScanOnly(s, x),
         UNCHANGED <<people, notes, jobs, told, deliveries, now>>,
         x.at # "add", x.at # "idle" => x.deadline # None
  PROVE  RemindInv'
<1>0. UNCHANGED <<kind, item, active, muted, edits>>
  BY DEF people
<1>1. Shape'
  BY <1>0, ShapeKept DEF RemindInv, Shape, TypeOK
<1>2. Counted'
  BY <1>0, HoursKept DEF RemindInv, Counted, CountOf, Pending, Runs
<1>3. Knows'
  BY <1>0 DEF RemindInv, Knows, KnowsOf
<1>4. Messages'
  <2>1. \A t \in Scanners : scans'[t] = IF t = s THEN x ELSE scans[t]
    BY DEF ScanOnly, RemindInv, Shape, TypeOK
  <2>2. \A t \in Scanners \ {s} : Subject(t)' = Subject(t)
    BY <1>0, <2>1 DEF Subject, Period
  <2>3. \A id, d : Written(id, d)' <=> Written(id, d)
    BY <1>0 DEF Written
  <2> QED BY <1>0, <2>1, <2>2, <2>3, HoursKept DEF RemindInv, Messages
<1> QED BY <1>1, <1>2, <1>3, <1>4 DEF RemindInv

LEMMA RestTyped ==
  ASSUME Shape, NEW s \in Scanners, NEW todo \in SUBSET Users, scans[s].at # "idle"
  PROVE  /\ Rest(s, todo) \in Scan /\ Rest(s, todo).at \in {"idle", "next"}
         /\ Rest(s, todo).at = "next" => Rest(s, todo).deadline = scans[s].deadline
<1>1. scans[s] \in Scan /\ NoScan \in Scan /\ NoScan.at = "idle"
  BY Blank, HourFacts DEF Shape, TypeOK
<1> QED BY <1>1 DEF Rest, Scan

LEMMA StartScanKeeps ==
  ASSUME RemindInv, NEW s \in Scanners, StartScan(s)
  PROVE  RemindInv'
<1> DEFINE x == [NoScan EXCEPT !.at = "next", !.hour = now, !.deadline = item.deadline,
                               !.todo = Recipients]
<1>1. now \in Hours /\ NoScan \in Scan /\ item \in Item /\ Recipients \subseteq Users
  BY Blank, HourFacts, ReminderAssumption DEF RemindInv, Shape, TypeOK, Recipients, Item
<1>2. x \in Scan /\ x.at = "next" /\ x.deadline = item.deadline
  BY <1>1 DEF Scan, Item
<1>3. item.deadline # None
  BY DEF StartScan, Remindable
<1>4. ScanOnly(s, x) /\ UNCHANGED <<people, notes, jobs, told, deliveries, now>>
  BY <1>2 DEF StartScan, ScanOnly
<1> QED BY <1>2, <1>3, <1>4, ScanKeeps

LEMMA ReadPreferenceKeeps ==
  ASSUME RemindInv, NEW s \in Scanners, NEW u \in Users, ReadPreference(s, u)
  PROVE  RemindInv'
<1> DEFINE todo == scans[s].todo \ {u}
           x == IF u \in muted THEN Rest(s, todo)
                ELSE [scans[s] EXCEPT !.at = "upsert", !.todo = todo, !.user = u]
<1>1. scans[s] \in Scan /\ scans[s].at = "next" /\ todo \subseteq Users
  BY DEF RemindInv, Shape, TypeOK, Scan, ReadPreference
<1>2. scans[s].deadline # None
  BY <1>1 DEF RemindInv, Messages
<1>3. x \in Scan /\ x.at # "add" /\ (x.at # "idle" => x.deadline # None)
      /\ (x.at \in {"upsert", "add"} => x.user \in Users)
  <2>1. CASE u \in muted
    <3>1. scans[s].at # "idle" /\ todo \in SUBSET Users /\ x = Rest(s, todo)
      BY <1>1, <2>1
    <3> HIDE DEF todo, x
    <3> QED BY <1>2, <3>1, RestTyped DEF RemindInv
  <2>2. CASE u \notin muted
    BY <1>1, <1>2, <2>2 DEF Scan
  <2> QED BY <2>1, <2>2
<1>4. scans' = [scans EXCEPT ![s] = x] /\ UNCHANGED <<people, notes, jobs, told, deliveries, now>>
  BY DEF ReadPreference, RemindInv, Shape, TypeOK
<1> QED BY <1>3, <1>4, ScanKeeps DEF ScanOnly

LEMMA FailScanKeeps ==
  ASSUME RemindInv, NEW s \in Scanners, FailScan(s)
  PROVE  RemindInv'
<1>1. NoScan \in Scan /\ NoScan.at = "idle"
  BY Blank, HourFacts DEF RemindInv, Shape
<1> QED BY <1>1, ScanKeeps DEF FailScan, ScanOnly

LEMMA UpsertKeeps ==
  ASSUME RemindInv, NEW s \in Scanners, Upsert(s)
  PROVE  RemindInv'
<1> DEFINE new == notes[Subject(s)] = None
           x == [scans[s] EXCEPT !.at = "add", !.created = new]
<1>0. UNCHANGED <<kind, item, active, muted, edits, jobs, told, deliveries, now>>
  BY DEF Upsert, people
<1>1. Subject(s) \in Ids /\ scans[s] \in Scan /\ scans[s].deadline \in Deadlines \cup {None}
  BY SubjectTyped DEF RemindInv, Upsert
<1>2. x \in Scan /\ x.at = "add" /\ x.user = scans[s].user /\ x.hour = scans[s].hour
      /\ x.deadline = scans[s].deadline /\ x.created = new
  BY <1>1 DEF Scan
<1>3. scans' = [scans EXCEPT ![s] = x] /\ scans[s].at = "upsert" /\ scans[s].deadline # None
  BY DEF Upsert, RemindInv, Shape, TypeOK, Messages
<1>4. ScanOnly(s, x)
  BY <1>2, <1>3 DEF ScanOnly, RemindInv, Shape
<1>5. notes \in [Ids -> Deadlines \cup {None}]
      /\ notes' = IF new THEN [notes EXCEPT ![Subject(s)] = scans[s].deadline] ELSE notes
  BY DEF Upsert, RemindInv, Shape, TypeOK
<1>6. notes' \in [Ids -> Deadlines \cup {None}]
  BY <1>1, <1>5
<1>7. Shape'
  BY <1>0, <1>2, <1>4, <1>6, ShapeKept DEF RemindInv, Shape, TypeOK
<1>8. Counted' /\ Knows'
  BY <1>0, HoursKept DEF RemindInv, Counted, CountOf, Pending, Runs, Knows, KnowsOf
<1>9. Messages'
  <2>1. \A t \in Scanners : scans'[t] = IF t = s THEN x ELSE scans[t]
    BY <1>3 DEF RemindInv, Shape, TypeOK
  <2>2. \A t \in Scanners : Subject(t)' = Subject(t)
    BY <1>0, <1>2, <2>1 DEF Subject, Period
  <2> DEFINE Stands(id, d) == item'.status = "deleted" \/ (d # None /\ notes'[id] = d)
  <2>3. ASSUME NEW id \in Ids, NEW d, Written(id, d) PROVE Stands(id, d)
    BY <1>0, <1>1, <1>5, <2>3 DEF Written
  <2>4. new => Stands(Subject(s), scans[s].deadline)
    BY <1>0, <1>1, <1>3, <1>5
  <2>5. ASSUME NEW t \in Scanners, scans'[t].at = "add", scans'[t].created
        PROVE  Stands(Subject(t), scans'[t].deadline)
    <3>1. CASE t = s
      BY <1>2, <2>1, <2>4, <2>5, <3>1
    <3>2. CASE t # s
      <4>1. scans'[t] = scans[t] /\ Subject(t) \in Ids
        BY <2>1, <2>5, <3>2, SubjectTyped DEF RemindInv
      <4>2. Written(Subject(t), scans[t].deadline)
        BY <2>5, <4>1 DEF RemindInv, Messages
      <4> QED BY <2>3, <4>1, <4>2
    <3> QED BY <3>1, <3>2
  <2>6. ASSUME NEW id \in Ids, jobs[id].own PROVE Stands(id, jobs[id].deadline)
    BY <2>3, <2>6 DEF RemindInv, Messages
  <2>7. \A t \in Scanners : scans'[t].at # "idle" => scans'[t].deadline # None
    BY <1>2, <1>3, <2>1 DEF RemindInv, Messages
  <2> QED BY <1>0, <2>2, <2>5, <2>6, <2>7, HoursKept DEF Messages, Written
<1> QED BY <1>7, <1>8, <1>9 DEF RemindInv

LEMMA AddKeeps ==
  ASSUME RemindInv, NEW s \in Scanners, Add(s)
  PROVE  RemindInv'
<1> DEFINE i == Subject(s)
           job == [NoJob EXCEPT !.state = "waiting", !.deadline = scans[s].deadline,
                                !.hour = scans[s].hour, !.own = scans[s].created]
           rest == Rest(s, scans[s].todo)
<1>1. /\ i \in Ids /\ scans[s] \in Scan /\ scans[s].hour \in Hours
      /\ scans[s].deadline \in Deadlines \cup {None} /\ scans[s].created \in BOOLEAN
      /\ scans[s].todo \subseteq Users /\ scans[s].at = "add" /\ scans[s].deadline # None
  BY SubjectTyped DEF RemindInv, Add, Messages, Scan
<1>2. /\ rest \in Scan /\ rest.at \in {"idle", "next"}
      /\ rest.at = "next" => rest.deadline = scans[s].deadline
  BY <1>1, RestTyped DEF RemindInv
<1>3. ScanOnly(s, rest)
  BY <1>2 DEF Add, ScanOnly
<1>4. CASE jobs[i].state # "none"
  <2>1. UNCHANGED <<people, notes, jobs, told, deliveries, now>>
    BY <1>4 DEF Add
  <2> HIDE DEF rest
  <2> QED BY <1>1, <1>2, <1>3, <2>1, ScanKeeps
<1>5. CASE jobs[i].state = "none"
  <2>1. jobs' = [jobs EXCEPT ![i] = job] /\ UNCHANGED <<people, notes, told, deliveries, now>>
    BY <1>5 DEF Add
  <2>2. /\ job \in Job /\ job.state = "waiting" /\ job.tries = 0 /\ job.stalls = 0
        /\ job.holder = None
        /\ job.own = scans[s].created /\ job.deadline = scans[s].deadline
    BY <1>1, Blank, HourFacts DEF RemindInv, Shape, NoJob, Job
  <2>3. JobShape(job) /\ Runs(job) = 0
    BY <2>2, ReminderAssumption DEF JobShape, Runs
  <2>4. UNCHANGED <<kind, item, active, muted, edits>>
    BY <2>1 DEF people
  <2> HIDE DEF job, rest
  <2>5. \A id \in Ids : jobs'[id] = IF id = i THEN job ELSE jobs[id]
    BY <1>1, <2>1 DEF RemindInv, Shape, TypeOK
  <2>6. Shape'
    <3>1. JobOnly(i, job)
      BY <2>1, <2>2, <2>3 DEF JobOnly
    <3> QED BY <1>1, <1>2, <1>3, <2>1, <2>2, <2>4, <3>1, ShapeKept DEF RemindInv, Shape, TypeOK
  <2>7. Counted'
    <3> SUFFICES ASSUME NEW id \in Ids PROVE CountOf(id)'
      BY <2>4, HoursKept DEF Counted
    <3>1. Pending(id)' = Pending(id) /\ told'[id] = told[id]
      BY <2>1 DEF Pending
    <3>2. Runs(jobs'[id]) = Runs(jobs[id])
      BY <1>1, <1>5, <2>3, <2>5 DEF RemindInv, Shape, JobShape, Runs
    <3>3. CountOf(id)
      BY DEF RemindInv, Counted
    <3> QED BY <3>1, <3>2, <3>3 DEF CountOf, Runs
  <2>8. Knows'
    <3> SUFFICES ASSUME NEW w \in Workers PROVE KnowsOf(deliveries[w])'
      BY DEF Knows
    <3>1. KnowsOf(deliveries[w]) /\ (deliveries[w].at \in Telling => deliveries[w].id \in Ids)
      BY DEF RemindInv, Knows, Shape, Telling
    <3>2. deliveries[w].at \in Telling => jobs'[deliveries[w].id] = jobs[deliveries[w].id]
      BY <1>5, <2>5, <3>1 DEF KnowsOf
    <3> QED BY <2>1, <2>4, <3>1, <3>2 DEF KnowsOf, Telling
  <2>9. Messages'
    <3>1. \A t \in Scanners : scans'[t] = IF t = s THEN rest ELSE scans[t]
      BY <1>3 DEF ScanOnly, RemindInv, Shape, TypeOK
    <3>2. \A t \in Scanners \ {s} : Subject(t)' = Subject(t)
      BY <2>4, <3>1 DEF Subject, Period
    <3>3. \A id, d : Written(id, d) <=> item'.status = "deleted" \/ (d # None /\ notes'[id] = d)
      BY <2>1, <2>4 DEF Written
    <3>4. job.own => Written(i, job.deadline)
      BY <1>1, <2>2 DEF RemindInv, Messages
    <3>5. \A id \in Ids : jobs'[id].own => Written(id, jobs'[id].deadline)
      BY <2>5, <3>4 DEF RemindInv, Messages
    <3>6. \A t \in Scanners : scans'[t].at # "idle" => scans'[t].deadline # None
      BY <1>1, <1>2, <3>1 DEF RemindInv, Messages
    <3>7. \A t \in Scanners : scans'[t].at = "add" => t # s /\ scans'[t] = scans[t]
      BY <1>2, <3>1
    <3>8. ASSUME NEW t \in Scanners, scans'[t].at = "add", scans'[t].created
          PROVE  Written(Subject(t), scans'[t].deadline) /\ Subject(t)' = Subject(t)
      BY <3>2, <3>7, <3>8 DEF RemindInv, Messages
    <3> HIDE DEF i
    <3> QED BY <2>4, <3>3, <3>5, <3>6, <3>8, HoursKept DEF Messages, Written
  <2> QED BY <2>6, <2>7, <2>8, <2>9 DEF RemindInv
<1> QED BY <1>4, <1>5

----------------------------------------------------------------------------
(* Deliveries and their jobs.                                              *)

\* Messages speak of scans, jobs, the item and the notifications.
LEMMA MessagesKept ==
  ASSUME RemindInv, UNCHANGED <<people, notes, scans>>, jobs' \in [Ids -> Job],
         \A id \in Ids : jobs'[id].own = jobs[id].own /\ jobs'[id].deadline = jobs[id].deadline
  PROVE  Messages'
<1>1. UNCHANGED <<kind, item>>
  BY DEF people
<1>2. \A id, d : Written(id, d) <=> item'.status = "deleted" \/ (d # None /\ notes'[id] = d)
  BY <1>1 DEF Written
<1>3. \A t \in Scanners : Subject(t)' = Subject(t)
  BY <1>1 DEF Subject, Period
<1> QED BY <1>1, <1>2, <1>3, HoursKept DEF RemindInv, Messages, Written

\* A delivery that ends, and a job that is settled or left alone.
LEMMA SettleKeeps ==
  ASSUME RemindInv, NEW id \in Ids, NEW j \in Job, JobOnly(id, j),
         j.hour = jobs[id].hour, j.deadline = jobs[id].deadline, j.own = jobs[id].own,
         jobs[id].state # "none" => j.state # "none",
         Runs(j) >= Runs(jobs[id]),
         UNCHANGED deliveries \/ \E w \in Workers : deliveries' = [deliveries EXCEPT ![w] = Idle],
         UNCHANGED <<people, notes, told, scans, now>>
  PROVE  RemindInv'
<1>0. UNCHANGED <<kind, item, active, muted, edits>>
  BY DEF people
<1>1. \A i \in Ids : jobs'[i] = IF i = id THEN j ELSE jobs[i]
  BY DEF JobOnly, RemindInv, Shape, TypeOK
<1>2. Idle \in Delivery /\ Idle.at = "idle"
  BY Blank, HourFacts DEF RemindInv, Shape
<1>3. \A v \in Workers : deliveries'[v] = deliveries[v] \/ deliveries'[v] = Idle
  BY DEF RemindInv, Shape, TypeOK
<1>4. Shape'
  <2>1. UNCHANGED deliveries \/ \E w \in Workers, x \in Delivery : DeliveryOnly(w, x)
    BY <1>2 DEF DeliveryOnly
  <2> QED BY <1>0, <2>1, ShapeKept DEF RemindInv, Shape, TypeOK
<1>5. Counted'
  <2> SUFFICES ASSUME NEW i \in Ids PROVE CountOf(i)'
    BY <1>0, HoursKept DEF Counted
  <2>1. CountOf(i) /\ told[i] \in Nat
    BY DEF RemindInv, Counted, Shape, TypeOK
  <2>2. Pending(i)' \subseteq Pending(i)
    BY <1>2, <1>3 DEF Pending, Telling
  <2>3. /\ IsFiniteSet(Pending(i)') /\ Cardinality(Pending(i)') <= Cardinality(Pending(i))
        /\ Cardinality(Pending(i)) \in Nat /\ Cardinality(Pending(i)') \in Nat
    BY <2>1, <2>2, FS_Subset, FS_CardinalityType DEF CountOf
  <2>4. Runs(jobs'[i]) >= Runs(jobs[i]) /\ Runs(jobs'[i]) \in Int /\ Runs(jobs[i]) \in Int
    <3>1. jobs[i] \in Job /\ jobs'[i] \in Job
      BY <1>1 DEF RemindInv, Shape, TypeOK
    <3>2. Runs(jobs'[i]) \in Int /\ Runs(jobs[i]) \in Int
      BY <3>1, ReminderAssumption DEF Runs, Job
    <3> QED BY <1>1, <3>2
  <2>5. Runs(jobs[i])' = Runs(jobs'[i]) /\ told'[i] = told[i]
    BY DEF Runs
  <2> HIDE DEF Pending
  <2> QED BY <2>1, <2>3, <2>4, <2>5 DEF CountOf
<1>6. Knows'
  <2> SUFFICES ASSUME NEW w \in Workers PROVE KnowsOf(deliveries[w])'
    BY DEF Knows
  <2>1. KnowsOf(deliveries[w]) /\ (deliveries[w].at \in Telling => deliveries[w].id \in Ids)
    BY DEF RemindInv, Knows, Shape, Telling
  <2>2. CASE deliveries'[w] = Idle
    BY <1>2, <2>2 DEF KnowsOf, Telling
  <2>3. CASE deliveries'[w] = deliveries[w]
    BY <1>0, <1>1, <2>1, <2>3 DEF KnowsOf, Telling
  <2> QED BY <1>3, <2>2, <2>3
<1>7. Messages'
  BY <1>1, <1>4, <1>0, MessagesKept, HoursKept DEF Shape, TypeOK
<1> QED BY <1>4, <1>5, <1>6, <1>7 DEF RemindInv

LEMMA JobFields ==
  ASSUME NEW j \in Job
  PROVE  /\ j.tries \in Nat /\ j.tries <= Attempts /\ j.stalls \in Nat /\ j.stalls <= MaxStalls + 1
         /\ Runs(j) \in Int
BY ReminderAssumption DEF Job, Runs

\* A running job that is no longer held, with one more attempt or one more stall.
Unheld(j, tries, stalls, state) ==
  [j EXCEPT !.holder = None, !.tries = tries, !.stalls = stalls, !.state = state]

LEMMA UnheldTyped ==
  ASSUME NEW j \in Job, j.state = "active", JobShape(j), NEW state \in {"waiting", "failed"},
         NEW tries \in Nat, NEW stalls \in Nat,
         \/ tries = j.tries + 1 /\ stalls = j.stalls /\ (state = "waiting" => tries < Attempts)
         \/ tries = j.tries /\ stalls = j.stalls + 1 /\ (state = "waiting" => stalls <= MaxStalls)
  PROVE  LET next == Unheld(j, tries, stalls, state)
         IN  next \in Job /\ JobShape(next) /\ Runs(next) >= Runs(j) /\ next.state # "none"
             /\ next.hour = j.hour /\ next.deadline = j.deadline /\ next.own = j.own
<1> DEFINE next == Unheld(j, tries, stalls, state)
<1>1. j.tries < Attempts /\ j.stalls <= MaxStalls /\ j.tries \in Nat /\ j.stalls \in Nat
  BY JobFields DEF JobShape
<1>2. tries \in 0..Attempts /\ stalls \in 0..(MaxStalls + 1)
  BY <1>1, ReminderAssumption
<1>3. next \in Job
  BY <1>2 DEF Job, Unheld
<1>4. /\ next.state = state /\ next.tries = tries /\ next.stalls = stalls /\ next.holder = None
      /\ next.hour = j.hour /\ next.deadline = j.deadline /\ next.own = j.own
  BY DEF Job, Unheld
<1> HIDE DEF next
<1>5. JobShape(next)
  BY <1>1, <1>4 DEF JobShape
<1>6. Runs(next) >= Runs(j)
  BY <1>1, <1>4 DEF Runs
<1> QED BY <1>3, <1>4, <1>5, <1>6 DEF next

LEMMA FailDeliveryKeeps ==
  ASSUME RemindInv, NEW w \in Workers, FailDelivery(w) \/ Die(w) \/ Finish(w)
  PROVE  RemindInv'
<1> DEFINE id == deliveries[w].id
<1>1. id \in Ids /\ jobs[id] \in Job /\ JobShape(jobs[id]) /\ deliveries[w].at # "idle"
  BY DeliveryTyped DEF RemindInv, FailDelivery, Die, Finish
<1>2. /\ UNCHANGED <<people, notes, told, scans, now>>
      /\ deliveries' = [deliveries EXCEPT ![w] = Idle]
  BY DEF FailDelivery, Die, Finish, Ends
<1>3. jobs \in [Ids -> Job] /\ w # None
  BY ReminderAssumption DEF RemindInv, Shape, TypeOK
<1>4. CASE jobs' = jobs
  <2>1. jobs' = [jobs EXCEPT ![id] = jobs[id]]
    BY <1>3, <1>4
  <2>2. Runs(jobs[id]) >= Runs(jobs[id])
    BY <1>1, JobFields
  <2> HIDE DEF id
  <2> QED BY <1>1, <1>2, <2>1, <2>2, SettleKeeps DEF JobOnly
<1>5. CASE FailDelivery(w) /\ jobs[id].holder = w
  <2> DEFINE old == jobs[id]
             state == IF old.tries + 1 < Attempts THEN "waiting" ELSE "failed"
             j == Unheld(old, old.tries + 1, old.stalls, state)
  <2>1. old.state = "active" /\ old \in Job /\ old.tries \in Nat /\ old.stalls \in Nat
    BY <1>1, <1>3, <1>5, JobFields DEF JobShape
  <2>2. Retried(old) = j
    BY <2>1 DEF Retried, Job, Unheld
  <2>3. jobs' = [jobs EXCEPT ![id] = j]
    BY <1>5, <2>2 DEF FailDelivery, Ends
  <2>4. state \in {"waiting", "failed"} /\ old.tries + 1 \in Nat
        /\ (state = "waiting" => old.tries + 1 < Attempts)
    BY <2>1
  <2> HIDE DEF state
  <2>5. /\ j \in Job /\ JobShape(j) /\ Runs(j) >= Runs(old) /\ j.state # "none"
        /\ j.hour = old.hour /\ j.deadline = old.deadline /\ j.own = old.own
    <3>1. JobShape(old)
      BY <1>1
    <3> HIDE DEF old
    <3> QED BY <2>1, <2>4, <3>1, UnheldTyped
  <2> HIDE DEF j, id
  <2> QED BY <1>1, <1>2, <2>3, <2>5, SettleKeeps DEF JobOnly
<1>6. CASE Finish(w) /\ jobs[id].holder = w
  <2> DEFINE j == Kept(jobs[id])
  <2>1. jobs' = [jobs EXCEPT ![id] = j] /\ jobs[id].state = "active"
    BY <1>1, <1>3, <1>6 DEF Finish, Ends, JobShape
  <2>2. /\ j \in Job /\ j.tries = jobs[id].tries /\ j.stalls = jobs[id].stalls
        /\ j.state = "done" /\ j.holder = None
        /\ j.hour = jobs[id].hour /\ j.deadline = jobs[id].deadline /\ j.own = jobs[id].own
    BY <1>1, <2>1 DEF Kept, Job
  <2>3. jobs[id].tries \in Nat /\ jobs[id].stalls \in Nat
    BY <1>1, ReminderAssumption DEF Job
  <2> HIDE DEF j, id
  <2>4. JobShape(j)
    BY <2>2 DEF JobShape
  <2>5. Runs(j) >= Runs(jobs[id])
    BY <2>1, <2>2, <2>3 DEF Runs
  <2> QED BY <1>1, <1>2, <2>1, <2>2, <2>4, <2>5, SettleKeeps DEF JobOnly
<1> QED BY <1>4, <1>5, <1>6 DEF FailDelivery, Die, Finish, Ends

LEMMA StallKeeps ==
  ASSUME RemindInv, NEW id \in Ids, Stall(id)
  PROVE  RemindInv'
<1> DEFINE old == jobs[id]
           state == IF old.stalls < MaxStalls THEN "waiting" ELSE "failed"
           j == Unheld(old, old.tries, old.stalls + 1, state)
<1>1. old \in Job /\ JobShape(old) /\ old.state = "active" /\ jobs \in [Ids -> Job]
  BY DEF RemindInv, Shape, TypeOK, Stall
<1>2. old.tries \in Nat /\ old.stalls \in Nat /\ MaxStalls \in Nat
  BY <1>1, JobFields, ReminderAssumption
<1>3. state \in {"waiting", "failed"} /\ old.stalls + 1 \in Nat
      /\ (state = "waiting" => old.stalls + 1 <= MaxStalls)
  BY <1>2
<1>4. [old EXCEPT !.holder = None, !.stalls = @ + 1, !.state = state] = j
  BY <1>1 DEF Job, Unheld
<1>5. jobs' = [jobs EXCEPT ![id] = j] /\ UNCHANGED <<people, notes, told, scans, deliveries, now>>
  BY <1>1, <1>4 DEF Stall
<1> HIDE DEF state
<1>6. /\ j \in Job /\ JobShape(j) /\ Runs(j) >= Runs(old) /\ j.state # "none"
      /\ j.hour = old.hour /\ j.deadline = old.deadline /\ j.own = old.own
  <2> HIDE DEF old
  <2> QED BY <1>1, <1>2, <1>3, UnheldTyped
<1> HIDE DEF j
<1> QED BY <1>5, <1>6, SettleKeeps DEF JobOnly

\* A worker begins a run of a job.
LEMMA TakeKeeps ==
  ASSUME RemindInv, NEW w \in Workers, NEW id \in Ids, Take(w, id)
  PROVE  RemindInv'
<1> DEFINE old == jobs[id]
           j == [old EXCEPT !.state = "active", !.holder = w]
           d == [Idle EXCEPT !.at = IF OnTime(old) THEN "note" ELSE "finish", !.id = id, !.since = now]
<1>0. /\ UNCHANGED <<kind, item, active, muted, edits, notes, told, scans, now>>
      /\ deliveries[w].at = "idle" /\ old.state = "waiting"
  BY DEF Take, people
<1>1. old \in Job /\ JobShape(old) /\ jobs \in [Ids -> Job] /\ now \in Hours
      /\ deliveries \in [Workers -> Delivery]
  BY HourFacts DEF RemindInv, Shape, TypeOK
<1>2. /\ j \in Job /\ j.state = "active" /\ j.tries = old.tries /\ j.stalls = old.stalls
      /\ j.hour = old.hour /\ j.deadline = old.deadline /\ j.own = old.own
  BY <1>1 DEF Job
<1>3. JobShape(j)
  BY <1>0, <1>1, <1>2 DEF JobShape
<1>4. Runs(j) = Runs(old) + 1
  BY <1>0, <1>1, <1>2, JobFields DEF Runs
<1>5. /\ d \in Delivery /\ d.id = id /\ d.since = now
      /\ (d.at = "note" /\ OnTime(old)) \/ d.at = "finish"
  BY <1>1, Blank, HourFacts DEF RemindInv, Shape, Idle, Delivery
<1>6. jobs' = [jobs EXCEPT ![id] = j] /\ deliveries' = [deliveries EXCEPT ![w] = d]
  BY <1>1 DEF Take
<1> HIDE DEF j, d
<1>7. /\ \A i \in Ids : jobs'[i] = IF i = id THEN j ELSE jobs[i]
      /\ \A v \in Workers : deliveries'[v] = IF v = w THEN d ELSE deliveries[v]
  BY <1>1, <1>6
<1>8. Shape'
  <2>1. JobOnly(id, j) /\ DeliveryOnly(w, d)
    BY <1>2, <1>3, <1>5, <1>6 DEF JobOnly, DeliveryOnly
  <2> QED BY <1>0, <1>2, <1>5, <2>1, ShapeKept DEF RemindInv, Shape, TypeOK
<1>9. Counted'
  <2> SUFFICES ASSUME NEW i \in Ids PROVE CountOf(i)'
    BY <1>0, HoursKept DEF Counted
  <2>1. CountOf(i) /\ told[i] \in Nat /\ told'[i] = told[i] /\ jobs[i] \in Job /\ jobs'[i] \in Job
    BY <1>0, <1>2, <1>7 DEF RemindInv, Counted, Shape, TypeOK
  <2>2. Pending(i)' \subseteq IF i = id THEN Pending(i) \cup {w} ELSE Pending(i)
    BY <1>5, <1>7 DEF Pending, Telling
  <2>3. Cardinality(Pending(i)) \in Nat /\ IsFiniteSet(Pending(i) \cup {w})
        /\ Cardinality(Pending(i) \cup {w}) <= Cardinality(Pending(i)) + 1
    <3>1. IsFiniteSet(Pending(i))
      BY <2>1 DEF CountOf
    <3> HIDE DEF Pending
    <3> QED BY <3>1, FS_AddElement, FS_CardinalityType
  <2>4. Runs(jobs[i])' = Runs(jobs'[i]) /\ Runs(jobs[i]) \in Int /\ Runs(jobs'[i]) \in Int
    BY <2>1, JobFields DEF Runs
  <2> HIDE DEF Pending
  <2>5. CASE i = id
    <3>1. /\ IsFiniteSet(Pending(i)') /\ Cardinality(Pending(i)') \in Nat
          /\ Cardinality(Pending(i)') <= Cardinality(Pending(i) \cup {w})
          /\ Cardinality(Pending(i) \cup {w}) \in Nat
      BY <2>2, <2>3, <2>5, FS_Subset, FS_CardinalityType
    <3>2. Runs(jobs'[i]) = Runs(jobs[i]) + 1
      BY <1>4, <1>7, <2>5
    <3> QED BY <2>1, <2>3, <2>4, <3>1, <3>2 DEF CountOf
  <2>6. CASE i # id
    <3>1. /\ IsFiniteSet(Pending(i)') /\ Cardinality(Pending(i)') \in Nat
          /\ Cardinality(Pending(i)') <= Cardinality(Pending(i))
      BY <2>1, <2>2, <2>6, FS_Subset, FS_CardinalityType DEF CountOf
    <3>2. Runs(jobs'[i]) = Runs(jobs[i])
      BY <1>7, <2>6
    <3> QED BY <2>1, <2>3, <2>4, <3>1, <3>2 DEF CountOf
  <2> QED BY <2>5, <2>6
<1>10. Knows'
  <2> SUFFICES ASSUME NEW v \in Workers PROVE KnowsOf(deliveries[v])'
    BY DEF Knows
  <2>1. KnowsOf(deliveries[v]) /\ (deliveries[v].at \in Telling => deliveries[v].id \in Ids)
    BY DEF RemindInv, Knows, Shape, Telling
  <2>2. CASE v = w
    <3>1. deliveries'[v] = d /\ jobs'[d.id] = j
      BY <1>5, <1>7, <2>2
    <3>2. d.at \in Telling => d.at = "note" /\ now = old.hour
      BY <1>5 DEF Telling, OnTime
    <3> QED BY <1>2, <1>5, <3>1, <3>2 DEF KnowsOf, Telling
  <2>3. CASE v # w
    <3>1. deliveries'[v] = deliveries[v]
      BY <1>7, <2>3
    <3>2. deliveries[v].at \in Telling =>
            LET a == jobs'[deliveries[v].id]
                b == jobs[deliveries[v].id]
            IN  /\ b.state # "none" => a.state # "none"
                /\ a.hour = b.hour /\ a.deadline = b.deadline /\ a.own = b.own
      BY <1>2, <1>7, <2>1
    <3> QED BY <1>0, <2>1, <3>1, <3>2 DEF KnowsOf, Telling
  <2> QED BY <2>2, <2>3
<1>11. Messages'
  <2>1. \A i \in Ids : jobs'[i].own = jobs[i].own /\ jobs'[i].deadline = jobs[i].deadline
    BY <1>2, <1>7
  <2> QED BY <1>0, <1>8, <2>1, MessagesKept, HoursKept DEF Shape, TypeOK, people
<1> QED BY <1>8, <1>9, <1>10, <1>11 DEF RemindInv

\* A delivery goes on, or ends its run without having told anybody.
LEMMA WalkKeeps ==
  ASSUME RemindInv, NEW w \in Workers, NEW d \in Delivery, DeliveryOnly(w, d),
         d.at \in Telling => deliveries[w].at \in Telling /\ d.id = deliveries[w].id,
         KnowsOf(d), UNCHANGED <<people, notes, jobs, told, scans, now>>
  PROVE  RemindInv'
<1>0. UNCHANGED <<kind, item, active, muted, edits>>
  BY DEF people
<1>1. \A v \in Workers : deliveries'[v] = IF v = w THEN d ELSE deliveries[v]
  BY DEF DeliveryOnly, RemindInv, Shape, TypeOK
<1>2. Shape'
  BY <1>0, ShapeKept DEF RemindInv, Shape, TypeOK
<1>3. Counted'
  <2> SUFFICES ASSUME NEW i \in Ids PROVE CountOf(i)'
    BY <1>0, HoursKept DEF Counted
  <2>1. CountOf(i) /\ told[i] \in Nat /\ jobs[i] \in Job
    BY DEF RemindInv, Counted, Shape, TypeOK
  <2>2. Pending(i)' \subseteq Pending(i)
    BY <1>1 DEF Pending
  <2>3. /\ IsFiniteSet(Pending(i)') /\ Cardinality(Pending(i)') <= Cardinality(Pending(i))
        /\ Cardinality(Pending(i)) \in Nat /\ Cardinality(Pending(i)') \in Nat
    BY <2>1, <2>2, FS_Subset, FS_CardinalityType DEF CountOf
  <2>4. Runs(jobs[i])' = Runs(jobs[i]) /\ Runs(jobs[i]) \in Int /\ told'[i] = told[i]
    BY <2>1, JobFields DEF Runs
  <2> HIDE DEF Pending
  <2> QED BY <2>1, <2>3, <2>4 DEF CountOf
<1>4. Knows'
  <2>1. \A v \in Workers : KnowsOf(deliveries'[v])
    BY <1>1 DEF RemindInv, Knows
  <2> QED BY <1>0, <2>1 DEF Knows, KnowsOf
<1>5. Messages'
  BY MessagesKept DEF RemindInv, Shape, TypeOK
<1> QED BY <1>2, <1>3, <1>4, <1>5 DEF RemindInv

\* What a delivery is at its next step.
LEMMA BeforeTyped ==
  ASSUME Shape, NEW w \in Workers, deliveries[w].at \in Telling, NEW step \in Telling \cup {"finish"}
  PROVE  /\ Before(w, step) \in Delivery /\ Before(w, step).at = step
         /\ Before(w, step).id = deliveries[w].id
         /\ step # "finish" => /\ Before(w, step).since = deliveries[w].since
                               /\ Before(w, step).says = deliveries[w].says
                               /\ Before(w, step).saw = deliveries[w].saw
<1>1. deliveries[w] \in Delivery /\ Idle \in Delivery
  BY Blank, HourFacts DEF Shape, TypeOK
<1>2. deliveries[w].id \in Ids
  BY DeliveryTyped DEF Telling
<1> QED BY <1>1, <1>2 DEF Before, Delivery, Telling

LEMMA ReadNoteKeeps ==
  ASSUME RemindInv, NEW w \in Workers, ReadNote(w)
  PROVE  RemindInv'
<1> DEFINE id == deliveries[w].id
           found == notes[id] # None /\ id[1] \in active
           next == IF kind = "task" THEN "item" ELSE "mail"
           d == IF found THEN [Before(w, next) EXCEPT !.says = notes[id]] ELSE Before(w, "finish")
<1>1. deliveries[w].at = "note" /\ deliveries[w].at \in Telling
      /\ deliveries' = [deliveries EXCEPT ![w] = d]
      /\ UNCHANGED <<people, notes, jobs, told, scans, now>>
  BY DEF ReadNote, Telling
<1>2. id \in Ids /\ notes[id] \in Deadlines \cup {None} /\ kind \in {"task", "project"}
  BY <1>1, DeliveryTyped DEF RemindInv, Shape, TypeOK
<1>3. KnowsOf(deliveries[w])
  BY DEF RemindInv, Knows
<1>4. CASE found
  <2>1. next \in {"item", "mail"} /\ (next = "mail" => kind # "task")
    BY <1>2
  <2>2. /\ Before(w, next) \in Delivery /\ Before(w, next).at = next
        /\ Before(w, next).id = id /\ Before(w, next).since = deliveries[w].since
    BY <1>1, <2>1, BeforeTyped DEF RemindInv, Telling
  <2>3. d = [Before(w, next) EXCEPT !.says = notes[id]]
    BY <1>4
  <2> HIDE DEF d, next
  <2>4. /\ d \in Delivery /\ d.at = next /\ d.id = id /\ d.since = deliveries[w].since
        /\ d.says = notes[id]
    BY <1>2, <2>2, <2>3 DEF Delivery
  <2>5. jobs[id].own => item.status = "deleted" \/ notes[id] = jobs[id].deadline
    BY <1>2 DEF RemindInv, Messages, Written
  <2>6. KnowsOf(d)
    BY <1>1, <1>3, <2>1, <2>4, <2>5 DEF KnowsOf, Telling
  <2> QED BY <1>1, <1>2, <2>4, <2>6, WalkKeeps DEF DeliveryOnly
<1>5. CASE ~found
  <2>1. d \in Delivery /\ d.at = "finish" /\ d.id = id
    BY <1>1, <1>5, BeforeTyped DEF RemindInv
  <2> HIDE DEF d
  <2>2. KnowsOf(d)
    BY <2>1 DEF KnowsOf, Telling
  <2> QED BY <1>1, <1>2, <2>1, <2>2, WalkKeeps DEF DeliveryOnly, Telling
<1> QED BY <1>4, <1>5

LEMMA ReadItemKeeps ==
  ASSUME RemindInv, NEW w \in Workers, ReadItem(w)
  PROVE  RemindInv'
<1> DEFINE id == deliveries[w].id
           current == Current(id[1], jobs[id].deadline)
           d == IF current THEN [Before(w, "mail") EXCEPT !.saw = item] ELSE Before(w, "finish")
<1>1. deliveries[w].at = "item" /\ deliveries[w].at \in Telling
      /\ deliveries' = [deliveries EXCEPT ![w] = d]
      /\ UNCHANGED <<people, notes, jobs, told, scans, now>>
  BY DEF ReadItem, Telling
<1>2. id \in Ids /\ item \in Item
  BY <1>1, DeliveryTyped DEF RemindInv, Shape, TypeOK
<1>3. KnowsOf(deliveries[w])
  BY DEF RemindInv, Knows
<1>4. CASE current
  <2>1. /\ Before(w, "mail") \in Delivery /\ Before(w, "mail").at = "mail"
        /\ Before(w, "mail").id = id /\ Before(w, "mail").since = deliveries[w].since
        /\ Before(w, "mail").says = deliveries[w].says
    BY <1>1, BeforeTyped DEF RemindInv, Telling
  <2>2. d = [Before(w, "mail") EXCEPT !.saw = item]
    BY <1>4
  <2>3. item.status = "open" /\ item.deadline = jobs[id].deadline /\ id[1] \in item.owners \cup Admins
    BY <1>4 DEF Current, Responsible
  <2> HIDE DEF d
  <2>4. /\ d \in Delivery /\ d.at = "mail" /\ d.id = id /\ d.since = deliveries[w].since
        /\ d.says = deliveries[w].says /\ d.saw = item
    BY <1>2, <2>1, <2>2 DEF Delivery
  <2>5. KnowsOf(d)
    BY <1>1, <1>3, <2>3, <2>4 DEF KnowsOf, Telling
  <2> QED BY <1>1, <1>2, <2>4, <2>5, WalkKeeps DEF DeliveryOnly
<1>5. CASE ~current
  <2>1. d \in Delivery /\ d.at = "finish" /\ d.id = id
    BY <1>1, <1>5, BeforeTyped DEF RemindInv
  <2> HIDE DEF d
  <2>2. KnowsOf(d)
    BY <2>1 DEF KnowsOf, Telling
  <2> QED BY <1>1, <1>2, <2>1, <2>2, WalkKeeps DEF DeliveryOnly, Telling
<1> QED BY <1>4, <1>5

LEMMA QueueMailKeeps ==
  ASSUME RemindInv, NEW w \in Workers, QueueMail(w)
  PROVE  RemindInv'
<1> DEFINE d == Before(w, "tell")
<1>1. deliveries[w].at = "mail" /\ deliveries[w].at \in Telling
      /\ deliveries' = [deliveries EXCEPT ![w] = d]
      /\ UNCHANGED <<people, notes, jobs, told, scans, now>>
  BY DEF QueueMail, Goes, Telling
<1>2. deliveries[w].id \in Ids /\ KnowsOf(deliveries[w])
  BY <1>1, DeliveryTyped DEF RemindInv, Knows
<1>3. /\ d \in Delivery /\ d.at = "tell" /\ d.id = deliveries[w].id
      /\ d.since = deliveries[w].since /\ d.says = deliveries[w].says /\ d.saw = deliveries[w].saw
  BY <1>1, BeforeTyped DEF RemindInv, Telling
<1> HIDE DEF d
<1>4. KnowsOf(d)
  BY <1>1, <1>2, <1>3 DEF KnowsOf, Telling
<1> QED BY <1>1, <1>2, <1>3, <1>4, WalkKeeps DEF DeliveryOnly

\* Who has told is no longer counted as pending.
LEMMA TellKeeps ==
  ASSUME RemindInv, NEW w \in Workers, Tell(w)
  PROVE  RemindInv'
<1> DEFINE id == deliveries[w].id
           d == Before(w, "finish")
<1>0. /\ deliveries[w].at = "tell" /\ deliveries[w].at \in Telling
      /\ deliveries' = [deliveries EXCEPT ![w] = d] /\ told' = [told EXCEPT ![id] = @ + 1]
      /\ UNCHANGED <<kind, item, active, muted, edits, notes, jobs, scans, now>>
  BY DEF Tell, Goes, Telling, people
<1>1. id \in Ids /\ told \in [Ids -> Nat]
  BY <1>0, DeliveryTyped DEF RemindInv, Shape, TypeOK
<1>2. d \in Delivery /\ d.at = "finish" /\ d.id = id
  BY <1>0, BeforeTyped DEF RemindInv
<1> HIDE DEF d
<1>3. \A v \in Workers : deliveries'[v] = IF v = w THEN d ELSE deliveries[v]
  BY <1>0 DEF RemindInv, Shape, TypeOK
<1>4. Shape'
  <2>1. told' \in [Ids -> Nat] /\ DeliveryOnly(w, d)
    BY <1>0, <1>1, <1>2 DEF DeliveryOnly
  <2> QED BY <1>0, <1>2, <2>1, ShapeKept DEF RemindInv, Shape, TypeOK
<1>5. Counted'
  <2> SUFFICES ASSUME NEW i \in Ids PROVE CountOf(i)'
    BY <1>0, HoursKept DEF Counted
  <2>1. CountOf(i) /\ told[i] \in Nat /\ jobs[i] \in Job
    BY DEF RemindInv, Counted, Shape, TypeOK
  <2>2. /\ i = id => Pending(i)' = Pending(i) \ {w} /\ w \in Pending(i)
        /\ i # id => Pending(i)' = Pending(i)
    BY <1>0, <1>2, <1>3 DEF Pending, Telling
  <2>3. told'[i] = IF i = id THEN told[i] + 1 ELSE told[i]
    BY <1>0, <1>1
  <2>4. Runs(jobs[i])' = Runs(jobs[i]) /\ Runs(jobs[i]) \in Int
    BY <1>0, <2>1, JobFields DEF Runs
  <2> HIDE DEF Pending, id
  <2>5. CASE i = id
    <3>1. IsFiniteSet(Pending(i)) /\ Cardinality(Pending(i)) \in Nat
      BY <2>1, FS_CardinalityType DEF CountOf
    <3>2. IsFiniteSet(Pending(i) \ {w}) /\ Cardinality(Pending(i) \ {w}) = Cardinality(Pending(i)) - 1
      BY <2>2, <2>5, <3>1, FS_RemoveElement
    <3>3. Pending(i)' = Pending(i) \ {w} /\ told'[i] = told[i] + 1
      BY <2>2, <2>3, <2>5
    <3>4. IsFiniteSet(Pending(i)') /\ Cardinality(Pending(i)') = Cardinality(Pending(i)) - 1
      BY <3>2, <3>3
    <3> QED BY <2>1, <2>4, <3>1, <3>3, <3>4 DEF CountOf
  <2>6. CASE i # id
    BY <2>1, <2>2, <2>3, <2>4, <2>6 DEF CountOf
  <2> QED BY <2>5, <2>6
<1>6. Knows'
  <2>1. KnowsOf(d)
    BY <1>2 DEF KnowsOf, Telling
  <2>2. \A v \in Workers : KnowsOf(deliveries'[v])
    BY <1>3, <2>1 DEF RemindInv, Knows
  <2> QED BY <1>0, <2>2 DEF Knows, KnowsOf
<1>7. Messages'
  BY <1>0, MessagesKept DEF RemindInv, Shape, TypeOK, people
<1> QED BY <1>4, <1>5, <1>6, <1>7 DEF RemindInv

----------------------------------------------------------------------------
(* Everybody else, and time.                                               *)

\* The item, the accounts and time may change; a deleted item stays deleted, and notifications
\* go only with it.
LEMMA OthersKeep ==
  ASSUME RemindInv, UNCHANGED <<kind, jobs, told, scans, deliveries>>,
         item' \in Item, active' \subseteq Users, muted' \subseteq Users,
         now' \in Hours, edits' \in 0..MaxEdits,
         item.status = "deleted" => item'.status = "deleted",
         notes' \in [Ids -> Deadlines \cup {None}],
         UNCHANGED notes \/ item'.status = "deleted"
  PROVE  RemindInv'
<1>1. Shape'
  BY ShapeKept DEF RemindInv, Shape, TypeOK
<1>2. Counted'
  BY HoursKept DEF RemindInv, Counted, CountOf, Pending, Runs
<1>3. Knows'
  BY DEF RemindInv, Knows, KnowsOf
<1>4. Messages'
  <2>1. \A id, d : Written(id, d) => item'.status = "deleted" \/ (d # None /\ notes'[id] = d)
    BY DEF Written
  <2>2. \A t \in Scanners : Subject(t)' = Subject(t)
    BY DEF Subject, Period
  <2> QED BY <2>1, <2>2, HoursKept DEF RemindInv, Messages, Written
<1> QED BY <1>1, <1>2, <1>3, <1>4 DEF RemindInv

LEMMA EditsKeep ==
  ASSUME RemindInv, Edits
  PROVE  RemindInv'
<1>1. /\ item \in Item /\ active \subseteq Users /\ muted \subseteq Users /\ now \in Hours
      /\ edits \in 0..MaxEdits /\ notes \in [Ids -> Deadlines \cup {None}] /\ MaxEdits \in Nat
  BY ReminderAssumption DEF RemindInv, Shape, TypeOK
<1>2. edits' \in 0..MaxEdits /\ UNCHANGED <<kind, jobs, told, scans, deliveries, now>>
  BY <1>1 DEF Edits, SetDeadline, SetStatus, SetOwners, ChangeAccount, Delete, Edit
<1>3. ASSUME NEW day \in Deadlines \cup {None}, SetDeadline(day)
      PROVE  RemindInv'
  <2>1. item' \in Item /\ item'.status = item.status
    BY <1>1, <1>3 DEF SetDeadline, Item
  <2> QED BY <1>1, <1>2, <1>3, <2>1, OthersKeep DEF SetDeadline
<1>4. ASSUME NEW status \in {"open", "completed"}, SetStatus(status)
      PROVE  RemindInv'
  <2>1. item' \in Item /\ item.status # "deleted"
    BY <1>1, <1>4 DEF SetStatus, Item
  <2> QED BY <1>1, <1>2, <1>4, <2>1, OthersKeep DEF SetStatus
<1>5. ASSUME NEW owners \in SUBSET Users, SetOwners(owners)
      PROVE  RemindInv'
  <2>1. item' \in Item /\ item'.status = item.status
    BY <1>1, <1>5 DEF SetOwners, Item
  <2> QED BY <1>1, <1>2, <1>5, <2>1, OthersKeep DEF SetOwners
<1>6. ASSUME NEW u \in Users, ChangeAccount(u)
      PROVE  RemindInv'
  <2>1. item' = item /\ notes' = notes /\ active' \subseteq Users /\ muted' \subseteq Users
    BY <1>1, <1>6 DEF ChangeAccount
  <2> QED BY <1>1, <1>2, <2>1, OthersKeep
<1>7. CASE Delete
  <2>1. item' \in Item /\ item'.status = "deleted" /\ notes' \in [Ids -> Deadlines \cup {None}]
    BY <1>1, <1>7 DEF Delete, Item
  <2> QED BY <1>1, <1>2, <1>7, <2>1, OthersKeep DEF Delete
<1> QED BY <1>3, <1>4, <1>5, <1>6, <1>7 DEF Edits

LEMMA TickKeeps ==
  ASSUME RemindInv, Tick
  PROVE  RemindInv'
<1>1. LastHour[kind] \in Nat /\ now \in Hours /\ now < LastHour[kind] /\ now' = now + 1
  BY HourFacts DEF RemindInv, Shape, Tick
<1>2. now' \in Hours
  BY <1>1 DEF Hours
<1>3. UNCHANGED <<kind, item, active, muted, edits, notes, jobs, told, scans, deliveries>>
  BY DEF Tick, people
<1> QED BY <1>2, <1>3, OthersKeep DEF RemindInv, Shape, TypeOK

LEMMA StutterKeeps ==
  ASSUME RemindInv, UNCHANGED vars
  PROVE  RemindInv'
<1>1. UNCHANGED <<kind, item, active, muted, edits, notes, jobs, told, scans, deliveries, now>>
  BY DEF vars, people
<1>2. now \in Hours
  BY HourFacts DEF RemindInv, Shape
<1> QED BY <1>1, <1>2, OthersKeep DEF RemindInv, Shape, TypeOK

LEMMA StepKeeps == RemindInv /\ [Next]_vars => RemindInv'
<1> SUFFICES ASSUME RemindInv, [Next]_vars PROVE RemindInv'
  OBVIOUS
<1>1. ASSUME NEW s \in Scanners, Scans(s) PROVE RemindInv'
  BY <1>1, StartScanKeeps, ReadPreferenceKeeps, UpsertKeeps, AddKeeps, FailScanKeeps DEF Scans
<1>2. ASSUME NEW w \in Workers, Delivers(w) \/ FailDelivery(w) \/ Die(w) PROVE RemindInv'
  BY <1>2, ReadNoteKeeps, ReadItemKeeps, QueueMailKeeps, TellKeeps, FailDeliveryKeeps DEF Delivers
<1>3. ASSUME NEW w \in Workers, NEW id \in Ids, Take(w, id) PROVE RemindInv'
  BY <1>3, TakeKeeps
<1> QED BY <1>1, <1>2, <1>3, StallKeeps, EditsKeep, TickKeeps, StutterKeeps DEF Next

LEMMA RemindInvAlways == Spec => []RemindInv
BY RemindInitInv, StepKeeps, PTL DEF Spec

----------------------------------------------------------------------------
\* scanDeadlineReminders and deliver keep the types of the notifications, of the jobs and of
\* their own locals; in particular no job is tried more than `Attempts` times.
THEOREM RemindersTyped == Spec => []TypeOK
<1>1. RemindInv => TypeOK
  BY DEF RemindInv, Shape
<1> QED BY <1>1, RemindInvAlways, PTL

\* docs/task-calendar-integration.md:26: however many scans overlap, a reminder is sent again
\* only for a retry or a stall of its own job.
THEOREM ToldOnce == Spec => []ToldOnceUnlessRetried
<1>1. RemindInv => ToldOnceUnlessRetried
  <2> SUFFICES ASSUME RemindInv, NEW id \in Ids
               PROVE  told[id] <= 1 + jobs[id].tries + jobs[id].stalls
    BY DEF ToldOnceUnlessRetried
  <2>1. CountOf(id) /\ told[id] \in Nat /\ jobs[id] \in Job
    BY DEF RemindInv, Counted, Shape, TypeOK
  <2>2. Cardinality(Pending(id)) \in Nat
    BY <2>1, FS_CardinalityType DEF CountOf
  <2>3. jobs[id].tries \in Nat /\ jobs[id].stalls \in Nat
    BY <2>1, JobFields
  <2> QED BY <2>1, <2>2, <2>3 DEF CountOf, Runs
<1> QED BY <1>1, RemindInvAlways, PTL

\* docs/task-calendar-integration.md:27: deliver sends in the slot of the job, and to somebody
\* responsible for an open task due on the day that the message names, if it is the task it read.
THEOREM RemindersTrue == Spec => []RemindersAreTrue
<1>1. RemindInv => RemindersAreTrue
  <2> SUFFICES ASSUME RemindInv, NEW w \in Workers, Sending(w)
               PROVE  /\ jobs[deliveries[w].id].hour = deliveries[w].since
                      /\ kind = "task" /\ deliveries[w].saw = item =>
                           /\ item.status = "open" /\ Responsible(deliveries[w].id[1])
                           /\ jobs[deliveries[w].id].own => deliveries[w].says = item.deadline
    BY DEF RemindersAreTrue
  <2>1. KnowsOf(deliveries[w])
    BY DEF RemindInv, Knows
  <2> QED BY <2>1 DEF KnowsOf, Sending, Telling, Responsible
<1> QED BY <1>1, RemindInvAlways, PTL
=============================================================================
