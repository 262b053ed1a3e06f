------------------------------- MODULE Upkeep -------------------------------
(***************************************************************************)
(* What the administrators and the worker both write to the settings: the    *)
(* maintenance mode and its schedule (apps/api/src/app.service.ts,           *)
(* app.controller.ts, maintenance.guard.ts), and the alerts about inactive   *)
(* accounts with the digest that stamps them (apps/worker/src/index.ts).     *)
(*                                                                         *)
(* Each read and write of a setting is a step.  A schedule is its start and  *)
(* whether it was announced; a start is due once the clock has reached it.   *)
(***************************************************************************)
EXTENDS Integers

CONSTANT MaxNow   \* bound: the clock, in days

ASSUME UpkeepAssumption == MaxNow \in Nat

VARIABLES now,        \* the clock
          mode,       \* maintenanceMode
          schedule,   \* maintenanceSchedule
          announcing, \* announceMaintenance past its checks: the starts it will save
          ending,     \* the writes still to come of a request that ends the maintenance
          scan,       \* maintenance-scan: its next step and the schedule it read
          ended,      \* the latest request to end it: none, under way, answered, or undone: an
                      \* administrator or a scan wrote since it came
          alerts,     \* inactiveAccountAlerts, with the day of the last digest
          saving,     \* updateSecuritySettings between its read and its writes
          digest,     \* inactive-account-scan: its next step and the alerts it read
          mailed,     \* digests mailed on this day (0, 1, 2: several)
          unstamped   \* a digest of this day has no stamp: its scan died, or the alerts were
                      \* saved after it, or while it was mailed

keepVars == <<now, mode, schedule, announcing, ending, scan, ended, alerts, saving, digest, mailed, unstamped>>
maintenance == <<mode, schedule, announcing, ending, scan, ended>>
digests == <<alerts, saving, digest, mailed, unstamped>>

Never == MaxNow + 1
NoSchedule == [starts |-> Never, told |-> FALSE]
Due(s) == s.starts <= now
Undone == IF ended = "none" THEN "none" ELSE "undone"
ScanIdle == [at |-> "idle", saw |-> NoSchedule]
DigestIdle == [at |-> "idle", saw |-> [on |-> FALSE, sent |-> -1], day |-> 0]

KeepInit ==
  /\ now = 0 /\ mode = FALSE /\ schedule = NoSchedule /\ announcing = {} /\ ending = {}
  /\ scan = ScanIdle /\ ended = "none"
  /\ alerts = [on |-> FALSE, sent |-> -1] /\ saving = {} /\ digest = DigestIdle
  /\ mailed = 0 /\ unstamped = FALSE

\* maintenanceStatus and MaintenanceGuard: everybody but the administrators is refused.
Active == mode \/ Due(schedule)

Tick ==
  /\ now < MaxNow /\ now' = now + 1
  /\ mailed' = 0 /\ unstamped' = FALSE
  /\ UNCHANGED <<maintenance, alerts, saving, digest>>

-----------------------------------------------------------------------------
\* announceMaintenance: checked, the users told, and only then saved.
Announce(start) ==
  /\ start > now /\ ~Active /\ announcing = {}
  /\ announcing' = {start}
  /\ UNCHANGED <<now, mode, schedule, ending, scan, ended, digests>>
SaveAnnouncement(start) ==
  /\ start \in announcing /\ announcing' = {}
  /\ schedule' = [starts |-> start, told |-> TRUE]
  /\ ended' = Undone
  /\ UNCHANGED <<now, mode, ending, scan, digests>>
FailAnnounce ==
  /\ announcing # {} /\ announcing' = {}
  /\ UNCHANGED <<now, mode, schedule, ending, scan, ended, digests>>

\* PUT admin/settings: enabling writes the mode, cancelling the schedule.  A schedule may be put
\* as well, without an announcement.
Enable ==
  /\ mode' = TRUE /\ ended' = Undone
  /\ UNCHANGED <<now, schedule, announcing, ending, scan, digests>>
PutSchedule(start) ==
  /\ schedule' = [starts |-> start, told |-> FALSE]
  /\ ended' = IF start = Never THEN ended ELSE Undone
  /\ UNCHANGED <<now, mode, announcing, ending, scan, digests>>

\* Ending the maintenance writes both, in two calls that come in either order; one may fail.
EndsMode == {"mode"}   \* a mutant: the schedule is left
Ends == {"mode", "schedule"}
AskEnd ==
  /\ ending = {}
  /\ ending' = Ends /\ ended' = "under way"
  /\ UNCHANGED <<now, mode, schedule, announcing, scan, digests>>
WriteEnd(what) ==
  /\ what \in ending /\ ending' = ending \ {what}
  /\ mode' = (mode /\ what # "mode")
  /\ schedule' = IF what = "schedule" THEN NoSchedule ELSE schedule
  /\ ended' = IF ended = "under way" /\ ending' = {} THEN "answered" ELSE ended
  /\ UNCHANGED <<now, announcing, scan, digests>>
FailEnd ==
  /\ ending # {} /\ ending' = {} /\ ended' = "none"
  /\ UNCHANGED <<now, mode, schedule, announcing, scan, digests>>

\* maintenance-scan: the schedule is read; a due one switches the mode on, one that starts
\* within a day and was not announced is announced, and the copy is written back stamped.
ReadSchedule ==
  /\ scan.at = "idle" /\ schedule # NoSchedule
  /\ \/ Due(schedule) /\ scan' = [at |-> "activate", saw |-> schedule]
     \/ /\ ~Due(schedule) /\ ~schedule.told /\ schedule.starts <= now + 1
        /\ scan' = [at |-> "stamp", saw |-> schedule]
  /\ UNCHANGED <<now, mode, schedule, announcing, ending, ended, digests>>
WriteScan ==
  /\ scan.at # "idle" /\ scan' = ScanIdle
  /\ mode' = (mode \/ scan.at = "activate")
  /\ schedule' = IF scan.at = "stamp" THEN [scan.saw EXCEPT !.told = TRUE] ELSE schedule
  /\ ended' = Undone
  /\ UNCHANGED <<now, announcing, ending, digests>>
FailScan ==
  /\ scan.at # "idle" /\ scan' = ScanIdle
  /\ UNCHANGED <<now, mode, schedule, announcing, ending, ended, digests>>

-----------------------------------------------------------------------------
\* updateSecuritySettings: what the page sends replaces the alerts, and the stamp of the last
\* digest with them; a request for the session timeout alone writes back what it has read.
ReadAlerts(new) ==
  /\ saving = {}
  /\ saving' = {new}
  /\ UNCHANGED <<now, maintenance, alerts, digest, mailed, unstamped>>
WriteAlerts(new) ==
  /\ new \in saving /\ saving' = {}
  /\ alerts' = [on |-> new, sent |-> -1]
  /\ unstamped' = (unstamped \/ mailed > 0)
  /\ UNCHANGED <<now, maintenance, digest, mailed>>

\* inactive-account-scan: nothing without alerts or with a stamp of this day; the mail is sent,
\* and the copy that was read is written back stamped with the time of the scan.
StampedNot(d) == d.saw   \* a mutant
Stamped(d) == [d.saw EXCEPT !.sent = d.day]
ReadDigest ==
  /\ digest.at = "idle" /\ alerts.on /\ alerts.sent # now
  /\ digest' = [at |-> "mail", saw |-> alerts, day |-> now]
  /\ UNCHANGED <<now, maintenance, alerts, saving, mailed, unstamped>>
MailDigest ==
  /\ digest.at = "mail" /\ digest' = [digest EXCEPT !.at = "stamp"]
  /\ mailed' = IF mailed = 2 THEN 2 ELSE mailed + 1
  /\ unstamped' = (unstamped \/ digest.day # now)
  /\ UNCHANGED <<now, maintenance, alerts, saving>>
StampDigest ==
  /\ digest.at = "stamp" /\ digest' = DigestIdle
  /\ alerts' = Stamped(digest)
  /\ UNCHANGED <<now, maintenance, saving, mailed, unstamped>>
\* Nobody is inactive, the mail is refused, the worker ends; the scan may run again on this day.
FailDigest ==
  /\ digest.at # "idle" /\ digest' = DigestIdle
  /\ unstamped' = (unstamped \/ digest.at = "stamp")
  /\ UNCHANGED <<now, maintenance, alerts, saving, mailed>>

MaintenanceNext ==
  \/ \E start \in 1..MaxNow : Announce(start) \/ SaveAnnouncement(start)
  \/ \E start \in 1..Never : PutSchedule(start)
  \/ FailAnnounce \/ Enable \/ AskEnd \/ FailEnd
  \/ \E what \in Ends : WriteEnd(what)
  \/ ReadSchedule \/ WriteScan \/ FailScan
DigestNext ==
  \/ \E new \in BOOLEAN : ReadAlerts(new) \/ WriteAlerts(new)
  \/ ReadDigest \/ MailDigest \/ StampDigest \/ FailDigest

KeepNext == Tick \/ MaintenanceNext \/ DigestNext
KeepSpec == KeepInit /\ [][KeepNext]_keepVars

KeepTypeOK ==
  /\ now \in 0..MaxNow /\ mode \in BOOLEAN
  /\ schedule \in [starts : 1..Never, told : BOOLEAN] /\ announcing \subseteq 1..MaxNow
  /\ ending \subseteq Ends /\ ended \in {"none", "under way", "answered", "undone"}
  /\ scan \in [at : {"idle", "activate", "stamp"}, saw : [starts : 1..Never, told : BOOLEAN]]
  /\ alerts \in [on : BOOLEAN, sent : -1..MaxNow] /\ saving \subseteq BOOLEAN
  /\ digest \in [at : {"idle", "mail", "stamp"}, saw : [on : BOOLEAN, sent : -1..MaxNow],
                  day : 0..MaxNow]
  /\ mailed \in 0..2 /\ unstamped \in BOOLEAN

-----------------------------------------------------------------------------
\* PUT admin/settings (app.controller 164): once the end of the maintenance is answered nobody
\* is shut out again, unless somebody wrote while it was under way, enables or schedules it
\* after that, or a scan writes back what it had read before.
MaintenanceStaysEnded == ended = "answered" => ~Active

\* The comment at worker/src/index.ts:59: a digest goes out once a day at most; unless its scan
\* died before the stamp or ran past midnight, or an administrator saved the alerts that day.
DigestOncePerDay == mailed > 1 => unstamped
=============================================================================
