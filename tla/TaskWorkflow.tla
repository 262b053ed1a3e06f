---------------------------- MODULE TaskWorkflow ----------------------------
(***************************************************************************)
(* One task of a project: its status, its assignment and the workflow       *)
(* events that record both (apps/api/src/app.service.ts).                   *)
(*                                                                         *)
(* A change reads the task, decides, and then writes everything it decided   *)
(* in one transaction; whatever happened between is overwritten.            *)
(***************************************************************************)
EXTENDS Integers, Sequences

CONSTANTS People,   \* everybody who may see or change the task
          Leader,   \* who leads the project
          Changes,  \* the requests that change the task, each made once
          Nobody

ASSUME TaskAssumption == Leader \in People /\ Nobody \notin People

VARIABLES task,     \* the row; "gone" once it is deleted
          active,   \* the active TaskAssignment rows, by assignee
          members,  \* who has a ProjectMember row
          history,  \* the status events, oldest first
          handed,   \* the latest assignment event's toValue, and whether they all chain
          changes,  \* what each request asks for, has read, and whether it was overtaken
          restarted \* startedAt was set a second time

taskVars == <<task, active, members, history, handed, changes, restarted>>

Statuses == {"pending", "ongoing", "completed"}  \* for_review is treated as pending is
Keep == "keep"
Ask == [op : {"status", "edit", "link", "relink"}, by : People,
        status : Statuses \cup {Keep}, assignee : People \cup {Nobody, Keep}]

Assignee == IF active = {} THEN Nobody ELSE CHOOSE u \in active : TRUE
Leads(u) == u = Leader /\ u \in members
Unmade == [at |-> "unmade"]

\* createTask leaves it unassigned; createProject, with initial tasks, assigns it.
TaskInit ==
  /\ task = [status |-> "pending", started |-> FALSE, completed |-> FALSE]
  /\ active \in {{}} \cup {{u} : u \in People}
  /\ members = People
  /\ history = <<>>
  /\ handed = [to |-> Assignee, chained |-> TRUE]
  /\ changes = [c \in Changes |-> Unmade]
  /\ restarted = FALSE

Exists == task.status # "gone"

\* Who may: taskStatus; updateTask; linkTaskResource through task(); updateLinkedResource.
MayOpen(u) == u \in active \/ u \in members
MaySetStatus(u) == u \in active \/ Leads(u)
MayEditResource(u) == u \in members /\ (u = Assignee \/ Leads(u))
Permitted(a) ==
  CASE a.op = "status" -> /\ a.assignee = Keep /\ a.status # Keep
                          /\ MaySetStatus(a.by)
    [] a.op = "edit"   -> /\ Leads(a.by)
                          /\ a.assignee \in members \cup {Keep, Nobody}
    [] a.op = "link"   -> /\ a.assignee = Keep
                          /\ MayOpen(a.by)
                          /\ a.status \in {Keep, task.status} \/ a.by \in active
    [] a.op = "relink" -> /\ a.assignee # Nobody
                          /\ MayEditResource(a.by)
                          /\ \/ a.assignee = Keep
                             \/ a.assignee \in members /\ (a.assignee = Assignee \/ Leads(a.by))
                          /\ a.status \in {Keep, task.status} \/ a.by = Assignee

\* The reads of a request, and all that it decides on them.  reassigned, statusChanged.
ReadTask(c, a) ==
  /\ changes[c] = Unmade /\ Exists
  /\ Permitted(a)
  /\ changes' = [changes EXCEPT ![c] =
       [at |-> "write", from |-> task.status, unstarted |-> ~task.started, holder |-> Assignee,
        to |-> IF a.status = task.status THEN Keep ELSE a.status,
        assignee |-> IF a.assignee = Assignee THEN Keep ELSE a.assignee,
        overtaken |-> FALSE]]
  /\ UNCHANGED <<task, active, members, history, handed, restarted>>

Writing == {c \in Changes : changes[c].at = "write"}
Overtake(c) ==
  [d \in Changes |-> IF d = c THEN [at |-> "done"]
                     ELSE IF d \in Writing /\ {changes[c].to, changes[c].assignee} # {Keep}
                          THEN [changes[d] EXCEPT !.overtaken = TRUE]
                          ELSE changes[d]]

\* The update of the row: completedAt is set or cleared with every change of the status.
SavedKeepingStamp(c) ==   \* a mutant: completedAt is never cleared
  [status |-> changes[c].to, started |-> task.started \/ changes[c].to = "ongoing",
   completed |-> task.completed \/ changes[c].to = "completed"]
Saved(c) == [status |-> changes[c].to,
             started |-> task.started \/ (changes[c].to = "ongoing" /\ changes[c].unstarted),
             completed |-> changes[c].to = "completed"]

\* The event of the transaction, with the status read before it.
StatusEventSwapped(c) ==   \* a mutant: the two values change places
  [from |-> changes[c].to, to |-> changes[c].from, late |-> changes[c].overtaken]
StatusEvent(c) == [from |-> changes[c].from, to |-> changes[c].to, late |-> changes[c].overtaken]
WriteTask(c) ==
  LET x == changes[c] IN
  /\ x.at = "write" /\ Exists
  /\ IF x.to = Keep THEN UNCHANGED <<task, history, restarted>>
     ELSE /\ task' = Saved(c)
          /\ history' = Append(history, StatusEvent(c))
          /\ restarted' = (restarted \/ (x.to = "ongoing" /\ x.unstarted /\ task.started))
  /\ IF x.assignee = Keep THEN UNCHANGED <<active, handed>>
     ELSE /\ active' = {x.assignee} \ {Nobody}
          /\ handed' = [to |-> x.assignee,
                        chained |-> handed.chained /\ (x.holder = handed.to \/ x.overtaken)]
  /\ changes' = Overtake(c)
  /\ UNCHANGED members

\* A call is rejected (the task is gone, a deadlock in the database) or the process ends.
FailChange(c) ==
  /\ changes[c].at = "write"
  /\ changes' = [changes EXCEPT ![c] = [at |-> "done"]]
  /\ UNCHANGED <<task, active, members, history, handed, restarted>>

\* deleteTask and deleteProject: one transaction removes the task and all that refers to it.
DeleteTask ==
  /\ Exists
  /\ task' = [task EXCEPT !.status = "gone"]
  /\ active' = {} /\ history' = <<>> /\ restarted' = FALSE
  /\ handed' = [to |-> Nobody, chained |-> TRUE]
  /\ UNCHANGED <<members, changes>>

\* leaveGroup deletes the project membership and leaves the assignment; addProjectMember.
ChangeMembership(u) ==
  /\ u # Leader
  /\ members' = IF u \in members THEN members \ {u} ELSE members \cup {u}
  /\ UNCHANGED <<task, active, history, handed, changes, restarted>>

TaskNext ==
  \/ \E c \in Changes : (\E a \in Ask : ReadTask(c, a)) \/ WriteTask(c) \/ FailChange(c)
  \/ \E u \in People : ChangeMembership(u)
  \/ DeleteTask

TaskSpec == TaskInit /\ [][TaskNext]_taskVars

-----------------------------------------------------------------------------
\* taskTracker: the tasks of the caller's projects, and which controls each one offers;
\* myTasks: the tasks assigned to the caller, which the page opens with task().
InTracker(u) == Exists /\ u \in members
OffersStatusToAll(u) == InTracker(u)   \* a mutant: the control is shown to every member
OffersStatus(u) == InTracker(u) /\ u \in active
OffersAssign(u) == InTracker(u) /\ Leads(u)
OffersResource(u) == OffersStatus(u) \/ OffersAssign(u)
InMyTasks(u) == Exists /\ u \in active

\* taskTracker (671-725) and the guards of the four requests are written apart: who is offered
\* a control may use it, as long as nothing changed since the page was loaded.
OffersAreHonoured ==
  \A u \in People :
    /\ OffersStatus(u) => MaySetStatus(u)
    /\ OffersAssign(u) => Leads(u)
    /\ OffersResource(u) => MayEditResource(u)
    /\ InMyTasks(u) => MayOpen(u) /\ MaySetStatus(u)

\* taskStatus (650), updateTask (590), linkTaskResource, updateLinkedResource: four handlers
\* write the same facts.  However they interleave, the last event names the status the task
\* has, the completion stamp belongs to a completed task, at most one assignment is active and
\* it is the one the last assignment event names.
HistoryAccountsForTask ==
  Exists => /\ task.status = (IF history = <<>> THEN "pending" ELSE history[Len(history)].to)
            /\ task.completed <=> task.status = "completed"
            /\ active = {handed.to} \ {Nobody}

\* The same handlers: an event starts where the one before it ended, and work starts once,
\* unless the request had read the task before another one wrote it.
HistoryChains ==
  /\ \A n \in 2..Len(history) : history[n].from = history[n-1].to \/ history[n].late
  /\ handed.chained
  /\ restarted => \E n \in 1..Len(history) : history[n].late

TaskTypeOK ==
  /\ task \in [status : Statuses \cup {"gone"}, started : BOOLEAN, completed : BOOLEAN]
  /\ active \subseteq People
  /\ members \subseteq People
  /\ history \in Seq([from : Statuses, to : Statuses, late : BOOLEAN])
  /\ handed \in [to : People \cup {Nobody}, chained : BOOLEAN]
  /\ changes \in [Changes -> {Unmade, [at |-> "done"]} \cup
       [at : {"write"}, from : Statuses, unstarted : BOOLEAN, holder : People \cup {Nobody},
        to : Statuses \cup {Keep}, assignee : People \cup {Nobody, Keep}, overtaken : BOOLEAN]]
  /\ restarted \in BOOLEAN
=============================================================================
