---------------------------- MODULE ServerProofs ----------------------------
(***************************************************************************)
(* What the small parts of the server promise for every value of their      *)
(* constants: IdeaBoard for any ideas, polls and requests, TaskWorkflow for  *)
(* any people and any number of requests, Upkeep for any number of days,     *)
(* Registration for any limits and any number of entries in flight.          *)
(* The parts share no state; a section speaks of one of them.               *)
(***************************************************************************)
EXTENDS IdeaBoard, TaskWorkflow, Upkeep, Registration, FiniteSetTheorems, TLAPS

-----------------------------------------------------------------------------
(* Ideas *)

\* A request that read an idea before it was marked is known to have met the begin.
ReadersKnown ==
  \A i \in Ideas, w \in Writers :
    status[i] = "selected" /\ writers[w].at # "idle" /\ writers[w].idea = i => i \in broken

\* An idea that was begun has its project, or can only be begun again by those who are known.
BegunIsTaken ==
  \A i \in Ideas : begun[i] >= 1 =>
    project[i] \/ i \in broken \/ status[i] \in {"selected", "deleted"}

\* A request between two of its calls has an idea.
BusyHaveIdeas == \A w \in Writers : writers[w].at # "idle" => writers[w].idea \in Ideas

BoardInv == BoardTypeOK /\ BusyHaveIdeas /\ ReadersKnown /\ BegunIsTaken /\ BegunIdeasSelected /\ BegunOnce

----------------------------------------------------------------------------
LEMMA BoardInitInv == BoardInit => BoardInv
BY BoardAssumption DEF BoardInit, BoardInv, BoardTypeOK, BusyHaveIdeas, ReadersKnown, BegunIsTaken,
   BegunIdeasSelected, BegunOnce, Open, IdleWriter

LEMMA SubmitKeeps ==
  ASSUME BoardInv, NEW i \in Ideas, SubmitIdea(i)
  PROVE  BoardInv'
<1>1. BoardTypeOK'
  BY DEF BoardInv, BoardTypeOK, SubmitIdea, Open
<1>2. \A j \in Ideas : project'[j] => status'[j] = status[j] \/ (HasRow(j)' /\ status[j] = "unwritten")
  BY DEF BoardInv, BoardTypeOK, SubmitIdea, HasRow, Open
<1>3. BusyHaveIdeas' /\ ReadersKnown' /\ BegunIsTaken' /\ BegunOnce'
  BY DEF BoardInv, BoardTypeOK, SubmitIdea, BusyHaveIdeas, ReadersKnown, BegunIsTaken, BegunOnce
<1>4. BegunIdeasSelected'
  BY <1>2 DEF BoardInv, BoardTypeOK, SubmitIdea, BegunIdeasSelected, HasRow, Open
<1> QED BY <1>1, <1>3, <1>4 DEF BoardInv

LEMMA ReadKeeps ==
  ASSUME BoardInv, NEW w \in Writers, NEW op \in {"revise", "reject", "begin"}, NEW i \in Ideas,
         ReadIdea(w, op, i)
  PROVE  BoardInv'
<1> DEFINE read == [at |-> IF op = "begin" THEN "create" ELSE "write", op |-> op, idea |-> i]
<1>1. writers' = [writers EXCEPT ![w] = read] /\ status[i] \in Open /\ writers[w].at = "idle"
      /\ UNCHANGED <<status, project, begun, polls, broken>>
  BY DEF ReadIdea, MayChange
<1>2. BoardTypeOK'
  BY <1>1 DEF BoardInv, BoardTypeOK
<1>3. BusyHaveIdeas' /\ ReadersKnown' /\ BegunIsTaken' /\ BegunOnce'
  BY <1>1 DEF BoardInv, BoardTypeOK, BusyHaveIdeas, ReadersKnown, BegunIsTaken, BegunOnce, Open
<1>4. \A v \in Writers : writers[v].at = "mark" => writers'[v] = writers[v]
  BY <1>1 DEF BoardInv, BoardTypeOK
<1>5. BegunIdeasSelected'
  BY <1>1, <1>4 DEF BoardInv, BoardTypeOK, BegunIdeasSelected, HasRow
<1> QED BY <1>2, <1>3, <1>5 DEF BoardInv

\* A request that ends takes nothing away from the others.
LEMMA EndLeavesOthers ==
  ASSUME BoardTypeOK, NEW w \in Writers, End(w)
  PROVE  /\ writers' \in [Writers -> [at : {"idle", "write", "create", "mark"},
                                      op : {"none", "revise", "reject", "begin"},
                                      idea : Ideas \cup {NoIdea}]]
         /\ writers'[w].at = "idle"
         /\ \A v \in Writers \ {w} : writers'[v] = writers[v]
BY DEF BoardTypeOK, End, IdleWriter

LEMMA WriteKeeps ==
  ASSUME BoardInv, NEW w \in Writers, WriteIdea(w)
  PROVE  BoardInv'
<1> DEFINE i == writers[w].idea
<1>1. /\ writers[w].at = "write" /\ HasRow(i) /\ End(w)
      /\ status' = [status EXCEPT ![i] = IF writers[w].op = "revise" THEN "refined" ELSE "rejected"]
      /\ UNCHANGED <<project, begun, polls, broken>>
  BY DEF WriteIdea
<1>2. BoardTypeOK'
  BY <1>1, EndLeavesOthers DEF BoardInv, BoardTypeOK, Open
<1>3. BusyHaveIdeas' /\ ReadersKnown'
  BY <1>1, EndLeavesOthers DEF BoardInv, BoardTypeOK, BusyHaveIdeas, ReadersKnown
<1>4. \A j \in Ideas : j = i /\ status[j] = "selected" => j \in broken
  BY <1>1 DEF BoardInv, BusyHaveIdeas, ReadersKnown
<1>5. \A j \in Ideas : status'[j] = status[j] \/ (j = i /\ HasRow(j)' /\ status[j] # "deleted")
  BY <1>1 DEF BoardInv, BoardTypeOK, HasRow, Open
<1>6. BegunIsTaken' /\ BegunOnce'
  BY <1>1, <1>4, <1>5 DEF BoardInv, BoardTypeOK, BegunIsTaken, BegunOnce
<1>7. \A v \in Writers : writers[v].at = "mark" => writers'[v] = writers[v]
  BY <1>1, EndLeavesOthers DEF BoardInv
<1>8. BegunIdeasSelected'
  BY <1>1, <1>4, <1>5, <1>7 DEF BoardInv, BoardTypeOK, BegunIdeasSelected, HasRow
<1> QED BY <1>2, <1>3, <1>6, <1>8 DEF BoardInv

LEMMA CreateKeeps ==
  ASSUME BoardInv, NEW w \in Writers, CreateProject(w)
  PROVE  BoardInv'
<1> DEFINE i == writers[w].idea
<1>1. /\ writers[w].at = "create" /\ HasRow(i) /\ ~project[i]
      /\ project' = [project EXCEPT ![i] = TRUE]
      /\ begun' = [begun EXCEPT ![i] = IF @ = 2 THEN 2 ELSE @ + 1]
      /\ writers' = [writers EXCEPT ![w].at = "mark"]
      /\ UNCHANGED <<status, polls, broken>>
  BY DEF CreateProject
<1>2. BoardTypeOK'
  <2>1. [writers[w] EXCEPT !.at = "mark"] \in
          [at : {"idle", "write", "create", "mark"}, op : {"none", "revise", "reject", "begin"},
           idea : Ideas \cup {NoIdea}]
    BY DEF BoardInv, BoardTypeOK
  <2>2. begun' \in [Ideas -> 0..2]
    <3>1. \A n \in 0..2 : (IF n = 2 THEN 2 ELSE n + 1) \in 0..2
      OBVIOUS
    <3> QED BY <1>1, <3>1 DEF BoardInv, BoardTypeOK
  <2> QED BY <1>1, <2>1, <2>2 DEF BoardInv, BoardTypeOK
<1>3. /\ writers'[w].at = "mark" /\ writers'[w].idea = i
      /\ \A v \in Writers : writers'[v].idea = writers[v].idea
      /\ \A v \in Writers \ {w} : writers'[v] = writers[v]
  BY <1>1 DEF BoardInv, BoardTypeOK
<1>4. BusyHaveIdeas' /\ ReadersKnown'
  BY <1>1, <1>3 DEF BoardInv, BusyHaveIdeas, ReadersKnown
<1>5. BegunIsTaken'
  BY <1>1 DEF BoardInv, BoardTypeOK, BegunIsTaken
<1>6. i \in Ideas /\ begun[i] >= 1 => i \in broken
  BY <1>1 DEF BoardInv, BusyHaveIdeas, ReadersKnown, BegunIsTaken, HasRow, Open
<1>7. BegunOnce'
  BY <1>1, <1>6 DEF BoardInv, BoardTypeOK, BegunOnce
<1>8. BegunIdeasSelected'
  <2> SUFFICES ASSUME NEW j \in Ideas, project'[j]
               PROVE  \/ status'[j] = "selected"
                      \/ /\ HasRow(j)'
                         /\ \/ j \in broken'
                            \/ \E v \in Writers : writers'[v].at = "mark" /\ writers'[v].idea = j
    BY DEF BegunIdeasSelected
  <2>1. CASE j = i
    BY <1>1, <1>3, <2>1 DEF HasRow
  <2>2. CASE j # i
    BY <1>1, <1>3, <2>2 DEF BoardInv, BoardTypeOK, BegunIdeasSelected, HasRow
  <2> QED BY <2>1, <2>2
<1> QED BY <1>2, <1>4, <1>5, <1>7, <1>8 DEF BoardInv

LEMMA MarkKeeps ==
  ASSUME BoardInv, NEW w \in Writers, MarkSelected(w)
  PROVE  BoardInv'
<1> DEFINE i == writers[w].idea
<1>1. /\ writers[w].at = "mark" /\ HasRow(i) /\ End(w)
      /\ status' = [status EXCEPT ![i] = "selected"]
      /\ broken' = IF \E v \in Writers \ {w} : writers[v].idea = i THEN broken \cup {i} ELSE broken
      /\ UNCHANGED <<project, begun, polls>>
  BY DEF MarkSelected
<1>2. broken \subseteq broken' /\ broken' \subseteq broken \cup {i}
  BY <1>1
<1>3. BoardTypeOK'
  BY <1>1, <1>2, EndLeavesOthers DEF BoardInv, BusyHaveIdeas, BoardTypeOK
<1>4. BusyHaveIdeas' /\ ReadersKnown'
  BY <1>1, <1>2, EndLeavesOthers DEF BoardInv, BoardTypeOK, BusyHaveIdeas, ReadersKnown
<1>5. \A j \in Ideas : status'[j] = status[j] \/ status'[j] = "selected"
  BY <1>1 DEF BoardInv, BoardTypeOK
<1>6. BegunIsTaken' /\ BegunOnce'
  BY <1>1, <1>2, <1>5 DEF BoardInv, BegunIsTaken, BegunOnce
<1>7. BegunIdeasSelected'
  <2> SUFFICES ASSUME NEW j \in Ideas, project'[j], status'[j] # "selected"
               PROVE  /\ HasRow(j)'
                      /\ \/ j \in broken'
                         \/ \E v \in Writers : writers'[v].at = "mark" /\ writers'[v].idea = j
    BY DEF BegunIdeasSelected
  <2>1. j # i /\ status'[j] = status[j]
    BY <1>1 DEF BoardInv, BoardTypeOK
  <2> QED BY <1>1, <1>2, <2>1, EndLeavesOthers DEF BoardInv, BegunIdeasSelected, HasRow
<1> QED BY <1>3, <1>4, <1>6, <1>7 DEF BoardInv

LEMMA FailKeeps ==
  ASSUME BoardInv, NEW w \in Writers, FailWriter(w)
  PROVE  BoardInv'
<1> DEFINE i == writers[w].idea
<1>1. /\ writers[w].at # "idle" /\ End(w)
      /\ broken' = IF writers[w].at = "mark" THEN broken \cup {i} ELSE broken
      /\ UNCHANGED <<status, project, begun, polls>>
  BY DEF FailWriter
<1>2. BoardTypeOK'
  BY <1>1, EndLeavesOthers DEF BoardInv, BusyHaveIdeas, BoardTypeOK
<1>3. BusyHaveIdeas' /\ ReadersKnown' /\ BegunIsTaken' /\ BegunOnce'
  BY <1>1, EndLeavesOthers DEF BoardInv, BusyHaveIdeas, ReadersKnown, BegunIsTaken, BegunOnce
<1>4. BegunIdeasSelected'
  BY <1>1, EndLeavesOthers DEF BoardInv, BegunIdeasSelected, HasRow
<1> QED BY <1>2, <1>3, <1>4 DEF BoardInv

LEMMA DeleteProjectKeeps ==
  ASSUME BoardInv, NEW i \in Ideas, DeleteProject(i)
  PROVE  BoardInv'
<1>1. BoardTypeOK'
  BY DEF BoardInv, BoardTypeOK, DeleteProject
<1>2. BusyHaveIdeas' /\ ReadersKnown' /\ BegunIsTaken' /\ BegunOnce'
  BY DEF BoardInv, BoardTypeOK, DeleteProject, BusyHaveIdeas, ReadersKnown, BegunIsTaken, BegunOnce
<1>3. BegunIdeasSelected'
  BY DEF BoardInv, BoardTypeOK, DeleteProject, BegunIdeasSelected, HasRow
<1> QED BY <1>1, <1>2, <1>3 DEF BoardInv

LEMMA PollsKeep ==
  ASSUME BoardInv, NEW p \in Polls, NEW options \in SUBSET Ideas,
         OpenPoll(p, options) \/ ClosePoll(p)
  PROVE  BoardInv'
<1>1. BoardTypeOK' /\ UNCHANGED <<status, project, begun, writers, broken>>
  BY DEF BoardInv, BoardTypeOK, OpenPoll, ClosePoll
<1> QED
  BY <1>1 DEF BoardInv, BusyHaveIdeas, ReadersKnown, BegunIsTaken, BegunIdeasSelected, BegunOnce, HasRow

LEMMA DeletePollKeeps ==
  ASSUME BoardInv, NEW p \in Polls, DeleteFinishedPoll(p)
  PROVE  BoardInv'
<1>1. \A j \in Ideas : status'[j] = status[j] \/ (status'[j] = "deleted" /\ ~project[j])
  BY DEF DeleteFinishedPoll, Unused
<1>2. BoardTypeOK' /\ UNCHANGED <<project, begun, writers, broken>>
  BY DEF BoardInv, BoardTypeOK, DeleteFinishedPoll, Open
<1>3. BusyHaveIdeas' /\ ReadersKnown' /\ BegunIsTaken' /\ BegunOnce'
  BY <1>1, <1>2 DEF BoardInv, BusyHaveIdeas, ReadersKnown, BegunIsTaken, BegunOnce
<1>4. BegunIdeasSelected'
  BY <1>1, <1>2 DEF BoardInv, BegunIdeasSelected, HasRow
<1> QED BY <1>2, <1>3, <1>4 DEF BoardInv

----------------------------------------------------------------------------
LEMMA BoardNextInv == BoardInv /\ [BoardNext]_boardVars => BoardInv'
<1> SUFFICES ASSUME BoardInv, [BoardNext]_boardVars PROVE BoardInv'
  OBVIOUS
<1>1. ASSUME NEW i \in Ideas, SubmitIdea(i) \/ DeleteProject(i) PROVE BoardInv'
  BY <1>1, SubmitKeeps, DeleteProjectKeeps
<1>2. ASSUME NEW w \in Writers,
             \/ \E op \in {"revise", "reject", "begin"}, i \in Ideas : ReadIdea(w, op, i)
             \/ WriteIdea(w) \/ CreateProject(w) \/ MarkSelected(w) \/ FailWriter(w)
      PROVE  BoardInv'
  BY <1>2, ReadKeeps, WriteKeeps, CreateKeeps, MarkKeeps, FailKeeps
<1>3. ASSUME NEW p \in Polls,
             \/ \E options \in SUBSET Ideas : Cardinality(options) >= 2 /\ OpenPoll(p, options)
             \/ ClosePoll(p) \/ DeleteFinishedPoll(p)
      PROVE  BoardInv'
  BY <1>3, PollsKeep, DeletePollKeeps
<1>4. CASE UNCHANGED boardVars
  BY <1>4 DEF boardVars, BoardInv, BoardTypeOK, BusyHaveIdeas, ReadersKnown, BegunIsTaken, BegunIdeasSelected,
     BegunOnce, HasRow
<1> QED BY <1>1, <1>2, <1>3, <1>4 DEF BoardNext

LEMMA BoardInvAlways == BoardSpec => []BoardInv
BY BoardInitInv, BoardNextInv, PTL DEF BoardSpec

\* Statuses, links, polls and requests keep their types (the rows that IdeaBoard's handlers write).
THEOREM BoardTyped == BoardSpec => []BoardTypeOK
<1>1. BoardInv => BoardTypeOK
  BY DEF BoardInv
<1> QED BY <1>1, BoardInvAlways, PTL

\* begin and deleteFinishedPoll: however requests overlap and fail, an idea with a project is
\* kept, and is selected but for the exceptions that BegunIdeasSelected names.
THEOREM BegunIdeasStay == BoardSpec => []BegunIdeasSelected
<1>1. BoardInv => BegunIdeasSelected
  BY DEF BoardInv
<1> QED BY <1>1, BoardInvAlways, PTL

\* begin: an idea is begun a second time only after a begin that broke off, met another request
\* or lost its project.
THEOREM IdeasBegunOnce == BoardSpec => []BegunOnce
<1>1. BoardInv => BegunOnce
  BY DEF BoardInv
<1> QED BY <1>1, BoardInvAlways, PTL

-----------------------------------------------------------------------------
(* Tasks *)

Event == [from : Statuses, to : Statuses, late : BOOLEAN]
Write == [at : {"write"}, from : Statuses, unstarted : BOOLEAN, holder : People \cup {Nobody},
          to : Statuses \cup {Keep}, assignee : People \cup {Nobody, Keep}, overtaken : BOOLEAN]
Change == {Unmade, [at |-> "done"]} \cup Write

\* A request that nobody has overtaken still knows the task.
KnowsTask(x) ==
  ~x.overtaken /\ Exists =>
    x.from = task.status /\ x.holder = Assignee /\ (x.unstarted <=> ~task.started)
WritersKnow == \A c \in Writing : KnowsTask(changes[c])

TaskInv == TaskTypeOK /\ HistoryAccountsForTask /\ HistoryChains /\ WritersKnow

----------------------------------------------------------------------------
LEMMA Typed ==
  ASSUME TaskTypeOK
  PROVE  /\ task \in [status : Statuses \cup {"gone"}, started : BOOLEAN, completed : BOOLEAN]
         /\ active \subseteq People /\ members \subseteq People
         /\ history \in Seq(Event) /\ changes \in [Changes -> Change]
         /\ handed \in [to : People \cup {Nobody}, chained : BOOLEAN] /\ restarted \in BOOLEAN
         /\ Assignee \in People \cup {Nobody}
         /\ \A c \in Writing : changes[c] \in Write
<1>1. changes \in [Changes -> Change] /\ history \in Seq(Event)
  BY DEF TaskTypeOK, Change, Write, Event
<1>2. active \subseteq People /\ Assignee \in People \cup {Nobody}
  BY DEF TaskTypeOK, Assignee
<1>3. \A c \in Writing : changes[c] \in Write
  BY <1>1 DEF Writing, Change, Unmade
<1> QED BY <1>1, <1>2, <1>3 DEF TaskTypeOK

\* The one active assignment is the one the last event names.
LEMMA AssigneeIs ==
  ASSUME TaskInv, Exists
  PROVE  Assignee = handed.to /\ \A u \in active : u = Assignee
BY DEF TaskInv, HistoryAccountsForTask, Assignee

LEMMA TaskInitInv == TaskInit => TaskInv
<1> SUFFICES ASSUME TaskInit PROVE TaskInv
  OBVIOUS
<1>1. active = {} \/ \E u \in People : active = {u}
  BY DEF TaskInit
<1>2. Assignee \in People \cup {Nobody} /\ active = {Assignee} \ {Nobody}
  BY <1>1, TaskAssumption DEF Assignee
<1>3. task.status = "pending" /\ history = <<>> /\ handed = [to |-> Assignee, chained |-> TRUE]
      /\ ~restarted /\ ~task.completed
  BY DEF TaskInit
<1>4. TaskTypeOK
  <2>1. <<>> \in Seq([from : Statuses, to : Statuses, late : BOOLEAN])
    OBVIOUS
  <2>2. task \in [status : Statuses \cup {"gone"}, started : BOOLEAN, completed : BOOLEAN]
    BY DEF TaskInit, Statuses
  <2>3. active \subseteq People /\ members \subseteq People
    BY <1>1 DEF TaskInit
  <2>4. handed \in [to : People \cup {Nobody}, chained : BOOLEAN] /\ restarted \in BOOLEAN
    <3>1. restarted = FALSE
      BY DEF TaskInit
    <3> QED BY <1>2, <1>3, <3>1
  <2>5. changes \in [Changes -> Change]
    BY DEF TaskInit, Change
  <2> QED BY <1>3, <2>1, <2>2, <2>3, <2>4, <2>5 DEF TaskTypeOK, Change, Write
<1>5. HistoryAccountsForTask
  BY <1>2, <1>3 DEF HistoryAccountsForTask
<1>6. HistoryChains
  BY <1>3 DEF HistoryChains
<1>7. WritersKnow
  BY DEF TaskInit, WritersKnow, Writing, Unmade
<1> QED BY <1>4, <1>5, <1>6, <1>7 DEF TaskInv

----------------------------------------------------------------------------
LEMMA ReadTaskKeeps ==
  ASSUME TaskInv, NEW c \in Changes, NEW a \in Ask, ReadTask(c, a)
  PROVE  TaskInv'
<1> DEFINE x == [at |-> "write", from |-> task.status, unstarted |-> ~task.started,
                 holder |-> Assignee, to |-> IF a.status = task.status THEN Keep ELSE a.status,
                 assignee |-> IF a.assignee = Assignee THEN Keep ELSE a.assignee,
                 overtaken |-> FALSE]
<1>1. UNCHANGED <<task, active, members, history, handed, restarted>> /\ Exists
      /\ changes' = [changes EXCEPT ![c] = x]
  BY DEF ReadTask
<1>2. x \in Write
  BY <1>1, Typed DEF TaskInv, Write, Ask, Exists
<1>3. KnowsTask(x)
  BY DEF KnowsTask
<1> HIDE DEF x
<1>4. changes \in [Changes -> Change] /\ x \in Change
  BY <1>2, Typed DEF TaskInv, Change
<1>5. changes' \in [Changes -> Change] /\ \A d \in Changes : changes'[d] = IF d = c THEN x ELSE changes[d]
  BY <1>1, <1>4
<1>6. TaskTypeOK'
  BY <1>1, <1>5 DEF TaskInv, TaskTypeOK, Change, Write
<1>7. HistoryAccountsForTask' /\ HistoryChains'
  BY <1>1 DEF TaskInv, HistoryAccountsForTask, HistoryChains, Exists
<1>8. WritersKnow'
  <2>1. \A d \in Writing' : KnowsTask(changes'[d])
    BY <1>3, <1>5 DEF TaskInv, WritersKnow, Writing
  <2> QED BY <1>1, <2>1 DEF WritersKnow, KnowsTask, Exists, Assignee
<1> QED BY <1>6, <1>7, <1>8 DEF TaskInv

\* After a write nobody knows the task any more, unless the write left it as it was.
LEMMA WriteTaskKeeps ==
  ASSUME TaskInv, NEW c \in Changes, WriteTask(c)
  PROVE  TaskInv'
<1> DEFINE x == changes[c]
           old == IF history = <<>> THEN "pending" ELSE history[Len(history)].to
<1>1. x \in Write /\ x.at = "write" /\ Exists /\ changes' = Overtake(c) /\ UNCHANGED members
  BY Typed DEF WriteTask, TaskInv, Writing
<1>2. /\ x.to \in Statuses \cup {Keep} /\ x.from \in Statuses /\ x.overtaken \in BOOLEAN
      /\ x.unstarted \in BOOLEAN /\ x.assignee \in People \cup {Nobody, Keep}
  BY <1>1 DEF Write
<1>3. KnowsTask(x) /\ changes \in [Changes -> Change] /\ history \in Seq(Event) /\ restarted \in BOOLEAN
      /\ active \subseteq People /\ handed \in [to : People \cup {Nobody}, chained : BOOLEAN]
      /\ task \in [status : Statuses \cup {"gone"}, started : BOOLEAN, completed : BOOLEAN]
      /\ active = {handed.to} \ {Nobody} /\ handed.chained
      /\ task.status = old /\ (task.completed <=> task.status = "completed")
      /\ (restarted => \E n \in 1..Len(history) : history[n].late)
      /\ \A n \in 2..Len(history) : history[n].from = history[n-1].to \/ history[n].late
  BY <1>1, Typed DEF TaskInv, WritersKnow, Writing, HistoryAccountsForTask, HistoryChains
<1>4. Assignee = handed.to
  BY <1>1, AssigneeIs
<1> HIDE DEF x, old
\* The status and its events.
<1>5. /\ task' \in [status : Statuses \cup {"gone"}, started : BOOLEAN, completed : BOOLEAN]
      /\ history' \in Seq(Event) /\ restarted' \in BOOLEAN
      /\ task'.status = (IF history' = <<>> THEN "pending" ELSE history'[Len(history')].to)
      /\ task'.completed <=> task'.status = "completed"
      /\ \A n \in 2..Len(history') : history'[n].from = history'[n-1].to \/ history'[n].late
      /\ restarted' => \E n \in 1..Len(history') : history'[n].late
  <2>1. CASE x.to = Keep
    <3>1. UNCHANGED <<task, history, restarted>>
      BY <2>1 DEF WriteTask, x
    <3> QED BY <1>3, <3>1 DEF old
  <2>2. CASE x.to # Keep
    <3> DEFINE e == [from |-> x.from, to |-> x.to, late |-> x.overtaken]
    <3>1. /\ task' = [status |-> x.to, started |-> task.started \/ (x.to = "ongoing" /\ x.unstarted),
                      completed |-> x.to = "completed"]
          /\ history' = Append(history, e)
          /\ restarted' = (restarted \/ (x.to = "ongoing" /\ x.unstarted /\ task.started))
      BY <2>2 DEF WriteTask, Saved, StatusEvent, x
    <3>2. e \in Event /\ x.to \in Statuses
      BY <1>2, <2>2 DEF Event
    <3>3. /\ Len(history') = Len(history) + 1 /\ Len(history) \in Nat /\ history' \in Seq(Event)
          /\ history'[Len(history) + 1] = e
          /\ \A n \in 1..Len(history) : history'[n] = history[n]
      BY <1>3, <3>1, <3>2
    <3>4. ~x.overtaken => x.from = old /\ (x.unstarted <=> ~task.started)
      BY <1>1, <1>3 DEF KnowsTask
    <3>5. ASSUME NEW n \in 2..Len(history')
          PROVE  history'[n].from = history'[n-1].to \/ history'[n].late
      <4>1. CASE n <= Len(history)
        <5>1. n \in 2..Len(history) /\ n - 1 \in 1..Len(history) /\ n \in 1..Len(history)
          BY <3>3, <4>1
        <5> QED BY <1>3, <3>3, <5>1
      <4>2. CASE n = Len(history) + 1
        <5>1. n - 1 = Len(history) /\ Len(history) \in 1..Len(history) /\ history # <<>>
          BY <3>3, <4>2
        <5>2. history'[n - 1].to = old /\ history'[n] = e
          BY <3>3, <4>2, <5>1 DEF old
        <5> QED BY <3>4, <5>2
      <4> QED BY <3>3, <4>1, <4>2
    <3>6. ASSUME restarted' PROVE \E n \in 1..Len(history') : history'[n].late
      <4>1. CASE restarted
        BY <1>3, <3>3, <4>1
      <4>2. CASE ~restarted
        <5>1. x.overtaken
          BY <3>1, <3>4, <3>6, <4>2
        <5>2. Len(history) + 1 \in 1..Len(history') /\ history'[Len(history) + 1].late
          BY <3>3, <5>1
        <5> QED BY <5>2
      <4> QED BY <4>1, <4>2
    <3>7. history' # <<>> /\ history'[Len(history')].to = x.to
      BY <3>3
    <3> HIDE DEF e
    <3>8. restarted' \in BOOLEAN /\ task'.status = x.to /\ (task'.completed <=> x.to = "completed")
      BY <3>1
    <3>9. task' \in [status : Statuses \cup {"gone"}, started : BOOLEAN, completed : BOOLEAN]
      BY <3>1, <3>2, <1>3
    <3> QED BY <3>3, <3>5, <3>6, <3>7, <3>8, <3>9
  <2> QED BY <2>1, <2>2
\* The assignment and its events.
<1>6. /\ active' \subseteq People /\ handed' \in [to : People \cup {Nobody}, chained : BOOLEAN]
      /\ active' = {handed'.to} \ {Nobody} /\ handed'.chained
  <2>1. CASE x.assignee = Keep
    <3>1. UNCHANGED <<active, handed>>
      BY <2>1 DEF WriteTask, x
    <3> QED BY <1>3, <3>1
  <2>2. CASE x.assignee # Keep
    <3>1. /\ active' = {x.assignee} \ {Nobody}
          /\ handed' = [to |-> x.assignee,
                        chained |-> handed.chained /\ (x.holder = handed.to \/ x.overtaken)]
      BY <2>2 DEF WriteTask, x
    <3>2. ~x.overtaken => x.holder = handed.to
      BY <1>1, <1>3, <1>4 DEF KnowsTask
    <3>3. x.assignee \in People \cup {Nobody}
      BY <1>2, <2>2
    <3> QED BY <1>3, <3>1, <3>2, <3>3
  <2> QED BY <2>1, <2>2
<1>7. /\ changes' \in [Changes -> Change]
      /\ \A d \in Writing' : /\ d \in Writing
                             /\ \/ changes'[d].overtaken
                                \/ changes'[d] = changes[d] /\ x.to = Keep /\ x.assignee = Keep
  <2>1. ASSUME NEW d \in Changes
        PROVE  /\ changes'[d] \in Change
               /\ changes'[d].at = "write" =>
                    /\ changes[d].at = "write"
                    /\ \/ changes'[d].overtaken
                       \/ changes'[d] = changes[d] /\ x.to = Keep /\ x.assignee = Keep
    <3>1. CASE d = c
      BY <1>1, <3>1 DEF Overtake, Change
    <3>2. CASE d # c /\ d \in Writing /\ {x.to, x.assignee} # {Keep}
      <4>1. changes'[d] = [changes[d] EXCEPT !.overtaken = TRUE] /\ changes[d] \in Write
        BY <1>1, <3>2, Typed DEF Overtake, TaskInv, x
      <4> QED BY <3>2, <4>1 DEF Change, Write, Writing
    <3>3. CASE d # c /\ ~(d \in Writing /\ {x.to, x.assignee} # {Keep})
      <4>1. changes'[d] = changes[d]
        BY <1>1, <3>3 DEF Overtake, x
      <4> QED BY <1>3, <3>3, <4>1 DEF Writing
    <3> QED BY <3>1, <3>2, <3>3
  <2>2. changes' \in [Changes -> Change]
    BY <1>1, <2>1 DEF Overtake
  <2> QED BY <2>1, <2>2 DEF Writing
<1>8. TaskTypeOK'
  BY <1>1, <1>5, <1>6, <1>7, Typed DEF TaskTypeOK, TaskInv, Change, Write, Event
<1>9. HistoryAccountsForTask'
  BY <1>5, <1>6 DEF HistoryAccountsForTask
<1>10. HistoryChains'
  BY <1>5, <1>6 DEF HistoryChains
<1>11. WritersKnow'
  <2>1. ASSUME NEW d \in Writing', ~changes'[d].overtaken
        PROVE  KnowsTask(changes[d])'
    <3>1. changes'[d] = changes[d] /\ x.to = Keep /\ x.assignee = Keep /\ d \in Writing
      BY <1>7, <2>1
    <3>2. UNCHANGED <<task, active>>
      BY <3>1 DEF WriteTask, x
    <3>3. KnowsTask(changes[d])
      BY <3>1 DEF TaskInv, WritersKnow
    <3> QED BY <3>1, <3>2, <3>3 DEF KnowsTask, Exists, Assignee
  <2>2. \A d \in Writing' : changes'[d].overtaken => KnowsTask(changes[d])'
    BY DEF KnowsTask
  <2> QED BY <2>1, <2>2 DEF WritersKnow
<1> QED BY <1>8, <1>9, <1>10, <1>11 DEF TaskInv

LEMMA FailChangeKeeps ==
  ASSUME TaskInv, NEW c \in Changes, FailChange(c)
  PROVE  TaskInv'
<1> DEFINE done == [at |-> "done"]
<1>1. UNCHANGED <<task, active, members, history, handed, restarted>>
      /\ changes' = [changes EXCEPT ![c] = done]
  BY DEF FailChange
<1>2. changes \in [Changes -> Change] /\ done \in Change /\ done.at # "write"
  BY Typed DEF TaskInv, Change
<1>3. changes' \in [Changes -> Change] /\ \A d \in Changes : changes'[d] = IF d = c THEN done ELSE changes[d]
  BY <1>1, <1>2
<1>4. TaskTypeOK'
  BY <1>1, <1>3 DEF TaskInv, TaskTypeOK, Change, Write
<1>5. HistoryAccountsForTask' /\ HistoryChains'
  BY <1>1 DEF TaskInv, HistoryAccountsForTask, HistoryChains, Exists
<1>6. WritersKnow'
  <2>1. \A d \in Writing' : KnowsTask(changes'[d])
    BY <1>2, <1>3 DEF TaskInv, WritersKnow, Writing
  <2> QED BY <1>1, <2>1 DEF WritersKnow, KnowsTask, Exists, Assignee
<1> QED BY <1>4, <1>5, <1>6 DEF TaskInv

LEMMA DeleteTaskKeeps ==
  ASSUME TaskInv, DeleteTask
  PROVE  TaskInv'
<1>1. /\ task' = [task EXCEPT !.status = "gone"] /\ active' = {} /\ history' = <<>> /\ ~restarted'
      /\ handed' = [to |-> Nobody, chained |-> TRUE] /\ UNCHANGED <<members, changes>>
      /\ restarted' = FALSE
  BY DEF DeleteTask
<1>2. task'.status = "gone"
      /\ task' \in [status : Statuses \cup {"gone"}, started : BOOLEAN, completed : BOOLEAN]
  BY <1>1, Typed DEF TaskInv
<1>3. history' \in Seq([from : Statuses, to : Statuses, late : BOOLEAN])
  BY <1>1
<1>4. TaskTypeOK'
  BY <1>1, <1>2, <1>3 DEF TaskInv, TaskTypeOK
<1>5. ~Exists'
  BY <1>2 DEF Exists
<1>6. HistoryAccountsForTask' /\ WritersKnow'
  BY <1>5 DEF HistoryAccountsForTask, WritersKnow, KnowsTask
<1>7. HistoryChains'
  BY <1>1 DEF HistoryChains
<1> QED BY <1>4, <1>6, <1>7 DEF TaskInv

\* Who is a member says nothing about the task.
LEMMA RestKeeps ==
  ASSUME TaskInv, UNCHANGED <<task, active, history, handed, changes, restarted>>,
         members' \subseteq People
  PROVE  TaskInv'
<1>1. TaskTypeOK'
  BY DEF TaskInv, TaskTypeOK
<1>2. HistoryAccountsForTask' /\ HistoryChains'
  BY DEF TaskInv, HistoryAccountsForTask, HistoryChains, Exists
<1>3. WritersKnow'
  BY DEF TaskInv, WritersKnow, KnowsTask, Exists, Assignee, Writing
<1> QED BY <1>1, <1>2, <1>3 DEF TaskInv

LEMMA StepKeeps == TaskInv /\ [TaskNext]_taskVars => TaskInv'
<1> SUFFICES ASSUME TaskInv, [TaskNext]_taskVars PROVE TaskInv'
  OBVIOUS
<1>1. ASSUME NEW u \in People, ChangeMembership(u) PROVE TaskInv'
  <2>1. members' \subseteq People /\ UNCHANGED <<task, active, history, handed, changes, restarted>>
    BY <1>1, Typed DEF ChangeMembership, TaskInv
  <2> QED BY <2>1, RestKeeps
<1>2. CASE UNCHANGED taskVars
  BY <1>2, Typed, RestKeeps DEF taskVars, TaskInv
<1> QED BY <1>1, <1>2, ReadTaskKeeps, WriteTaskKeeps, FailChangeKeeps, DeleteTaskKeeps DEF TaskNext

LEMMA TaskInvAlways == TaskSpec => []TaskInv
BY TaskInitInv, StepKeeps, PTL DEF TaskSpec

----------------------------------------------------------------------------
\* createTask, updateTask, taskStatus, linkTaskResource, updateLinkedResource and deleteTask
\* keep the types of the task, its assignment and its events.
THEOREM TasksTyped == TaskSpec => []TaskTypeOK
<1>1. TaskInv => TaskTypeOK
  BY DEF TaskInv
<1> QED BY <1>1, TaskInvAlways, PTL

\* taskTracker and the guards of the requests: for any people, who is offered a control by an
\* up-to-date page may use it.
THEOREM OffersHold == TaskSpec => []OffersAreHonoured
<1>1. TaskInv => OffersAreHonoured
  <2> SUFFICES ASSUME TaskInv, NEW u \in People
               PROVE  /\ OffersStatus(u) => MaySetStatus(u)
                      /\ OffersAssign(u) => Leads(u)
                      /\ OffersResource(u) => MayEditResource(u)
                      /\ InMyTasks(u) => MayOpen(u) /\ MaySetStatus(u)
    BY DEF OffersAreHonoured
  <2>1. Exists /\ u \in active => u = Assignee
    BY AssigneeIs
  <2> QED BY <2>1 DEF OffersStatus, OffersAssign, OffersResource, InMyTasks, InTracker,
                      MaySetStatus, MayEditResource, MayOpen
<1> QED BY <1>1, TaskInvAlways, PTL

\* The transactions of the four handlers: in any interleaving of any number of requests the
\* events and the stamps account for the task as it is.
THEOREM HistoriesAccount == TaskSpec => []HistoryAccountsForTask
<1>1. TaskInv => HistoryAccountsForTask
  BY DEF TaskInv
<1> QED BY <1>1, TaskInvAlways, PTL

\* The same: events chain, and work starts once, unless a request was overtaken.
THEOREM HistoriesChain == TaskSpec => []HistoryChains
<1>1. TaskInv => HistoryChains
  BY DEF TaskInv
<1> QED BY <1>1, TaskInvAlways, PTL

-----------------------------------------------------------------------------
(* Maintenance and the digest *)

\* While a request ends the maintenance, what is still on is what it has still to write.
EndingKnows ==
  /\ ended = "under way" => /\ mode => "mode" \in ending
                            /\ schedule.starts # Never => "schedule" \in ending
  /\ ended = "answered"  => ~mode /\ schedule.starts = Never

\* A digest of this day is stamped, is about to be, or is known not to be.
DigestKnows ==
  /\ alerts.sent <= now /\ digest.day <= now
  /\ digest.at # "idle" => alerts.sent # now
  /\ mailed >= 1 => \/ unstamped
                    \/ digest.at = "stamp" /\ digest.day = now
                    \/ alerts.sent = now

KeepInv == KeepTypeOK /\ EndingKnows /\ DigestKnows /\ DigestOncePerDay

Schedule == [starts : 1..Never, told : BOOLEAN]
Scan == [at : {"idle", "activate", "stamp"}, saw : Schedule]
Alerts == [on : BOOLEAN, sent : -1..MaxNow]
Digest == [at : {"idle", "mail", "stamp"}, saw : Alerts, day : 0..MaxNow]

----------------------------------------------------------------------------
LEMMA NoScheduleTyped == NoSchedule \in Schedule /\ ScanIdle \in Scan /\ NoSchedule.starts = Never
BY UpkeepAssumption DEF NoSchedule, ScanIdle, Schedule, Scan, Never

LEMMA NoDigestTyped == DigestIdle \in Digest /\ [on |-> FALSE, sent |-> -1] \in Alerts
BY UpkeepAssumption DEF DigestIdle, Digest, Alerts

LEMMA KeepInitInv == KeepInit => KeepInv
<1> SUFFICES ASSUME KeepInit PROVE KeepInv
  OBVIOUS
<1>1. now \in 0..MaxNow /\ announcing \subseteq 1..MaxNow /\ ending \subseteq Ends /\ mailed \in 0..2
  BY UpkeepAssumption DEF KeepInit
<1>2. mode \in BOOLEAN /\ unstamped \in BOOLEAN /\ saving \subseteq BOOLEAN
      /\ ended \in {"none", "under way", "answered", "undone"}
  BY DEF KeepInit
<1>3. schedule \in Schedule /\ scan \in Scan
  BY NoScheduleTyped DEF KeepInit
<1>4. alerts \in Alerts /\ digest \in Digest
  BY NoDigestTyped DEF KeepInit
<1>5. KeepTypeOK
  BY <1>1, <1>2, <1>3, <1>4 DEF KeepTypeOK, Schedule, Scan, Alerts, Digest
<1>6. EndingKnows /\ DigestKnows /\ DigestOncePerDay
  BY DEF KeepInit, EndingKnows, DigestKnows, DigestOncePerDay, DigestIdle
<1> QED BY <1>5, <1>6 DEF KeepInv

\* The types of what the digests are about.
LEMMA DigestTypes ==
  ASSUME KeepInv
  PROVE  /\ now \in 0..MaxNow /\ mailed \in 0..2
         /\ alerts \in Alerts /\ digest \in Digest
BY DEF KeepInv, KeepTypeOK, Alerts, Digest

LEMMA DigestNumbers ==
  ASSUME KeepInv
  PROVE  now \in Nat /\ alerts.sent \in Int /\ digest.day \in Nat /\ digest.saw \in Alerts
BY DigestTypes, UpkeepAssumption DEF Alerts, Digest

\* The two halves of the module leave each other alone.
LEMMA MaintenanceLeavesDigests ==
  ASSUME KeepInv, UNCHANGED <<now, digests>>
  PROVE  DigestKnows' /\ DigestOncePerDay'
BY DEF KeepInv, DigestKnows, DigestOncePerDay, digests

LEMMA DigestsLeaveMaintenance ==
  ASSUME KeepInv, UNCHANGED maintenance
  PROVE  EndingKnows'
BY DEF KeepInv, EndingKnows, maintenance

\* Nothing of it is touched, or no end of the maintenance stands any more.
LEMMA EndingKept ==
  ASSUME KeepInv, UNCHANGED <<mode, schedule, ending, ended>> \/ ended' \in {"none", "undone"}
  PROVE  EndingKnows'
<1>1. CASE UNCHANGED <<mode, schedule, ending, ended>>
  BY <1>1 DEF KeepInv, EndingKnows
<1>2. CASE ended' \in {"none", "undone"}
  BY <1>2 DEF EndingKnows
<1> QED BY <1>1, <1>2

LEMMA TickKeeps == KeepInv /\ Tick => KeepInv'
<1> SUFFICES ASSUME KeepInv, Tick PROVE KeepInv'
  OBVIOUS
<1>1. /\ now < MaxNow /\ now' = now + 1 /\ mailed' = 0 /\ unstamped' = FALSE
      /\ UNCHANGED <<maintenance, alerts, saving, digest>>
  BY DEF Tick
<1>2. now' \in 0..MaxNow /\ mailed' \in 0..2
  BY <1>1, DigestTypes, UpkeepAssumption
<1>3. KeepTypeOK'
  BY <1>1, <1>2 DEF KeepInv, KeepTypeOK, maintenance
<1>4. EndingKnows'
  BY <1>1, DigestsLeaveMaintenance
<1>5. DigestKnows' /\ DigestOncePerDay'
  <2>1. alerts'.sent <= now' /\ digest'.day <= now' /\ alerts'.sent # now'
    BY <1>1, DigestNumbers DEF KeepInv, DigestKnows
  <2> QED BY <1>1, <2>1 DEF DigestKnows, DigestOncePerDay
<1> QED BY <1>3, <1>4, <1>5 DEF KeepInv

LEMMA MaintenanceTyped == KeepInv /\ MaintenanceNext => KeepTypeOK'
<1> SUFFICES ASSUME KeepInv, MaintenanceNext PROVE KeepTypeOK'
  OBVIOUS
<1>1. /\ now' = now /\ alerts' = alerts /\ saving' = saving /\ digest' = digest
      /\ mailed' = mailed /\ unstamped' = unstamped
  BY DEF MaintenanceNext, digests, Announce, SaveAnnouncement, PutSchedule, FailAnnounce, Enable,
     AskEnd, FailEnd, WriteEnd, ReadSchedule, WriteScan, FailScan
<1>2. mode' \in BOOLEAN /\ ending' \subseteq Ends
      /\ ended' \in {"none", "under way", "answered", "undone"}
  BY DEF KeepInv, KeepTypeOK, MaintenanceNext, Announce, SaveAnnouncement, PutSchedule,
     FailAnnounce, Enable, AskEnd, FailEnd, WriteEnd, ReadSchedule, WriteScan, FailScan, Undone
<1>3. schedule' \in Schedule
  <2>1. schedule \in Schedule /\ scan.saw \in Schedule
    BY DEF KeepInv, KeepTypeOK, Schedule
  <2>2. [scan.saw EXCEPT !.told = TRUE] \in Schedule
    BY <2>1 DEF Schedule
  <2>3. \A start \in 1..Never, told \in BOOLEAN : [starts |-> start, told |-> told] \in Schedule
    BY DEF Schedule
  <2>4. 1..MaxNow \subseteq 1..Never
    BY UpkeepAssumption DEF Never
  <2> QED BY <2>1, <2>2, <2>3, <2>4, NoScheduleTyped DEF MaintenanceNext, Announce,
             SaveAnnouncement, PutSchedule, FailAnnounce, Enable, AskEnd, FailEnd, WriteEnd,
             ReadSchedule, WriteScan, FailScan
<1>4. scan' \in Scan
  <2>1. scan \in Scan /\ schedule \in Schedule
    BY DEF KeepInv, KeepTypeOK, Schedule, Scan
  <2>2. \A at \in {"activate", "stamp"} : [at |-> at, saw |-> schedule] \in Scan
    BY <2>1 DEF Scan
  <2>3. \/ scan' = scan \/ scan' = ScanIdle
        \/ \E at \in {"activate", "stamp"} : scan' = [at |-> at, saw |-> schedule]
    BY DEF MaintenanceNext, Announce, SaveAnnouncement, PutSchedule, FailAnnounce, Enable,
       AskEnd, FailEnd, WriteEnd, ReadSchedule, WriteScan, FailScan
  <2> QED BY <2>1, <2>2, <2>3, NoScheduleTyped
<1>5. announcing' \subseteq 1..MaxNow
  BY DEF KeepInv, KeepTypeOK, MaintenanceNext, Announce, SaveAnnouncement, PutSchedule,
     FailAnnounce, Enable, AskEnd, FailEnd, WriteEnd, ReadSchedule, WriteScan, FailScan
<1> QED BY <1>1, <1>2, <1>3, <1>4, <1>5 DEF KeepInv, KeepTypeOK, Schedule, Scan

LEMMA MaintenanceKnows == KeepInv /\ MaintenanceNext => EndingKnows'
<1> SUFFICES ASSUME KeepInv, MaintenanceNext PROVE EndingKnows'
  OBVIOUS
<1>1. CASE \E start \in 1..MaxNow : Announce(start)
  BY <1>1, EndingKept DEF Announce
<1>2. CASE (\E start \in 1..MaxNow : SaveAnnouncement(start)) \/ Enable \/ WriteScan
  BY <1>2, EndingKept DEF SaveAnnouncement, Enable, WriteScan, Undone
<1>3. CASE \E start \in 1..Never : PutSchedule(start)
  <2> PICK start \in 1..Never : PutSchedule(start)
    BY <1>3
  <2>1. CASE start = Never
    BY <2>1 DEF KeepInv, EndingKnows, PutSchedule
  <2>2. CASE start # Never
    BY <2>2, EndingKept DEF PutSchedule, Undone
  <2> QED BY <2>1, <2>2
<1>4. CASE FailAnnounce \/ FailEnd \/ ReadSchedule \/ FailScan
  BY <1>4, EndingKept DEF FailAnnounce, FailEnd, ReadSchedule, FailScan
<1>5. CASE AskEnd
  BY <1>5 DEF KeepInv, EndingKnows, AskEnd, Ends
<1>6. CASE \E what \in Ends : WriteEnd(what)
  <2> PICK what \in Ends : WriteEnd(what)
    BY <1>6
  <2>1. what \in {"mode", "schedule"} /\ ending' = ending \ {what}
    BY DEF WriteEnd, Ends
  <2>2. mode' => mode /\ what # "mode"
    BY DEF WriteEnd
  <2>3. schedule'.starts # Never => schedule' = schedule /\ what # "schedule"
    BY NoScheduleTyped DEF WriteEnd
  <2>4. \/ ended' = ended
        \/ ended = "under way" /\ ended' = "answered" /\ ending' = {}
    BY DEF WriteEnd
  <2> QED BY <2>1, <2>2, <2>3, <2>4 DEF KeepInv, EndingKnows
<1> QED BY <1>1, <1>2, <1>3, <1>4, <1>5, <1>6 DEF MaintenanceNext

LEMMA MaintenanceKeeps == KeepInv /\ MaintenanceNext => KeepInv'
<1> SUFFICES ASSUME KeepInv, MaintenanceNext PROVE KeepInv'
  OBVIOUS
<1>1. UNCHANGED <<now, digests>>
  BY DEF MaintenanceNext, digests, Announce, SaveAnnouncement, PutSchedule, FailAnnounce, Enable,
     AskEnd, FailEnd, WriteEnd, ReadSchedule, WriteScan, FailScan
<1> QED BY <1>1, MaintenanceTyped, MaintenanceKnows, MaintenanceLeavesDigests DEF KeepInv

LEMMA DigestTyped == KeepInv /\ DigestNext => KeepTypeOK'
<1> SUFFICES ASSUME KeepInv, DigestNext PROVE KeepTypeOK'
  OBVIOUS
<1>1. now' = now /\ UNCHANGED maintenance
  BY DEF DigestNext, ReadAlerts, WriteAlerts, ReadDigest, MailDigest, StampDigest, FailDigest
<1>2. alerts \in Alerts /\ digest \in Digest /\ digest.saw \in Alerts /\ digest.day \in 0..MaxNow
      /\ now \in 0..MaxNow
  BY DigestTypes DEF Digest
<1>3. [digest.saw EXCEPT !.sent = digest.day] \in Alerts
  BY UpkeepAssumption, <1>2 DEF Alerts
<1>4. \A new \in BOOLEAN : [on |-> new, sent |-> -1] \in Alerts
  BY UpkeepAssumption DEF Alerts
<1>5. alerts' \in Alerts
  BY <1>2, <1>3, <1>4 DEF DigestNext, ReadAlerts, WriteAlerts, ReadDigest, MailDigest,
     StampDigest, FailDigest, Stamped
<1>6. digest' \in Digest
  <2>1. DigestIdle \in Digest
    BY UpkeepAssumption DEF DigestIdle, Digest, Alerts
  <2>2. [at |-> "mail", saw |-> alerts, day |-> now] \in Digest
    BY <1>2 DEF Digest
  <2>3. [digest EXCEPT !.at = "stamp"] \in Digest
    BY <1>2 DEF Digest
  <2> QED BY <1>2, <2>1, <2>2, <2>3 DEF DigestNext, ReadAlerts, WriteAlerts, ReadDigest,
             MailDigest, StampDigest, FailDigest
<1>7. mailed' \in 0..2
  <2>1. \A n \in 0..2 : (IF n = 2 THEN 2 ELSE n + 1) \in 0..2
    OBVIOUS
  <2> QED BY <2>1, DigestTypes DEF DigestNext, ReadAlerts, WriteAlerts, ReadDigest, MailDigest,
             StampDigest, FailDigest
<1>8. unstamped' \in BOOLEAN
  BY DEF KeepInv, KeepTypeOK, DigestNext, ReadAlerts, WriteAlerts, ReadDigest, MailDigest,
     StampDigest, FailDigest
<1>9. saving' \subseteq BOOLEAN
  BY DEF KeepInv, KeepTypeOK, DigestNext, ReadAlerts, WriteAlerts, ReadDigest, MailDigest,
     StampDigest, FailDigest
<1> QED BY <1>1, <1>5, <1>6, <1>7, <1>8, <1>9 DEF KeepInv, KeepTypeOK, maintenance, Alerts, Digest

LEMMA DigestKnowsNext == KeepInv /\ DigestNext => DigestKnows' /\ DigestOncePerDay'
<1> SUFFICES ASSUME KeepInv, DigestNext PROVE DigestKnows' /\ DigestOncePerDay'
  OBVIOUS
<1>1. /\ now \in Nat /\ alerts.sent \in Int /\ digest.day \in Nat /\ mailed \in 0..2
      /\ alerts \in Alerts /\ digest \in Digest /\ digest.saw \in Alerts
  BY DigestTypes, DigestNumbers
<1>2. CASE \E new \in BOOLEAN : ReadAlerts(new)
  BY <1>2 DEF KeepInv, DigestKnows, DigestOncePerDay, ReadAlerts
<1>3. CASE \E new \in BOOLEAN : WriteAlerts(new)
  <2>1. /\ alerts'.sent = -1 /\ unstamped' = (unstamped \/ mailed > 0)
        /\ UNCHANGED <<now, digest, mailed>>
    BY <1>3 DEF WriteAlerts
  <2>2. (unstamped \/ mailed > 0) => unstamped'
    BY <2>1
  <2>3. mailed > 1 => mailed > 0
    BY <1>1
  <2>4. mailed >= 1 => mailed > 0
    BY <1>1
  <2>5. alerts'.sent <= now' /\ alerts'.sent # now'
    BY <1>1, <2>1
  <2> QED BY <2>1, <2>2, <2>3, <2>4, <2>5 DEF KeepInv, DigestKnows, DigestOncePerDay
<1>4. CASE ReadDigest
  BY <1>1, <1>4 DEF KeepInv, DigestKnows, DigestOncePerDay, ReadDigest, DigestIdle
<1>5. CASE MailDigest
  <2>1. /\ digest.at = "mail" /\ digest'.at = "stamp" /\ digest'.day = digest.day
        /\ mailed' = (IF mailed = 2 THEN 2 ELSE mailed + 1)
        /\ unstamped' = (unstamped \/ digest.day # now)
        /\ UNCHANGED <<now, alerts>>
    BY <1>1, <1>5 DEF MailDigest, Digest
  <2>2. mailed >= 1 => unstamped
    BY <2>1 DEF KeepInv, DigestKnows
  <2>3. mailed' > 1 => mailed >= 1
    BY <1>1, <2>1
  <2> QED BY <1>1, <2>1, <2>2, <2>3 DEF KeepInv, DigestKnows, DigestOncePerDay
<1>6. CASE StampDigest
  <2>1. /\ digest.at = "stamp" /\ digest'.at = "idle" /\ digest'.day = 0
        /\ alerts'.sent = digest.day
        /\ UNCHANGED <<now, mailed, unstamped>>
    BY <1>1, <1>6 DEF StampDigest, Stamped, DigestIdle, Alerts
  <2> QED BY <1>1, <2>1 DEF KeepInv, DigestKnows, DigestOncePerDay
<1>7. CASE FailDigest
  <2>1. /\ digest'.at = "idle" /\ digest'.day = 0
        /\ unstamped' = (unstamped \/ digest.at = "stamp")
        /\ UNCHANGED <<now, alerts, mailed>>
    BY <1>7 DEF FailDigest, DigestIdle
  <2>2. (unstamped \/ digest.at = "stamp") => unstamped'
    BY <2>1
  <2>3. digest'.day <= now'
    BY <1>1, <2>1
  <2> QED BY <2>1, <2>2, <2>3 DEF KeepInv, DigestKnows, DigestOncePerDay
<1> QED BY <1>2, <1>3, <1>4, <1>5, <1>6, <1>7 DEF DigestNext

LEMMA DigestKeeps == KeepInv /\ DigestNext => KeepInv'
<1> SUFFICES ASSUME KeepInv, DigestNext PROVE KeepInv'
  OBVIOUS
<1>1. UNCHANGED maintenance
  BY DEF DigestNext, ReadAlerts, WriteAlerts, ReadDigest, MailDigest, StampDigest, FailDigest
<1> QED BY <1>1, DigestTyped, DigestKnowsNext, DigestsLeaveMaintenance DEF KeepInv

LEMMA StutterKeeps == KeepInv /\ UNCHANGED keepVars => KeepInv'
<1> SUFFICES ASSUME KeepInv, UNCHANGED keepVars PROVE KeepInv'
  OBVIOUS
<1>1. UNCHANGED <<now, maintenance, digests>>
  BY DEF keepVars, maintenance, digests
<1>2. KeepTypeOK'
  BY <1>1 DEF KeepInv, KeepTypeOK, maintenance, digests
<1> QED BY <1>1, <1>2, MaintenanceLeavesDigests, DigestsLeaveMaintenance DEF KeepInv

LEMMA KeepInvAlways == KeepSpec => []KeepInv
<1>1. KeepInv /\ [KeepNext]_keepVars => KeepInv'
  BY TickKeeps, MaintenanceKeeps, DigestKeeps, StutterKeeps DEF KeepNext
<1> QED BY KeepInitInv, <1>1, PTL DEF KeepSpec

----------------------------------------------------------------------------
\* The settings, the scans and the requests keep their types (maintenance-scan,
\* inactive-account-scan and the handlers of the settings).
THEOREM KeepTyped == KeepSpec => []KeepTypeOK
<1>1. KeepInv => KeepTypeOK
  BY DEF KeepInv
<1> QED BY <1>1, KeepInvAlways, PTL

\* PUT admin/settings: over any number of days, an end of the maintenance that was answered
\* stands until somebody or an overlapping scan writes again.
THEOREM MaintenanceEnds == KeepSpec => []MaintenanceStaysEnded
<1>1. KeepInv => MaintenanceStaysEnded
  <2> SUFFICES ASSUME KeepInv, ended = "answered" PROVE ~Active
    BY DEF MaintenanceStaysEnded
  <2>1. ~mode /\ schedule.starts = Never
    BY DEF KeepInv, EndingKnows
  <2>2. ~Due(schedule)
    BY <2>1, UpkeepAssumption DEF Due, Never, KeepInv, KeepTypeOK
  <2> QED BY <2>1, <2>2 DEF Active
<1> QED BY <1>1, KeepInvAlways, PTL

\* inactive-account-scan: over any number of days, a second digest on a day takes a scan that
\* did not stamp, one that ran past midnight, or a change of the alerts.
THEOREM DigestsOnce == KeepSpec => []DigestOncePerDay
<1>1. KeepInv => DigestOncePerDay
  BY DEF KeepInv
<1> QED BY <1>1, KeepInvAlways, PTL

-----------------------------------------------------------------------------
(* Registration *)

Entry == [at : {"none", "count", "delete", "claim", "create"}, id : 0..MaxCodes, right : BOOLEAN]

Form == [mode : {"register", "verify", "login"}, id : 0..MaxCodes, busy : BOOLEAN]

\* The wrong entries that were compared with a code and that nobody has dealt with yet.
Guesses(x, c) == x.at \in {"count", "delete"} /\ x.id = c
Guessing(c) == {e \in Entries : Guesses(entries[e], c)}

\* A code that is made and not yet stored is known to nobody.
Unstored(c) == c > made \/ (form.busy /\ c = made)

\* Of the wrong entries with a code those that were dealt with are counted; while the code is
\* stored they are fewer than the limit, and those that were not are in flight.
LimitHolds(c) ==
  /\ wrong[c] \in Cardinality(Guessing(c))..(MaxAttempts + Cardinality(Entries) - 1)
  /\ c \in codes => /\ wrong[c] - Cardinality(Guessing(c)) <= attempts[c]
                    /\ wrong[c] - Cardinality(Guessing(c)) <= MaxAttempts - 1
  /\ Unstored(c) => /\ c \notin codes /\ wrong[c] = 0
                    /\ \A e \in Entries : entries[e].id # c

EntryKnown(x) ==
  /\ x.at = "none" => x = NoEntry
  /\ x.at # "none" => x.id \in Ids /\ (x.right <=> x.at \in {"claim", "create"})
  /\ x.at = "create" => x.id \notin codes

RegInv ==
  /\ RegTypeOK /\ (form.busy => made > 0)
  /\ \A c \in Ids : LimitHolds(c)
  /\ \A e \in Entries : EntryKnown(entries[e])

----------------------------------------------------------------------------
LEMMA Limits == MaxAttempts \in Nat \ {0} /\ MaxSends \in Nat \ {0} /\ MaxCodes \in Nat \ {0}
BY RegistrationAssumption

LEMMA RegTypes ==
  ASSUME RegTypeOK
  PROVE  /\ entries \in [Entries -> Entry] /\ NoEntry \in Entry /\ ~\E c \in Ids : Guesses(NoEntry, c)
         /\ codes \subseteq Ids /\ made \in Nat
         /\ attempts \in [Ids -> Nat] /\ wrong \in [Ids -> Nat]
BY Limits DEF RegTypeOK, Entry, NoEntry, Guesses, Ids

\* At most as many entries are in flight as there can be.
LEMMA GuessingCounted ==
  ASSUME NEW c \in Ids
  PROVE  /\ IsFiniteSet(Guessing(c)) /\ Cardinality(Guessing(c)) \in Nat
         /\ Cardinality(Entries) \in Nat /\ Cardinality(Guessing(c)) <= Cardinality(Entries)
         /\ Cardinality(Guessing(c))' \in Nat /\ Cardinality(Guessing(c))' <= Cardinality(Entries)
BY RegistrationAssumption, FS_Subset, FS_CardinalityType DEF Guessing

\* One entry comes, goes or moves on.
LEMMA GuessingMoves ==
  ASSUME RegTypeOK, NEW e \in Entries, NEW y \in Entry, entries' = [entries EXCEPT ![e] = y],
         NEW c \in Ids
  PROVE  /\ Guesses(entries[e], c) /\ ~Guesses(y, c) =>
              Cardinality(Guessing(c))' = Cardinality(Guessing(c)) - 1
         /\ ~Guesses(entries[e], c) /\ Guesses(y, c) =>
              Cardinality(Guessing(c))' = Cardinality(Guessing(c)) + 1
         /\ (Guesses(entries[e], c) <=> Guesses(y, c)) => Guessing(c)' = Guessing(c)
<1>1. \A f \in Entries : entries'[f] = IF f = e THEN y ELSE entries[f]
  BY RegTypes
<1>2. ASSUME Guesses(entries[e], c), ~Guesses(y, c)
      PROVE  Cardinality(Guessing(c))' = Cardinality(Guessing(c)) - 1
  <2>1. Guessing(c)' = Guessing(c) \ {e} /\ e \in Guessing(c)
    BY <1>1, <1>2 DEF Guessing, Guesses
  <2> QED BY <2>1, GuessingCounted, FS_RemoveElement
<1>3. ASSUME ~Guesses(entries[e], c), Guesses(y, c)
      PROVE  Cardinality(Guessing(c))' = Cardinality(Guessing(c)) + 1
  <2>1. Guessing(c)' = Guessing(c) \cup {e} /\ e \notin Guessing(c)
    BY <1>1, <1>3 DEF Guessing, Guesses
  <2> QED BY <2>1, GuessingCounted, FS_AddElement
<1>4. ASSUME Guesses(entries[e], c) <=> Guesses(y, c)
      PROVE  Guessing(c)' = Guessing(c)
  BY <1>1, <1>4 DEF Guessing, Guesses
<1> QED BY <1>2, <1>3, <1>4

LEMMA RegInitInv == RegInit => RegInv
<1> SUFFICES ASSUME RegInit PROVE RegInv
  OBVIOUS
<1>1. RegTypeOK /\ ~form.busy
  <2>1. entries \in [Entries -> Entry] /\ attempts \in [Ids -> 0..(MaxAttempts + 1)] /\ wrong \in [Ids -> Nat]
    BY Limits DEF RegInit, Entry, NoEntry
  <2>2. form \in [mode : {"register", "verify", "login"}, id : 0..MaxCodes, busy : BOOLEAN] /\ ~form.busy
    BY Limits DEF RegInit
  <2>3. codes \subseteq 1..made /\ made \in 0..MaxCodes /\ sends \in 0..(MaxSends + 1)
    BY Limits DEF RegInit
  <2>4. account \in BOOLEAN
    BY DEF RegInit
  <2> QED BY <2>1, <2>2, <2>3, <2>4 DEF RegTypeOK, Entry
<1>2. ASSUME NEW c \in Ids PROVE LimitHolds(c)
  <2>1. Guessing(c) = {}
    BY <1>1, RegTypes DEF RegInit, Guessing
  <2>2. Cardinality(Guessing(c)) = 0
    BY <2>1, FS_EmptySet
  <2> QED BY <2>2, GuessingCounted, Limits DEF RegInit, LimitHolds, Ids, NoEntry
<1>3. \A e \in Entries : EntryKnown(entries[e])
  BY DEF RegInit, EntryKnown, NoEntry
<1> QED BY <1>1, <1>2, <1>3 DEF RegInv

\* The sign-up form and the clock leave the entries alone.
LEMMA FormKeeps ==
  ASSUME RegInv,
         SendOtp \/ StoreOtp \/ FailOtp \/ ChangeMode \/ WindowEnds
           \/ \E c \in Ids : OtpEnds(c) \/ AttemptsEnd(c)
  PROVE  RegInv'
<1>1. entries' = entries /\ wrong' = wrong
  BY DEF SendOtp, StoreOtp, FailOtp, ChangeMode, WindowEnds, OtpEnds, AttemptsEnd
<1>2. RegTypeOK' /\ (form'.busy => made' > 0)
  <2>1. account' = account
    BY DEF SendOtp, StoreOtp, FailOtp, ChangeMode, WindowEnds, OtpEnds, AttemptsEnd
  <2>2. sends' \in 0..(MaxSends + 1)
    BY Limits DEF RegInv, RegTypeOK, SendOtp, StoreOtp, FailOtp, ChangeMode, WindowEnds, OtpEnds,
       AttemptsEnd
  <2>3. attempts' \in [Ids -> 0..(MaxAttempts + 1)]
    BY Limits DEF RegInv, RegTypeOK, SendOtp, StoreOtp, FailOtp, ChangeMode, WindowEnds, OtpEnds,
       AttemptsEnd
  <2>4. /\ codes' \subseteq 1..made' /\ made' \in 0..MaxCodes /\ form' \in Form
        /\ form'.busy => made' > 0
    <3>1. /\ codes \subseteq 1..made /\ made \in 0..MaxCodes /\ form \in Form
          /\ form.busy => made > 0
      BY DEF RegInv, RegTypeOK, Form
    <3>2. CASE SendOtp
      <4>1. CASE UNCHANGED <<made, form>>
        BY <3>1, <3>2, <4>1 DEF SendOtp
      <4>2. CASE made' = made + 1 /\ form' = [form EXCEPT !.busy = TRUE] /\ made # MaxCodes
        <5>1. codes' = codes
          BY <3>2 DEF SendOtp
        <5>2. form' \in Form
          BY <3>1, <4>2 DEF Form
        <5> QED BY <3>1, <4>2, <5>1, <5>2, Limits
      <4> QED BY <3>2, <4>1, <4>2 DEF SendOtp
    <3>3. CASE StoreOtp
      <4>1. form' = [mode |-> "verify", id |-> made, busy |-> FALSE] /\ made' = made
        BY <3>3 DEF StoreOtp
      <4>2. form' \in Form /\ ~form'.busy
        BY <3>1, <4>1 DEF Form
      <4> QED BY <3>1, <3>3, <4>1, <4>2, Limits DEF StoreOtp
    <3>4. CASE FailOtp
      BY <3>1, <3>4 DEF FailOtp, Form
    <3>5. CASE ChangeMode
      BY <3>1, <3>5 DEF ChangeMode, Form
    <3>6. CASE WindowEnds \/ \E c \in Ids : OtpEnds(c) \/ AttemptsEnd(c)
      BY <3>1, <3>6 DEF WindowEnds, OtpEnds, AttemptsEnd
    <3> QED BY <3>2, <3>3, <3>4, <3>5, <3>6
  <2> QED BY <1>1, <2>1, <2>2, <2>3, <2>4 DEF RegInv, RegTypeOK, Form
<1>3. ASSUME NEW c \in Ids
      PROVE  /\ c \in codes' => c \in codes \/ (Unstored(c) /\ ~Unstored(c)')
             /\ Unstored(c)' => Unstored(c)
             /\ attempts'[c] = attempts[c] \/ c \notin codes'
  <2>1. /\ codes \subseteq 1..made /\ made \in Nat /\ attempts \in [Ids -> Nat] /\ form \in Form
        /\ c \in Nat
    BY RegTypes DEF RegInv, RegTypeOK, Form, Ids
  <2>2. CASE SendOtp
    <3>1. codes' = codes /\ attempts' = attempts
      BY <2>2 DEF SendOtp
    <3>2. CASE UNCHANGED <<made, form>>
      BY <3>1, <3>2 DEF Unstored
    <3>3. CASE made' = made + 1
      BY <2>1, <3>1, <3>3 DEF Unstored
    <3> QED BY <2>2, <3>2, <3>3 DEF SendOtp
  <2>3. CASE StoreOtp
    <3>1. /\ form.busy /\ ~form'.busy /\ codes' = codes \cup {made} /\ made' = made
          /\ attempts' = attempts
      BY <2>3 DEF StoreOtp
    <3> QED BY <2>1, <3>1 DEF Unstored
  <2>4. CASE FailOtp
    <3>1. ~form'.busy /\ codes' = codes /\ made' = made /\ attempts' = attempts
      BY <2>1, <2>4 DEF FailOtp, Form
    <3> QED BY <3>1 DEF Unstored
  <2>5. CASE ChangeMode
    <3>1. ~form'.busy /\ codes' = codes /\ made' = made /\ attempts' = attempts
      BY <2>1, <2>5 DEF ChangeMode, Form
    <3> QED BY <3>1 DEF Unstored
  <2>6. CASE WindowEnds \/ \E d \in Ids : OtpEnds(d)
    <3>1. /\ form' = form /\ codes' \subseteq codes /\ made' = made /\ attempts' = attempts
      BY <2>6 DEF WindowEnds, OtpEnds
    <3> QED BY <3>1 DEF Unstored
  <2>7. CASE \E d \in Ids : AttemptsEnd(d)
    <3>1. PICK d \in Ids : AttemptsEnd(d)
      BY <2>7
    <3>2. /\ form' = form /\ codes' = codes /\ made' = made /\ d \notin codes
          /\ attempts' = [attempts EXCEPT ![d] = 0]
      BY <3>1 DEF AttemptsEnd
    <3>3. attempts'[c] = attempts[c] \/ c = d
      BY <2>1, <3>2
    <3> QED BY <3>2, <3>3 DEF Unstored
  <2> QED BY <2>2, <2>3, <2>4, <2>5, <2>6, <2>7
<1>4. ASSUME NEW c \in Ids PROVE LimitHolds(c)'
  <2>1. Guessing(c)' = Guessing(c) /\ LimitHolds(c)
    BY <1>1 DEF Guessing, RegInv
  <2>2. CASE Unstored(c)
    <3>1. \A e \in Entries : ~Guesses(entries[e], c)
      BY <2>1, <2>2 DEF LimitHolds, Guesses
    <3>2. Guessing(c) = {}
      BY <3>1 DEF Guessing
    <3>3. Cardinality(Guessing(c)) = 0
      BY <3>2, FS_EmptySet
    <3>4. attempts'[c] \in Nat
      BY <1>2, Limits DEF RegTypeOK
    <3> QED BY <1>1, <1>3, <2>1, <2>2, <3>3, <3>4, Limits DEF LimitHolds
  <2>3. CASE ~Unstored(c)
    BY <1>1, <1>3, <2>1, <2>3 DEF LimitHolds
  <2> QED BY <2>2, <2>3
<1>5. ASSUME NEW e \in Entries PROVE EntryKnown(entries[e])'
  <2>1. EntryKnown(entries[e]) /\ (entries[e].id \in Ids => LimitHolds(entries[e].id))
    BY DEF RegInv
  <2> QED BY <1>1, <1>3, <2>1 DEF EntryKnown, LimitHolds
<1> QED BY <1>2, <1>4, <1>5 DEF RegInv

\* What is left to show when an entry moves: nothing is stored, and what is stored is kept or ends.
LEMMA EntryMoves ==
  ASSUME RegInv, NEW e \in Entries, NEW y \in Entry, entries' = [entries EXCEPT ![e] = y],
         y = NoEntry \/ (y.id \in Ids /\ ~Unstored(y.id)), EntryKnown(y)',
         RegTypeOK', made' = made, form'.busy => form.busy, codes' \subseteq codes,
         \A c \in Ids : wrong'[c] = wrong[c] \/ c = entries[e].id \/ c = y.id,
         \A c \in Ids : c = entries[e].id \/ c = y.id => LimitHolds(c)',
         \A c \in Ids : c \in codes' => attempts'[c] = attempts[c] \/ c = entries[e].id \/ c = y.id
  PROVE  RegInv'
<1>1. \A f \in Entries : entries'[f] = IF f = e THEN y ELSE entries[f]
  BY RegTypes DEF RegInv
<1>2. ASSUME NEW c \in Ids PROVE LimitHolds(c)'
  <2>1. CASE c = entries[e].id \/ c = y.id
    BY <2>1
  <2>2. CASE c # entries[e].id /\ c # y.id
    <3>1. Guessing(c)' = Guessing(c)
      BY <2>2, GuessingMoves DEF RegInv, Guesses
    <3>2. Unstored(c)' => Unstored(c)
      BY DEF Unstored
    <3> QED BY <1>1, <2>2, <3>1, <3>2 DEF LimitHolds, RegInv
  <2> QED BY <2>1, <2>2
<1>3. ASSUME NEW f \in Entries PROVE EntryKnown(entries[f])'
  BY <1>1 DEF RegInv, EntryKnown
<1>4. form'.busy => made' > 0
  BY DEF RegInv
<1> QED BY <1>2, <1>3, <1>4 DEF RegInv

LEMMA EnterKeeps ==
  ASSUME RegInv, NEW e \in Entries, NEW c \in Ids, NEW right \in BOOLEAN, Enter(e, c, right)
  PROVE  RegInv'
<1> DEFINE y == [at |-> IF right THEN "claim" ELSE "count", id |-> c, right |-> right]
<1>1. /\ entries' = [entries EXCEPT ![e] = y] /\ entries[e] = NoEntry /\ c \in codes
      /\ wrong' = [wrong EXCEPT ![c] = IF right THEN @ ELSE @ + 1]
      /\ UNCHANGED <<codes, made, sends, attempts, form, account>>
  BY DEF Enter, RegInv, EntryKnown
<1>2. y \in Entry /\ (Guesses(y, c) <=> ~right) /\ ~Guesses(entries[e], c)
  <2>1. y \in Entry
    BY RegTypes, Limits DEF RegInv, Entry, Ids
  <2>2. Guesses(y, c) <=> ~right
    BY DEF Guesses
  <2>3. ~Guesses(entries[e], c)
    BY <1>1 DEF Guesses, NoEntry
  <2> QED BY <2>1, <2>2, <2>3
<1>3. RegTypeOK'
  <2>1. entries' \in [Entries -> Entry]
    BY <1>1, <1>2, RegTypes DEF RegInv
  <2>2. wrong' \in [Ids -> Nat]
    BY <1>1, RegTypes DEF RegInv
  <2> QED BY <1>1, <2>1, <2>2 DEF RegInv, RegTypeOK, Entry
<1>4. LimitHolds(c)'
  <2>1. LimitHolds(c) /\ wrong[c] \in Nat /\ attempts[c] \in Nat /\ ~Unstored(c)
    BY <1>1, RegTypes DEF RegInv, LimitHolds
  <2>2. Cardinality(Guessing(c))' = Cardinality(Guessing(c)) + (IF right THEN 0 ELSE 1)
    <3> HIDE DEF y
    <3>1. CASE right
      <4>1. Guessing(c)' = Guessing(c)
        BY <1>1, <1>2, <3>1, GuessingMoves DEF RegInv
      <4>2. Cardinality(Guessing(c)) \in Nat
        BY GuessingCounted
      <4> QED BY <3>1, <4>1, <4>2
    <3>2. CASE ~right
      <4>1. Cardinality(Guessing(c))' = Cardinality(Guessing(c)) + 1
        BY <1>1, <1>2, <3>2, GuessingMoves DEF RegInv
      <4> QED BY <3>2, <4>1
    <3> QED BY <3>1, <3>2
  <2>3. wrong'[c] = wrong[c] + (IF right THEN 0 ELSE 1)
    BY <1>1, <2>1, RegTypes DEF RegInv
  <2>4. /\ Cardinality(Guessing(c)) \in Nat /\ Cardinality(Entries) \in Nat
        /\ Cardinality(Guessing(c))' <= Cardinality(Entries)
    BY GuessingCounted
  <2>5. ~Unstored(c)'
    BY <1>1, <2>1 DEF Unstored
  <2> QED BY <1>1, <2>1, <2>2, <2>3, <2>4, <2>5, Limits DEF LimitHolds
<1>5. EntryKnown(y)'
  BY <1>1 DEF EntryKnown
<1>6. ~Unstored(c)
  BY <1>1 DEF RegInv, LimitHolds
<1>7. \A d \in Ids : wrong'[d] = wrong[d] \/ d = c
  BY <1>1, RegTypes DEF RegInv
<1>8. y.id = c /\ entries[e].id \notin Ids
  BY <1>1 DEF NoEntry, Ids
<1> HIDE DEF y
<1> QED BY <1>1, <1>2, <1>3, <1>4, <1>5, <1>6, <1>7, <1>8, EntryMoves

\* What is known of the code that an entry is for.
LEMMA EntryCode ==
  ASSUME RegInv, NEW e \in Entries, entries[e].at # "none"
  PROVE  /\ entries[e] \in Entry /\ entries[e].id \in Ids
         /\ (entries[e].right <=> entries[e].at \in {"claim", "create"})
         /\ LimitHolds(entries[e].id) /\ ~Unstored(entries[e].id)
<1>1. entries[e] \in Entry
  BY RegTypes DEF RegInv
<1>2. EntryKnown(entries[e])
  BY DEF RegInv
<1>3. entries[e].id \in Ids /\ (entries[e].right <=> entries[e].at \in {"claim", "create"})
  BY <1>2 DEF EntryKnown
<1>4. LimitHolds(entries[e].id)
  BY <1>3 DEF RegInv
<1>5. ~Unstored(entries[e].id)
  BY <1>4 DEF LimitHolds
<1> QED BY <1>1, <1>3, <1>4, <1>5

\* The limit of a code is kept by an entry with it that goes on: a wrong one is counted, fails or
\* finds its code deleted.
LEMMA LimitKept ==
  ASSUME RegInv, NEW c \in Ids, LimitHolds(c), ~Unstored(c)', wrong[c] \in Nat,
         NEW k, k = Cardinality(Guessing(c)), NEW n, n = Cardinality(Guessing(c))',
         n = k \/ n = k - 1, n \in Nat, k \in Nat, n <= Cardinality(Entries),
         wrong'[c] \in Nat, wrong'[c] <= wrong[c], wrong'[c] - n >= wrong[c] - k \/ wrong'[c] >= n,
         c \in codes' => /\ c \in codes /\ wrong'[c] - n <= attempts'[c]
                         /\ wrong'[c] - n <= MaxAttempts - 1
  PROVE  LimitHolds(c)'
BY GuessingCounted, Limits DEF LimitHolds

LEMMA CountKeeps ==
  ASSUME RegInv, NEW e \in Entries, Count(e)
  PROVE  RegInv'
<1>0. /\ entries[e].at = "count" /\ entries[e].id \in Ids
  BY EntryCode DEF Count
<1> PICK c \in Ids : c = entries[e].id
  BY <1>0
<1> PICK n : n = IF attempts[c] > MaxAttempts THEN attempts[c] ELSE attempts[c] + 1
  OBVIOUS
<1> PICK y : y = IF TooMany(n) THEN [entries[e] EXCEPT !.at = "delete"] ELSE NoEntry
  OBVIOUS
<1>1. /\ entries[e].at = "count" /\ entries[e] \in Entry
      /\ (entries[e].right <=> entries[e].at \in {"claim", "create"})
      /\ LimitHolds(c) /\ ~Unstored(c)
  BY EntryCode DEF Count
<1>2. /\ attempts' = [attempts EXCEPT ![c] = n] /\ attempts'[c] = n
      /\ UNCHANGED <<codes, made, sends, wrong, form, account>>
  BY <1>1, RegTypes DEF Count, RegInv
<1>3. entries' = [entries EXCEPT ![e] = y]
  BY <1>2 DEF Count, Step, Finish
<1>4. y \in Entry /\ Guesses(entries[e], c) /\ (Guesses(y, c) <=> TooMany(n))
      /\ (y # NoEntry => y.id = c)
  <2>1. CASE TooMany(n)
    <3>1. y = [at |-> "delete", id |-> c, right |-> entries[e].right]
      BY <1>1, <2>1 DEF Entry
    <3> QED BY <1>1, <2>1, <3>1 DEF Entry, Guesses
  <2>2. CASE ~TooMany(n)
    <3>1. y = NoEntry
      BY <2>2
    <3>2. Guesses(entries[e], c)
      BY <1>1 DEF Guesses
    <3>3. NoEntry \in Entry /\ ~Guesses(NoEntry, c)
      BY <1>1, RegTypes DEF RegInv
    <3> QED BY <2>2, <3>1, <3>2, <3>3
  <2> QED BY <2>1, <2>2
<1>5. EntryKnown(y)'
  <2>1. CASE TooMany(n)
    <3>1. y = [at |-> "delete", id |-> c, right |-> entries[e].right]
      BY <1>1, <2>1 DEF Entry
    <3> QED BY <1>1, <3>1 DEF EntryKnown
  <2>2. CASE ~TooMany(n)
    BY <2>2 DEF EntryKnown, NoEntry
  <2> QED BY <2>1, <2>2
<1>6. n \in 0..(MaxAttempts + 1) /\ attempts[c] \in Nat /\ wrong[c] \in Nat
  BY <1>1, Limits, RegTypes DEF RegInv, RegTypeOK
<1>7. n >= attempts[c] /\ (n = attempts[c] + 1 \/ TooMany(n)) /\ (TooMany(n) <=> n >= MaxAttempts)
  BY <1>6, Limits DEF TooMany
<1>8. RegTypeOK'
  <2>1. entries' \in [Entries -> Entry]
    BY <1>3, <1>4, RegTypes DEF RegInv
  <2>2. attempts' \in [Ids -> 0..(MaxAttempts + 1)]
    BY <1>2, <1>6 DEF RegInv, RegTypeOK
  <2> QED BY <1>2, <2>1, <2>2 DEF RegInv, RegTypeOK, Entry
<1>9. ~Unstored(c)'
  BY <1>1, <1>2 DEF Unstored
<1>10. LimitHolds(c)'
  <2> DEFINE k == Cardinality(Guessing(c))
             l == Cardinality(Guessing(c))'
  <2>1. k \in Nat /\ l \in Nat /\ l <= Cardinality(Entries)
    BY <1>1, GuessingCounted
  <2>2. l = k - (IF TooMany(n) THEN 0 ELSE 1)
    <3>1. CASE TooMany(n)
      <4>1. Guessing(c)' = Guessing(c)
        BY <1>1, <1>3, <1>4, <3>1, GuessingMoves DEF RegInv
      <4> QED BY <2>1, <3>1, <4>1
    <3>2. CASE ~TooMany(n)
      <4>1. Cardinality(Guessing(c))' = Cardinality(Guessing(c)) - 1
        BY <1>1, <1>3, <1>4, <3>2, GuessingMoves DEF RegInv
      <4> QED BY <3>2, <4>1
    <3> QED BY <3>1, <3>2
  <2>3. /\ k <= wrong[c]
        /\ c \in codes => wrong[c] - k <= attempts[c] /\ wrong[c] - k <= MaxAttempts - 1
    BY <1>6, <2>1, GuessingCounted, Limits DEF LimitHolds, RegInv
  <2>4. wrong'[c] = wrong[c] /\ codes' = codes /\ attempts'[c] = n
    BY <1>2
  <2>5. c \in codes => wrong[c] - l <= n /\ wrong[c] - l <= MaxAttempts - 1
    BY <1>6, <1>7, <2>1, <2>2, <2>3, Limits
  <2> HIDE DEF k, l
  <2>6. l = k \/ l = k - 1
    BY <2>1, <2>2
  <2>7. wrong[c] - l >= wrong[c] - k
    BY <1>6, <2>1, <2>2
  <2> QED BY <1>1, <1>6, <1>9, <2>1, <2>4, <2>5, <2>6, <2>7, LimitKept DEF k, l
<1>11. \A d \in Ids : attempts'[d] = attempts[d] \/ d = c
  BY <1>1, <1>2, RegTypes DEF RegInv
<1>12. (y = NoEntry \/ (y.id \in Ids /\ ~Unstored(y.id))) /\ \A d \in Ids : d = y.id => d = c
  BY <1>1, <1>4 DEF NoEntry, Ids
<1> QED BY <1>2, <1>3, <1>4, <1>5, <1>8, <1>10, <1>11, <1>12, EntryMoves

\* The ways in which an entry ends or goes on without being counted.
LEMMA EndsKeep ==
  ASSUME RegInv, NEW e \in Entries, DeleteOtp(e) \/ Claim(e) \/ Create(e) \/ FailEntry(e)
  PROVE  RegInv'
<1>0. entries[e].at # "none" /\ entries[e].id \in Ids
  <2>1. entries[e].at # "none"
    BY DEF DeleteOtp, Claim, Create, FailEntry
  <2> QED BY <2>1, EntryCode
<1> PICK c \in Ids : c = entries[e].id
  BY <1>0
<1> PICK y : y = IF Claim(e) /\ c \in codes THEN [entries[e] EXCEPT !.at = "create"] ELSE NoEntry
  OBVIOUS
<1>1. /\ entries[e].at # "none" /\ entries[e] \in Entry
      /\ (entries[e].right <=> entries[e].at \in {"claim", "create"})
      /\ LimitHolds(c) /\ ~Unstored(c)
  BY <1>0, EntryCode
<1>2. made' = made /\ codes' \subseteq codes
  BY DEF DeleteOtp, Claim, Create, FailEntry
<1>3. entries' = [entries EXCEPT ![e] = y]
  <2>1. CASE Claim(e)
    BY <2>1 DEF Claim, Step, Finish
  <2>2. CASE ~Claim(e)
    BY <2>2 DEF DeleteOtp, Create, FailEntry, Finish
  <2> QED BY <2>1, <2>2
<1>4. /\ y \in Entry /\ ~Guesses(y, c) /\ (y # NoEntry => y.id = c) /\ EntryKnown(y)'
  <2>1. CASE Claim(e) /\ c \in codes
    <3>1. codes' = codes \ {c} /\ entries[e].at = "claim"
      BY <2>1 DEF Claim
    <3>2. y = [at |-> "create", id |-> c, right |-> entries[e].right]
      BY <1>1, <2>1 DEF Entry
    <3> QED BY <1>1, <3>1, <3>2 DEF EntryKnown, Entry, Guesses
  <2>2. CASE ~(Claim(e) /\ c \in codes)
    <3>1. y = NoEntry
      BY <2>2
    <3>2. NoEntry \in Entry /\ ~Guesses(NoEntry, c)
      BY <1>1, RegTypes DEF RegInv
    <3>3. EntryKnown(NoEntry)'
      BY DEF EntryKnown, NoEntry
    <3> QED BY <3>1, <3>2, <3>3
  <2> QED BY <2>1, <2>2
<1>5. form' \in Form /\ (form'.busy => form.busy)
  <2>1. form \in Form
    BY DEF RegInv, RegTypeOK, Form
  <2>2. form' = form \/ form' = [mode |-> "login", id |-> 0, busy |-> FALSE]
    BY DEF DeleteOtp, Claim, Create, FailEntry
  <2>3. [mode |-> "login", id |-> 0, busy |-> FALSE] \in Form
    BY Limits DEF Form
  <2>4. form'.busy => form.busy
    BY <2>2
  <2>5. form' \in Form
    BY <2>1, <2>2, <2>3
  <2> QED BY <2>4, <2>5
<1>6. ~Unstored(c)'
  BY <1>1, <1>2, <1>5 DEF Unstored
<1>7. /\ \A d \in Ids : attempts'[d] = attempts[d] \/ d = c
      /\ c \in codes' => attempts'[c] = attempts[c]
      /\ attempts' \in [Ids -> 0..(MaxAttempts + 1)]
  <2>1. attempts \in [Ids -> 0..(MaxAttempts + 1)] /\ codes \subseteq Ids
    BY RegTypes DEF RegInv, RegTypeOK
  <2>2. CASE DeleteOtp(e)
    BY <1>1, <2>1, <2>2, Limits DEF DeleteOtp
  <2>3. CASE Create(e)
    <3>1. c \notin codes /\ codes' = codes /\ attempts' = [attempts EXCEPT ![c] = 0]
      BY <2>3 DEF Create, RegInv, EntryKnown
    <3> QED BY <1>1, <2>1, <3>1, Limits
  <2>4. CASE Claim(e) \/ FailEntry(e)
    BY <2>1, <2>4 DEF Claim, FailEntry
  <2> QED BY <2>2, <2>3, <2>4
<1>8. /\ wrong[c] \in Nat /\ Cardinality(Guessing(c)) \in Nat /\ Cardinality(Entries) \in Nat
      /\ Cardinality(Guessing(c))' \in Nat /\ Cardinality(Guessing(c))' <= Cardinality(Entries)
      /\ Cardinality(Guessing(c)) <= wrong[c]
      /\ c \in codes => /\ wrong[c] - Cardinality(Guessing(c)) <= attempts[c]
                        /\ wrong[c] - Cardinality(Guessing(c)) <= MaxAttempts - 1
  <2>1. wrong[c] \in Nat
    BY <1>1, RegTypes DEF RegInv
  <2>2. /\ Cardinality(Guessing(c)) \in Nat /\ Cardinality(Entries) \in Nat
        /\ Cardinality(Guessing(c))' \in Nat /\ Cardinality(Guessing(c))' <= Cardinality(Entries)
    BY <1>1, GuessingCounted
  <2>3. wrong[c] \in Cardinality(Guessing(c))..(MaxAttempts + Cardinality(Entries) - 1)
    BY <1>1 DEF LimitHolds
  <2> QED BY <1>1, <2>1, <2>2, <2>3 DEF LimitHolds
<1>9. /\ \A d \in Ids : wrong'[d] = wrong[d] \/ d = c
      /\ wrong'[c] = wrong[c] \/ (wrong'[c] = wrong[c] - 1 /\ Guesses(entries[e], c))
      /\ c \in codes' /\ Guesses(entries[e], c) => wrong'[c] = wrong[c] - 1
      /\ wrong' \in [Ids -> Nat]
  <2>1. CASE FailEntry(e)
    <3>1. wrong' = [wrong EXCEPT ![c] = IF entries[e].right THEN @ ELSE @ - 1]
      BY <2>1 DEF FailEntry
    <3>2. ~entries[e].right <=> Guesses(entries[e], c)
      BY <1>1 DEF Guesses, Entry
    <3>3. Guesses(entries[e], c) => wrong[c] > 0
      <4> SUFFICES ASSUME Guesses(entries[e], c) PROVE wrong[c] > 0
        OBVIOUS
      <4>1. Cardinality(Guessing(c)) # 0
        BY <1>1, GuessingCounted, FS_EmptySet DEF Guessing
      <4> QED BY <1>8, <4>1
    <3> QED BY <1>1, <1>8, <3>1, <3>2, <3>3, RegTypes DEF RegInv
  <2>2. CASE DeleteOtp(e)
    BY <1>1, <1>8, <2>2, RegTypes DEF DeleteOtp, RegInv
  <2>3. CASE Claim(e) \/ Create(e)
    <3>1. ~Guesses(entries[e], c) /\ wrong' = wrong
      BY <2>3 DEF Claim, Create, Guesses
    <3> QED BY <1>8, <3>1, RegTypes DEF RegInv
  <2> QED BY <2>1, <2>2, <2>3
<1>10. LimitHolds(c)'
  <2> DEFINE k == Cardinality(Guessing(c))
             l == Cardinality(Guessing(c))'
  <2>1. /\ Guesses(entries[e], c) => l = k - 1
        /\ ~Guesses(entries[e], c) => l = k
    <3>1. CASE Guesses(entries[e], c)
      BY <1>1, <1>3, <1>4, <3>1, GuessingMoves DEF RegInv
    <3>2. CASE ~Guesses(entries[e], c)
      <4>1. Guessing(c)' = Guessing(c)
        BY <1>1, <1>3, <1>4, <3>2, GuessingMoves DEF RegInv
      <4> QED BY <3>2, <4>1
    <3> QED BY <3>1, <3>2
  <2>2. l = k \/ l = k - 1
    BY <2>1
  <2>3. wrong'[c] \in Nat
    BY <1>1, <1>9
  <2>4. /\ wrong'[c] <= wrong[c]
        /\ wrong'[c] - l >= wrong[c] - k
        /\ c \in codes' => wrong'[c] - l <= wrong[c] - k
    BY <1>8, <1>9, <2>1, <2>3
  <2>5. c \in codes' => wrong'[c] - l <= attempts'[c] /\ wrong'[c] - l <= MaxAttempts - 1
    <3> SUFFICES ASSUME c \in codes' PROVE wrong'[c] - l <= attempts'[c] /\ wrong'[c] - l <= MaxAttempts - 1
      OBVIOUS
    <3>1. c \in codes /\ attempts'[c] = attempts[c] /\ attempts[c] \in Nat
      BY <1>1, <1>2, <1>7, RegTypes DEF RegInv
    <3> QED BY <1>8, <2>2, <2>3, <2>4, <3>1, Limits
  <2> HIDE DEF k, l
  <2> QED BY <1>1, <1>2, <1>6, <1>8, <2>2, <2>3, <2>4, <2>5, LimitKept DEF k, l
<1>11. RegTypeOK'
  <2>1. entries' \in [Entries -> Entry]
    BY <1>3, <1>4, RegTypes DEF RegInv
  <2>2. account' \in BOOLEAN
    BY DEF RegInv, RegTypeOK, DeleteOtp, Claim, Create, FailEntry
  <2>3. sends' = sends
    BY DEF DeleteOtp, Claim, Create, FailEntry
  <2> QED BY <1>2, <1>5, <1>7, <1>9, <2>1, <2>2, <2>3 DEF RegInv, RegTypeOK, Entry, Form
<1>12. (y = NoEntry \/ (y.id \in Ids /\ ~Unstored(y.id))) /\ \A d \in Ids : d = y.id => d = c
  BY <1>1, <1>4 DEF NoEntry, Ids
<1>13. \A d \in Ids : d = entries[e].id \/ d = y.id => LimitHolds(d)'
  BY <1>10, <1>12
<1>14. /\ \A d \in Ids : wrong'[d] = wrong[d] \/ d = entries[e].id \/ d = y.id
       /\ \A d \in Ids : d \in codes' => attempts'[d] = attempts[d] \/ d = entries[e].id \/ d = y.id
  BY <1>7, <1>9
<1> QED BY <1>2, <1>3, <1>4, <1>5, <1>11, <1>12, <1>13, <1>14, EntryMoves

LEMMA RegNextInv == RegInv /\ [RegNext]_regVars => RegInv'
<1> SUFFICES ASSUME RegInv, [RegNext]_regVars PROVE RegInv'
  OBVIOUS
<1>1. CASE UNCHANGED regVars
  <2>1. RegTypeOK' /\ (form'.busy => made' > 0)
    BY <1>1 DEF RegInv, RegTypeOK, regVars
  <2>2. ASSUME NEW c \in Ids PROVE LimitHolds(c)'
    BY <1>1, <2>2 DEF RegInv, LimitHolds, Unstored, Guessing, regVars
  <2>3. ASSUME NEW e \in Entries PROVE EntryKnown(entries[e])'
    BY <1>1, <2>3 DEF RegInv, EntryKnown, regVars
  <2> QED BY <2>1, <2>2, <2>3 DEF RegInv
<1>2. ASSUME NEW e \in Entries, NEW c \in Ids, NEW right \in BOOLEAN, Enter(e, c, right)
      PROVE  RegInv'
  BY <1>2, EnterKeeps
<1>3. ASSUME NEW e \in Entries, Count(e) PROVE RegInv'
  BY <1>3, CountKeeps
<1>4. ASSUME NEW e \in Entries, DeleteOtp(e) \/ Claim(e) \/ Create(e) \/ FailEntry(e)
      PROVE  RegInv'
  BY <1>4, EndsKeep
<1>5. CASE \/ SendOtp \/ StoreOtp \/ FailOtp \/ ChangeMode \/ WindowEnds
           \/ \E c \in Ids : OtpEnds(c) \/ AttemptsEnd(c)
  BY <1>5, FormKeeps
<1> QED BY <1>1, <1>2, <1>3, <1>4, <1>5 DEF RegNext

LEMMA RegInvAlways == RegSpec => []RegInv
BY RegInitInv, RegNextInv, PTL DEF RegSpec

\* register, sendRegistrationOtp: the codes, the counters, the entries and the form hold what the
\* program could store, for any limits.
THEOREM RegTyped == RegSpec => []RegTypeOK
<1>1. RegInv => RegTypeOK
  BY DEF RegInv
<1> QED BY <1>1, RegInvAlways, PTL

\* register (294-314): for any limit and any number of entries in flight, codes and resends, no
\* code is compared with more wrong entries than the limit and those that race with the last.
THEOREM GuessesBounded == RegSpec => []WrongGuessesBounded
<1>1. RegInv => WrongGuessesBounded
  <2> SUFFICES ASSUME RegInv, NEW c \in Ids
               PROVE  wrong[c] <= MaxAttempts + Cardinality(Entries) - 1
    BY DEF WrongGuessesBounded
  <2> QED BY DEF RegInv, LimitHolds
<1> QED BY <1>1, RegInvAlways, PTL
=============================================================================
