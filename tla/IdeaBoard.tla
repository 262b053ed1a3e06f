------------------------------ MODULE IdeaBoard ------------------------------
(***************************************************************************)
(* The ideas of one group and the projects begun from them                  *)
(* (apps/api/src/app.service.ts).                                           *)
(*                                                                         *)
(* revise, reject and begin decide on an idea they have read and write it    *)
(* in a later call; begin writes twice, first the project, then the idea.   *)
(* Polls matter here because deleting a finished one deletes ideas.         *)
(***************************************************************************)
EXTENDS Integers, FiniteSets

CONSTANTS Ideas,     \* the ideas of the group, ever
          Polls,     \* its polls, ever
          Writers,   \* the requests that read an idea and then write
          NoIdea

ASSUME BoardAssumption == IsFiniteSet(Ideas) /\ NoIdea \notin Ideas

VARIABLES status,    \* Idea.status; "unwritten" and "deleted" without a row
          project,   \* whether a Project has the idea's id: the column is unique
          begun,     \* how often a project was begun from the idea (0, 1, 2: often)
          polls,     \* IdeaPoll rows with the ideas of their options
          writers,   \* the progress of each request
          broken     \* ideas whose begin stopped half-way, lost its project before the idea
                     \* was marked, or marked it when another request had read it

boardVars == <<status, project, begun, polls, writers, broken>>

Open == {"submitted", "refined", "rejected"}   \* may be revised, rejected, begun
HasRow(i) == status[i] \in Open \cup {"selected"}
IdleWriter == [at |-> "idle", op |-> "none", idea |-> NoIdea]

BoardInit ==
  /\ status  = [i \in Ideas |-> "unwritten"]
  /\ project = [i \in Ideas |-> FALSE]
  /\ begun   = [i \in Ideas |-> 0]
  /\ polls   = [p \in Polls |-> [stage |-> "unused", options |-> {}]]
  /\ writers = [w \in Writers |-> IdleWriter]
  /\ broken  = {}

\* idea: any member submits one, also the result of mergeIdeas.
SubmitIdea(i) ==
  /\ status[i] = "unwritten"
  /\ status' = [status EXCEPT ![i] = "submitted"]
  /\ UNCHANGED <<project, begun, polls, writers, broken>>

\* reviseIdea, rejectIdea, begin: the row is read and its status checked.
MayChangeAny(i) == HasRow(i)   \* a mutant: the check of the status dropped
MayChange(i) == status[i] \in Open
ReadIdea(w, op, i) ==
  /\ writers[w].at = "idle"
  /\ MayChange(i)
  /\ writers' = [writers EXCEPT ![w] = [at |-> IF op = "begin" THEN "create" ELSE "write",
                                        op |-> op, idea |-> i]]
  /\ UNCHANGED <<status, project, begun, polls, broken>>

End(w) == writers' = [writers EXCEPT ![w] = IdleWriter]

\* reviseIdea and rejectIdea: the update, whatever the idea has become.
WriteIdea(w) ==
  LET i == writers[w].idea IN
  /\ writers[w].at = "write"
  /\ HasRow(i)
  /\ status' = [status EXCEPT ![i] = IF writers[w].op = "revise" THEN "refined" ELSE "rejected"]
  /\ End(w)
  /\ UNCHANGED <<project, begun, polls, broken>>

\* begin: the project, its members and its unique link to the idea.
CreateProject(w) ==
  LET i == writers[w].idea IN
  /\ writers[w].at = "create"
  /\ HasRow(i) /\ ~project[i]
  /\ project' = [project EXCEPT ![i] = TRUE]
  /\ begun' = [begun EXCEPT ![i] = IF @ = 2 THEN 2 ELSE @ + 1]
  /\ writers' = [writers EXCEPT ![w].at = "mark"]
  /\ UNCHANGED <<status, polls, broken>>

\* begin: the idea is marked in a call of its own.
MarkSelected(w) ==
  LET i == writers[w].idea IN
  /\ writers[w].at = "mark"
  /\ HasRow(i)
  /\ status' = [status EXCEPT ![i] = "selected"]
  /\ broken' = IF \E v \in Writers \ {w} : writers[v].idea = i THEN broken \cup {i} ELSE broken
  /\ End(w)
  /\ UNCHANGED <<project, begun, polls>>

\* A rejected call (the row is gone, the link is taken) or the end of the process.
FailWriter(w) ==
  /\ writers[w].at # "idle"
  /\ broken' = IF writers[w].at = "mark" THEN broken \cup {writers[w].idea} ELSE broken
  /\ End(w)
  /\ UNCHANGED <<status, project, begun, polls>>

\* deleteProject: the transaction; the idea keeps its status.
DeleteProject(i) ==
  /\ project[i]
  /\ project' = [project EXCEPT ![i] = FALSE]
  /\ broken' = IF status[i] = "selected" THEN broken ELSE broken \cup {i}
  /\ UNCHANGED <<status, begun, polls, writers>>

\* openPoll, when no vote is running (the race for that is IdeaPolls').
OpenPoll(p, options) ==
  /\ polls[p].stage = "unused"
  /\ \A q \in Polls : polls[q].stage # "open"
  /\ \A i \in options : HasRow(i)
  /\ polls' = [polls EXCEPT ![p] = [stage |-> "open", options |-> options]]
  /\ UNCHANGED <<status, project, begun, writers, broken>>

ClosePoll(p) ==
  /\ polls[p].stage = "open"
  /\ polls' = [polls EXCEPT ![p].stage = "closed"]
  /\ UNCHANGED <<status, project, begun, writers, broken>>

\* deleteFinishedPoll: the poll and those of its ideas that have no project.
UnusedByStatus(i) == status[i] # "selected"   \* a mutant: by status, not by project
Unused(i) == ~project[i]
DeleteFinishedPoll(p) ==
  /\ polls[p].stage = "closed"
  /\ polls' = [polls EXCEPT ![p].stage = "deleted"]
  /\ status' = [i \in Ideas |-> IF i \in polls[p].options /\ Unused(i)
                                THEN "deleted" ELSE status[i]]
  /\ UNCHANGED <<project, begun, writers, broken>>

BoardNext ==
  \/ \E i \in Ideas : SubmitIdea(i) \/ DeleteProject(i)
  \/ \E w \in Writers :
       \/ \E op \in {"revise", "reject", "begin"}, i \in Ideas : ReadIdea(w, op, i)
       \/ WriteIdea(w) \/ CreateProject(w) \/ MarkSelected(w) \/ FailWriter(w)
  \/ \E p \in Polls :
       \/ \E options \in SUBSET Ideas : Cardinality(options) >= 2 /\ OpenPoll(p, options)
       \/ ClosePoll(p) \/ DeleteFinishedPoll(p)

BoardSpec == BoardInit /\ [][BoardNext]_boardVars

BoardTypeOK ==
  /\ status \in [Ideas -> Open \cup {"unwritten", "selected", "deleted"}]
  /\ project \in [Ideas -> BOOLEAN]
  /\ begun \in [Ideas -> 0..2]
  /\ polls \in [Polls -> [stage : {"unused", "open", "closed", "deleted"}, options : SUBSET Ideas]]
  /\ writers \in [Writers -> [at : {"idle", "write", "create", "mark"},
                              op : {"none", "revise", "reject", "begin"},
                              idea : Ideas \cup {NoIdea}]]
  /\ broken \subseteq Ideas

\* begin (1010) and deleteFinishedPoll (995): an idea a project was begun from is kept as long
\* as the project is, and is 'selected', so that nobody revises, rejects or begins it again;
\* unless its begin is between its two writes, stopped there, or met a request that had read
\* the idea before.
BegunIdeasSelected ==
  \A i \in Ideas : project[i] =>
    \/ status[i] = "selected"
    \/ /\ HasRow(i)
       /\ \/ i \in broken
          \/ \E w \in Writers : writers[w].at = "mark" /\ writers[w].idea = i

\* begin: an idea is begun once, also when its project is deleted later; a second project takes
\* a begin that stopped half-way, a request that had read the idea before it was marked, or
\* the deletion of the first project before that.
BegunOnce == \A i \in Ideas : begun[i] > 1 => i \in broken
=============================================================================
