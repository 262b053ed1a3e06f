--------------------------- MODULE PollLifecycle ---------------------------
(***************************************************************************)
(* What the idea polls of a group promise, whatever the order in which     *)
(* requests, timer sweeps and crashes interleave: a poll opens once, is     *)
(* closed at most once, its closing record never changes, and the group is  *)
(* told of the close at most once and only after it happened.              *)
(* IdeaPolls implements this specification.                                *)
(***************************************************************************)
EXTENDS Naturals

CONSTANTS Polls,    \* identifiers of polls
          Outcomes, \* what a closing record can hold: who closed it, and when
          Pending   \* the record of a poll nobody has closed

VARIABLES phase,    \* phase[p]: the poll's life so far
          outcome,  \* outcome[p]: its closing record
          told      \* told[p]: how often the group was told it closed

lifecycleVars == <<phase, outcome, told>>

Init ==
  /\ phase = [p \in Polls |-> "unused"]
  /\ outcome = [p \in Polls |-> Pending]
  /\ told = [p \in Polls |-> 0]

Open(p) ==
  /\ phase[p] = "unused"
  /\ phase' = [phase EXCEPT ![p] = "open"]
  /\ UNCHANGED <<outcome, told>>

Close(p) ==
  /\ phase[p] = "open"
  /\ phase' = [phase EXCEPT ![p] = "closed"]
  /\ \E o \in Outcomes : outcome' = [outcome EXCEPT ![p] = o]
  /\ UNCHANGED told

Announce(p) ==
  /\ phase[p] = "closed"
  /\ told[p] = 0
  /\ told' = [told EXCEPT ![p] = 1]
  /\ UNCHANGED <<phase, outcome>>

Remove(p) ==
  /\ phase[p] \in {"open", "closed"}
  /\ phase' = [phase EXCEPT ![p] = "removed"]
  /\ outcome' = [outcome EXCEPT ![p] = Pending]
  /\ UNCHANGED told

Next == \E p \in Polls : Open(p) \/ Close(p) \/ Announce(p) \/ Remove(p)

Spec == Init /\ [][Next]_lifecycleVars
=============================================================================
