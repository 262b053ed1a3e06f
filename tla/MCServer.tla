------------------------------ MODULE MCServer ------------------------------
(* Parts of the server that share no state, checked in one run: a behaviour chooses one of them
   and takes its steps.  Each is its own module with its own specification; here the sum of
   them is explored, which is the sum of their state spaces and not the product.            *)
EXTENDS IdeaBoard, TaskWorkflow, Connections, Upkeep, Registration

VARIABLE part   \* the part of the server that runs

served == <<boardVars, taskVars, connVars, keepVars, regVars, part>>

\* A part that does not run starts in one state.  Outlook's event is there at the start, and its
\* refresh tokens stay good when they are used; other providers do either.
MCInit ==
  /\ part \in {"board", "tasks", "conn", "maintenance", "digest", "registration"}
  /\ BoardInit /\ TaskInit /\ ConnInit /\ KeepInit /\ RegInit
  /\ IF part = "conn" THEN connector.calendar => (~tokens.rotates /\ \A e \in Events : calendar[e] = 1)
     ELSE provider = "google" /\ ~tokens.rotates
  /\ part # "tasks" => active = {}

BoardPart == part = "board" /\ BoardNext /\ UNCHANGED <<taskVars, connVars, keepVars, regVars, part>>
TaskPart == part = "tasks" /\ TaskNext /\ UNCHANGED <<boardVars, connVars, keepVars, regVars, part>>
ConnPart == part = "conn" /\ ConnNext /\ UNCHANGED <<boardVars, taskVars, keepVars, regVars, part>>
MaintenancePart == /\ part = "maintenance" /\ (Tick \/ MaintenanceNext)
                   /\ UNCHANGED <<boardVars, taskVars, connVars, regVars, part>>
DigestPart == /\ part = "digest" /\ (Tick \/ DigestNext)
              /\ UNCHANGED <<boardVars, taskVars, connVars, regVars, part>>
RegPart == /\ part = "registration" /\ RegNext
           /\ UNCHANGED <<boardVars, taskVars, connVars, keepVars, part>>

MCNext == BoardPart \/ TaskPart \/ ConnPart \/ MaintenancePart \/ DigestPart \/ RegPart
MCSpec == MCInit /\ [][MCNext]_served
=============================================================================
