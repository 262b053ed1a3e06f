-------------------------- MODULE GroupMembership --------------------------
(***************************************************************************)
(* The members and leaders of one group, and the sockets in its chat room   *)
(* (apps/api/src/app.service.ts, apps/api/src/realtime.gateway.ts).         *)
(*                                                                         *)
(* Every database call of a request is a step; a request is made once, and  *)
(* `at` is the call it makes next.  A membership row is named by the request *)
(* that created it, since a row that is deleted and created again is another *)
(* row.  What a user has instead of a row tells how the row was lost, which  *)
(* the code does not store.                                                *)
(***************************************************************************)
EXTENDS Integers, FiniteSets

CONSTANTS Users,     \* everybody with an account
          Founder,   \* who created the group
          Joined,    \* who has joined it since
          Connected, \* the users with a socket; one each, since sockets are independent
          Requests,  \* every request ever made about the group; also names rows
          None       \* no request, no user

ASSUME GroupAssumption ==
  /\ Founder \in Users
  /\ Joined \subseteq Users \ {Founder}
  /\ Connected \subseteq Users
  /\ None \notin Requests \cup Users
  /\ IsFiniteSet(Users)

VARIABLES members,   \* the GroupMember rows
          erased,    \* users who deleted their account
          joinable,  \* whether a join code of the group is active
          requests,  \* the progress and the locals of every request
          joining,   \* sockets past the check of group:join, not in the room yet
          room,      \* sockets in the room of the group's chat
          evictions, \* users whose eviction is on its way to the socket's instance
          blind      \* sockets that entered the room when their user was no member

socketVars == <<joining, room, evictions, blind>>
vars == <<members, erased, joinable, requests, socketVars>>

Row    == [role : {"member", "leader"}, by : Requests \cup {None}]
NoRow  == [role : {"outside", "left", "kicked"}, by : {None}]
Unread == [role |-> "unread", by |-> None]
Steps  == {"joinRow", "look", "create", "remove", "evict", "count", "leave", "successor",
           "promote", "erase", "issue"}
Ends   == {"done", "failed", "lost"}
Request == [at : Steps \cup Ends \cup {"unmade"},
            user : Users \cup {None},    \* who makes it
            target : Users \cup {None},  \* whom it is about
            saw : [Users -> Row \cup NoRow \cup {Unread}]] \* the rows it relies on
Unmade == [at |-> "unmade", user |-> None, target |-> None, saw |-> [u \in Users |-> Unread]]

In(u)   == members[u].role \in {"member", "leader"}
Members == {u \in Users : In(u)}
Leaders == {u \in Users : members[u].role = "leader"}

\* createGroup: its creator leads it; issueJoinCode, which follows, may fail.
Init ==
  /\ members = [u \in Users |-> [role |-> CASE u = Founder   -> "leader"
                                            [] u \in Joined -> "member"
                                            [] OTHER        -> "outside", by |-> None]]
  /\ erased = {} /\ joinable \in BOOLEAN
  /\ requests = [r \in Requests |-> Unmade]
  /\ joining = {} /\ room = {} /\ evictions = {} /\ blind = {}

\* Request r is made by u about `target`; it has read u's row and goes on to `at`.
Begin(r, u, target, at) ==
  /\ requests[r].at = "unmade" /\ u \notin erased
  /\ requests' = [requests EXCEPT ![r] =
       [at |-> at, user |-> u, target |-> target,
        saw |-> [v \in Users |-> IF v = u THEN members[u] ELSE Unread]]]
  /\ UNCHANGED <<members, erased, joinable, socketVars>>

\* Request r, having made the call `step`, goes on to `next`.
Go(r, step, next) ==
  /\ requests[r].at = step
  /\ requests' = [requests EXCEPT ![r].at = next]

----------------------------------------------------------------------------
(* Joining: with a code that was active when it was read, or added.         *)

JoinGroup(r, u) == joinable /\ Begin(r, u, u, "joinRow")

Join(r) ==
  LET u == requests[r].user
  IN  /\ Go(r, "joinRow", "done")
      /\ members' = IF In(u) THEN members
                             ELSE [members EXCEPT ![u] = [role |-> "member", by |-> r]]
      /\ UNCHANGED <<erased, joinable, socketVars>>

AddGroupMember(r, u, t) == In(u) /\ Begin(r, u, t, "look")

Look(r) ==
  /\ Go(r, "look", IF In(requests[r].target) THEN "done" ELSE "create")
  /\ UNCHANGED <<members, erased, joinable, socketVars>>

\* A row that another request created meanwhile makes it fail.
Create(r) ==
  LET t == requests[r].target
  IN  /\ Go(r, "create", IF In(t) THEN "failed" ELSE "done")
      /\ members' = IF In(t) THEN members
                             ELSE [members EXCEPT ![t] = [role |-> "member", by |-> r]]
      /\ UNCHANGED <<erased, joinable, socketVars>>

\* group: a member who opens a group without an active code gets it a new one.
OpenGroup(r, u) == In(u) /\ ~joinable /\ Begin(r, u, u, "issue")

Issue(r) ==
  /\ Go(r, "issue", "done")
  /\ joinable' = TRUE
  /\ UNCHANGED <<members, erased, socketVars>>

CodesExpire ==
  /\ joinable
  /\ joinable' = FALSE
  /\ UNCHANGED <<members, erased, requests, socketVars>>

----------------------------------------------------------------------------
(* removeGroupMember: a leader removes anybody, itself included; then the    *)
(* gateway is told, and tells every instance.                               *)

RemoveGroupMember(r, u, t) ==
  /\ members[u].role = "leader"
  /\ Begin(r, u, t, "remove")

SoftDeleted(t) == [members EXCEPT ![t].role = "kicked"]
Removed(t) == [members EXCEPT ![t] = [role |-> "kicked", by |-> None]]

AfterRemovalSilent(t) == IF In(t) THEN "done" ELSE "failed"
AfterRemoval(t) == IF In(t) THEN "evict" ELSE "failed"

Remove(r) ==
  LET t == requests[r].target
  IN  /\ Go(r, "remove", AfterRemoval(t))
      /\ members' = IF In(t) THEN Removed(t) ELSE members
      /\ UNCHANGED <<erased, joinable, socketVars>>

Evict(r) ==
  /\ Go(r, "evict", "done")
  /\ evictions' = evictions \cup {requests[r].target}
  /\ UNCHANGED <<members, erased, joinable, joining, room, blind>>

----------------------------------------------------------------------------
(* leaveGroup: a leader counts the leaders first.                           *)

LeaveGroup(r, u) ==
  /\ In(u)
  /\ Begin(r, u, u, IF members[u].role = "leader" THEN "count" ELSE "leave")

EnoughIfAny(leaders) == Cardinality(leaders) >= 1
Enough(leaders) == Cardinality(leaders) > 1

Count(r) ==
  /\ requests[r].at = "count"
  /\ requests' = [requests EXCEPT
       ![r].at = IF Enough(Leaders) THEN "leave" ELSE "failed",
       ![r].saw = [u \in Users |-> IF u \in Leaders THEN members[u] ELSE @[u]]]
  /\ UNCHANGED <<members, erased, joinable, socketVars>>

\* A row that is gone makes it fail.
Leave(r) ==
  LET u == requests[r].user
  IN  /\ Go(r, "leave", IF In(u) THEN "done" ELSE "failed")
      /\ members' = IF In(u) THEN [members EXCEPT ![u] = [role |-> "left", by |-> None]]
                             ELSE members
      /\ UNCHANGED <<erased, joinable, socketVars>>

----------------------------------------------------------------------------
(* deleteMyAccount: a leader's place goes to another member first.          *)

DeleteMyAccount(r, u) ==
  Begin(r, u, u, IF members[u].role = "leader" THEN "successor" ELSE "erase")

\* The code takes the member who joined first; nothing here depends on who it is.
NoSuccessor(r) ==
  /\ requests[r].at = "successor"
  /\ Members \subseteq {requests[r].user}
  /\ requests' = [requests EXCEPT ![r].at = "erase",
                                  ![r].saw = [u \in Users |-> IF u = requests[r].user
                                                              THEN @[u] ELSE members[u]]]
  /\ UNCHANGED <<members, erased, joinable, socketVars>>

FindSuccessor(r, s) ==
  /\ requests[r].at = "successor"
  /\ s \in Members \ {requests[r].user}
  /\ requests' = [requests EXCEPT ![r].at = "promote", ![r].target = s,
                                  ![r].saw[s] = members[s]]
  /\ UNCHANGED <<members, erased, joinable, socketVars>>

\* The successor's row is found by its identifier; if it is gone the deletion fails.
Promote(r) ==
  LET s == requests[r].target
      promoted == [members[s] EXCEPT !.role = "leader"]
      found == In(s) /\ members[s].by = requests[r].saw[s].by
  IN  /\ requests[r].at = "promote"
      /\ requests' = [requests EXCEPT ![r].at = IF found THEN "erase" ELSE "failed",
                                      ![r].saw[s] = IF found THEN promoted ELSE @]
      /\ members' = IF found THEN [members EXCEPT ![s] = promoted] ELSE members
      /\ UNCHANGED <<erased, joinable, socketVars>>

Erase(r) ==
  LET u == requests[r].user
  IN  /\ Go(r, "erase", "done")
      /\ erased' = erased \cup {u}
      /\ members' = IF In(u) THEN [members EXCEPT ![u] = [role |-> "left", by |-> None]]
                             ELSE members
      /\ UNCHANGED <<joinable, socketVars>>

----------------------------------------------------------------------------
(* Sockets.  group:join checks the membership, then joins the room.         *)

CheckRoom(u) ==
  /\ u \in Connected \ joining /\ In(u)
  /\ joining' = joining \cup {u}
  /\ UNCHANGED <<members, erased, joinable, requests, room, evictions, blind>>

EnterRoom(u) ==
  /\ u \in joining
  /\ joining' = joining \ {u}
  /\ room' = room \cup {u}
  /\ blind' = IF In(u) THEN blind ELSE blind \cup {u}
  /\ UNCHANGED <<members, erased, joinable, requests, evictions>>

Disconnect(u) ==
  /\ u \in joining \cup room
  /\ joining' = joining \ {u} /\ room' = room \ {u} /\ blind' = blind \ {u}
  /\ UNCHANGED <<members, erased, joinable, requests, evictions>>

\* revokeGroupAccess, on the instance that has the socket.
RevokeGroupAccess(u) ==
  /\ u \in evictions
  /\ evictions' = evictions \ {u}
  /\ room' = room \ {u} /\ blind' = blind \ {u}
  /\ UNCHANGED <<members, erased, joinable, requests, joining>>

----------------------------------------------------------------------------
\* A call fails, or the process ends.  "lost" tells that a removal was not announced.
Fail(r) ==
  /\ requests[r].at \in Steps
  /\ Go(r, requests[r].at, IF requests[r].at = "evict" THEN "lost" ELSE "failed")
  /\ UNCHANGED <<members, erased, joinable, socketVars>>

Begins(r, u) ==
  \/ JoinGroup(r, u) \/ OpenGroup(r, u) \/ LeaveGroup(r, u) \/ DeleteMyAccount(r, u)
  \/ \E t \in Users : AddGroupMember(r, u, t) \/ RemoveGroupMember(r, u, t)

Proceeds(r) ==
  \/ Join(r) \/ Look(r) \/ Create(r) \/ Issue(r) \/ Remove(r) \/ Evict(r)
  \/ Count(r) \/ Leave(r) \/ NoSuccessor(r) \/ Promote(r) \/ Erase(r)
  \/ \E s \in Users : FindSuccessor(r, s)

Next ==
  \/ \E r \in Requests : Proceeds(r) \/ Fail(r) \/ \E u \in Users : Begins(r, u)
  \/ \E u \in Users : CheckRoom(u) \/ EnterRoom(u) \/ Disconnect(u) \/ RevokeGroupAccess(u)
  \/ CodesExpire

\* The event loop resumes a request whose removal is done, and Redis hands the eviction on.
Fairness == /\ \A r \in Requests : WF_vars(Evict(r))
            /\ \A u \in Users : WF_vars(RevokeGroupAccess(u))

Spec == Init /\ [][Next]_vars /\ Fairness

----------------------------------------------------------------------------
TypeOK ==
  /\ members \in [Users -> Row \cup NoRow]
  /\ erased \subseteq Users /\ joinable \in BOOLEAN
  /\ requests \in [Requests -> Request]
  /\ joining \subseteq Connected /\ room \subseteq Connected /\ blind \subseteq room
  /\ evictions \subseteq Users

\* What request r relies on is as it was when it was read.
Relies(r) == \A u \in Users : requests[r].saw[u] \in {Unread, members[u]}

\* A member who leaves, or who deletes the account, takes the last leader from the others
\* only if what the request has read of the group changed before it wrote: somebody it
\* counted or promoted is gone, the member was promoted, or another has joined.
LastLeaderLostOnlyByRace ==
  [][\A r \in Requests :
       (Leave(r) \/ Erase(r)) /\ Leaders # {} /\ Leaders' = {} /\ Members' # {}
         => ~Relies(r)]_vars

\* realtime.gateway.ts:34: a removed member whose socket is still in the room is about to be
\* evicted, or its group:join was checked before the removal and completed after it, or the
\* process ended between the removal and its announcement.
Evicting(u) == \/ u \in evictions
               \/ \E r \in Requests : requests[r].at = "evict" /\ requests[r].target = u
LostTrackOf(u) == \E r \in Requests : requests[r].at = "lost" /\ requests[r].target = u
KickedAreOut ==
  \A u \in room : members[u].role = "kicked" => u \in blind \/ Evicting(u) \/ LostTrackOf(u)

\* And so its socket does leave the room, unless the user is a member again before.
KickedLeaveRoom ==
  \A u \in Users :
    (u \in room \ blind /\ members[u].role = "kicked")
      ~> (u \notin room \/ members[u].role # "kicked" \/ LostTrackOf(u))

\* app.service.ts:482: "The last leader is held back so a group cannot be left without
\* anyone able to administer it."
LeavingKeepsALeader ==
  [][\A r \in Requests : Leave(r) /\ Leaders # {} => Leaders' # {} \/ Members' = {}]_vars
=============================================================================
