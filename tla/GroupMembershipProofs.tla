----------------------- MODULE GroupMembershipProofs -----------------------
(***************************************************************************)
(* What GroupMembership promises for any group, any number of requests and  *)
(* any sockets.  Starts, Goes and the lemmas about them say what a request   *)
(* changes of itself; the invariants are shown on that.                     *)
(***************************************************************************)
EXTENDS GroupMembership, FiniteSetTheorems, TLAPS

\* What `leave` and `erase` may rely on once they are reached: another leader, or nobody else.
LeadsIn(r, u) == requests[r].saw[u].role = "leader"
OtherLeader(r) == \E u \in Users \ {requests[r].user} : LeadsIn(r, u)
NobodyElse(r) ==
  \A u \in Users \ {requests[r].user} :
    requests[r].saw[u].role \notin {"member", "leader", "unread"}
ReadOwn(r) == requests[r].saw[requests[r].user].role # "unread"
EvidenceOf(r) ==
  /\ requests[r].at \in Steps => requests[r].user \in Users /\ ReadOwn(r)
  /\ requests[r].at \in {"look", "create", "remove", "evict", "promote"} =>
       requests[r].target \in Users
  /\ requests[r].at = "promote" => requests[r].target # requests[r].user
  /\ requests[r].at = "leave" => ~LeadsIn(r, requests[r].user) \/ OtherLeader(r)
  /\ requests[r].at = "erase" =>
       ~LeadsIn(r, requests[r].user) \/ OtherLeader(r) \/ NobodyElse(r)
Evidence == \A r \in Requests : EvidenceOf(r)

Typed == TypeOK /\ Evidence

----------------------------------------------------------------------------
(* One request.                                                            *)

\* Request r alone changes, keeping who made it.
Goes(r, next) ==
  /\ requests' \in [Requests -> Request]
  /\ \A q \in Requests \ {r} : requests'[q] = requests[q]
  /\ requests'[r].at = next
  /\ requests'[r].user = requests[r].user

\* It also keeps its locals.
Keeps(r, next) ==
  /\ Goes(r, next)
  /\ requests'[r].target = requests[r].target
  /\ requests'[r].saw = requests[r].saw

\* It is made by u, about t.
Starts(r, u, t, next) ==
  /\ requests' \in [Requests -> Request]
  /\ \A q \in Requests \ {r} : requests'[q] = requests[q]
  /\ requests[r].at = "unmade"
  /\ requests'[r].at = next
  /\ requests'[r].user = u /\ requests'[r].target = t
  /\ requests'[r].saw[u] = members[u]

\* A request that is made has read its caller's row.
LEMMA BeginStarts ==
  ASSUME TypeOK, NEW r \in Requests, NEW u \in Users, NEW t \in Users,
         NEW next \in Steps, Begin(r, u, t, next)
  PROVE  Starts(r, u, t, next)
<1> DEFINE saw == [v \in Users |-> IF v = u THEN members[u] ELSE Unread]
           made == [at |-> next, user |-> u, target |-> t, saw |-> saw]
<1>1. saw \in [Users -> Row \cup NoRow \cup {Unread}] /\ saw[u] = members[u]
  BY DEF TypeOK
<1>2. made \in Request /\ made.saw[u] = members[u]
  <2> HIDE DEF saw
  <2> QED BY <1>1 DEF Request
<1>3. requests[r].at = "unmade" /\ requests' = [requests EXCEPT ![r] = made]
  BY DEF Begin
<1> HIDE DEF made
<1>4. requests' \in [Requests -> Request] /\ requests'[r] = made
      /\ \A q \in Requests \ {r} : requests'[q] = requests[q]
  BY <1>2, <1>3 DEF TypeOK
<1>5. made.at = next /\ made.user = u /\ made.target = t
  BY DEF made
<1> QED BY <1>2, <1>3, <1>4, <1>5 DEF Starts

\* A request that makes a call keeps everything but its place.
LEMMA GoKeeps ==
  ASSUME TypeOK, NEW r \in Requests, NEW step \in Steps,
         NEW next \in Steps \cup Ends, Go(r, step, next)
  PROVE  Keeps(r, next) /\ requests[r].at = step
<1> DEFINE moved == [requests[r] EXCEPT !.at = next]
<1>1. requests[r] \in Request
  BY DEF TypeOK
<1>2. moved \in Request /\ moved.at = next /\ moved.user = requests[r].user
      /\ moved.target = requests[r].target /\ moved.saw = requests[r].saw
  BY <1>1 DEF Request
<1>3. requests[r].at = step /\ requests' = [requests EXCEPT ![r] = moved]
  BY DEF Go
<1> HIDE DEF moved
<1>4. requests' \in [Requests -> Request] /\ requests'[r] = moved
      /\ \A q \in Requests \ {r} : requests'[q] = requests[q]
  BY <1>2, <1>3 DEF TypeOK
<1> QED BY <1>2, <1>3, <1>4 DEF Keeps, Goes

\* The count, when there are leaders enough, has read another leader than the caller.
LEMMA AnotherLeader ==
  ASSUME TypeOK, NEW u \in Users, Enough(Leaders)
  PROVE  \E v \in Users \ {u} : members[v].role = "leader"
<1> SUFFICES ASSUME Leaders \subseteq {u} PROVE FALSE
  BY DEF Leaders
<1>1. IsFiniteSet({u}) /\ Cardinality({u}) = 1
  BY FS_Singleton
<1>2. IsFiniteSet(Leaders) /\ Cardinality(Leaders) <= 1
  BY <1>1, FS_Subset
<1>3. Cardinality(Leaders) \in Nat
  BY <1>2, FS_CardinalityType
<1> QED BY <1>2, <1>3 DEF Enough

LEMMA CountKnows ==
  ASSUME Typed, NEW r \in Requests, Count(r)
  PROVE  \E next \in {"leave", "failed"} :
           Goes(r, next) /\ EvidenceOf(r)'
<1> DEFINE next == IF Enough(Leaders) THEN "leave" ELSE "failed"
           old == requests[r].saw
           saw == [u \in Users |-> IF u \in Leaders THEN members[u] ELSE old[u]]
           moved == [requests[r] EXCEPT !.at = next, !.saw = saw]
<1>1. requests[r] \in Request /\ requests[r].at = "count"
  BY DEF Typed, TypeOK, Count
<1>2. saw \in [Users -> Row \cup NoRow \cup {Unread}]
      /\ \A u \in Users : saw[u] = IF u \in Leaders THEN members[u] ELSE old[u]
  BY <1>1 DEF Typed, TypeOK, Request
<1>3. next \in {"leave", "failed"}
  OBVIOUS
<1>4. moved \in Request /\ moved.at = next /\ moved.user = requests[r].user
      /\ moved.target = requests[r].target /\ moved.saw = saw
  <2> HIDE DEF saw, next
  <2> QED BY <1>1, <1>2, <1>3 DEF Request, Steps, Ends
<1>5. requests' = [requests EXCEPT ![r] = moved]
  BY DEF Count
<1>6. requests' \in [Requests -> Request] /\ requests'[r] = moved
      /\ \A q \in Requests \ {r} : requests'[q] = requests[q]
  <2> HIDE DEF moved
  <2> QED BY <1>4, <1>5 DEF Typed, TypeOK
<1>7. requests[r].user \in Users /\ ReadOwn(r)
  BY <1>1 DEF Typed, Evidence, EvidenceOf, Steps
<1>8. requests'[r].at = next /\ requests'[r].user = requests[r].user
      /\ requests'[r].saw = saw
  BY <1>4, <1>6
<1>9. saw[requests[r].user].role # "unread"
  BY <1>2, <1>7 DEF ReadOwn, Typed, TypeOK, Leaders
<1>10. ASSUME Enough(Leaders)
       PROVE \E v \in Users \ {requests[r].user} : saw[v].role = "leader"
  <2>1. PICK v \in Users \ {requests[r].user} : members[v].role = "leader"
    BY <1>7, <1>10, AnotherLeader DEF Typed
  <2>2. saw[v] = members[v]
    BY <2>1, <1>2 DEF Leaders
  <2> QED BY <2>1, <2>2
<1> HIDE DEF saw, moved
<1> QED BY <1>3, <1>6, <1>7, <1>8, <1>9, <1>10
        DEF Goes, EvidenceOf, LeadsIn, OtherLeader, NobodyElse, ReadOwn, Steps, Ends

\* With nobody else in the group, the deletion has seen that.
LEMMA NoSuccessorKnows ==
  ASSUME Typed, NEW r \in Requests, NoSuccessor(r)
  PROVE  Goes(r, "erase") /\ EvidenceOf(r)'
<1> DEFINE u == requests[r].user
           old == requests[r].saw
           saw == [v \in Users |-> IF v = u THEN old[v] ELSE members[v]]
           moved == [requests[r] EXCEPT !.at = "erase", !.saw = saw]
<1>1. requests[r] \in Request /\ requests[r].at = "successor" /\ Members \subseteq {u}
  BY DEF Typed, TypeOK, NoSuccessor
<1>2. saw \in [Users -> Row \cup NoRow \cup {Unread}]
      /\ \A v \in Users : saw[v] = IF v = u THEN old[v] ELSE members[v]
  BY <1>1 DEF Typed, TypeOK, Request
<1>3. moved \in Request /\ moved.at = "erase" /\ moved.user = u /\ moved.saw = saw
  <2> HIDE DEF saw
  <2> QED BY <1>1, <1>2 DEF Request, Steps
<1>4. requests' = [requests EXCEPT ![r] = moved]
  BY DEF NoSuccessor
<1>5. requests' \in [Requests -> Request] /\ requests'[r] = moved
      /\ \A q \in Requests \ {r} : requests'[q] = requests[q]
  <2> HIDE DEF moved
  <2> QED BY <1>3, <1>4 DEF Typed, TypeOK
<1>6. u \in Users /\ old[u].role # "unread"
  BY <1>1 DEF Typed, Evidence, EvidenceOf, ReadOwn, Steps
<1>7. requests'[r].at = "erase" /\ requests'[r].user = u /\ requests'[r].saw = saw
  BY <1>3, <1>5
<1>8. \A v \in Users \ {u} : saw[v].role \notin {"member", "leader", "unread"}
  BY <1>1, <1>2 DEF Members, In, Typed, TypeOK, Row, NoRow
<1>9. saw[u].role # "unread"
  BY <1>2, <1>6
<1> HIDE DEF saw, moved
<1> QED BY <1>5, <1>6, <1>7, <1>8, <1>9
        DEF Goes, EvidenceOf, LeadsIn, OtherLeader, NobodyElse, ReadOwn, Steps, Ends

\* A successor is somebody else, of whom the row is read.
LEMMA FindSuccessorKnows ==
  ASSUME Typed, NEW r \in Requests, NEW s \in Users, FindSuccessor(r, s)
  PROVE  Goes(r, "promote") /\ EvidenceOf(r)'
<1> DEFINE u == requests[r].user
           old == requests[r].saw
           saw == [old EXCEPT ![s] = members[s]]
           moved == [requests[r] EXCEPT !.at = "promote", !.target = s, !.saw = saw]
<1>1. requests[r] \in Request /\ requests[r].at = "successor" /\ s \in Users \ {u}
  BY DEF Typed, TypeOK, FindSuccessor
<1>2. saw \in [Users -> Row \cup NoRow \cup {Unread}]
      /\ \A v \in Users \ {s} : saw[v] = old[v]
  BY <1>1 DEF Typed, TypeOK, Request
<1>3. moved \in Request /\ moved.at = "promote" /\ moved.user = u
      /\ moved.target = s /\ moved.saw = saw
  <2> HIDE DEF saw
  <2> QED BY <1>1, <1>2 DEF Request, Steps
<1>4. requests' = [requests EXCEPT ![r] = moved]
  BY DEF FindSuccessor
<1>5. requests' \in [Requests -> Request] /\ requests'[r] = moved
      /\ \A q \in Requests \ {r} : requests'[q] = requests[q]
  <2> HIDE DEF moved
  <2> QED BY <1>3, <1>4 DEF Typed, TypeOK
<1>6. u \in Users /\ old[u].role # "unread"
  BY <1>1 DEF Typed, Evidence, EvidenceOf, ReadOwn, Steps
<1>7. requests'[r].at = "promote" /\ requests'[r].user = u /\ requests'[r].saw = saw
      /\ requests'[r].target = s
  BY <1>3, <1>5
<1>8. saw[u].role # "unread"
  BY <1>1, <1>2, <1>6
<1> HIDE DEF saw, moved
<1> QED BY <1>1, <1>5, <1>6, <1>7, <1>8 DEF Goes, EvidenceOf, ReadOwn, Steps, Ends

\* A promotion that succeeds has made another leader.
LEMMA PromoteKnows ==
  ASSUME Typed, NEW r \in Requests, Promote(r)
  PROVE  /\ \E next \in {"erase", "failed"} : Goes(r, next)
         /\ EvidenceOf(r)'
         /\ members' \in [Users -> Row \cup NoRow]
         /\ \A u \in Users : members'[u] = members[u] \/ members'[u].role = "leader"
<1> DEFINE u == requests[r].user
           s == requests[r].target
           old == requests[r].saw
           promoted == [members[s] EXCEPT !.role = "leader"]
           found == In(s) /\ members[s].by = old[s].by
           next == IF found THEN "erase" ELSE "failed"
           saw == [old EXCEPT ![s] = IF found THEN promoted ELSE @]
           moved == [requests[r] EXCEPT !.at = next, !.saw = saw]
<1>1. requests[r] \in Request /\ requests[r].at = "promote"
      /\ u \in Users /\ s \in Users /\ s # u /\ old[u].role # "unread"
  BY DEF Typed, TypeOK, Promote, Evidence, EvidenceOf, ReadOwn, Steps
<1>2. found => promoted \in Row /\ promoted.role = "leader"
  BY <1>1 DEF Typed, TypeOK, In, Row, NoRow
<1>3. found \in BOOLEAN
  BY DEF In
<1>4. members' = IF found THEN [members EXCEPT ![s] = promoted] ELSE members
  BY DEF Promote
<1>5. requests' = [requests EXCEPT ![r] = moved]
  BY DEF Promote
<1> HIDE DEF promoted, found
<1>6. /\ members' \in [Users -> Row \cup NoRow]
      /\ \A v \in Users : members'[v] = members[v] \/ members'[v].role = "leader"
  BY <1>1, <1>2, <1>4 DEF Typed, TypeOK
<1>7. saw \in [Users -> Row \cup NoRow \cup {Unread}]
      /\ saw[u] = old[u] /\ (found => saw[s].role = "leader")
  BY <1>1, <1>2 DEF Request
<1>8. next \in {"erase", "failed"} /\ (next = "erase" => found)
  BY <1>3
<1>9. moved \in Request /\ moved.at = next /\ moved.user = u /\ moved.saw = saw
  <2> HIDE DEF saw, next
  <2> QED BY <1>1, <1>7, <1>8 DEF Request, Steps, Ends
<1>10. requests' \in [Requests -> Request] /\ requests'[r] = moved
       /\ \A q \in Requests \ {r} : requests'[q] = requests[q]
  <2> HIDE DEF moved
  <2> QED BY <1>5, <1>9 DEF Typed, TypeOK
<1>11. requests'[r].at = next /\ requests'[r].user = u /\ requests'[r].saw = saw
  BY <1>9, <1>10
<1> HIDE DEF saw, moved, next
<1> QED BY <1>1, <1>6, <1>7, <1>8, <1>10, <1>11
        DEF Goes, EvidenceOf, LeadsIn, OtherLeader, ReadOwn, Steps, Ends

\* The evidence of the other requests is what it was.
LEMMA OthersKeepEvidence ==
  ASSUME Evidence, NEW r \in Requests, EvidenceOf(r)',
         \A q \in Requests \ {r} : requests'[q] = requests[q]
  PROVE  Evidence'
BY DEF Evidence, EvidenceOf, LeadsIn, OtherLeader, NobodyElse, ReadOwn

\* A leader's request to leave or to delete the account first looks at the group.
LEMMA StartsEvidence ==
  ASSUME Typed, NEW r \in Requests, NEW u \in Users, NEW t \in Users,
         NEW next \in {"joinRow", "look", "issue", "remove", "count", "leave",
                       "successor", "erase"},
         next \in {"leave", "erase"} => members[u].role # "leader",
         Starts(r, u, t, next)
  PROVE  Evidence'
<1>1. members[u].role # "unread"
  BY DEF Typed, TypeOK, Row, NoRow
<1>2. EvidenceOf(r)'
  BY <1>1 DEF Starts, EvidenceOf, ReadOwn, LeadsIn, Steps
<1> QED BY <1>2, OthersKeepEvidence DEF Typed, Starts

\* A request that goes on without reading needs no other evidence.
LEMMA KeepsEvidence ==
  ASSUME Typed, NEW r \in Requests, NEW next \in Steps \cup Ends, Keeps(r, next),
         \/ next \in Ends
         \/ requests[r].at = "look" /\ next = "create"
         \/ requests[r].at = "remove" /\ next = "evict"
  PROVE  Evidence'
<1>1. EvidenceOf(r)'
  BY DEF Typed, Evidence, EvidenceOf, Keeps, Goes, ReadOwn, LeadsIn, Steps, Ends
<1> QED BY <1>1, OthersKeepEvidence DEF Typed, Keeps, Goes

----------------------------------------------------------------------------
(* Types and evidence.                                                     *)

LEMMA BeginsTyped ==
  ASSUME Typed, NEW r \in Requests, NEW u \in Users, Begins(r, u)
  PROVE  Typed'
<1>1. PICK t \in Users, next \in {"joinRow", "look", "issue", "remove", "count", "leave",
                                  "successor", "erase"} :
        Begin(r, u, t, next) /\ (next \in {"leave", "erase"} => members[u].role # "leader")
  BY DEF Begins, JoinGroup, OpenGroup, LeaveGroup, DeleteMyAccount, AddGroupMember,
         RemoveGroupMember
<1>2. Starts(r, u, t, next)
  BY <1>1, BeginStarts DEF Typed, Steps
<1>3. Evidence'
  BY <1>1, <1>2, StartsEvidence
<1>4. TypeOK'
  BY <1>1, <1>2 DEF Starts, Begin, Typed, TypeOK, socketVars
<1> QED BY <1>3, <1>4 DEF Typed

LEMMA ProceedsTyped ==
  ASSUME Typed, NEW r \in Requests, Proceeds(r) \/ Fail(r)
  PROVE  Typed'
<1> USE DEF socketVars
<1>1. CASE Join(r)
  <2>1. Keeps(r, "done") /\ requests[r].at = "joinRow"
    BY <1>1, GoKeeps DEF Typed, Join, Steps, Ends
  <2>2. Evidence'
    BY <2>1, KeepsEvidence DEF Ends
  <2>3. requests[r].user \in Users
    BY <2>1 DEF Typed, Evidence, EvidenceOf, Steps
  <2>4. members' \in [Users -> Row \cup NoRow]
    BY <1>1, <2>3 DEF Typed, TypeOK, Join, Row
  <2> QED BY <1>1, <2>1, <2>2, <2>4 DEF Typed, TypeOK, Join, Keeps, Goes
<1>2. CASE Look(r)
  <2>1. PICK next \in {"done", "create"} : Keeps(r, next) /\ requests[r].at = "look"
    BY <1>2, GoKeeps DEF Typed, Look, Steps, Ends
  <2>2. Evidence'
    BY <2>1, KeepsEvidence DEF Steps, Ends
  <2> QED BY <1>2, <2>1, <2>2 DEF Typed, TypeOK, Look, Keeps, Goes
<1>3. CASE Create(r)
  <2>1. PICK next \in {"done", "failed"} : Keeps(r, next) /\ requests[r].at = "create"
    BY <1>3, GoKeeps DEF Typed, Create, Steps, Ends
  <2>2. Evidence'
    BY <2>1, KeepsEvidence DEF Ends
  <2>3. requests[r].target \in Users
    BY <2>1 DEF Typed, Evidence, EvidenceOf, Steps
  <2>4. members' \in [Users -> Row \cup NoRow]
    BY <1>3, <2>3 DEF Typed, TypeOK, Create, Row
  <2> QED BY <1>3, <2>1, <2>2, <2>4 DEF Typed, TypeOK, Create, Keeps, Goes
<1>4. CASE Issue(r)
  <2>1. Keeps(r, "done")
    BY <1>4, GoKeeps DEF Typed, Issue, Steps, Ends
  <2>2. Evidence'
    BY <2>1, KeepsEvidence DEF Ends
  <2> QED BY <1>4, <2>1, <2>2 DEF Typed, TypeOK, Issue, Keeps, Goes
<1>5. CASE Remove(r)
  <2>1. PICK next \in {"evict", "failed"} : Keeps(r, next) /\ requests[r].at = "remove"
    BY <1>5, GoKeeps DEF Typed, Remove, AfterRemoval, Steps, Ends
  <2>2. Evidence'
    BY <2>1, KeepsEvidence DEF Steps, Ends
  <2>3. requests[r].target \in Users
    BY <2>1 DEF Typed, Evidence, EvidenceOf
  <2>4. members' \in [Users -> Row \cup NoRow]
    BY <1>5, <2>3 DEF Typed, TypeOK, Remove, Removed, NoRow
  <2> QED BY <1>5, <2>1, <2>2, <2>4 DEF Typed, TypeOK, Remove, Keeps, Goes
<1>6. CASE Evict(r)
  <2>1. Keeps(r, "done") /\ requests[r].at = "evict"
    BY <1>6, GoKeeps DEF Typed, Evict, Steps, Ends
  <2>2. Evidence'
    BY <2>1, KeepsEvidence DEF Ends
  <2>3. requests[r].target \in Users
    BY <2>1 DEF Typed, Evidence, EvidenceOf
  <2> QED BY <1>6, <2>1, <2>2, <2>3 DEF Typed, TypeOK, Evict, Keeps, Goes
<1>7. CASE Count(r)
  <2>1. Evidence' /\ requests' \in [Requests -> Request]
    BY <1>7, CountKnows, OthersKeepEvidence DEF Typed, Goes
  <2> QED BY <1>7, <2>1 DEF Typed, TypeOK, Count
<1>8. CASE Leave(r)
  <2>1. PICK next \in {"done", "failed"} : Keeps(r, next) /\ requests[r].at = "leave"
    BY <1>8, GoKeeps DEF Typed, Leave, Steps, Ends
  <2>2. Evidence'
    BY <2>1, KeepsEvidence DEF Ends
  <2>3. requests[r].user \in Users
    BY <2>1 DEF Typed, Evidence, EvidenceOf, Steps
  <2>4. members' \in [Users -> Row \cup NoRow]
    BY <1>8, <2>3 DEF Typed, TypeOK, Leave, NoRow
  <2> QED BY <1>8, <2>1, <2>2, <2>4 DEF Typed, TypeOK, Leave, Keeps, Goes
<1>9. CASE NoSuccessor(r)
  <2>1. Evidence' /\ requests' \in [Requests -> Request]
    BY <1>9, NoSuccessorKnows, OthersKeepEvidence DEF Typed, Goes
  <2> QED BY <1>9, <2>1 DEF Typed, TypeOK, NoSuccessor
<1>10. CASE Promote(r)
  <2>1. Evidence' /\ requests' \in [Requests -> Request]
        /\ members' \in [Users -> Row \cup NoRow]
    BY <1>10, PromoteKnows, OthersKeepEvidence DEF Typed, Goes
  <2> QED BY <1>10, <2>1 DEF Typed, TypeOK, Promote
<1>11. CASE Erase(r)
  <2>1. Keeps(r, "done") /\ requests[r].at = "erase"
    BY <1>11, GoKeeps DEF Typed, Erase, Steps, Ends
  <2>2. Evidence'
    BY <2>1, KeepsEvidence DEF Ends
  <2>3. requests[r].user \in Users
    BY <2>1 DEF Typed, Evidence, EvidenceOf, Steps
  <2>4. members' \in [Users -> Row \cup NoRow] /\ erased' \subseteq Users
    BY <1>11, <2>3 DEF Typed, TypeOK, Erase, NoRow
  <2> QED BY <1>11, <2>1, <2>2, <2>4 DEF Typed, TypeOK, Erase, Keeps, Goes
<1>12. CASE \E s \in Users : FindSuccessor(r, s)
  <2>1. PICK s \in Users : FindSuccessor(r, s)
    BY <1>12
  <2>2. Evidence' /\ requests' \in [Requests -> Request]
    BY <2>1, FindSuccessorKnows, OthersKeepEvidence DEF Typed, Goes
  <2> QED BY <2>1, <2>2 DEF Typed, TypeOK, FindSuccessor
<1>13. CASE Fail(r)
  <2>1. PICK next \in Ends : Keeps(r, next)
    BY <1>13, GoKeeps DEF Typed, Fail, Ends
  <2>2. Evidence'
    BY <2>1, KeepsEvidence DEF Ends
  <2> QED BY <1>13, <2>1, <2>2 DEF Typed, TypeOK, Fail, Keeps, Goes
<1> QED BY <1>1, <1>2, <1>3, <1>4, <1>5, <1>6, <1>7, <1>8, <1>9, <1>10, <1>11, <1>12,
           <1>13 DEF Proceeds

\* What sockets, codes and nothing at all do, the requests and the rows do not notice.
SocketStep ==
  \/ \E u \in Users : CheckRoom(u) \/ EnterRoom(u) \/ Disconnect(u) \/ RevokeGroupAccess(u)
  \/ CodesExpire
  \/ UNCHANGED vars

LEMMA SocketsTyped ==
  ASSUME Typed, SocketStep
  PROVE  Typed' /\ UNCHANGED <<members, requests>>
<1>1. UNCHANGED <<members, requests>>
  BY DEF SocketStep, CheckRoom, EnterRoom, Disconnect, RevokeGroupAccess, CodesExpire, vars
<1>2. Evidence'
  BY <1>1 DEF Typed, Evidence, EvidenceOf, LeadsIn, OtherLeader, NobodyElse, ReadOwn
<1>3. TypeOK'
  BY <1>1 DEF Typed, TypeOK, SocketStep, CheckRoom, EnterRoom, Disconnect,
              RevokeGroupAccess, CodesExpire, vars, socketVars
<1> QED BY <1>1, <1>2, <1>3 DEF Typed

LEMMA InitTyped == Init => Typed
<1> SUFFICES ASSUME Init PROVE Typed
  OBVIOUS
<1>1. Unmade \in Request
  BY DEF Unmade, Unread, Request
<1>2. members \in [Users -> Row \cup NoRow]
  <2>1. \A u \in Users : members[u] \in Row \cup NoRow
    BY DEF Init, Row, NoRow
  <2> QED BY <2>1 DEF Init
<1>3. TypeOK
  BY <1>1, <1>2 DEF TypeOK, Init
<1>4. Evidence
  BY DEF Evidence, EvidenceOf, Init, Unmade, Steps
<1> QED BY <1>3, <1>4 DEF Typed

LEMMA NextIs ==
  ASSUME [Next]_vars
  PROVE  \/ \E r \in Requests : Proceeds(r) \/ Fail(r) \/ \E u \in Users : Begins(r, u)
         \/ SocketStep
BY DEF Next, SocketStep

LEMMA NextTyped == Typed /\ [Next]_vars => Typed'
BY NextIs, BeginsTyped, ProceedsTyped, SocketsTyped

\* For any group, any number of requests and any sockets, rows, requests and sockets keep
\* their types: each request of app.service.ts and each handler of realtime.gateway.ts
\* leaves the state that the next one expects.
THEOREM TypeCorrect == Spec => []TypeOK
<1>1. Spec => []Typed
  BY InitTyped, NextTyped, PTL DEF Spec
<1>2. Typed => TypeOK
  BY DEF Typed
<1> QED BY <1>1, <1>2, PTL

----------------------------------------------------------------------------
(* Evictions.                                                              *)

Unannounced(u) == Evicting(u) \/ LostTrackOf(u)
Awaits(q, u) == requests[q].at \in {"evict", "lost"} /\ requests[q].target = u

\* A step of request r, about to make another call than an eviction, leaves what is
\* announced alone.
LEMMA OthersAnnounce ==
  ASSUME NEW r \in Requests, NEW u \in Users, Unannounced(u), evictions \subseteq evictions',
         \A q \in Requests \ {r} : requests'[q] = requests[q],
         Awaits(r, u) => Awaits(r, u)'
  PROVE  Unannounced(u)'
BY DEF Unannounced, Evicting, LostTrackOf, Awaits

\* Only a removal, which is then announced, makes members the kicked ones.
LEMMA RequestsAnnounce ==
  ASSUME Typed, NEW r \in Requests, NEW u \in Users,
         \/ Proceeds(r) \/ Fail(r) \/ \E v \in Users : Begins(r, v)
  PROVE  /\ room' = room /\ blind' = blind
         /\ Unannounced(u) => Unannounced(u)'
         /\ members'[u].role = "kicked" => members[u].role = "kicked" \/ Unannounced(u)'
<1> USE DEF socketVars
<1>1. CASE Evict(r)
  <2>1. Keeps(r, "done") /\ requests[r].at = "evict"
    BY <1>1, GoKeeps DEF Typed, Evict, Steps, Ends
  <2>2. UNCHANGED <<members, room, blind>>
        /\ evictions' = evictions \cup {requests[r].target}
    BY <1>1 DEF Evict
  <2>3. Unannounced(u) => Unannounced(u)'
    BY <2>1, <2>2 DEF Unannounced, Evicting, LostTrackOf, Keeps, Goes
  <2> QED BY <2>2, <2>3
<1>2. CASE Remove(r)
  <2>1. Keeps(r, AfterRemoval(requests[r].target)) /\ requests[r].at = "remove"
    BY <1>2, GoKeeps DEF Typed, Remove, AfterRemoval, Steps, Ends
  <2>2. UNCHANGED <<room, blind, evictions>>
    BY <1>2 DEF Remove
  <2>3. Unannounced(u) => Unannounced(u)'
    BY <2>1, <2>2, OthersAnnounce DEF Keeps, Goes, Awaits
  <2>4. ASSUME members'[u] # members[u] PROVE Unannounced(u)'
    <3>1. In(requests[r].target) /\ requests[r].target = u
      BY <1>2, <2>4 DEF Remove, Removed, Typed, TypeOK
    <3>2. requests'[r].at = "evict" /\ requests'[r].target = u
      BY <2>1, <3>1 DEF AfterRemoval, Keeps, Goes
    <3> QED BY <3>2 DEF Unannounced, Evicting
  <2> QED BY <2>2, <2>3, <2>4
<1>3. CASE Fail(r)
  <2>1. PICK next \in Ends : Keeps(r, next) /\ (requests[r].at = "evict" => next = "lost")
                             /\ requests[r].at \in Steps
    BY <1>3, GoKeeps DEF Typed, Fail, Ends
  <2>2. UNCHANGED <<members, room, blind, evictions>>
    BY <1>3 DEF Fail
  <2>3. Unannounced(u) => Unannounced(u)'
    BY <2>1, <2>2, OthersAnnounce DEF Keeps, Goes, Awaits, Steps
  <2> QED BY <2>2, <2>3
<1>4. ASSUME ~Evict(r), ~Remove(r), ~Fail(r)
      PROVE  /\ UNCHANGED <<room, blind, evictions>>
             /\ requests[r].at \notin {"evict", "lost"}
             /\ \A q \in Requests \ {r} : requests'[q] = requests[q]
             /\ members'[u].role = "kicked" => members[u].role = "kicked"
  <2>1. CASE \E v \in Users : Begins(r, v)
    <3>1. PICK v \in Users, t \in Users, next \in Steps : Begin(r, v, t, next)
      BY <2>1 DEF Begins, JoinGroup, OpenGroup, LeaveGroup, DeleteMyAccount, AddGroupMember,
                  RemoveGroupMember, Steps
    <3> QED BY <3>1 DEF Begin, Typed, TypeOK
  <2>2. CASE Join(r)
    BY <2>2 DEF Join, Go, Typed, TypeOK
  <2>3. CASE Look(r)
    BY <2>3 DEF Look, Go, Typed, TypeOK
  <2>4. CASE Create(r)
    BY <2>4 DEF Create, Go, Typed, TypeOK
  <2>5. CASE Issue(r)
    BY <2>5 DEF Issue, Go, Typed, TypeOK
  <2>6. CASE Count(r)
    BY <2>6, CountKnows DEF Count, Goes
  <2>7. CASE Leave(r)
    BY <2>7 DEF Leave, Go, Typed, TypeOK
  <2>8. CASE NoSuccessor(r)
    BY <2>8, NoSuccessorKnows DEF NoSuccessor, Goes
  <2>9. CASE \E s \in Users : FindSuccessor(r, s)
    BY <2>9, FindSuccessorKnows DEF FindSuccessor, Goes
  <2>10. CASE Promote(r)
    BY <2>10, PromoteKnows DEF Promote, Goes
  <2>11. CASE Erase(r)
    BY <2>11 DEF Erase, Go, Typed, TypeOK
  <2> QED BY <1>4, <2>1, <2>2, <2>3, <2>4, <2>5, <2>6, <2>7, <2>8, <2>9, <2>10, <2>11
          DEF Proceeds
<1>5. ASSUME ~Evict(r), ~Remove(r), ~Fail(r)
      PROVE  Unannounced(u) => Unannounced(u)'
  BY <1>4, <1>5, OthersAnnounce DEF Awaits
<1> QED BY <1>1, <1>2, <1>3, <1>4, <1>5

\* realtime.gateway.ts:34, for any number of removals, additions and group:joins: a removed
\* member's socket stays in the room only until its eviction arrives, unless it entered
\* without a check or the process ended before it announced the removal.
THEOREM KickedHold == Spec => []KickedAreOut
<1>1. Init => KickedAreOut
  BY DEF Init, KickedAreOut
<1>2. Typed /\ KickedAreOut /\ [Next]_vars => KickedAreOut'
  <2> SUFFICES ASSUME Typed, KickedAreOut, [Next]_vars,
                      NEW u \in room', members'[u].role = "kicked", u \notin blind'
               PROVE  Unannounced(u)'
    BY DEF KickedAreOut, Unannounced
  <2>1. u \in Users
    BY NextTyped, GroupAssumption DEF Typed, TypeOK
  <2>2. CASE SocketStep
    <3>1. UNCHANGED <<members, requests>>
      BY <2>2, SocketsTyped
    <3>2. u \in room /\ u \notin blind /\ (u \in evictions => u \in evictions')
      BY <2>2, <3>1 DEF SocketStep, CheckRoom, EnterRoom, Disconnect, RevokeGroupAccess,
                        CodesExpire, vars, socketVars, In
    <3>3. Unannounced(u)
      BY <3>1, <3>2 DEF KickedAreOut, Unannounced
    <3> QED BY <3>1, <3>2, <3>3 DEF Unannounced, Evicting, LostTrackOf
  <2>3. CASE \E r \in Requests : Proceeds(r) \/ Fail(r) \/ \E v \in Users : Begins(r, v)
    <3>1. /\ room' = room /\ blind' = blind
          /\ Unannounced(u) => Unannounced(u)'
          /\ members'[u].role = "kicked" => members[u].role = "kicked" \/ Unannounced(u)'
      BY <2>1, <2>3, RequestsAnnounce
    <3> QED BY <3>1 DEF KickedAreOut, Unannounced
  <2> QED BY <2>2, <2>3, NextIs
<1> QED BY <1>1, <1>2, InitTyped, NextTyped, PTL DEF Spec

----------------------------------------------------------------------------
(* The last leader.                                                        *)

\* When u's row goes and the group loses its last leader, u was that leader.
LEMMA LastWasLeaving ==
  ASSUME Typed, NEW u \in Users, members' = [members EXCEPT ![u] = [role |-> "left", by |-> None]],
         Leaders # {}, Leaders' = {}
  PROVE  members[u].role = "leader" /\ \A v \in Users \ {u} : members[v].role # "leader"
<1>1. \A v \in Users \ {u} : members'[v] = members[v]
  BY DEF Typed, TypeOK
<1>2. \A v \in Users \ {u} : members[v].role # "leader"
  BY <1>1 DEF Leaders
<1> QED BY <1>2 DEF Leaders

\* leaveGroup and deleteMyAccount, for any group and any number of requests: whoever of the
\* last leader's requests leaves the others without one relied on a count, a successor or a
\* role that has changed since it was read.
THEOREM LeadersHold == Spec => LastLeaderLostOnlyByRace
<1> DEFINE Step == \A r \in Requests :
              (Leave(r) \/ Erase(r)) /\ Leaders # {} /\ Leaders' = {} /\ Members' # {}
                => ~Relies(r)
<1>1. Typed => Step
  <2> SUFFICES ASSUME Typed, NEW r \in Requests, Leave(r) \/ Erase(r),
                      Leaders # {}, Leaders' = {}, Members' # {}, Relies(r)
               PROVE  FALSE
    OBVIOUS
  <2> DEFINE u == requests[r].user
  <2>1. u \in Users /\ ReadOwn(r)
        /\ (~LeadsIn(r, u) \/ OtherLeader(r) \/ (NobodyElse(r) /\ Erase(r)))
    BY DEF Typed, Evidence, EvidenceOf, Leave, Erase, Go, Steps
  <2>2. members' = [members EXCEPT ![u] = [role |-> "left", by |-> None]]
    <3>1. members' = members \/ members' = [members EXCEPT ![u] = [role |-> "left", by |-> None]]
      BY DEF Leave, Erase
    <3>2. members' # members
      BY DEF Leaders
    <3> QED BY <3>1, <3>2
  <2>3. members[u].role = "leader" /\ \A v \in Users \ {u} : members[v].role # "leader"
    BY <2>1, <2>2, LastWasLeaving
  <2>4. \A v \in Users : requests[r].saw[v].role # "unread"
                           => requests[r].saw[v] = members[v]
    BY DEF Relies, Unread
  <2>5. LeadsIn(r, u)
    BY <2>1, <2>3, <2>4 DEF LeadsIn, ReadOwn
  <2>6. ~OtherLeader(r)
    BY <2>3, <2>4 DEF OtherLeader, LeadsIn
  <2>7. NobodyElse(r)
    BY <2>1, <2>5, <2>6
  <2>8. \A v \in Users \ {u} : members'[v] = members[v] /\ members'[v].role \notin {"member", "leader"}
    BY <2>2, <2>4, <2>7 DEF NobodyElse, Typed, TypeOK
  <2>9. members'[u].role = "left"
    BY <2>1, <2>2 DEF Typed, TypeOK
  <2> QED BY <2>8, <2>9 DEF Members, In
<1>2. Spec => []Typed
  BY InitTyped, NextTyped, PTL DEF Spec
<1>3. Typed /\ [Next]_vars => [Step]_vars
  BY <1>1
<1> QED BY <1>2, <1>3, PTL DEF Spec, LastLeaderLostOnlyByRace
=============================================================================
