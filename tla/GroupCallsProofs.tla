-------------------------- MODULE GroupCallsProofs --------------------------
(***************************************************************************)
(* What GroupCalls promises for every value of its constants: any sockets, *)
(* any number of seats, of joins and of members put out of the group.      *)
(*                                                                         *)
(* The proofs rest on invariants that the promises follow from once nothing *)
(* is on its way: SeatsCounted for the number of seats; FollowInv, which    *)
(* says of every client and every message it has still to read where its    *)
(* socket is; HostKept and HostShown for the host; ClientInv and PairInv,   *)
(* which say of any two clients what each has read and will read about the  *)
(* other, for the connections between them.                                 *)
(***************************************************************************)
EXTENDS GroupCalls, SequenceTheorems, TLAPS

Hosts == Sockets \cup {Nobody}
Joinings == [of : Sockets, at : {"room", "tell"}, saw : SUBSET Sockets, nth : Nat]
Removing == [of : Sockets, at : {"out", "heir", "end"}, heir : Hosts]
Pasts == [crossed : SUBSET SUBSET Sockets, hasty : SUBSET Sockets, revoked : SUBSET Sockets,
          dropped : SUBSET Sockets, overlap : BOOLEAN, adrift : BOOLEAN]

SeatsCounted ==
  ~past.overlap =>
    /\ \A j, k \in joining : j.at = "room" /\ k.at = "room" => j = k
    /\ Len(room) <= limit
    /\ (\E j \in joining : j.at = "room") => Len(room) < limit

\* What a client has still to read, and how far its socket is.
Over == Ends \cup {"revoked"}
Holds(msgs, kinds) == \E i \in DOMAIN msgs : msgs[i].type \in kinds
Going(s) == s \in leaving \/ \E r \in removals : r.of = s /\ r.at \in {"out", "end"}
Comes(s, at) == \E j \in joining : j.of = s /\ j.at = at

\* A client with a call has its seat, is on the way to it or is going to hear that the call is
\* over; a seat without a call is being given up.
Followed(s) ==
  /\ ui[s].on /\ s \notin Seated => Holds(inbox[s], Over) \/ Comes(s, "room")
  /\ ui[s].on /\ Going(s) => Holds(inbox[s], Over)
  /\ s \in Seated /\ (~ui[s].on \/ Holds(inbox[s], Ends)) => Going(s)
  /\ ~ui[s].on => \A i \in DOMAIN inbox[s] : inbox[s][i].type = "revoked"
  /\ Comes(s, "room") \/ Comes(s, "tell") => ui[s].on /\ ~Going(s) /\ ~Holds(inbox[s], Over)
  /\ Comes(s, "tell") => s \in Seated
  /\ Holds(inbox[s], {"revoked"}) => s \in past.revoked

FollowInv == \A s \in online \ past.hasty : Followed(s)

-----------------------------------------------------------------------------
\* A socket that is put out of the room leaves the others in it, each in one place.
LEMMA WithoutIs ==
  ASSUME CallTypeOK, NEW s, room' = Without(s)
  PROVE  /\ room' \in Seq(Sockets) /\ Seated' = Seated \ {s} /\ Len(room') <= Len(room)
         /\ \A i, k \in DOMAIN room' : room'[i] = room'[k] => i = k
<1>1. /\ room \in Seq(Sockets) /\ Seated = {room[i] : i \in DOMAIN room} /\ Len(room) \in Nat
      /\ DOMAIN room = 1..Len(room) /\ \A i, k \in DOMAIN room : room[i] = room[k] => i = k
      /\ Seated' = {room'[i] : i \in DOMAIN room'}
  BY DEF CallTypeOK, Seated, ToSet
<1>2. CASE s \notin Seated
  <2>1. room' = room
    BY <1>2 DEF Without
  <2>2. Seated \ {s} = Seated
    BY <1>2
  <2> QED BY <1>1, <2>1, <2>2
<1>3. CASE s \in Seated
  <2>n. PICK n \in DOMAIN room : n = CHOOSE i \in DOMAIN room : room[i] = s
    BY <1>1, <1>3
  <2>1. room[n] = s
    BY <1>1, <1>3, <2>n
  <2>w. PICK w : w = room'
    OBVIOUS
  <2>2. w = SubSeq(room, 1, n - 1) \o SubSeq(room, n + 1, Len(room))
    BY <1>3, <2>n, <2>w DEF Without, RemoveAt
  <2>3. /\ w \in Seq(Sockets) /\ Len(w) = Len(room) - 1 /\ DOMAIN w = 1..(Len(room) - 1)
        /\ \A i \in 1..(Len(room) - 1) : w[i] = IF i < n THEN room[i] ELSE room[i + 1]
    <3>p. PICK p : p = SubSeq(room, 1, n - 1)
      OBVIOUS
    <3>q. PICK q : q = SubSeq(room, n + 1, Len(room))
      OBVIOUS
    <3>1. n \in 1..Len(room)
      BY <1>1
    <3>2. p \in Seq(Sockets) /\ Len(p) = n - 1 /\ \A i \in 1..(n - 1) : p[i] = room[i]
      BY <1>1, <3>1, <3>p
    <3>3. /\ q \in Seq(Sockets) /\ Len(q) = Len(room) - n
          /\ \A i \in 1..(Len(room) - n) : q[i] = room[n + i]
      BY <1>1, <3>1, <3>q
    <3>4. w = p \o q
      BY <2>2, <3>p, <3>q
    <3>5. /\ w \in Seq(Sockets) /\ Len(w) = Len(p) + Len(q)
          /\ \A i \in 1..(Len(p) + Len(q)) : w[i] = IF i <= Len(p) THEN p[i] ELSE q[i - Len(p)]
      BY <3>2, <3>3, <3>4, ConcatProperties
    <3>7. Len(w) = Len(room) - 1 /\ DOMAIN w = 1..(Len(room) - 1)
      BY <1>1, <3>1, <3>2, <3>3, <3>5
    <3>6. ASSUME NEW i \in 1..(Len(room) - 1)
          PROVE  w[i] = IF i < n THEN room[i] ELSE room[i + 1]
      <4>1. w[i] = IF i <= n - 1 THEN p[i] ELSE q[i - (n - 1)]
        BY <1>1, <3>1, <3>2, <3>3, <3>5
      <4>2. CASE i < n
        BY <1>1, <3>1, <3>2, <4>1, <4>2
      <4>3. CASE i >= n
        <5>1. i - (n - 1) \in 1..(Len(room) - n) /\ n + (i - (n - 1)) = i + 1
          BY <1>1, <3>1, <4>3
        <5>2. q[i - (n - 1)] = room[n + (i - (n - 1))]
          BY <3>3, <5>1
        <5>3. ~(i <= n - 1) /\ ~(i < n)
          BY <1>1, <3>1, <4>3
        <5> QED BY <4>1, <5>1, <5>2, <5>3
      <4> QED BY <1>1, <3>1, <4>2, <4>3
    <3> QED BY <1>1, <3>5, <3>6, <3>7
  <2>4. ASSUME NEW i \in DOMAIN w, NEW k \in DOMAIN w, w[i] = w[k] PROVE i = k
    <3>1. /\ i \in 1..(Len(room) - 1) /\ i \in DOMAIN room /\ i + 1 \in DOMAIN room
          /\ k \in 1..(Len(room) - 1) /\ k \in DOMAIN room /\ k + 1 \in DOMAIN room
      BY <1>1, <2>3
    <3>2. (IF i < n THEN room[i] ELSE room[i + 1]) = IF k < n THEN room[k] ELSE room[k + 1]
      BY <2>3, <2>4, <3>1
    <3> QED BY <1>1, <3>1, <3>2
  <2>5. \A i \in DOMAIN w : w[i] \in Seated \ {s}
    <3> TAKE i \in DOMAIN w
    <3>1. i \in 1..(Len(room) - 1) /\ i \in DOMAIN room /\ i + 1 \in DOMAIN room
      BY <1>1, <2>3
    <3>2. CASE i < n
      BY <1>1, <2>1, <2>3, <3>1, <3>2
    <3>3. CASE i >= n
      BY <1>1, <2>1, <2>3, <3>1, <3>3
    <3> QED BY <1>1, <3>1, <3>2, <3>3
  <2>6. ASSUME NEW t \in Seated \ {s} PROVE \E i \in DOMAIN w : w[i] = t
    <3>1. PICK k \in DOMAIN room : room[k] = t /\ k # n
      BY <1>1, <2>1
    <3>2. CASE k < n
      BY <1>1, <2>3, <3>1, <3>2
    <3>3. CASE k > n
      <4>1. k - 1 \in DOMAIN w /\ w[k - 1] = t
        BY <1>1, <2>3, <3>1, <3>3
      <4> QED BY <4>1
    <3> QED BY <1>1, <3>1, <3>2, <3>3
  <2>7. {w[i] : i \in DOMAIN w} = Seated \ {s}
    BY <2>5, <2>6
  <2>8. Seated' = Seated \ {s}
    BY <1>1, <2>7, <2>w
  <2>9. room' \in Seq(Sockets) /\ Len(room') <= Len(room)
    BY <1>1, <2>3, <2>w
  <2>10. \A i, k \in DOMAIN room' : room'[i] = room'[k] => i = k
    BY <2>4, <2>w
  <2> QED BY <2>8, <2>9, <2>10
<1> QED BY <1>2, <1>3

-----------------------------------------------------------------------------
(* What is sent *)

LEMMA MessagesAre ==
  ASSUME NEW s \in Sockets, NEW h \in Sockets, NEW n \in Hosts, NEW seats \in SUBSET Sockets
  PROVE  /\ [type |-> "joined", who |-> s, host |-> h] \in Messages
         /\ [type |-> "ack", who |-> seats, host |-> h] \in Messages
         /\ [type |-> "offer", who |-> s] \in Messages /\ [type |-> "left", who |-> s] \in Messages
         /\ [type |-> "host", host |-> n] \in Messages /\ Gone \in Messages
         /\ [type |-> "refused"] \in Messages /\ [type |-> "removed"] \in Messages
         /\ [type |-> "ended"] \in Messages
BY DEF Messages, Hosts, Gone, Ends

LEMMA SentIs ==
  ASSUME NEW box \in [Sockets -> Seq(Messages)], NEW to, NEW msg \in Messages
  PROVE  /\ Sent(box, to, msg) \in [Sockets -> Seq(Messages)]
         /\ \A s \in Sockets : Sent(box, to, msg)[s] =
              IF s \in to \cap online /\ ui[s].on THEN Append(box[s], msg) ELSE box[s]
BY AppendProperties DEF Sent

LEMMA AppendedIs ==
  ASSUME NEW box \in [Sockets -> Seq(Messages)], NEW s \in Sockets, NEW msg \in Messages
  PROVE  [box EXCEPT ![s] = Append(@, msg)] \in [Sockets -> Seq(Messages)]
BY AppendProperties

LEMMA HeededIs ==
  ASSUME NEW msgs \in Seq(Messages)
  PROVE  /\ Heeded(msgs) \in Seq(Messages)
         /\ \A i \in DOMAIN Heeded(msgs) : Heeded(msgs)[i] = Gone
<1>1. Gone \in Messages
  BY DEF Messages, Gone
<1>2. CASE \E i \in DOMAIN msgs : msgs[i] = Gone
  <2>1. Heeded(msgs) = <<Gone>>
    BY <1>2 DEF Heeded
  <2>2. <<Gone>> \in Seq(Messages) /\ DOMAIN <<Gone>> = {1} /\ <<Gone>>[1] = Gone
    BY <1>1
  <2> QED BY <2>1, <2>2
<1>3. CASE ~ \E i \in DOMAIN msgs : msgs[i] = Gone
  <2>1. Heeded(msgs) = <<>>
    BY <1>3 DEF Heeded
  <2> QED BY <2>1
<1> QED BY <1>2, <1>3

LEMMA NoCallIs == NoCall \in Clients
BY DEF NoCall, Clients

LEMMA PartingIs ==
  ASSUME CallTypeOK, NEW s \in Sockets
  PROVE  /\ Parting(s) \in Pasts /\ Parting(s).revoked = past.revoked
         /\ past.hasty \subseteq Parting(s).hasty /\ Parting(s).overlap = past.overlap
         /\ Parting(s).adrift = past.adrift /\ (s \in Joiners => s \in Parting(s).hasty)
         /\ Parting(s).dropped = past.dropped
         /\ Parting(s).crossed = past.crossed \cup Pairs(s, Joiners)
<1>c. PICK c : c = past.crossed \cup Pairs(s, Joiners)
  OBVIOUS
<1>h. PICK h : h = IF s \in Joiners THEN past.hasty \cup {s} ELSE past.hasty
  OBVIOUS
<1>1. past \in Pasts /\ Joiners \subseteq Sockets
  BY DEF CallTypeOK, Pasts, Joiners
<1>2. Parting(s) = [past EXCEPT !.crossed = c, !.hasty = h]
  BY <1>1, <1>c, <1>h DEF Parting, Pasts
<1>3. c \in SUBSET SUBSET Sockets
  BY <1>1, <1>c DEF Pasts, Pairs
<1>4. h \in SUBSET Sockets /\ past.hasty \subseteq h /\ (s \in Joiners => s \in h)
  BY <1>1, <1>h DEF Pasts
<1>5. Parting(s) \in Pasts
  BY <1>1, <1>2, <1>3, <1>4 DEF Pasts
<1>6. /\ Parting(s).hasty = h /\ Parting(s).revoked = past.revoked
      /\ Parting(s).overlap = past.overlap /\ Parting(s).adrift = past.adrift
      /\ Parting(s).crossed = c /\ Parting(s).dropped = past.dropped
  BY <1>1, <1>2 DEF Pasts
<1> QED BY <1>4, <1>5, <1>6, <1>c

LEMMA RemovalIs == ASSUME NEW s \in Sockets PROVE Removal(s) \subseteq Removing
BY DEF Removal, Removing, Hosts

-----------------------------------------------------------------------------
(* The variables hold what they should. *)

Boxes == [Sockets -> Seq(Messages)]

LEMMA CallTypes ==
  ASSUME CallTypeOK
  PROVE  /\ limit \in Nat /\ joins \in Nat /\ room \in Seq(Sockets) /\ Seated \subseteq online
         /\ \A i, k \in DOMAIN room : room[i] = room[k] => i = k
         /\ leaving \subseteq Seated /\ online \subseteq Sockets /\ host \in Hosts /\ Seated \subseteq Sockets
         /\ joining \subseteq Joinings /\ removals \subseteq Removing /\ Joiners \subseteq Sockets
         /\ ui \in [Sockets -> Clients] /\ inbox \in Boxes /\ past \in Pasts
BY CallAssumption DEF CallTypeOK, Hosts, Joinings, Removing, Boxes, Pasts, Joiners

\* The type invariant in its parts.
LEMMA CallTypedNow ==
  ASSUME limit' \in Limits, joins' \in Nat, room' \in Seq(Sockets), Seated' \subseteq online',
         \A i, k \in DOMAIN room' : room'[i] = room'[k] => i = k,
         leaving' \subseteq Seated', online' \subseteq Sockets, host' \in Hosts,
         joining' \subseteq Joinings, removals' \subseteq Removing,
         ui' \in [Sockets -> Clients], inbox' \in Boxes, past' \in Pasts
  PROVE  CallTypeOK'
BY DEF CallTypeOK, Hosts, Joinings, Removing, Boxes, Pasts

LEMMA RoomStays ==
  ASSUME CallTypeOK, UNCHANGED <<limit, room, leaving, online>>
  PROVE  /\ limit' \in Limits /\ room' \in Seq(Sockets) /\ Seated' = Seated /\ Seated' \subseteq online'
         /\ \A i, k \in DOMAIN room' : room'[i] = room'[k] => i = k
         /\ leaving' \subseteq Seated' /\ online' \subseteq Sockets
BY DEF CallTypeOK, Seated

LEMMA AskJoinTyped ==
  ASSUME CallTypeOK, NEW s \in Sockets, AskJoin(s)
  PROVE  /\ CallTypeOK' /\ UNCHANGED <<room, leaving, host, removals, online>> /\ Seated' = Seated
         /\ past'.revoked = past.revoked /\ past'.adrift = past.adrift
         /\ past'.dropped = past.dropped /\ past.hasty \subseteq past'.hasty
         /\ past'.crossed = past.crossed \cup Pairs(s, Movers)
         /\ ui[s].on \/ s \in Movers => s \in past'.hasty
         /\ ~past'.overlap => ~past.overlap /\ \A j \in joining : j.at # "room"
         /\ ui' = [ui EXCEPT ![s] = [@ EXCEPT !.on = TRUE]]
<1>c. PICK c : c = past.crossed \cup Pairs(s, Movers)
  OBVIOUS
<1>o. PICK o \in BOOLEAN : o <=> (past.overlap \/ \E j \in joining : j.at = "room")
  OBVIOUS
<1>h. PICK h : h = IF ui[s].on \/ s \in Movers THEN past.hasty \cup {s} ELSE past.hasty
  OBVIOUS
<1>0. /\ room' = room /\ leaving' = leaving /\ host' = host /\ removals' = removals
      /\ online' = online /\ limit' = limit /\ joins' = joins + 1
      /\ ui' = [ui EXCEPT ![s] = [@ EXCEPT !.on = TRUE]]
  BY DEF AskJoin
<1>1. /\ limit \in Nat /\ joins \in Nat /\ Seated \subseteq Sockets /\ host \in Hosts
      /\ joining \subseteq Joinings /\ removals \subseteq Removing
      /\ ui \in [Sockets -> Clients] /\ inbox \in Boxes /\ past \in Pasts
      /\ Movers \subseteq Sockets
  BY CallTypes DEF Movers, Joiners, Joinings, Removing
<1>2. past' = [past EXCEPT !.crossed = c, !.overlap = o, !.hasty = h]
  <2>1. (past.overlap \/ \E j \in joining : j.at = "room") = o
    BY <1>o
  <2>2. past' = [past EXCEPT !.crossed = c, !.hasty = h,
                   !.overlap = (past.overlap \/ \E j \in joining : j.at = "room")]
    BY <1>1, <1>c, <1>h DEF AskJoin, Pasts
  <2>3. past' = [past EXCEPT !.crossed = c, !.hasty = h, !.overlap = o]
    BY <2>1, <2>2
  <2> QED BY <1>1, <2>3 DEF Pasts
<1>3. c \in SUBSET SUBSET Sockets
  BY <1>1, <1>c DEF Pasts, Pairs
<1>4. h \in SUBSET Sockets /\ past.hasty \subseteq h /\ (ui[s].on \/ s \in Movers => s \in h)
  BY <1>1, <1>h DEF Pasts
<1>5. past' \in Pasts
  BY <1>1, <1>2, <1>3, <1>4 DEF Pasts
<1>6. /\ past'.hasty = h /\ past'.revoked = past.revoked /\ past'.overlap = o
      /\ past'.adrift = past.adrift /\ past'.crossed = c /\ past'.dropped = past.dropped
  BY <1>1, <1>2 DEF Pasts
<1>7. ui' \in [Sockets -> Clients]
  <2>r. PICK r \in Clients : r = ui[s]
    BY <1>1
  <2>1. [r EXCEPT !.on = TRUE] \in Clients
    BY DEF Clients
  <2> QED BY <1>0, <1>1, <2>1, <2>r
<1>8. inbox' \in Boxes
  <2>1. [type |-> "refused"] \in Messages
    BY DEF Messages, Ends
  <2>2. [inbox EXCEPT ![s] = Append(@, [type |-> "refused"])] \in Boxes
    BY <1>1, <2>1, AppendedIs DEF Boxes
  <2> QED BY <1>1, <2>2 DEF AskJoin
<1>9. joining' \subseteq Joinings
  BY <1>1 DEF AskJoin, Joinings
<1>10. joins' \in Nat /\ host' \in Hosts /\ removals' \subseteq Removing
  BY <1>0, <1>1
<1>11. CallTypeOK'
  BY <1>0, <1>5, <1>7, <1>8, <1>9, <1>10, RoomStays, CallTypedNow
<1> QED BY <1>0, <1>4, <1>6, <1>11, <1>c, <1>o, RoomStays

LEMMA EnterRoomTyped ==
  ASSUME CallTypeOK, NEW j, EnterRoom(j)
  PROVE  /\ CallTypeOK' /\ Seated' = Seated \cup ({j.of} \cap online) /\ Len(room') <= Len(room) + 1
         /\ j \in Joinings /\ Len(room) \in Nat /\ Len(room') \in Nat
         /\ joining' = (joining \ {j}) \cup {[j EXCEPT !.at = "tell"]}
         /\ [j EXCEPT !.at = "tell"].of = j.of /\ [j EXCEPT !.at = "tell"].at = "tell"
<1>0. /\ limit' = limit /\ leaving' = leaving /\ host' = host /\ removals' = removals
      /\ online' = online /\ joins' = joins /\ past' = past /\ ui' = ui /\ inbox' = inbox
      /\ j \in joining /\ j.at = "room"
      /\ joining' = (joining \ {j}) \cup {[j EXCEPT !.at = "tell"]}
      /\ room' = IF j.of \in Seated \/ j.of \notin online THEN room ELSE Append(room, j.of)
  BY DEF EnterRoom
<1>1. /\ room \in Seq(Sockets) /\ Seated \subseteq online /\ j \in Joinings /\ online \subseteq Sockets
      /\ \A i, k \in DOMAIN room : room[i] = room[k] => i = k
      /\ leaving \subseteq Seated /\ host \in Hosts /\ joins \in Nat
      /\ joining \subseteq Joinings /\ removals \subseteq Removing
      /\ ui \in [Sockets -> Clients] /\ inbox \in Boxes /\ past \in Pasts /\ limit \in Limits
  BY <1>0, CallTypes DEF CallTypeOK
<1>2. [j EXCEPT !.at = "tell"] \in Joinings /\ [j EXCEPT !.at = "tell"].of = j.of
      /\ [j EXCEPT !.at = "tell"].at = "tell"
  BY <1>1 DEF Joinings
<1>3. /\ room' \in Seq(Sockets) /\ Seated' = Seated \cup ({j.of} \cap online)
      /\ Len(room') <= Len(room) + 1 /\ Len(room) \in Nat /\ Len(room') \in Nat
      /\ \A i, k \in DOMAIN room' : room'[i] = room'[k] => i = k
  <2>1. CASE j.of \in Seated \/ j.of \notin online
    <3>1. room' = room /\ Seated' = Seated
      BY <1>0, <2>1 DEF Seated
    <3>2. Seated = Seated \cup ({j.of} \cap online)
      BY <1>1, <2>1
    <3> QED BY <1>1, <3>1, <3>2
  <2>2. CASE ~(j.of \in Seated \/ j.of \notin online)
    <3>t. PICK t \in Sockets : t = j.of
      BY <1>1 DEF Joinings
    <3>1. room' = Append(room, t) /\ t \notin Seated /\ t \in online
      BY <1>0, <2>2, <3>t
    <3>2. Seated = {room[i] : i \in DOMAIN room} /\ Seated' = {room'[i] : i \in DOMAIN room'}
      BY DEF Seated, ToSet
    <3>3. /\ room' \in Seq(Sockets) /\ Len(room') = Len(room) + 1 /\ Len(room) \in Nat
          /\ DOMAIN room = 1..Len(room) /\ DOMAIN room' = 1..(Len(room) + 1)
          /\ \A i \in DOMAIN room : room'[i] = room[i]
          /\ room'[Len(room) + 1] = t
      BY <1>1, <3>1, AppendProperties
    <3>4. Seated' = Seated \cup {t}
      <4>1. ASSUME NEW x \in Seated' PROVE x \in Seated \cup {t}
        BY <3>2, <3>3
      <4>2. Seated \cup {t} \subseteq Seated'
        BY <3>2, <3>3
      <4> QED BY <4>1, <4>2
    <3>5. ASSUME NEW i \in DOMAIN room', NEW k \in DOMAIN room', room'[i] = room'[k] PROVE i = k
      <4>1. \A n \in DOMAIN room : room'[n] # t
        BY <3>1, <3>2, <3>3
      <4>2. (i \in DOMAIN room \/ i = Len(room) + 1) /\ (k \in DOMAIN room \/ k = Len(room) + 1)
        BY <3>3
      <4> QED BY <1>1, <3>3, <3>5, <4>1, <4>2
    <3>6. Seated \cup {t} = Seated \cup ({j.of} \cap online)
      BY <3>1, <3>t
    <3> QED BY <3>3, <3>4, <3>5, <3>6
  <2> QED BY <2>1, <2>2
<1>4. joining' \subseteq Joinings
  BY <1>0, <1>1, <1>2
<1>5. Seated' \subseteq online' /\ leaving' \subseteq Seated'
  BY <1>0, <1>1, <1>3
<1>6. CallTypeOK'
  BY <1>0, <1>1, <1>3, <1>4, <1>5, CallTypedNow
<1> QED BY <1>0, <1>1, <1>2, <1>3, <1>6

LEMMA TellRoomTyped ==
  ASSUME CallTypeOK, NEW j, TellRoom(j), NEW h, h = IF host = Nobody THEN j.of ELSE host
  PROVE  /\ CallTypeOK' /\ Seated' = Seated /\ j \in Joinings /\ j \in joining /\ j.at = "tell"
         /\ host' = h /\ h \in Sockets
         /\ UNCHANGED <<limit, room, leaving, removals, online, ui, joins>>
         /\ joining' = joining \ {j}
         /\ past'.hasty = past.hasty /\ past'.revoked = past.revoked /\ past'.overlap = past.overlap
         /\ past'.crossed = past.crossed /\ past'.dropped = past.dropped
         /\ past'.adrift <=> past.adrift \/ (host = Nobody /\ j.of \notin Seated \ leaving)
         /\ \A s \in Sockets : inbox'[s] =
              IF ~(s \in Seated \cup {j.of} /\ s \in online /\ ui[s].on) THEN inbox[s]
              ELSE Append(inbox[s], IF s = j.of THEN [type |-> "ack", who |-> j.saw, host |-> h]
                                    ELSE [type |-> "joined", who |-> j.of, host |-> h])
<1>0. /\ UNCHANGED <<limit, room, leaving, removals, online, ui, joins>>
      /\ j \in joining /\ j.at = "tell" /\ joining' = joining \ {j} /\ host' = h
  BY DEF TellRoom
<1>1. /\ j \in Joinings /\ host \in Hosts /\ joins \in Nat
      /\ joining \subseteq Joinings /\ removals \subseteq Removing
      /\ ui \in [Sockets -> Clients] /\ inbox \in Boxes /\ past \in Pasts
  BY <1>0, CallTypes
<1>2. h \in Sockets /\ j.of \in Sockets /\ j.saw \in SUBSET Sockets
  BY <1>1 DEF Hosts, Joinings
<1>a. PICK a : a = [type |-> "joined", who |-> j.of, host |-> h]
  OBVIOUS
<1>b. PICK b : b = [type |-> "ack", who |-> j.saw, host |-> h]
  OBVIOUS
<1>3. a \in Messages /\ b \in Messages
  <2>1. a \in Messages
    BY <1>2, <1>a DEF Messages
  <2>2. b \in Messages
    BY <1>2, <1>b DEF Messages
  <2> QED BY <2>1, <2>2
<1>x. PICK x : x = Sent(inbox, Seated \ {j.of}, a)
  OBVIOUS
<1>4. x \in Boxes /\ \A s \in Sockets :
        x[s] = IF s \in (Seated \ {j.of}) \cap online /\ ui[s].on THEN Append(inbox[s], a) ELSE inbox[s]
  BY <1>1, <1>3, <1>x, SentIs DEF Boxes
<1>5. inbox' = Sent(x, {j.of}, b)
  BY <1>a, <1>b, <1>x DEF TellRoom
<1>6. inbox' \in Boxes /\ \A s \in Sockets :
        inbox'[s] = IF s \in {j.of} \cap online /\ ui[s].on THEN Append(x[s], b) ELSE x[s]
  BY <1>3, <1>4, <1>5, SentIs DEF Boxes
<1>7. ASSUME NEW s \in Sockets
      PROVE  inbox'[s] =
               IF ~(s \in Seated \cup {j.of} /\ s \in online /\ ui[s].on) THEN inbox[s]
               ELSE Append(inbox[s], IF s = j.of THEN b ELSE a)
  <2>1. CASE s = j.of
    BY <1>4, <1>6, <2>1
  <2>2. CASE s # j.of
    BY <1>4, <1>6, <2>2
  <2> QED BY <2>1, <2>2
<1>o. PICK o \in BOOLEAN :
        o <=> past.adrift \/ (host = Nobody /\ j.of \notin Seated \ leaving)
  OBVIOUS
<1>8. past' = [past EXCEPT !.adrift = o]
  <2>1. (past.adrift \/ (host = Nobody /\ j.of \notin Seated \ leaving)) = o
    BY <1>1, <1>o DEF Pasts
  <2>2. past' = [past EXCEPT !.adrift = past.adrift \/ (host = Nobody /\ j.of \notin Seated \ leaving)]
    BY DEF TellRoom
  <2> QED BY <2>1, <2>2
<1>9. /\ past' \in Pasts /\ past'.hasty = past.hasty /\ past'.revoked = past.revoked
      /\ past'.overlap = past.overlap /\ past'.adrift = o /\ past'.crossed = past.crossed
      /\ past'.dropped = past.dropped
  BY <1>1, <1>8 DEF Pasts
<1>10. joining' \subseteq Joinings /\ host' \in Hosts /\ joins' \in Nat /\ removals' \subseteq Removing
       /\ ui' \in [Sockets -> Clients]
  BY <1>0, <1>1, <1>2 DEF Hosts
<1>11. CallTypeOK' /\ Seated' = Seated
  BY <1>0, <1>6, <1>9, <1>10, RoomStays, CallTypedNow
<1> QED BY <1>0, <1>1, <1>2, <1>7, <1>9, <1>11, <1>a, <1>b, <1>o

LEMMA LeaveTyped ==
  ASSUME CallTypeOK, NEW s \in Sockets, Leave(s)
  PROVE  /\ CallTypeOK' /\ Seated' = Seated /\ past' = Parting(s) /\ removals' = removals \cup Removal(s)
         /\ UNCHANGED <<limit, room, leaving, host, joining, online, joins>>
         /\ ui' = [ui EXCEPT ![s] = NoCall]
         /\ \A t \in Sockets : inbox'[t] = IF t = s THEN Heeded(inbox[t]) ELSE inbox[t]
<1>0. /\ past' = Parting(s) /\ removals' = removals \cup Removal(s)
      /\ UNCHANGED <<limit, room, leaving, host, joining, online, joins>>
      /\ ui' = [ui EXCEPT ![s] = NoCall] /\ inbox' = [inbox EXCEPT ![s] = Heeded(@)]
  BY DEF Leave
<1>1. /\ host \in Hosts /\ joins \in Nat /\ joining \subseteq Joinings /\ removals \subseteq Removing
      /\ ui \in [Sockets -> Clients] /\ inbox \in Boxes
  BY CallTypes
<1>2. ui' \in [Sockets -> Clients]
  BY <1>0, <1>1, NoCallIs
<1>3. inbox' \in Boxes /\ \A t \in Sockets : inbox'[t] = IF t = s THEN Heeded(inbox[t]) ELSE inbox[t]
  BY <1>0, <1>1, HeededIs DEF Boxes
<1>4. past' \in Pasts
  BY <1>0, PartingIs
<1>5. removals' \subseteq Removing
  BY <1>0, <1>1, RemovalIs
<1>6. CallTypeOK' /\ Seated' = Seated
  BY <1>0, <1>1, <1>2, <1>3, <1>4, <1>5, RoomStays, CallTypedNow
<1> QED BY <1>0, <1>3, <1>6

LEMMA DisconnectTyped ==
  ASSUME CallTypeOK, NEW s \in Sockets, Disconnect(s)
  PROVE  /\ CallTypeOK' /\ Seated' = Seated \ {s} /\ Len(room') <= Len(room)
         /\ past' = Parting(s) /\ removals' = removals \cup Removal(s)
         /\ online' = online \ {s} /\ leaving' = leaving \ {s}
         /\ UNCHANGED <<limit, host, joining, joins>>
         /\ ui' = [ui EXCEPT ![s] = NoCall]
         /\ \A t \in Sockets : inbox'[t] = IF t = s THEN <<>> ELSE inbox[t]
<1>0. /\ past' = Parting(s) /\ removals' = removals \cup Removal(s)
      /\ online' = online \ {s} /\ leaving' = leaving \ {s} /\ room' = Without(s)
      /\ UNCHANGED <<limit, host, joining, joins>>
      /\ ui' = [ui EXCEPT ![s] = NoCall] /\ inbox' = [inbox EXCEPT ![s] = <<>>]
  BY DEF Disconnect
<1>1. /\ host \in Hosts /\ joins \in Nat /\ joining \subseteq Joinings /\ removals \subseteq Removing
      /\ ui \in [Sockets -> Clients] /\ inbox \in Boxes /\ limit \in Limits
      /\ leaving \subseteq Seated /\ Seated \subseteq online /\ online \subseteq Sockets
  BY CallTypes DEF CallTypeOK
<1>2. ui' \in [Sockets -> Clients]
  BY <1>0, <1>1, NoCallIs
<1>3. inbox' \in Boxes /\ \A t \in Sockets : inbox'[t] = IF t = s THEN <<>> ELSE inbox[t]
  BY <1>0, <1>1 DEF Boxes
<1>4. past' \in Pasts
  BY <1>0, PartingIs
<1>5. removals' \subseteq Removing
  BY <1>0, <1>1, RemovalIs
<1>6. /\ room' \in Seq(Sockets) /\ Seated' = Seated \ {s} /\ Len(room') <= Len(room)
      /\ \A i, k \in DOMAIN room' : room'[i] = room'[k] => i = k
  BY <1>0, WithoutIs
<1>7. leaving' \subseteq Seated' /\ Seated' \subseteq online' /\ online' \subseteq Sockets
  BY <1>0, <1>1, <1>6
<1>8. CallTypeOK'
  BY <1>0, <1>1, <1>2, <1>3, <1>4, <1>5, <1>6, <1>7, CallTypedNow
<1> QED BY <1>0, <1>3, <1>6, <1>8

LEMMA FirstIs ==
  ASSUME CallTypeOK
  PROVE  /\ First(room) \in Hosts
         /\ First(room) = Nobody <=> room = <<>>
         /\ room # <<>> => First(room) \in Seated
<1>1. room \in Seq(Sockets) /\ Nobody \notin Sockets
  BY CallAssumption DEF CallTypeOK
<1>2. CASE room = <<>>
  BY <1>2 DEF First, Hosts
<1>3. CASE room # <<>>
  <2>1. First(room) = room[1] /\ 1 \in DOMAIN room
    BY <1>1, <1>3 DEF First
  <2>2. room[1] \in Sockets /\ room[1] \in Seated
    BY <1>1, <2>1 DEF Seated, ToSet
  <2> QED BY <1>1, <1>3, <2>1, <2>2 DEF Hosts
<1> QED BY <1>2, <1>3

LEMMA PutOutTyped ==
  ASSUME CallTypeOK, NEW r, PutOut(r)
  PROVE  /\ CallTypeOK' /\ Seated' = Seated /\ r \in Removing /\ r \in removals /\ r.at = "out"
         /\ UNCHANGED <<limit, room, host, joining, online, ui, joins, past>>
         /\ leaving' = IF r.of \in Seated THEN leaving \cup {r.of} ELSE leaving
         /\ \A x \in removals' : (x \in removals /\ x # r) \/ (x.at = "heir" /\ x.of = r.of)
         /\ \A x \in removals : x \in removals' \/ x = r
         /\ host = r.of => \E x \in removals' : x.of = r.of
         /\ \A t \in Sockets : inbox'[t] =
              IF t \in (Seated \ {r.of}) \cap online /\ ui[t].on
              THEN Append(inbox[t], [type |-> "left", who |-> r.of]) ELSE inbox[t]
<1>h. PICK h : h = First(room)
  OBVIOUS
<1>a. PICK a : a = [type |-> "left", who |-> r.of]
  OBVIOUS
<1>y. PICK y : y = [r EXCEPT !.at = "heir", !.heir = h]
  OBVIOUS
<1>0. /\ UNCHANGED <<limit, room, host, joining, online, ui, joins, past>>
      /\ r \in removals /\ r.at = "out"
      /\ leaving' = IF r.of \in Seated THEN leaving \cup {r.of} ELSE leaving
      /\ inbox' = Sent(inbox, Seated \ {r.of}, a)
      /\ removals' = (removals \ {r}) \cup IF HandsOver(r.of) THEN {y} ELSE {}
  BY <1>h, <1>a, <1>y DEF PutOut
<1>1. /\ host \in Hosts /\ joins \in Nat /\ joining \subseteq Joinings /\ removals \subseteq Removing
      /\ ui \in [Sockets -> Clients] /\ inbox \in Boxes /\ limit \in Limits /\ past \in Pasts
      /\ leaving \subseteq Seated /\ Seated \subseteq online /\ online \subseteq Sockets
      /\ room \in Seq(Sockets) /\ \A i, k \in DOMAIN room : room[i] = room[k] => i = k
  BY CallTypes DEF CallTypeOK
<1>2. r \in Removing /\ r.of \in Sockets /\ h \in Hosts
  BY <1>0, <1>1, <1>h, FirstIs DEF Removing
<1>3. y \in Removing /\ y.at = "heir" /\ y.of = r.of
  BY <1>2, <1>y DEF Removing
<1>4. a \in Messages
  BY <1>2, <1>a DEF Messages
<1>5. inbox' \in Boxes /\ \A t \in Sockets : inbox'[t] =
         IF t \in (Seated \ {r.of}) \cap online /\ ui[t].on THEN Append(inbox[t], a) ELSE inbox[t]
  BY <1>0, <1>1, <1>4, SentIs DEF Boxes
<1>6. Seated' = Seated
  BY <1>0 DEF Seated
<1>7. leaving' \subseteq Seated' /\ removals' \subseteq Removing
  BY <1>0, <1>1, <1>3, <1>6
<1>8. CallTypeOK'
  BY <1>0, <1>1, <1>5, <1>6, <1>7, CallTypedNow
<1>z. \A x \in removals' : x \in removals \ {r} \/ (x = y /\ host = r.of)
  BY <1>0 DEF HandsOver
<1>9. /\ \A x \in removals' : (x \in removals /\ x # r) \/ (x.at = "heir" /\ x.of = r.of)
      /\ \A x \in removals : x \in removals' \/ x = r
      /\ host = r.of => \E x \in removals' : x.of = r.of
  BY <1>0, <1>3, <1>z DEF HandsOver
<1> QED BY <1>0, <1>2, <1>5, <1>6, <1>8, <1>9, <1>a

LEMMA HandOverTyped ==
  ASSUME CallTypeOK, NEW r, HandOver(r)
  PROVE  /\ CallTypeOK' /\ Seated' = Seated /\ r \in Removing /\ r \in removals /\ r.at = "heir"
         /\ UNCHANGED <<limit, room, leaving, joining, online, ui, joins>>
         /\ host' = r.heir /\ removals' = removals \ {r}
         /\ past'.hasty = past.hasty /\ past'.revoked = past.revoked /\ past'.overlap = past.overlap
         /\ past'.crossed = past.crossed
         /\ ~past'.adrift => IF r.heir = Nobody THEN Seated \subseteq leaving \cup Joiners
                             ELSE r.heir \in Seated \ leaving
         /\ \A t \in Sockets : inbox'[t] =
              IF t \in Seated \cap online /\ ui[t].on
              THEN Append(inbox[t], [type |-> "host", host |-> r.heir]) ELSE inbox[t]
<1>a. PICK a : a = [type |-> "host", host |-> r.heir]
  OBVIOUS
<1>0. /\ UNCHANGED <<limit, room, leaving, joining, online, ui, joins>>
      /\ r \in removals /\ r.at = "heir" /\ host' = r.heir /\ removals' = removals \ {r}
      /\ inbox' = Sent(inbox, Seated, a)
  BY <1>a DEF HandOver
<1>1. /\ joins \in Nat /\ joining \subseteq Joinings /\ removals \subseteq Removing
      /\ ui \in [Sockets -> Clients] /\ inbox \in Boxes /\ past \in Pasts
  BY CallTypes
<1>2. r \in Removing /\ r.heir \in Hosts
  BY <1>0, <1>1 DEF Removing
<1>3. a \in Messages
  BY <1>2, <1>a DEF Messages, Hosts
<1>4. inbox' \in Boxes /\ \A t \in Sockets : inbox'[t] =
         IF t \in Seated \cap online /\ ui[t].on THEN Append(inbox[t], a) ELSE inbox[t]
  BY <1>0, <1>1, <1>3, SentIs DEF Boxes
<1>o. PICK o \in BOOLEAN :
        o <=> IF r.heir = Nobody THEN ~(Seated \subseteq leaving \cup Joiners)
              ELSE r.heir \notin Seated \ leaving
  OBVIOUS
<1>5. past' = [past EXCEPT !.adrift = o]
  <2>1. (IF r.heir = Nobody THEN ~(Seated \subseteq leaving \cup Joiners)
         ELSE r.heir \notin Seated \ leaving) = o
    BY <1>o
  <2>2. past' = [past EXCEPT !.adrift = IF r.heir = Nobody THEN ~(Seated \subseteq leaving \cup Joiners)
                                        ELSE r.heir \notin Seated \ leaving]
    BY DEF HandOver
  <2> QED BY <2>1, <2>2
<1>6. /\ past' \in Pasts /\ past'.hasty = past.hasty /\ past'.revoked = past.revoked
      /\ past'.overlap = past.overlap /\ past'.adrift = o /\ past'.crossed = past.crossed
  BY <1>1, <1>5 DEF Pasts
<1>7. removals' \subseteq Removing /\ host' \in Hosts
  BY <1>0, <1>1, <1>2
<1>8. CallTypeOK' /\ Seated' = Seated
  BY <1>0, <1>1, <1>4, <1>6, <1>7, RoomStays, CallTypedNow
<1> QED BY <1>0, <1>2, <1>4, <1>6, <1>8, <1>a, <1>o

LEMMA LeaveRoomTyped ==
  ASSUME CallTypeOK, NEW s \in Sockets, LeaveRoom(s)
  PROVE  /\ CallTypeOK' /\ Seated' = Seated \ {s} /\ Len(room') <= Len(room)
         /\ leaving' = leaving \ {s} /\ s \in leaving
         /\ UNCHANGED <<limit, host, joining, removals, online, ui, inbox, joins>>
         /\ past'.revoked = past.revoked /\ past.hasty \subseteq past'.hasty
         /\ past'.overlap = past.overlap /\ past'.adrift = past.adrift
         /\ past'.crossed = past.crossed \cup Pairs(s, Joiners)
         /\ past.dropped \subseteq past'.dropped
         /\ s \in past.revoked => s \in past'.dropped \/ \E r \in removals : r.of = s
<1>0. /\ leaving' = leaving \ {s} /\ s \in leaving /\ room' = Without(s)
      /\ UNCHANGED <<limit, host, joining, removals, online, ui, inbox, joins>>
  BY DEF LeaveRoom
<1>1. /\ host \in Hosts /\ joins \in Nat /\ joining \subseteq Joinings /\ removals \subseteq Removing
      /\ ui \in [Sockets -> Clients] /\ inbox \in Boxes /\ limit \in Limits
      /\ leaving \subseteq Seated /\ Seated \subseteq online /\ online \subseteq Sockets
      /\ past \in Pasts
  BY CallTypes DEF CallTypeOK
<1>p. PICK p : p = Parting(s)
  OBVIOUS
<1>d. PICK d : d = IF s \in past.revoked /\ \A r \in removals : r.of # s
                   THEN past.dropped \cup {s} ELSE past.dropped
  OBVIOUS
<1>6. past' = [p EXCEPT !.dropped = d] /\ p \in Pasts
  <2>1. p \in Pasts /\ p.dropped = past.dropped
    BY <1>p, PartingIs
  <2> QED BY <1>p, <1>d, <2>1 DEF LeaveRoom, Pasts
<1>2. /\ past' \in Pasts /\ past'.dropped = d /\ past'.revoked = p.revoked
      /\ past'.overlap = p.overlap /\ past'.adrift = p.adrift
      /\ past'.hasty = p.hasty /\ past'.crossed = p.crossed
  <2>1. d \in SUBSET Sockets
    BY <1>1, <1>d DEF Pasts
  <2> QED BY <1>6, <2>1 DEF Pasts
<1>3. /\ room' \in Seq(Sockets) /\ Seated' = Seated \ {s} /\ Len(room') <= Len(room)
      /\ \A i, k \in DOMAIN room' : room'[i] = room'[k] => i = k
  BY <1>0, WithoutIs
<1>4. leaving' \subseteq Seated' /\ Seated' \subseteq online' /\ online' \subseteq Sockets
  BY <1>0, <1>1, <1>3
<1>5. CallTypeOK'
  BY <1>0, <1>1, <1>2, <1>3, <1>4, CallTypedNow
<1> QED BY <1>0, <1>2, <1>3, <1>5, <1>p, <1>d, PartingIs

LEMMA RevokeTyped ==
  ASSUME CallTypeOK, NEW s \in Sockets, Revoke(s)
  PROVE  /\ CallTypeOK' /\ Seated' = Seated /\ s \in online
         /\ UNCHANGED <<limit, room, host, joining, removals, online, ui, joins>>
         /\ leaving' = IF s \in Seated THEN leaving \cup {s} ELSE leaving
         /\ past'.revoked = past.revoked \cup {s} /\ past'.overlap = past.overlap
         /\ past'.adrift = past.adrift /\ past.hasty \subseteq past'.hasty
         /\ past'.crossed = past.crossed \cup Pairs(s, Joiners) /\ past'.dropped = past.dropped
         /\ s \in Joiners => s \in past'.hasty
         /\ \A t \in Sockets : inbox'[t] = IF t = s THEN Append(inbox[t], Gone) ELSE inbox[t]
<1>0. /\ UNCHANGED <<limit, room, host, joining, removals, online, ui, joins>> /\ s \in online
      /\ leaving' = IF s \in Seated THEN leaving \cup {s} ELSE leaving
      /\ inbox' = [inbox EXCEPT ![s] = Append(@, Gone)]
  BY DEF Revoke
<1>1. /\ host \in Hosts /\ joins \in Nat /\ joining \subseteq Joinings /\ removals \subseteq Removing
      /\ ui \in [Sockets -> Clients] /\ inbox \in Boxes /\ limit \in Limits /\ past \in Pasts
      /\ leaving \subseteq Seated /\ Seated \subseteq online /\ online \subseteq Sockets
      /\ room \in Seq(Sockets) /\ \A i, k \in DOMAIN room : room[i] = room[k] => i = k
  BY CallTypes DEF CallTypeOK
<1>2. Gone \in Messages
  BY DEF Gone, Messages
<1>3. inbox' \in Boxes /\ \A t \in Sockets : inbox'[t] = IF t = s THEN Append(inbox[t], Gone) ELSE inbox[t]
  BY <1>0, <1>1, <1>2, AppendedIs DEF Boxes
<1>p. PICK p : p = Parting(s)
  OBVIOUS
<1>v. PICK v : v = past.revoked \cup {s}
  OBVIOUS
<1>4. past' = [p EXCEPT !.revoked = v] /\ p \in Pasts
  <2>1. p \in Pasts /\ p.revoked = past.revoked
    BY <1>p, PartingIs
  <2> QED BY <1>p, <1>v, <2>1 DEF Revoke, Pasts
<1>5. /\ past' \in Pasts /\ past'.revoked = v /\ past'.overlap = p.overlap /\ past'.adrift = p.adrift
      /\ past'.hasty = p.hasty /\ past'.crossed = p.crossed /\ past'.dropped = p.dropped
  <2>1. v \in SUBSET Sockets
    BY <1>1, <1>v DEF Pasts
  <2> QED BY <1>4, <2>1 DEF Pasts
<1>6. Seated' = Seated
  BY <1>0 DEF Seated
<1>7. leaving' \subseteq Seated'
  BY <1>0, <1>1, <1>6
<1>8. CallTypeOK'
  BY <1>0, <1>1, <1>3, <1>5, <1>6, <1>7, CallTypedNow
<1> QED BY <1>0, <1>3, <1>5, <1>6, <1>8, <1>p, <1>v, PartingIs

LEMMA RemoveTyped ==
  ASSUME CallTypeOK, NEW s \in Sockets, NEW t \in Sockets, RemoveParticipant(s, t)
  PROVE  /\ CallTypeOK' /\ Seated' = Seated /\ t \in Seated /\ t \notin Movers
         /\ past' = Parting(t) /\ removals' = removals \cup Removal(t)
         /\ UNCHANGED <<limit, room, leaving, host, joining, online, ui, joins>>
         /\ \A u \in Sockets : inbox'[u] =
              IF u = t /\ u \in online /\ ui[u].on
              THEN Append(inbox[u], [type |-> "removed"]) ELSE inbox[u]
<1>a. PICK a : a = [type |-> "removed"]
  OBVIOUS
<1>0. /\ past' = Parting(t) /\ removals' = removals \cup Removal(t)
      /\ UNCHANGED <<limit, room, leaving, host, joining, online, ui, joins>>
      /\ t \in Seated /\ t \notin Movers /\ inbox' = Sent(inbox, {t}, a)
  BY <1>a DEF RemoveParticipant
<1>1. /\ host \in Hosts /\ joins \in Nat /\ joining \subseteq Joinings /\ removals \subseteq Removing
      /\ ui \in [Sockets -> Clients] /\ inbox \in Boxes
  BY CallTypes
<1>2. a \in Messages
  BY <1>a DEF Messages, Ends
<1>3. inbox' \in Boxes /\ \A u \in Sockets : inbox'[u] =
        IF u \in {t} \cap online /\ ui[u].on THEN Append(inbox[u], a) ELSE inbox[u]
  BY <1>0, <1>1, <1>2, SentIs DEF Boxes
<1>4. past' \in Pasts
  BY <1>0, PartingIs
<1>5. removals' \subseteq Removing
  BY <1>0, <1>1, RemovalIs
<1>6. CallTypeOK' /\ Seated' = Seated
  BY <1>0, <1>1, <1>3, <1>4, <1>5, RoomStays, CallTypedNow
<1> QED BY <1>0, <1>3, <1>6, <1>a

LEMMA EndCallTyped ==
  ASSUME CallTypeOK, NEW s \in Sockets, EndCall(s)
  PROVE  /\ CallTypeOK' /\ Seated' = Seated
         /\ UNCHANGED <<limit, room, leaving, host, joining, online, ui, joins>>
         /\ removals \subseteq removals'
         /\ \A r \in removals' \ removals : r.at = "end" /\ r.of \in Seated
         /\ \A u \in Seated : \E r \in removals' : r.of = u /\ r.at = "end"
         /\ past'.hasty = past.hasty \cup Joiners /\ past'.revoked = past.revoked
         /\ past'.overlap = past.overlap /\ past'.adrift = past.adrift
         /\ past'.dropped = past.dropped
         /\ past.crossed \subseteq past'.crossed
         /\ \A j \in Joiners, t \in Sockets : t # j => {j, t} \in past'.crossed
         /\ \A u \in Sockets : inbox'[u] =
              IF u \in Seated \cap online /\ ui[u].on
              THEN Append(inbox[u], [type |-> "ended"]) ELSE inbox[u]
<1>a. PICK a : a = [type |-> "ended"]
  OBVIOUS
<1>c. PICK c : c = past.crossed \cup UNION {Pairs(j, Sockets) : j \in Joiners}
  OBVIOUS
<1>h. PICK h : h = past.hasty \cup Joiners
  OBVIOUS
<1>e. PICK e : e = {[of |-> u, at |-> "end", heir |-> Nobody] : u \in Seated}
  OBVIOUS
<1>0. /\ UNCHANGED <<limit, room, leaving, host, joining, online, ui, joins>>
      /\ removals' = removals \cup e /\ inbox' = Sent(inbox, Seated, a)
  BY <1>a, <1>e DEF EndCall
<1>1. /\ host \in Hosts /\ joins \in Nat /\ joining \subseteq Joinings /\ removals \subseteq Removing
      /\ ui \in [Sockets -> Clients] /\ inbox \in Boxes /\ limit \in Limits /\ past \in Pasts
      /\ leaving \subseteq Seated /\ Seated \subseteq online /\ online \subseteq Sockets
      /\ room \in Seq(Sockets) /\ \A i, k \in DOMAIN room : room[i] = room[k] => i = k
      /\ Joiners \subseteq Sockets
  BY CallTypes DEF CallTypeOK
<1>2. a \in Messages
  BY <1>a DEF Messages, Ends
<1>3. inbox' \in Boxes /\ \A u \in Sockets : inbox'[u] =
        IF u \in Seated \cap online /\ ui[u].on THEN Append(inbox[u], a) ELSE inbox[u]
  <2>1. inbox' = Sent(inbox, Seated, a) /\ inbox \in Boxes
    BY <1>0, <1>1
  <2> QED BY <1>2, <2>1, SentIs DEF Boxes
<1>4. past' = [past EXCEPT !.hasty = h, !.crossed = c]
  BY <1>1, <1>c, <1>h DEF EndCall, Pasts
<1>5. c \in SUBSET SUBSET Sockets /\ h \in SUBSET Sockets
  BY <1>1, <1>c, <1>h DEF Pasts, Pairs
<1>6. /\ past' \in Pasts /\ past'.hasty = h /\ past'.revoked = past.revoked
      /\ past'.overlap = past.overlap /\ past'.crossed = c
      /\ past'.adrift = past.adrift /\ past'.dropped = past.dropped
  BY <1>1, <1>4, <1>5 DEF Pasts
<1>7. Seated' = Seated
  BY <1>0 DEF Seated
<1>8. /\ e \subseteq Removing /\ \A r \in e : r.at = "end" /\ r.of \in Seated
      /\ \A u \in Seated : \E r \in e : r.of = u /\ r.at = "end"
  <2> DEFINE R(u) == [of |-> u, at |-> "end", heir |-> Nobody]
  <2>1. \A u \in Seated : R(u).of = u /\ R(u).at = "end" /\ R(u) \in e
    BY <1>e
  <2>2. \A u \in Seated : R(u) \in Removing
    BY <1>1 DEF Removing, Hosts
  <2>3. \A r \in e : \E u \in Seated : r = R(u)
    BY <1>e
  <2> HIDE DEF R
  <2> QED BY <2>1, <2>2, <2>3
<1>9. CallTypeOK'
  <2>1. removals' \subseteq Removing /\ leaving' \subseteq Seated' /\ Seated' \subseteq online'
    BY <1>0, <1>1, <1>7, <1>8
  <2> QED BY <1>0, <1>1, <1>3, <1>6, <2>1, CallTypedNow
<1>10. /\ past.crossed \subseteq c
       /\ \A j \in Joiners, t \in Sockets : t # j => {j, t} \in c
  BY <1>c DEF Pairs
<1> QED BY <1>0, <1>3, <1>6, <1>7, <1>8, <1>9, <1>10, <1>a, <1>h

\* Those who were told that the call is over, and those who came since.
Ended(s) == \E r \in removals : r.of = s /\ r.at = "end"

LEMMA EndRoomTyped ==
  ASSUME CallTypeOK, EndRoom
  PROVE  /\ CallTypeOK' /\ Seated' = Seated /\ leaving' = Seated /\ host' = Nobody
         /\ UNCHANGED <<limit, room, joining, online, ui, inbox, joins>>
         /\ removals' \subseteq removals /\ \A r \in removals : r.at # "end" => r \in removals'
         /\ past.hasty \subseteq past'.hasty /\ past'.revoked = past.revoked
         /\ past'.overlap = past.overlap /\ past'.crossed = past.crossed
         /\ \A u \in Seated : Ended(u) \/ u \in past'.hasty
<1>0. /\ UNCHANGED <<limit, room, joining, online, ui, inbox, joins>>
      /\ leaving' = Seated /\ host' = Nobody /\ removals' = {r \in removals : r.at # "end"}
  BY DEF EndRoom
<1>1. /\ joins \in Nat /\ joining \subseteq Joinings /\ removals \subseteq Removing
      /\ ui \in [Sockets -> Clients] /\ inbox \in Boxes /\ limit \in Limits /\ past \in Pasts
      /\ Seated \subseteq online /\ online \subseteq Sockets
      /\ room \in Seq(Sockets) /\ \A i, k \in DOMAIN room : room[i] = room[k] => i = k
  BY CallTypes DEF CallTypeOK
<1>h. PICK h : h = past.hasty \cup (Seated \ {r.of : r \in removals \ removals'})
  OBVIOUS
<1>2. h \in SUBSET Sockets
  BY <1>1, <1>h DEF Pasts
<1>3. past' = [past EXCEPT !.adrift = FALSE, !.hasty = h]
  BY <1>1, <1>h DEF EndRoom, Pasts
<1>4. /\ past' \in Pasts /\ past'.hasty = h /\ past'.revoked = past.revoked
      /\ past'.overlap = past.overlap /\ past'.crossed = past.crossed
  BY <1>1, <1>2, <1>3 DEF Pasts
<1>5. \A u \in Seated : Ended(u) \/ u \in h
  BY <1>0, <1>h DEF Ended
<1>6. Seated' = Seated
  BY <1>0 DEF Seated
<1>7. leaving' \subseteq Seated' /\ Seated' \subseteq online' /\ removals' \subseteq Removing /\ host' \in Hosts
  BY <1>0, <1>1, <1>6 DEF Hosts
<1>8. CallTypeOK'
  BY <1>0, <1>1, <1>4, <1>7, CallTypedNow
<1> QED BY <1>0, <1>4, <1>5, <1>6, <1>8, <1>h

\* What a client shows after a message: it keeps its call unless the message ends it.
LEMMA ShownIs ==
  ASSUME NEW u \in Clients, NEW m \in Messages, NEW v, v = Shown(u, m)
  PROVE  /\ v \in Clients
         /\ ~u.on \/ m.type \in Ends => v = NoCall
         /\ u.on /\ m.type \notin Ends => /\ v.on
                                          /\ m.type \in {"joined", "ack", "host"} => v.host = m.host
                                          /\ m.type \notin {"joined", "ack", "host"} => v.host = u.host
<1>1. CASE ~u.on \/ m.type \in Ends
  BY <1>1, NoCallIs DEF Shown
<1>2. CASE u.on /\ m.type \notin Ends
  <2>0. m.type \in {"joined", "ack", "offer", "left", "host", "revoked"}
    BY <1>2 DEF Messages
  <2>1. CASE m.type = "joined"
    <3>p. PICK p : p = u.peers \cup {m.who}
      OBVIOUS
    <3>1. v = [u EXCEPT !.host = m.host, !.peers = p]
      BY <1>2, <2>1, <3>p DEF Shown, Clients
    <3>2. m.host \in Sockets \cup {Nobody} /\ p \in SUBSET Sockets
      BY <2>1, <3>p DEF Messages, Clients, Ends
    <3> QED BY <1>2, <2>1, <3>1, <3>2 DEF Clients
  <2>2. CASE m.type = "ack"
    <3>p. PICK p : p = u.peers \cup m.who
      OBVIOUS
    <3>1. v = [u EXCEPT !.host = m.host, !.peers = p]
      BY <1>2, <2>2, <3>p DEF Shown, Clients
    <3>2. m.host \in Sockets \cup {Nobody} /\ p \in SUBSET Sockets
      BY <2>2, <3>p DEF Messages, Clients, Ends
    <3> QED BY <1>2, <2>2, <3>1, <3>2 DEF Clients
  <2>3. CASE m.type = "offer"
    <3>p. PICK p : p = u.peers \cup {m.who}
      OBVIOUS
    <3>q. PICK q : q = u.took \cup {m.who}
      OBVIOUS
    <3>1. v = [u EXCEPT !.peers = p, !.took = q]
      BY <1>2, <2>3, <3>p, <3>q DEF Shown, Clients
    <3>2. p \in SUBSET Sockets /\ q \in SUBSET Sockets
      BY <2>3, <3>p, <3>q DEF Messages, Clients, Ends
    <3> QED BY <1>2, <2>3, <3>1, <3>2 DEF Clients
  <2>4. CASE m.type = "left"
    <3>p. PICK p : p = u.peers \ {m.who}
      OBVIOUS
    <3>q. PICK q : q = u.took \ {m.who}
      OBVIOUS
    <3>1. v = [u EXCEPT !.peers = p, !.took = q]
      BY <1>2, <2>4, <3>p, <3>q DEF Shown, Clients
    <3>2. p \in SUBSET Sockets /\ q \in SUBSET Sockets
      BY <3>p, <3>q DEF Clients
    <3> QED BY <1>2, <2>4, <3>1, <3>2 DEF Clients
  <2>5. CASE m.type = "host"
    <3>1. v = [u EXCEPT !.host = m.host]
      BY <1>2, <2>5 DEF Shown
    <3>2. m.host \in Sockets \cup {Nobody}
      BY <2>5 DEF Messages, Ends
    <3> QED BY <1>2, <2>5, <3>1, <3>2 DEF Clients
  <2>6. CASE m.type = "revoked"
    BY <1>2, <2>6 DEF Shown
  <2> QED BY <2>0, <2>1, <2>2, <2>3, <2>4, <2>5, <2>6
<1> QED BY <1>1, <1>2

\* A client reads message m, and its offer a, if it makes one, is sent to those in f.
Answered(s, m, f, a) ==
  /\ a.type = "offer" /\ a.who = s
  /\ \A t \in Sockets : t \in f <=> /\ ui[s].on /\ m.type = "joined" /\ t = m.who /\ t \notin ui[s].peers
                                   /\ s \in Seated /\ t \in Seated /\ ui[t].on
  /\ \A t \in f \ {s} : s \in leaving => {s, t} \in past'.crossed
  /\ \A t \in Sockets \ f : inbox'[t] =
       IF t # s THEN inbox[t] ELSE IF ui'[s].on THEN Tail(inbox[s]) ELSE Heeded(inbox[s])
  /\ \A t \in f : inbox'[t] =
       Append(IF t # s THEN inbox[t] ELSE IF ui'[s].on THEN Tail(inbox[s]) ELSE Heeded(inbox[s]), a)

LEMMA HandleTyped ==
  ASSUME CallTypeOK, NEW s \in Sockets, Handle(s), NEW m, m = Head(inbox[s])
  PROVE  /\ CallTypeOK' /\ Seated' = Seated /\ m \in Messages /\ m.type # "revoked" /\ inbox[s] # <<>>
         /\ UNCHANGED <<server, online, joins>>
         /\ past'.hasty = past.hasty /\ past'.revoked = past.revoked /\ past'.overlap = past.overlap
         /\ past'.adrift = past.adrift /\ past.crossed \subseteq past'.crossed
         /\ past'.dropped = past.dropped
         /\ \A t \in Sockets : ui'[t] = IF t = s THEN Shown(ui[s], m) ELSE ui[t]
         /\ \E f \in SUBSET Sockets, a \in Messages : Answered(s, m, f, a)
<1>q. PICK q : q = inbox[s]
  OBVIOUS
<1>v. PICK v : v = Shown(ui[s], m)
  OBVIOUS
<1>b. PICK b : b = IF v.on THEN Tail(q) ELSE Heeded(q)
  OBVIOUS
<1>x. PICK x : x = [inbox EXCEPT ![s] = b]
  OBVIOUS
<1>a. PICK a : a = [type |-> "offer", who |-> s]
  OBVIOUS
<1>o. PICK o : o = IF ui[s].on /\ s \in Seated THEN Offers(ui[s], m) \cap Seated ELSE {}
  OBVIOUS
<1>1. /\ host \in Hosts /\ joins \in Nat /\ joining \subseteq Joinings /\ removals \subseteq Removing
      /\ ui \in [Sockets -> Clients] /\ inbox \in Boxes /\ past \in Pasts
      /\ Seated \subseteq Sockets /\ online \subseteq Sockets
  BY CallTypes
<1>2. q \in Seq(Messages) /\ q # <<>> /\ m = Head(q) /\ m.type # "revoked"
  BY <1>1, <1>q DEF Handle, Boxes
<1>3. m \in Messages /\ Tail(q) \in Seq(Messages) /\ Heeded(q) \in Seq(Messages)
  BY <1>2, HeadTailProperties, HeededIs
<1>4. v \in Clients /\ ui' = [ui EXCEPT ![s] = v]
  <2>1. ui' = [ui EXCEPT ![s] = v]
    BY <1>1, <1>2, <1>q, <1>v DEF Handle
  <2> QED BY <1>1, <1>3, <1>v, <2>1, ShownIs
<1>5. ui'[s] = v /\ \A t \in Sockets : ui'[t] = IF t = s THEN v ELSE ui[t]
  BY <1>1, <1>4
<1>6. b \in Seq(Messages) /\ a \in Messages /\ x \in Boxes
  <2>1. b \in Seq(Messages)
    BY <1>3, <1>b
  <2>2. a \in Messages
    BY <1>a DEF Messages
  <2> QED BY <1>1, <1>x, <2>1, <2>2 DEF Boxes
<1>7. inbox' = Sent(x, o, a) /\ UNCHANGED <<server, online, joins>>
  <2>1. inbox' = Sent([inbox EXCEPT ![s] = IF ui'[s].on THEN Tail(q) ELSE Heeded(q)], o, a)
    BY <1>1, <1>2, <1>q, <1>o, <1>a DEF Handle
  <2>2. (IF ui'[s].on THEN Tail(q) ELSE Heeded(q)) = b
    BY <1>5, <1>b
  <2> QED BY <1>x, <2>1, <2>2 DEF Handle
<1>8. inbox' \in Boxes /\ \A t \in Sockets : inbox'[t] =
        IF t \in o \cap online /\ ui[t].on THEN Append(x[t], a) ELSE x[t]
  BY <1>6, <1>7, SentIs DEF Boxes
<1>c. PICK c : c = IF s \in leaving THEN past.crossed \cup Pairs(s, o) ELSE past.crossed
  OBVIOUS
<1>14. /\ past' = [past EXCEPT !.crossed = c] /\ past' \in Pasts
  <2>1. c \in SUBSET SUBSET Sockets
    BY <1>1, <1>c, <1>o DEF Pasts, Pairs
  <2>2. past' = [past EXCEPT !.crossed = c]
    BY <1>1, <1>2, <1>c, <1>o, <1>q DEF Handle, Pasts
  <2> QED BY <1>1, <2>1, <2>2 DEF Pasts
<1>15. /\ past'.hasty = past.hasty /\ past'.revoked = past.revoked /\ past'.overlap = past.overlap
       /\ past'.adrift = past.adrift /\ past'.crossed = c /\ past.crossed \subseteq c
       /\ past'.dropped = past.dropped
  BY <1>1, <1>14, <1>c DEF Pasts
<1>9. CallTypeOK' /\ Seated' = Seated
  <2>1. UNCHANGED <<limit, room, leaving, online, host, joining, removals, joins>>
    BY <1>7 DEF server
  <2>2. ui' \in [Sockets -> Clients]
    BY <1>1, <1>4
  <2> QED BY <1>1, <1>8, <1>14, <2>1, <2>2, RoomStays, CallTypedNow
<1>10. \A t \in Sockets : x[t] = IF t # s THEN inbox[t]
                                ELSE IF ui'[s].on THEN Tail(inbox[s]) ELSE Heeded(inbox[s])
  BY <1>1, <1>5, <1>6, <1>b, <1>q, <1>x DEF Boxes
<1>f. PICK f : f = {t \in o : t \in online /\ ui[t].on}
  OBVIOUS
<1>11. f \in SUBSET Sockets
  BY <1>1, <1>f, <1>o
<1>12. /\ \A t \in Sockets \ f : inbox'[t] = x[t]
       /\ \A t \in f : inbox'[t] = Append(x[t], a)
  BY <1>1, <1>8, <1>11, <1>f
<1>13. Answered(s, m, f, a)
  <2>1. a.type = "offer" /\ a.who = s
    BY <1>a
  <2>2. \A t \in Sockets : t \in f <=>
             /\ ui[s].on /\ m.type = "joined" /\ t = m.who /\ t \notin ui[s].peers
             /\ s \in Seated /\ t \in Seated /\ ui[t].on
    BY <1>1, <1>f, <1>o, CallTypes DEF Offers
  <2>3. \A t \in f \ {s} : s \in leaving => {s, t} \in past'.crossed
    BY <1>15, <1>c, <1>f DEF Pairs
  <2>4. \A t \in Sockets \ f : inbox'[t] =
          IF t # s THEN inbox[t] ELSE IF ui'[s].on THEN Tail(inbox[s]) ELSE Heeded(inbox[s])
    BY <1>10, <1>12
  <2>5. \A t \in f : inbox'[t] =
          Append(IF t # s THEN inbox[t] ELSE IF ui'[s].on THEN Tail(inbox[s]) ELSE Heeded(inbox[s]), a)
    BY <1>10, <1>11, <1>12
  <2> QED BY <2>1, <2>2, <2>3, <2>4, <2>5 DEF Answered
<1> QED BY <1>2, <1>3, <1>5, <1>6, <1>7, <1>9, <1>11, <1>13, <1>15, <1>q, <1>v

-----------------------------------------------------------------------------
(* The seats *)

LEMMA CallInitTyped == CallInit => CallTypeOK
<1> SUFFICES ASSUME CallInit PROVE CallTypeOK
  OBVIOUS
<1>1. /\ limit \in Limits /\ room = <<>> /\ leaving = {} /\ host = Nobody /\ joining = {}
      /\ removals = {} /\ online = Sockets /\ joins = 0
      /\ ui = [s \in Sockets |-> NoCall] /\ inbox = [s \in Sockets |-> <<>>]
  BY DEF CallInit
<1>2. past \in Pasts
  BY DEF CallInit, Pasts
<1>3. Seated = {}
  BY <1>1 DEF Seated, ToSet
<1>4. ui \in [Sockets -> Clients] /\ inbox \in Boxes
  BY <1>1, NoCallIs DEF Boxes
<1> QED BY <1>1, <1>2, <1>3, <1>4 DEF CallTypeOK, Boxes, Pasts

LEMMA CallNextTyped == CallTypeOK /\ [CallNext]_callVars => CallTypeOK'
<1> SUFFICES ASSUME CallTypeOK, [CallNext]_callVars PROVE CallTypeOK'
  OBVIOUS
<1>1. CASE UNCHANGED callVars
  <2>1. UNCHANGED <<limit, room, leaving, online, host, joining, removals, ui, inbox, joins, past>>
    BY <1>1 DEF callVars
  <2> QED BY <2>1, CallTypes, RoomStays, CallTypedNow
<1>2. ASSUME NEW s \in Sockets,
             AskJoin(s) \/ Leave(s) \/ Disconnect(s) \/ LeaveRoom(s) \/ Revoke(s)
             \/ EndCall(s) \/ Handle(s) \/ HandleRevoked(s)
      PROVE  CallTypeOK'
  BY <1>2, AskJoinTyped, LeaveTyped, DisconnectTyped, LeaveRoomTyped, RevokeTyped, EndCallTyped,
     HandleTyped DEF HandleRevoked
<1>3. ASSUME NEW s \in Sockets, NEW t \in Sockets, RemoveParticipant(s, t) PROVE CallTypeOK'
  BY <1>3, RemoveTyped
<1>4. ASSUME NEW j \in joining, EnterRoom(j) \/ TellRoom(j) PROVE CallTypeOK'
  BY <1>4, EnterRoomTyped, TellRoomTyped
<1>5. ASSUME NEW r \in removals, PutOut(r) \/ HandOver(r) PROVE CallTypeOK'
  BY <1>5, PutOutTyped, HandOverTyped
<1>6. CASE EndRoom
  BY <1>6, EndRoomTyped
<1> QED BY <1>1, <1>2, <1>3, <1>4, <1>5, <1>6 DEF CallNext

\* Only a join that looked at the room adds to it, and it is alone as long as none overlapped.
LEMMA SeatsFew ==
  ASSUME CallTypeOK, SeatsCounted, UNCHANGED limit, Len(room') <= Len(room), Len(room') \in Nat,
         \A j \in joining' : j.at = "room" => j \in joining, ~past'.overlap => ~past.overlap
  PROVE  SeatsCounted'
<1>1. limit \in Nat /\ Len(room) \in Nat
  BY CallTypes
<1> QED BY <1>1 DEF SeatsCounted

LEMMA SeatsNext == CallTypeOK /\ SeatsCounted /\ [CallNext]_callVars => SeatsCounted'
<1> SUFFICES ASSUME CallTypeOK, SeatsCounted, [CallNext]_callVars PROVE SeatsCounted'
  OBVIOUS
<1>0. /\ limit \in Nat /\ Len(room) \in Nat /\ Len(room') \in Nat
  BY CallTypes, CallNextTyped, CallAssumption DEF CallTypeOK
<1>1. CASE UNCHANGED callVars
  BY <1>1 DEF callVars, SeatsCounted
<1>2. ASSUME NEW s \in Sockets, AskJoin(s) PROVE SeatsCounted'
  <2>1. /\ UNCHANGED <<room, limit>>
        /\ ~past'.overlap => ~past.overlap /\ \A j \in joining : j.at # "room"
    BY <1>2, AskJoinTyped DEF AskJoin
  <2>2. CASE Full
    <3>1. joining' = joining
      BY <1>2, <2>2 DEF AskJoin
    <3> QED BY <2>1, <3>1 DEF SeatsCounted
  <2>3. CASE ~Full
    <3>1. PICK x : joining' = joining \cup {x}
      BY <1>2, <2>3 DEF AskJoin
    <3>2. Len(room) < limit
      BY <1>0, <2>3 DEF Full
    <3> QED BY <1>0, <2>1, <3>1, <3>2 DEF SeatsCounted
  <2> QED BY <2>2, <2>3
<1>3. ASSUME NEW j \in joining, EnterRoom(j) PROVE SeatsCounted'
  <2>x. PICK x : x = [j EXCEPT !.at = "tell"]
    OBVIOUS
  <2>1. /\ Len(room') <= Len(room) + 1 /\ joining' = (joining \ {j}) \cup {x} /\ x.at = "tell"
    BY <1>3, <2>x, EnterRoomTyped
  <2>2. limit' = limit /\ past' = past /\ j.at = "room"
    BY <1>3 DEF EnterRoom
  <2>3. ~past.overlap => Len(room) < limit /\ \A k \in joining : k.at = "room" => k = j
    BY <2>2 DEF SeatsCounted
  <2>4. ~past.overlap => Len(room') <= limit /\ \A k \in joining' : k.at # "room"
    BY <1>0, <2>1, <2>3
  <2> QED BY <2>2, <2>4 DEF SeatsCounted
<1>4. ASSUME NEW j \in joining, TellRoom(j) PROVE SeatsCounted'
  <2>1. /\ UNCHANGED <<limit, room>> /\ joining' = joining \ {j} /\ past'.overlap = past.overlap
    BY <1>4, TellRoomTyped
  <2> QED BY <1>0, <2>1, SeatsFew
<1>5. ASSUME NEW s \in Sockets,
             Leave(s) \/ Disconnect(s) \/ LeaveRoom(s) \/ Revoke(s) \/ EndCall(s) \/ HandleRevoked(s)
      PROVE  SeatsCounted'
  <2>1. UNCHANGED <<limit, joining>> /\ Len(room') <= Len(room) /\ past'.overlap = past.overlap
    BY <1>0, <1>5, LeaveTyped, DisconnectTyped, LeaveRoomTyped, RevokeTyped, EndCallTyped, PartingIs
       DEF HandleRevoked
  <2> QED BY <1>0, <2>1, SeatsFew
<1>6. ASSUME NEW s \in Sockets, Handle(s) PROVE SeatsCounted'
  BY <1>0, <1>6, SeatsFew DEF Handle, server
<1>7. ASSUME NEW s \in Sockets, NEW t \in Sockets, RemoveParticipant(s, t) PROVE SeatsCounted'
  BY <1>0, <1>7, RemoveTyped, PartingIs, SeatsFew
<1>8. ASSUME NEW r \in removals, PutOut(r) \/ HandOver(r) PROVE SeatsCounted'
  <2>1. CASE PutOut(r)
    <3>1. UNCHANGED <<limit, room, joining, past>>
      BY <2>1, PutOutTyped
    <3> QED BY <1>0, <3>1, SeatsFew
  <2>2. CASE HandOver(r)
    <3>1. UNCHANGED <<limit, room, joining>> /\ past'.overlap = past.overlap
      BY <2>2, HandOverTyped
    <3> QED BY <1>0, <3>1, SeatsFew
  <2> QED BY <1>8, <2>1, <2>2
<1>9. CASE EndRoom
  <2>1. UNCHANGED <<limit, room, joining>> /\ past'.overlap = past.overlap
    BY <1>9, EndRoomTyped
  <2> QED BY <1>0, <2>1, SeatsFew
<1> QED BY <1>1, <1>2, <1>3, <1>4, <1>5, <1>6, <1>7, <1>8, <1>9 DEF CallNext

\* Seats, handlers, clients and messages hold what the gateway and the page could make of them;
\* nobody has two seats, and a socket has a seat only as long as it is connected.
THEOREM CallTyped == CallSpec => []CallTypeOK
BY CallInitTyped, CallNextTyped, PTL DEF CallSpec

\* Whatever the clients do and in whatever order the handlers go on, a call has no more than its
\* seats as long as no two joins overlapped between the look at the room and the join.
THEOREM SeatsKept == CallSpec => []SeatsWithinLimit
<1>1. CallInit => SeatsCounted
  <2> SUFFICES ASSUME CallInit PROVE SeatsCounted
    OBVIOUS
  <2>1. limit \in Nat /\ Len(room) = 0 /\ joining = {}
    BY CallAssumption DEF CallInit
  <2> QED BY <2>1 DEF SeatsCounted
<1>2. SeatsCounted => SeatsWithinLimit
  BY DEF SeatsCounted, SeatsWithinLimit
<1> QED BY <1>1, <1>2, SeatsNext, CallTyped, PTL DEF CallSpec

-----------------------------------------------------------------------------
(* Who has a seat *)

LEMMA AppendHolds ==
  ASSUME NEW q \in Seq(Messages), NEW m \in Messages, NEW kinds
  PROVE  Holds(Append(q, m), kinds) <=> Holds(q, kinds) \/ m.type \in kinds
<1>x. PICK x : x = Append(q, m)
  OBVIOUS
<1>1. /\ Len(q) \in Nat /\ DOMAIN q = 1..Len(q) /\ DOMAIN x = 1..(Len(q) + 1)
      /\ \A i \in DOMAIN q : x[i] = q[i]
      /\ x[Len(q) + 1] = m
  BY <1>x, AppendProperties
<1>2. Holds(x, kinds) <=> Holds(q, kinds) \/ m.type \in kinds
  BY <1>1 DEF Holds
<1> QED BY <1>2, <1>x

LEMMA TailHolds ==
  ASSUME NEW q \in Seq(Messages), q # <<>>, NEW kinds
  PROVE  Holds(q, kinds) <=> Head(q).type \in kinds \/ Holds(Tail(q), kinds)
<1>x. PICK x : x = Tail(q)
  OBVIOUS
<1>1. /\ Len(q) \in Nat /\ Len(q) > 0 /\ DOMAIN q = 1..Len(q) /\ DOMAIN x = 1..(Len(q) - 1)
      /\ \A i \in DOMAIN x : x[i] = q[i + 1]
      /\ Head(q) = q[1]
  BY <1>x, HeadTailProperties
<1>2. Holds(q, kinds) => Head(q).type \in kinds \/ Holds(x, kinds)
  <2> SUFFICES ASSUME NEW i \in DOMAIN q, q[i].type \in kinds, i # 1 PROVE Holds(x, kinds)
    BY <1>1 DEF Holds
  <2>1. i - 1 \in DOMAIN x /\ x[i - 1] = q[i]
    BY <1>1
  <2> QED BY <2>1 DEF Holds
<1>3. Head(q).type \in kinds \/ Holds(x, kinds) => Holds(q, kinds)
  BY <1>1 DEF Holds
<1> QED BY <1>2, <1>3, <1>x

LEMMA HeededHolds ==
  ASSUME NEW q \in Seq(Messages), NEW kinds, Holds(Heeded(q), kinds)
  PROVE  "revoked" \in kinds /\ Holds(q, {"revoked"})
<1>1. CASE \E i \in DOMAIN q : q[i] = Gone
  <2>1. \A i \in DOMAIN Heeded(q) : Heeded(q)[i] = Gone
    BY HeededIs
  <2> QED BY <1>1, <2>1 DEF Holds, Gone
<1>2. CASE ~ \E i \in DOMAIN q : q[i] = Gone
  BY <1>2 DEF Holds, Heeded
<1> QED BY <1>1, <1>2

\* A socket that takes no step of its own: it may be told of others, and its going goes on.
LEMMA FollowedStays ==
  ASSUME CallTypeOK, NEW s \in Sockets, Followed(s), ui'[s].on <=> ui[s].on,
         NEW m \in Messages, m.type \notin Over,
         inbox'[s] = inbox[s] \/ (ui[s].on /\ inbox'[s] = Append(inbox[s], m)),
         s \in Seated' => s \in Seated, s \in Seated /\ s \notin Seated' => Going(s),
         Going(s)' => Going(s), s \in Seated' /\ Going(s) => Going(s)',
         Comes(s, "room")' <=> Comes(s, "room"), Comes(s, "tell")' => Comes(s, "tell"),
         past.revoked \subseteq past'.revoked
  PROVE  Followed(s)'
<1>1. inbox[s] \in Seq(Messages)
  BY CallTypes DEF Boxes
<1>2. /\ Holds(inbox[s], Over)' <=> Holds(inbox[s], Over)
      /\ Holds(inbox[s], Ends)' <=> Holds(inbox[s], Ends)
      /\ Holds(inbox[s], {"revoked"})' <=> Holds(inbox[s], {"revoked"})
  <2>1. CASE inbox'[s] = inbox[s]
    BY <2>1 DEF Holds
  <2>2. CASE inbox'[s] = Append(inbox[s], m)
    <3>1. \A kinds \in {Over, Ends, {"revoked"}} : Holds(inbox'[s], kinds) <=> Holds(inbox[s], kinds)
      BY <1>1, <2>2, AppendHolds DEF Over
    <3> QED BY <3>1
  <2> QED BY <2>1, <2>2
<1>3. ~ui'[s].on => \A i \in DOMAIN inbox'[s] : inbox'[s][i].type = "revoked"
  BY DEF Followed
<1> QED BY <1>2, <1>3 DEF Followed

LEMMA AskJoinFollowed ==
  ASSUME CallTypeOK, FollowInv, NEW s \in Sockets, AskJoin(s) PROVE FollowInv'
<1> SUFFICES ASSUME NEW t \in online' \ past'.hasty PROVE Followed(t)'
  BY DEF FollowInv
<1>1. /\ UNCHANGED <<room, leaving, host, removals, online>> /\ Seated' = Seated
      /\ past'.revoked = past.revoked /\ past.hasty \subseteq past'.hasty
      /\ ui[s].on \/ s \in Movers => s \in past'.hasty
      /\ s \notin past.revoked
      /\ ui' = [ui EXCEPT ![s] = [@ EXCEPT !.on = TRUE]]
  BY AskJoinTyped DEF AskJoin
<1>o. /\ ui'[s].on /\ \A u \in Sockets \ {s} : ui'[u] = ui[u]
  <2>r. PICK r \in Clients : r = ui[s]
    BY CallTypes
  <2>1. ui'[s] = [r EXCEPT !.on = TRUE]
    BY <1>1, <2>r, CallTypes
  <2>2. [r EXCEPT !.on = TRUE].on = TRUE
    BY DEF Clients
  <2>3. ui'[s].on
    BY <2>1, <2>2
  <2>4. \A u \in Sockets \ {s} : ui'[u] = ui[u]
    BY <1>1, CallTypes
  <2> QED BY <2>3, <2>4
<1>2. Followed(t) /\ t \in Sockets /\ (Going(t)' <=> Going(t))
  BY <1>1, CallTypes DEF FollowInv, Going
<1>3. \E x : /\ x.of = s /\ x.at = "room"
             /\ joining' = IF Full THEN joining ELSE joining \cup {x}
  <2>x. PICK x : x = [of |-> s, at |-> "room", saw |-> Seated, nth |-> joins]
    OBVIOUS
  <2>1. x.of = s /\ x.at = "room"
    BY <2>x
  <2>2. joining' = IF Full THEN joining ELSE joining \cup {x}
    BY <2>x DEF AskJoin
  <2> QED BY <2>1, <2>2
<1>4. CASE t # s
  <2>1. inbox'[t] = inbox[t]
    BY <1>2, <1>4, CallTypes DEF AskJoin, Boxes
  <2>2. (Comes(t, "room")' <=> Comes(t, "room")) /\ (Comes(t, "tell")' <=> Comes(t, "tell"))
    BY <1>3, <1>4 DEF Comes
  <2>3. PICK m \in Messages : m.type \notin Over
    <3>1. [type |-> "left", who |-> s] \in Messages /\ [type |-> "left", who |-> s].type \notin Over
      BY DEF Messages, Over, Ends
    <3> QED BY <3>1
  <2> QED BY <1>1, <1>2, <1>4, <1>o, <2>1, <2>2, <2>3, FollowedStays
<1>5. CASE t = s
  <2>1. /\ ~ui[s].on /\ s \notin Movers /\ ~Going(s) /\ s \notin Seated
        /\ ~Comes(s, "room") /\ ~Comes(s, "tell")
    <3>1. ~ui[s].on /\ s \notin Movers
      BY <1>1, <1>5
    <3>2. ~Going(s) /\ ~Comes(s, "room") /\ ~Comes(s, "tell")
      BY <3>1 DEF Movers, Going, Comes, Joiners
    <3>3. s \notin Seated
      BY <1>2, <1>5, <3>1, <3>2 DEF Followed
    <3> QED BY <3>1, <3>2, <3>3
  <2>2. /\ inbox[s] \in Seq(Messages) /\ ~Holds(inbox[s], Over) /\ ~Holds(inbox[s], Ends)
        /\ ~Holds(inbox[s], {"revoked"})
    <3>1. ~Holds(inbox[s], {"revoked"})
      BY <1>1, <1>2, <1>5 DEF Followed
    <3>2. \A i \in DOMAIN inbox[s] : inbox[s][i].type = "revoked"
      BY <1>2, <1>5, <2>1 DEF Followed
    <3> QED BY <3>1, <3>2, CallTypes DEF Boxes, Holds
  <2>3. CASE Full
    <3>a. PICK a : a = [type |-> "refused"]
      OBVIOUS
    <3>1. a \in Messages /\ a.type = "refused" /\ inbox'[s] = Append(inbox[s], a) /\ joining' = joining
      BY <2>3, <3>a, CallTypes DEF AskJoin, Messages, Ends, Boxes
    <3>2. /\ Holds(inbox'[s], Over) /\ ~Holds(inbox'[s], {"revoked"})
      BY <2>2, <3>1, AppendHolds DEF Over, Ends
    <3>3. ~Comes(s, "room")' /\ ~Comes(s, "tell")'
      BY <2>1, <3>1 DEF Comes
    <3> QED BY <1>1, <1>2, <1>5, <1>o, <2>1, <3>2, <3>3 DEF Followed
  <2>4. CASE ~Full
    <3>1. inbox' = inbox
      BY <2>4 DEF AskJoin
    <3>2. Comes(s, "room")' /\ ~Comes(s, "tell")'
      BY <1>3, <2>1, <2>4 DEF Comes
    <3> QED BY <1>1, <1>2, <1>5, <1>o, <2>1, <2>2, <3>1, <3>2 DEF Followed, Holds
  <2> QED BY <2>3, <2>4
<1> QED BY <1>4, <1>5

LEMMA EnterRoomFollowed ==
  ASSUME CallTypeOK, FollowInv, NEW j, EnterRoom(j) PROVE FollowInv'
<1> SUFFICES ASSUME NEW t \in online' \ past'.hasty PROVE Followed(t)'
  BY DEF FollowInv
<1>x. PICK x : x = [j EXCEPT !.at = "tell"]
  OBVIOUS
<1>1. /\ UNCHANGED <<leaving, removals, online, ui, inbox, past>> /\ j \in joining /\ j.at = "room"
      /\ Seated' = Seated \cup ({j.of} \cap online)
      /\ joining' = (joining \ {j}) \cup {x} /\ x.of = j.of /\ x.at = "tell"
  BY <1>x, EnterRoomTyped DEF EnterRoom
<1>2. Followed(t) /\ t \in Sockets /\ (Going(t)' <=> Going(t)) /\ t \in online
  BY <1>1, CallTypes DEF FollowInv, Going
<1>3. CASE t # j.of
  <2>1. (Comes(t, "room")' <=> Comes(t, "room")) /\ (Comes(t, "tell")' <=> Comes(t, "tell"))
    BY <1>1, <1>3 DEF Comes
  <2> QED BY <1>1, <1>2, <1>3, <2>1 DEF Followed, Holds
<1>4. CASE t = j.of
  <2>1. Comes(t, "room") /\ t \in Seated' /\ (Comes(t, "room")' => Comes(t, "room"))
    BY <1>1, <1>2, <1>4 DEF Comes
  <2>2. ui[t].on /\ ~Going(t) /\ ~Holds(inbox[t], Over) /\ ~Holds(inbox[t], Ends)
    BY <1>2, <2>1 DEF Followed, Holds, Over
  <2>3. ~Holds(inbox[t], {"revoked"})
    BY <2>2 DEF Holds, Over
  <2> QED BY <1>1, <1>2, <2>1, <2>2, <2>3 DEF Followed, Holds
<1> QED BY <1>3, <1>4

LEMMA TellRoomFollowed ==
  ASSUME CallTypeOK, FollowInv, NEW j, TellRoom(j) PROVE FollowInv'
<1> SUFFICES ASSUME NEW t \in online' \ past'.hasty PROVE Followed(t)'
  BY DEF FollowInv
<1>h. PICK h : h = IF host = Nobody THEN j.of ELSE host
  OBVIOUS
<1>a. PICK a : a = IF t = j.of THEN [type |-> "ack", who |-> j.saw, host |-> h]
                   ELSE [type |-> "joined", who |-> j.of, host |-> h]
  OBVIOUS
<1>1. /\ UNCHANGED <<leaving, removals, online, ui>> /\ Seated' = Seated /\ h \in Sockets
      /\ joining' = joining \ {j} /\ past'.hasty = past.hasty /\ past'.revoked = past.revoked
      /\ j \in Joinings /\ j \in joining /\ j.at = "tell"
  BY <1>h, TellRoomTyped
<1>2. Followed(t) /\ t \in Sockets /\ (Going(t)' <=> Going(t))
  BY <1>1, CallTypes DEF FollowInv, Going
<1>3. a \in Messages /\ a.type \notin Over
  <2>1. CASE t = j.of
    BY <1>1, <1>a, <2>1 DEF Messages, Joinings, Over, Ends
  <2>2. CASE t # j.of
    BY <1>1, <1>a, <2>2 DEF Messages, Joinings, Over, Ends
  <2> QED BY <2>1, <2>2
<1>4. inbox'[t] = inbox[t] \/ (ui[t].on /\ inbox'[t] = Append(inbox[t], a))
  <2>1. inbox'[t] =
          IF ~(t \in Seated \cup {j.of} /\ t \in online /\ ui[t].on) THEN inbox[t]
          ELSE Append(inbox[t], IF t = j.of THEN [type |-> "ack", who |-> j.saw, host |-> h]
                                ELSE [type |-> "joined", who |-> j.of, host |-> h])
    BY <1>2, <1>h, TellRoomTyped
  <2>2. inbox'[t] = IF ~(t \in Seated \cup {j.of} /\ t \in online /\ ui[t].on) THEN inbox[t]
                    ELSE Append(inbox[t], a)
    BY <2>1, <1>a
  <2> QED BY <2>2
<1>5. (Comes(t, "room")' <=> Comes(t, "room")) /\ (Comes(t, "tell")' => Comes(t, "tell"))
  BY <1>1 DEF Comes
<1> QED BY <1>1, <1>2, <1>3, <1>4, <1>5, FollowedStays

LEMMA LeaveFollowed ==
  ASSUME CallTypeOK, FollowInv, NEW s \in Sockets, Leave(s) PROVE FollowInv'
<1> SUFFICES ASSUME NEW t \in online' \ past'.hasty PROVE Followed(t)'
  BY DEF FollowInv
<1>1. /\ UNCHANGED <<leaving, joining, online>> /\ Seated' = Seated /\ past' = Parting(s)
      /\ removals' = removals \cup Removal(s) /\ ui' = [ui EXCEPT ![s] = NoCall]
      /\ \A u \in Sockets : inbox'[u] = IF u = s THEN Heeded(inbox[u]) ELSE inbox[u]
  BY LeaveTyped
<1>2. /\ past'.revoked = past.revoked /\ past.hasty \subseteq past'.hasty
      /\ s \in Joiners => s \in past'.hasty
  BY <1>1, PartingIs
<1>3. Followed(t) /\ t \in Sockets
  BY <1>1, <1>2, CallTypes DEF FollowInv
<1>4. CASE t # s
  <2>1. Going(t)' <=> Going(t)
    BY <1>1, <1>4 DEF Going, Removal
  <2>2. ui'[t].on = ui[t].on /\ inbox'[t] = inbox[t] /\ Comes(t, "room")' = Comes(t, "room")
        /\ Comes(t, "tell")' = Comes(t, "tell")
    BY <1>1, <1>3, <1>4, CallTypes DEF Comes
  <2> QED BY <1>1, <1>2, <1>3, <2>1, <2>2 DEF Followed, Holds
<1>5. CASE t = s
  <2>1. ~ui'[s].on
    BY <1>1, CallTypes DEF NoCall
  <2>2. ~Comes(s, "room")' /\ ~Comes(s, "tell")'
    BY <1>1, <1>2, <1>5 DEF Comes, Joiners
  <2>r. PICK r : r = [of |-> s, at |-> "out", heir |-> Nobody]
    OBVIOUS
  <2>3. s \in Seated => Going(s)'
    <3>1. r.of = s /\ r.at = "out"
      BY <2>r
    <3>2. s \in Seated => r \in removals'
      BY <1>1, <2>r DEF Removal
    <3> QED BY <3>1, <3>2 DEF Going
  <2>4. inbox[s] \in Seq(Messages) /\ inbox'[s] = Heeded(inbox[s])
    BY <1>1, CallTypes DEF Boxes
  <2>5. /\ \A i \in DOMAIN inbox'[s] : inbox'[s][i].type = "revoked"
        /\ Holds(inbox'[s], {"revoked"}) => Holds(inbox[s], {"revoked"})
    BY <2>4, HeededIs, HeededHolds DEF Gone
  <2>6. Holds(inbox'[s], {"revoked"}) => s \in past'.revoked
    BY <1>2, <1>3, <1>5, <2>5 DEF Followed
  <2> QED BY <1>1, <1>5, <2>1, <2>2, <2>3, <2>5, <2>6 DEF Followed
<1> QED BY <1>4, <1>5

LEMMA DisconnectFollowed ==
  ASSUME CallTypeOK, FollowInv, NEW s \in Sockets, Disconnect(s) PROVE FollowInv'
<1> SUFFICES ASSUME NEW t \in online' \ past'.hasty PROVE Followed(t)'
  BY DEF FollowInv
<1>1. /\ UNCHANGED joining /\ Seated' = Seated \ {s} /\ past' = Parting(s)
      /\ removals' = removals \cup Removal(s) /\ ui' = [ui EXCEPT ![s] = NoCall]
      /\ online' = online \ {s} /\ leaving' = leaving \ {s}
      /\ \A u \in Sockets : inbox'[u] = IF u = s THEN <<>> ELSE inbox[u]
  BY DisconnectTyped
<1>2. past'.revoked = past.revoked /\ past.hasty \subseteq past'.hasty
  BY <1>1, PartingIs
<1>3. Followed(t) /\ t \in Sockets /\ t # s
  BY <1>1, <1>2, CallTypes DEF FollowInv
<1>4. Going(t)' <=> Going(t)
  BY <1>1, <1>3 DEF Going, Removal
<1>5. ui'[t].on = ui[t].on /\ inbox'[t] = inbox[t] /\ Comes(t, "room")' = Comes(t, "room")
      /\ Comes(t, "tell")' = Comes(t, "tell") /\ (t \in Seated' <=> t \in Seated)
  BY <1>1, <1>3, CallTypes DEF Comes
<1> QED BY <1>1, <1>2, <1>3, <1>4, <1>5 DEF Followed, Holds

LEMMA PutOutFollowed ==
  ASSUME CallTypeOK, FollowInv, NEW r, PutOut(r) PROVE FollowInv'
<1> SUFFICES ASSUME NEW t \in online' \ past'.hasty PROVE Followed(t)'
  BY DEF FollowInv
<1>a. PICK a : a = [type |-> "left", who |-> r.of]
  OBVIOUS
<1>1. /\ UNCHANGED <<joining, online, ui, past>> /\ Seated' = Seated
      /\ r \in Removing /\ r \in removals /\ r.at = "out"
      /\ leaving' = IF r.of \in Seated THEN leaving \cup {r.of} ELSE leaving
      /\ \A x \in removals' : (x \in removals /\ x # r) \/ (x.at = "heir" /\ x.of = r.of)
      /\ \A x \in removals : x \in removals' \/ x = r
  BY PutOutTyped
<1>2. Followed(t) /\ t \in Sockets
  BY <1>1, CallTypes DEF FollowInv
<1>3. a \in Messages /\ a.type \notin Over
  BY <1>1, <1>a DEF Messages, Removing, Over, Ends
<1>4. inbox'[t] = inbox[t] \/ (ui[t].on /\ inbox'[t] = Append(inbox[t], a))
  BY <1>2, <1>a, PutOutTyped
<1>5. Going(t)' => Going(t)
  BY <1>1 DEF Going
<1>6. t \in Seated' /\ Going(t) => Going(t)'
  BY <1>1 DEF Going
<1>7. Comes(t, "room")' = Comes(t, "room") /\ Comes(t, "tell")' = Comes(t, "tell")
  BY <1>1 DEF Comes
<1> QED BY <1>1, <1>2, <1>3, <1>4, <1>5, <1>6, <1>7, FollowedStays

LEMMA HandOverFollowed ==
  ASSUME CallTypeOK, FollowInv, NEW r, HandOver(r) PROVE FollowInv'
<1> SUFFICES ASSUME NEW t \in online' \ past'.hasty PROVE Followed(t)'
  BY DEF FollowInv
<1>a. PICK a : a = [type |-> "host", host |-> r.heir]
  OBVIOUS
<1>1. /\ UNCHANGED <<leaving, joining, online, ui>> /\ Seated' = Seated
      /\ r \in Removing /\ r.at = "heir" /\ removals' = removals \ {r}
      /\ past'.hasty = past.hasty /\ past'.revoked = past.revoked
  BY HandOverTyped
<1>2. Followed(t) /\ t \in Sockets
  BY <1>1, CallTypes DEF FollowInv
<1>3. a \in Messages /\ a.type \notin Over
  BY <1>1, <1>a DEF Messages, Removing, Hosts, Over, Ends
<1>4. inbox'[t] = inbox[t] \/ (ui[t].on /\ inbox'[t] = Append(inbox[t], a))
  BY <1>2, <1>a, HandOverTyped
<1>5. Going(t)' <=> Going(t)
  BY <1>1 DEF Going
<1>6. Comes(t, "room")' = Comes(t, "room") /\ Comes(t, "tell")' = Comes(t, "tell")
  BY <1>1 DEF Comes
<1> QED BY <1>1, <1>2, <1>3, <1>4, <1>5, <1>6, FollowedStays

LEMMA LeaveRoomFollowed ==
  ASSUME CallTypeOK, FollowInv, NEW s \in Sockets, LeaveRoom(s) PROVE FollowInv'
<1> SUFFICES ASSUME NEW t \in online' \ past'.hasty PROVE Followed(t)'
  BY DEF FollowInv
<1>1. /\ UNCHANGED <<joining, removals, online, ui, inbox>> /\ Seated' = Seated \ {s}
      /\ leaving' = leaving \ {s} /\ s \in leaving
  BY LeaveRoomTyped
<1>2. past'.revoked = past.revoked /\ past.hasty \subseteq past'.hasty
  BY LeaveRoomTyped
<1>3. Followed(t) /\ t \in Sockets
  BY <1>1, <1>2, CallTypes DEF FollowInv
<1>4. PICK m \in Messages : m.type \notin Over
  <2>1. [type |-> "left", who |-> s] \in Messages /\ [type |-> "left", who |-> s].type \notin Over
    BY DEF Messages, Over, Ends
  <2> QED BY <2>1
<1>5. (Going(t)' => Going(t)) /\ (t \in Seated' /\ Going(t) => Going(t)')
      /\ (t \in Seated /\ t \notin Seated' => Going(t))
  BY <1>1 DEF Going
<1>6. Comes(t, "room")' = Comes(t, "room") /\ Comes(t, "tell")' = Comes(t, "tell")
  BY <1>1 DEF Comes
<1>7. inbox'[t] = inbox[t] /\ (ui'[t].on <=> ui[t].on) /\ (t \in Seated' => t \in Seated)
  BY <1>1
<1> QED BY <1>2, <1>3, <1>4, <1>5, <1>6, <1>7, FollowedStays

LEMMA RevokeFollowed ==
  ASSUME CallTypeOK, FollowInv, NEW s \in Sockets, Revoke(s) PROVE FollowInv'
<1> SUFFICES ASSUME NEW t \in online' \ past'.hasty PROVE Followed(t)'
  BY DEF FollowInv
<1>1. /\ UNCHANGED <<joining, removals, online, ui>> /\ Seated' = Seated
      /\ leaving' = IF s \in Seated THEN leaving \cup {s} ELSE leaving
      /\ past'.revoked = past.revoked \cup {s} /\ past.hasty \subseteq past'.hasty
      /\ s \in Joiners => s \in past'.hasty
      /\ \A u \in Sockets : inbox'[u] = IF u = s THEN Append(inbox[u], Gone) ELSE inbox[u]
  BY RevokeTyped
<1>2. Followed(t) /\ t \in Sockets /\ inbox[t] \in Seq(Messages)
  BY <1>1, CallTypes DEF FollowInv, Boxes
<1>3. Comes(t, "room")' = Comes(t, "room") /\ Comes(t, "tell")' = Comes(t, "tell")
  BY <1>1 DEF Comes
<1>4. CASE t # s
  <2>1. Going(t)' <=> Going(t)
    BY <1>1, <1>4 DEF Going
  <2>2. inbox'[t] = inbox[t]
    BY <1>1, <1>2, <1>4
  <2> QED BY <1>1, <1>2, <1>3, <2>1, <2>2 DEF Followed, Holds
<1>5. CASE t = s
  <2>1. ~Comes(s, "room") /\ ~Comes(s, "tell")
    BY <1>1, <1>5 DEF Comes, Joiners
  <2>2. (Going(s) => Going(s)') /\ (s \in Seated => Going(s)')
    BY <1>1 DEF Going
  <2>3. Gone \in Messages /\ Gone.type = "revoked" /\ inbox'[s] = Append(inbox[s], Gone)
    BY <1>1 DEF Gone, Messages
  <2>4. Holds(inbox'[s], Over)
    BY <1>2, <1>5, <2>3, AppendHolds DEF Over
  <2>5. ~ui'[s].on => \A i \in DOMAIN inbox'[s] : inbox'[s][i].type = "revoked"
    <3>1. ~ui'[s].on => \A i \in DOMAIN inbox[s] : inbox[s][i].type = "revoked"
      BY <1>1, <1>2, <1>5 DEF Followed
    <3>2. \A i \in DOMAIN inbox'[s] : (i \in DOMAIN inbox[s] /\ inbox'[s][i] = inbox[s][i])
                                      \/ inbox'[s][i] = Gone
      BY <1>2, <1>5, <2>3, AppendProperties
    <3> QED BY <2>3, <3>1, <3>2
  <2> QED BY <1>1, <1>2, <1>3, <1>5, <2>1, <2>2, <2>4, <2>5 DEF Followed
<1> QED BY <1>4, <1>5

\* A client that is told that the call is over, when its socket begins to go.
LEMMA FollowedEnds ==
  ASSUME CallTypeOK, NEW s \in Sockets, Followed(s), ui' = ui, NEW m \in Messages, m.type \in Ends,
         inbox'[s] = IF ui[s].on THEN Append(inbox[s], m) ELSE inbox[s], Seated' = Seated,
         Going(s)', ~Comes(s, "room")', ~Comes(s, "tell")', past.revoked \subseteq past'.revoked
  PROVE  Followed(s)'
<1>1. inbox[s] \in Seq(Messages)
  BY CallTypes DEF Boxes
<1>2. ui[s].on => Holds(inbox'[s], Over)
  BY <1>1, AppendHolds DEF Over
<1>3. Holds(inbox'[s], {"revoked"}) <=> Holds(inbox[s], {"revoked"})
  <2>1. m.type \notin {"revoked"}
    BY DEF Ends
  <2>2. CASE ui[s].on
    BY <1>1, <2>1, <2>2, AppendHolds
  <2>3. CASE ~ui[s].on
    BY <2>3 DEF Holds
  <2> QED BY <2>2, <2>3
<1> QED BY <1>2, <1>3 DEF Followed

LEMMA RemoveFollowed ==
  ASSUME CallTypeOK, FollowInv, NEW s \in Sockets, NEW u \in Sockets, RemoveParticipant(s, u)
  PROVE  FollowInv'
<1> SUFFICES ASSUME NEW t \in online' \ past'.hasty PROVE Followed(t)'
  BY DEF FollowInv
<1>1. /\ UNCHANGED <<leaving, joining, online, ui>> /\ Seated' = Seated /\ u \in Seated
      /\ u \notin Movers /\ past' = Parting(u) /\ removals' = removals \cup Removal(u)
      /\ \A v \in Sockets : inbox'[v] =
           IF v = u /\ v \in online /\ ui[v].on
           THEN Append(inbox[v], [type |-> "removed"]) ELSE inbox[v]
  BY RemoveTyped
<1>2. past'.revoked = past.revoked /\ past.hasty \subseteq past'.hasty
  BY <1>1, PartingIs
<1>3. Followed(t) /\ t \in Sockets /\ t \in online
  BY <1>1, <1>2, CallTypes DEF FollowInv
<1>4. Comes(t, "room")' = Comes(t, "room") /\ Comes(t, "tell")' = Comes(t, "tell")
  BY <1>1 DEF Comes
<1>5. CASE t # u
  <2>1. Going(t)' <=> Going(t)
    BY <1>1, <1>5 DEF Going, Removal
  <2>2. inbox'[t] = inbox[t]
    BY <1>1, <1>3, <1>5
  <2> QED BY <1>1, <1>2, <1>3, <1>4, <2>1, <2>2 DEF Followed, Holds
<1>6. CASE t = u
  <2>a. PICK a : a = [type |-> "removed"]
    OBVIOUS
  <2>r. PICK r : r = [of |-> t, at |-> "out", heir |-> Nobody]
    OBVIOUS
  <2>1. r.of = t /\ r.at = "out" /\ r \in removals'
    BY <1>1, <1>6, <2>r DEF Removal
  <2>2. Going(t)'
    BY <2>1 DEF Going
  <2>3. ~Comes(t, "room") /\ ~Comes(t, "tell")
    BY <1>1, <1>6 DEF Comes, Movers, Joiners
  <2>4. a \in Messages /\ a.type \in Ends
    BY <2>a DEF Messages, Ends
  <2>5. inbox'[t] = IF ui[t].on THEN Append(inbox[t], a) ELSE inbox[t]
    BY <1>1, <1>3, <1>6, <2>a
  <2> QED BY <1>1, <1>2, <1>3, <1>4, <2>2, <2>3, <2>4, <2>5, FollowedEnds
<1> QED BY <1>5, <1>6

LEMMA EndCallFollowed ==
  ASSUME CallTypeOK, FollowInv, NEW s \in Sockets, EndCall(s) PROVE FollowInv'
<1> SUFFICES ASSUME NEW t \in online' \ past'.hasty PROVE Followed(t)'
  BY DEF FollowInv
<1>1. /\ UNCHANGED <<leaving, joining, online, ui>> /\ Seated' = Seated
      /\ removals \subseteq removals'
      /\ \A r \in removals' \ removals : r.at = "end" /\ r.of \in Seated
      /\ \A u \in Seated : \E r \in removals' : r.of = u /\ r.at = "end"
      /\ past'.hasty = past.hasty \cup Joiners /\ past'.revoked = past.revoked
      /\ \A u \in Sockets : inbox'[u] =
           IF u \in Seated \cap online /\ ui[u].on
           THEN Append(inbox[u], [type |-> "ended"]) ELSE inbox[u]
  BY EndCallTyped
<1>2. Followed(t) /\ t \in Sockets /\ leaving \subseteq Seated /\ Seated \subseteq online
  BY <1>1, CallTypes DEF FollowInv
<1>3. Comes(t, "room")' = Comes(t, "room") /\ Comes(t, "tell")' = Comes(t, "tell")
  BY <1>1 DEF Comes
<1>4. ~Comes(t, "room") /\ ~Comes(t, "tell")
  BY <1>1 DEF Comes, Joiners
<1>5. CASE t \notin Seated
  <2>1. Going(t)' <=> Going(t)
    BY <1>1, <1>2, <1>5 DEF Going
  <2>2. inbox'[t] = inbox[t]
    BY <1>1, <1>2, <1>5
  <2> QED BY <1>1, <1>2, <1>3, <2>1, <2>2 DEF Followed, Holds
<1>6. CASE t \in Seated
  <2>a. PICK a : a = [type |-> "ended"]
    OBVIOUS
  <2>1. Going(t)'
    BY <1>1, <1>6 DEF Going
  <2>2. a \in Messages /\ a.type \in Ends
    BY <2>a DEF Messages, Ends
  <2>3. inbox'[t] = IF ui[t].on THEN Append(inbox[t], a) ELSE inbox[t]
    BY <1>1, <1>2, <1>6, <2>a
  <2> QED BY <1>1, <1>2, <1>3, <1>4, <2>1, <2>2, <2>3, FollowedEnds
<1> QED BY <1>5, <1>6

LEMMA EndRoomFollowed ==
  ASSUME CallTypeOK, FollowInv, EndRoom PROVE FollowInv'
<1> SUFFICES ASSUME NEW t \in online' \ past'.hasty PROVE Followed(t)'
  BY DEF FollowInv
<1>1. /\ UNCHANGED <<joining, online, ui, inbox>> /\ Seated' = Seated /\ leaving' = Seated
      /\ removals' \subseteq removals /\ past'.revoked = past.revoked
      /\ \A r \in removals : r.at # "end" => r \in removals'
      /\ past.hasty \subseteq past'.hasty /\ \A u \in Seated : Ended(u) \/ u \in past'.hasty
  BY EndRoomTyped
<1>2. Followed(t) /\ t \in Sockets /\ leaving \subseteq Seated
  BY <1>1, CallTypes DEF FollowInv
<1>3. t \in Seated => Going(t) /\ Going(t)'
  BY <1>1 DEF Ended, Going
<1>4. t \notin Seated => (Going(t)' => Going(t))
  BY <1>1 DEF Going
<1>5. Comes(t, "room")' = Comes(t, "room") /\ Comes(t, "tell")' = Comes(t, "tell")
  BY <1>1 DEF Comes
<1> QED BY <1>1, <1>2, <1>3, <1>4, <1>5 DEF Followed, Holds

LEMMA HandleFollowed ==
  ASSUME CallTypeOK, FollowInv, NEW s \in Sockets, Handle(s) PROVE FollowInv'
<1> SUFFICES ASSUME NEW t \in online' \ past'.hasty PROVE Followed(t)'
  BY DEF FollowInv
<1>m. PICK m : m = Head(inbox[s])
  OBVIOUS
<1>1. /\ Seated' = Seated /\ m \in Messages /\ m.type # "revoked" /\ inbox[s] # <<>>
      /\ UNCHANGED <<leaving, joining, removals, online>>
      /\ past'.hasty = past.hasty /\ past'.revoked = past.revoked
      /\ \A u \in Sockets : ui'[u] = IF u = s THEN Shown(ui[s], m) ELSE ui[u]
  BY <1>m, HandleTyped DEF server
<1>b. PICK b : b = IF ui'[s].on THEN Tail(inbox[s]) ELSE Heeded(inbox[s])
  OBVIOUS
<1>p. PICK f \in SUBSET Sockets, a \in Messages : Answered(s, m, f, a)
  BY <1>m, HandleTyped
<1>2. /\ a.type = "offer" /\ a \in Messages
      /\ f # {} => m.type \notin Ends /\ ui[s].on
      /\ \A u \in Sockets : u \in f => ui[u].on
      /\ \A u \in Sockets \ f : inbox'[u] = IF u # s THEN inbox[u] ELSE b
      /\ \A u \in f : inbox'[u] = Append(IF u # s THEN inbox[u] ELSE b, a)
  <2>1. \A u \in Sockets \ f : inbox'[u] = IF u # s THEN inbox[u] ELSE b
    BY <1>p, <1>b DEF Answered
  <2>2. \A u \in f : inbox'[u] = Append(IF u # s THEN inbox[u] ELSE b, a)
    BY <1>p, <1>b DEF Answered
  <2> QED BY <1>p, <2>1, <2>2 DEF Answered, Ends
<1>3. Followed(t) /\ t \in Sockets
  BY <1>1, CallTypes DEF FollowInv
<1>4. /\ Comes(t, "room")' = Comes(t, "room") /\ Comes(t, "tell")' = Comes(t, "tell")
      /\ Going(t)' = Going(t)
  BY <1>1 DEF Comes, Going
<1>5. a.type \notin Over
  BY <1>2 DEF Over, Ends
<1>6. CASE t # s
  <2>1. inbox'[t] = inbox[t] \/ (ui[t].on /\ inbox'[t] = Append(inbox[t], a))
    BY <1>2, <1>3, <1>6
  <2> QED BY <1>1, <1>3, <1>4, <1>5, <1>6, <2>1, FollowedStays
<1>7. CASE t = s
  <2>1. /\ inbox[s] \in Seq(Messages) /\ ui[s] \in Clients
    BY CallTypes DEF Boxes
  <2>2. \A k : Holds(inbox[s], k) <=> m.type \in k \/ Holds(Tail(inbox[s]), k)
    BY <1>1, <1>m, <2>1, TailHolds
  <2>3. ui[s].on
    <3>1. m = inbox[s][1] /\ 1 \in DOMAIN inbox[s]
      BY <1>1, <1>m, <2>1
    <3> QED BY <1>1, <1>3, <1>7, <3>1 DEF Followed
  <2>4. CASE m.type \in Ends
    <3>1. ui'[s] = NoCall /\ ~ui'[s].on
      <4>1. ui'[s] = NoCall
        BY <1>1, <2>1, <2>4, ShownIs
      <4> QED BY <4>1 DEF NoCall
    <3>2. inbox'[s] = Heeded(inbox[s])
      BY <1>2, <1>b, <2>4, <3>1
    <3>3. /\ \A i \in DOMAIN inbox'[s] : inbox'[s][i].type = "revoked"
          /\ Holds(inbox'[s], {"revoked"}) => Holds(inbox[s], {"revoked"})
      BY <2>1, <3>2, HeededIs, HeededHolds DEF Gone
    <3>4. Holds(inbox[s], Over) /\ Holds(inbox[s], Ends)
      BY <2>2, <2>4 DEF Over
    <3>5. ~Comes(s, "room") /\ ~Comes(s, "tell") /\ (s \in Seated => Going(s))
      BY <1>3, <1>7, <3>4 DEF Followed
    <3>6. Holds(inbox'[s], {"revoked"}) => s \in past'.revoked
      BY <1>1, <1>3, <1>7, <3>3 DEF Followed
    <3> QED BY <1>1, <1>4, <1>7, <3>1, <3>3, <3>5, <3>6 DEF Followed
  <2>5. CASE m.type \notin Ends
    <3>1. ui'[s].on /\ m.type \notin Over
      BY <1>1, <2>1, <2>3, <2>5, ShownIs DEF Over
    <3>2. b = Tail(inbox[s]) /\ b \in Seq(Messages)
      BY <1>1, <1>b, <2>1, <3>1, HeadTailProperties
    <3>3. \A k \in {Over, Ends, {"revoked"}} : Holds(inbox'[s], k) <=> Holds(b, k)
      <4>1. CASE s \in f
        <5>1. inbox'[s] = Append(b, a) /\ a \in Messages
          BY <1>2, <4>1
        <5>2. \A k : Holds(Append(b, a), k) <=> Holds(b, k) \/ a.type \in k
          BY <3>2, <5>1, AppendHolds
        <5>3. \A k \in {Over, Ends, {"revoked"}} : a.type \notin k
          BY <1>2, <1>5 DEF Over
        <5> QED BY <5>1, <5>2, <5>3 DEF Holds
      <4>2. CASE s \notin f
        BY <1>2, <4>2
      <4> QED BY <4>1, <4>2
    <3>4. \A k \in {Over, Ends, {"revoked"}} : Holds(b, k) <=> Holds(inbox[s], k)
      BY <1>1, <2>2, <2>5, <3>1, <3>2
    <3>5. /\ Holds(inbox[s], Over)' <=> Holds(inbox[s], Over)
          /\ Holds(inbox[s], Ends)' <=> Holds(inbox[s], Ends)
          /\ Holds(inbox[s], {"revoked"})' <=> Holds(inbox[s], {"revoked"})
      BY <3>3, <3>4
    <3> QED BY <1>1, <1>3, <1>4, <1>7, <2>3, <3>1, <3>5 DEF Followed
  <2> QED BY <2>4, <2>5
<1> QED BY <1>6, <1>7

LEMMA FollowNext == CallTypeOK /\ FollowInv /\ [CallNext]_callVars => FollowInv'
<1> SUFFICES ASSUME CallTypeOK, FollowInv, [CallNext]_callVars PROVE FollowInv'
  OBVIOUS
<1>1. CASE UNCHANGED callVars
  <2>1. UNCHANGED <<room, leaving, joining, removals, online, ui, inbox, past>> /\ Seated' = Seated
    BY <1>1 DEF callVars, Seated
  <2> QED BY <2>1 DEF FollowInv, Followed, Holds, Going, Comes
<1>2. ASSUME NEW s \in Sockets,
             AskJoin(s) \/ Leave(s) \/ Disconnect(s) \/ LeaveRoom(s) \/ Revoke(s)
             \/ EndCall(s) \/ Handle(s) \/ HandleRevoked(s)
      PROVE  FollowInv'
  BY <1>2, AskJoinFollowed, LeaveFollowed, DisconnectFollowed, LeaveRoomFollowed, RevokeFollowed,
     EndCallFollowed, HandleFollowed DEF HandleRevoked
<1>3. ASSUME NEW s \in Sockets, NEW t \in Sockets, RemoveParticipant(s, t) PROVE FollowInv'
  BY <1>3, RemoveFollowed
<1>4. ASSUME NEW j \in joining, EnterRoom(j) \/ TellRoom(j) PROVE FollowInv'
  BY <1>4, EnterRoomFollowed, TellRoomFollowed
<1>5. ASSUME NEW r \in removals, PutOut(r) \/ HandOver(r) PROVE FollowInv'
  BY <1>5, PutOutFollowed, HandOverFollowed
<1>6. CASE EndRoom
  BY <1>6, EndRoomFollowed
<1> QED BY <1>1, <1>2, <1>3, <1>4, <1>5, <1>6 DEF CallNext

LEMMA FollowAlways == CallSpec => []FollowInv
<1>1. CallInit => FollowInv
  <2> SUFFICES ASSUME CallInit, NEW s \in Sockets PROVE Followed(s)
    BY DEF CallInit, FollowInv
  <2>1. /\ ui[s] = NoCall /\ inbox[s] = <<>> /\ Seated = {} /\ joining = {}
    BY DEF CallInit, Seated, ToSet
  <2> QED BY <2>1 DEF Followed, Holds, Comes, NoCall
<1> QED BY <1>1, FollowNext, CallTyped, PTL DEF CallSpec

\* In every call, whoever joins, leaves, loses the connection, is removed or has the call ended:
\* once nothing is on its way, a seat is held by a client with a call, and a client with a call
\* has a seat, save for those that left or joined once more while their join was under way, or
\* came while the call was being ended.
THEOREM SeatsAreHeld == CallSpec => []SeatsAreUsed
<1>1. CallTypeOK /\ FollowInv => SeatsAreUsed
  <2> SUFFICES ASSUME CallTypeOK, FollowInv, Quiet, NEW s \in online \ past.hasty
               PROVE  s \in Seated <=> ui[s].on
    BY DEF SeatsAreUsed
  <2>1. Followed(s) /\ s \in Sockets
    BY CallTypes DEF FollowInv
  <2>2. ~Going(s) /\ ~Comes(s, "room") /\ ~Holds(inbox[s], Over)
    BY <2>1 DEF Quiet, Going, Comes, Holds
  <2> QED BY <2>1, <2>2 DEF Followed
<1> QED BY <1>1, FollowAlways, CallTyped, PTL

-----------------------------------------------------------------------------
(* The host *)

\* The messages that name the host, and the host that a client will show when it has read what
\* it was sent.
Bearing == {"joined", "ack", "host"}
Reads(msgs, shown, h) ==
  \/ ~Holds(msgs, Bearing) /\ shown = h
  \/ \E i \in DOMAIN msgs : /\ msgs[i].type \in Bearing /\ msgs[i].host = h
                            /\ \A k \in DOMAIN msgs : k > i => msgs[k].type \notin Bearing

\* A client that has come and is not on its way out shows the host or is going to.
Settled(s) == s \in Seated /\ ~Going(s) /\ s \notin Joiners
Told(s) == Settled(s) => Reads(inbox[s], ui[s].host, host)
HostShown == \A s \in Sockets \ past.hasty : Told(s)

-----------------------------------------------------------------------------
LEMMA AppendReads ==
  ASSUME NEW q \in Seq(Messages), NEW m \in Messages, NEW shown, NEW h
  PROVE  /\ m.type \in Bearing /\ m.host = h => Reads(Append(q, m), shown, h)
         /\ m.type \notin Bearing /\ Reads(q, shown, h) => Reads(Append(q, m), shown, h)
<1>x. PICK x : x = Append(q, m)
  OBVIOUS
<1>1. /\ Len(q) \in Nat /\ DOMAIN q = 1..Len(q) /\ DOMAIN x = 1..(Len(q) + 1)
      /\ \A i \in DOMAIN q : x[i] = q[i]
      /\ x[Len(q) + 1] = m
  BY <1>x, AppendProperties
<1>2. ASSUME m.type \in Bearing, m.host = h PROVE Reads(x, shown, h)
  <2>1. /\ Len(q) + 1 \in DOMAIN x
        /\ \A k \in DOMAIN x : ~(k > Len(q) + 1)
    BY <1>1
  <2> QED BY <1>1, <1>2, <2>1 DEF Reads
<1>3. ASSUME m.type \notin Bearing, Reads(q, shown, h) PROVE Reads(x, shown, h)
  <2>1. CASE ~Holds(q, Bearing) /\ shown = h
    BY <1>1, <1>3, <2>1 DEF Reads, Holds
  <2>2. ASSUME NEW i \in DOMAIN q, q[i].type \in Bearing, q[i].host = h,
               \A k \in DOMAIN q : k > i => q[k].type \notin Bearing
        PROVE  Reads(x, shown, h)
    <3>1. i \in DOMAIN x /\ x[i] = q[i]
      BY <1>1
    <3>2. \A k \in DOMAIN x : k > i => x[k].type \notin Bearing
      BY <1>1, <1>3, <2>2
    <3> QED BY <2>2, <3>1, <3>2 DEF Reads
  <2> QED BY <1>3, <2>1, <2>2 DEF Reads
<1> QED BY <1>2, <1>3, <1>x

LEMMA TailReads ==
  ASSUME NEW q \in Seq(Messages), q # <<>>, NEW shown, NEW h, Reads(q, shown, h),
         NEW now, now = IF Head(q).type \in Bearing THEN Head(q).host ELSE shown
  PROVE  Reads(Tail(q), now, h)
<1>x. PICK x : x = Tail(q)
  OBVIOUS
<1>1. /\ Len(q) \in Nat /\ DOMAIN q = 1..Len(q) /\ DOMAIN x = 1..(Len(q) - 1) /\ Head(q) = q[1]
      /\ 1 \in DOMAIN q
      /\ \A i \in DOMAIN x : x[i] = q[i + 1]
  BY <1>x, HeadTailProperties
<1>2. CASE ~Holds(q, Bearing) /\ shown = h
  <2>1. \A i \in DOMAIN q : q[i].type \notin Bearing
    BY <1>2 DEF Holds
  <2>2. now = h
    BY <1>1, <1>2, <2>1
  <2>3. \A i \in DOMAIN x : x[i].type \notin Bearing
    BY <1>1, <2>1
  <2> QED BY <1>x, <2>2, <2>3 DEF Reads, Holds
<1>3. ASSUME NEW i \in DOMAIN q, q[i].type \in Bearing, q[i].host = h,
             \A k \in DOMAIN q : k > i => q[k].type \notin Bearing
      PROVE  Reads(x, now, h)
  <2>1. CASE i = 1
    <3>1. now = h
      BY <1>1, <1>3, <2>1
    <3>2. \A k \in DOMAIN x : k + 1 \in DOMAIN q /\ k + 1 > i /\ x[k] = q[k + 1]
      BY <1>1, <2>1
    <3>3. \A k \in DOMAIN x : x[k].type \notin Bearing
      BY <1>3, <3>2
    <3> QED BY <3>1, <3>3 DEF Reads, Holds
  <2>2. CASE i # 1
    <3>1. i - 1 \in DOMAIN x /\ x[i - 1] = q[i]
      BY <1>1, <2>2
    <3>2. \A k \in DOMAIN x : k > i - 1 => k + 1 \in DOMAIN q /\ k + 1 > i /\ x[k] = q[k + 1]
      BY <1>1
    <3>3. \A k \in DOMAIN x : k > i - 1 => x[k].type \notin Bearing
      BY <1>3, <3>2
    <3> QED BY <1>3, <3>1, <3>3 DEF Reads
  <2> QED BY <2>1, <2>2
<1> QED BY <1>x, <1>2, <1>3 DEF Reads

\* A step that does not change who the host is, for a client that it brings no news of the host.
LEMMA ToldStays ==
  ASSUME CallTypeOK, NEW s \in Sockets, Told(s), Settled(s)' => Settled(s),
         Settled(s)' => host' = host /\ ui'[s].host = ui[s].host,
         NEW m \in Messages, m.type \notin Bearing,
         Settled(s)' => inbox'[s] = inbox[s] \/ inbox'[s] = Append(inbox[s], m)
  PROVE  Told(s)'
<1> SUFFICES ASSUME Settled(s)' PROVE Reads(inbox'[s], ui'[s].host, host')
  BY DEF Told, Reads, Holds
<1>1. inbox[s] \in Seq(Messages) /\ Reads(inbox[s], ui[s].host, host)
  BY CallTypes DEF Told, Boxes
<1>2. Reads(Append(inbox[s], m), ui[s].host, host)
  BY <1>1, AppendReads
<1> QED BY <1>1, <1>2

\* A step that tells a client with a call of the host.
LEMMA ToldNew ==
  ASSUME CallTypeOK, NEW s \in Sockets, NEW m \in Messages, m.type \in Bearing, m.host = host',
         Settled(s)' => inbox'[s] = Append(inbox[s], m)
  PROVE  Told(s)'
<1> SUFFICES ASSUME Settled(s)' PROVE Reads(inbox'[s], ui'[s].host, host')
  BY DEF Told, Reads, Holds
<1>1. inbox[s] \in Seq(Messages)
  BY CallTypes DEF Boxes
<1> QED BY <1>1, AppendReads

LEMMA SettledOn ==
  ASSUME CallTypeOK, FollowInv, NEW s \in Sockets \ past.hasty, Settled(s)
  PROVE  ui[s].on /\ ~Holds(inbox[s], Ends) /\ s \in online
BY CallTypes DEF Settled, FollowInv, Followed

LEMMA PlainMessage == \E m \in Messages : m.type \notin Bearing
<1>m. PICK m : m = Gone
  OBVIOUS
<1>1. m \in Messages /\ m.type = "revoked"
  BY <1>m DEF Gone, Messages
<1> QED BY <1>1 DEF Bearing

LEMMA AskJoinTold ==
  ASSUME CallTypeOK, FollowInv, HostShown, NEW s \in Sockets, AskJoin(s) PROVE HostShown'
<1> SUFFICES ASSUME NEW t \in Sockets \ past'.hasty PROVE Told(t)'
  BY DEF HostShown
<1>1. /\ UNCHANGED <<leaving, removals, online, host>> /\ Seated' = Seated
      /\ past.hasty \subseteq past'.hasty /\ joining \subseteq joining'
      /\ ui[s].on \/ s \in Movers => s \in past'.hasty
      /\ ui' = [ui EXCEPT ![s] = [@ EXCEPT !.on = TRUE]]
  BY AskJoinTyped DEF AskJoin
<1>2. Told(t) /\ (Going(t)' <=> Going(t)) /\ (t \in Joiners => t \in Joiners')
  BY <1>1 DEF HostShown, Going, Joiners
<1>3. PICK m \in Messages : m.type \notin Bearing
  BY PlainMessage
<1>4. Settled(t)' => Settled(t)
  BY <1>1, <1>2 DEF Settled
<1>5. CASE t # s
  <2>1. inbox'[t] = inbox[t] /\ ui'[t] = ui[t]
    BY <1>1, <1>5, CallTypes DEF AskJoin, Boxes
  <2> QED BY <1>1, <1>2, <1>3, <1>4, <2>1, ToldStays
<1>6. CASE t = s
  <2>1. ~Settled(t)
    BY <1>1, <1>6, SettledOn
  <2> QED BY <1>4, <2>1 DEF Told
<1> QED BY <1>5, <1>6

LEMMA EnterRoomTold ==
  ASSUME CallTypeOK, HostShown, NEW j, EnterRoom(j) PROVE HostShown'
<1> SUFFICES ASSUME NEW t \in Sockets \ past'.hasty PROVE Told(t)'
  BY DEF HostShown
<1>x. PICK x : x = [j EXCEPT !.at = "tell"]
  OBVIOUS
<1>1. /\ UNCHANGED <<leaving, removals, online, ui, inbox, host, past>> /\ j \in joining
      /\ Seated' = Seated \cup ({j.of} \cap online)
      /\ joining' = (joining \ {j}) \cup {x} /\ x.of = j.of
  BY <1>x, EnterRoomTyped DEF EnterRoom
<1>2. Told(t) /\ (Going(t)' <=> Going(t)) /\ (t \in Joiners <=> t \in Joiners') /\ j.of \in Joiners
  BY <1>1 DEF HostShown, Going, Joiners
<1>3. PICK m \in Messages : m.type \notin Bearing
  BY PlainMessage
<1>4. Settled(t)' => Settled(t)
  BY <1>1, <1>2 DEF Settled
<1> QED BY <1>1, <1>2, <1>3, <1>4, ToldStays

LEMMA TellRoomTold ==
  ASSUME CallTypeOK, FollowInv, HostShown, NEW j, TellRoom(j) PROVE HostShown'
<1> SUFFICES ASSUME NEW t \in Sockets \ past'.hasty PROVE Told(t)'
  BY DEF HostShown
<1>h. PICK h : h = IF host = Nobody THEN j.of ELSE host
  OBVIOUS
<1>a. PICK a : a = IF t = j.of THEN [type |-> "ack", who |-> j.saw, host |-> h]
                   ELSE [type |-> "joined", who |-> j.of, host |-> h]
  OBVIOUS
<1>1. /\ UNCHANGED <<leaving, removals, online, ui>> /\ Seated' = Seated /\ h \in Sockets
      /\ joining' = joining \ {j} /\ past'.hasty = past.hasty /\ host' = h
      /\ j \in Joinings /\ j \in joining /\ j.at = "tell"
  BY <1>h, TellRoomTyped
<1>2. /\ a \in Messages /\ a.type \in Bearing /\ a.host = h
  <2>1. CASE t = j.of
    BY <1>1, <1>a, <2>1 DEF Messages, Joinings, Bearing
  <2>2. CASE t # j.of
    BY <1>1, <1>a, <2>2 DEF Messages, Joinings, Bearing
  <2> QED BY <2>1, <2>2
<1>3. inbox'[t] = IF ~(t \in Seated \cup {j.of} /\ t \in online /\ ui[t].on) THEN inbox[t]
                  ELSE Append(inbox[t], a)
  <2>1. inbox'[t] =
          IF ~(t \in Seated \cup {j.of} /\ t \in online /\ ui[t].on) THEN inbox[t]
          ELSE Append(inbox[t], IF t = j.of THEN [type |-> "ack", who |-> j.saw, host |-> h]
                                ELSE [type |-> "joined", who |-> j.of, host |-> h])
    BY <1>1, <1>h, TellRoomTyped
  <2> QED BY <2>1, <1>a
<1>4. Settled(t)' => t \in Seated /\ t \in online /\ ui[t].on
  <2> SUFFICES ASSUME Settled(t)' PROVE t \in Seated /\ t \in online /\ ui[t].on
    OBVIOUS
  <2>1. t \in Seated /\ t \in online
    BY <1>1, CallTypes DEF Settled
  <2>2. ~Going(t)
    BY <1>1 DEF Settled, Going
  <2>3. Followed(t)
    BY <1>1, <2>1 DEF FollowInv
  <2> QED BY <2>1, <2>2, <2>3 DEF Followed
<1> QED BY <1>1, <1>2, <1>3, <1>4, ToldNew

LEMMA LeaveTold ==
  ASSUME CallTypeOK, HostShown, NEW s \in Sockets, Leave(s) PROVE HostShown'
<1> SUFFICES ASSUME NEW t \in Sockets \ past'.hasty PROVE Told(t)'
  BY DEF HostShown
<1>1. /\ UNCHANGED <<leaving, joining, online, host>> /\ Seated' = Seated /\ past' = Parting(s)
      /\ removals' = removals \cup Removal(s) /\ ui' = [ui EXCEPT ![s] = NoCall]
      /\ \A u \in Sockets : inbox'[u] = IF u = s THEN Heeded(inbox[u]) ELSE inbox[u]
  BY LeaveTyped
<1>2. past.hasty \subseteq past'.hasty
  BY <1>1, PartingIs
<1>3. Told(t) /\ (Going(t) => Going(t)') /\ (t \in Joiners <=> t \in Joiners')
  BY <1>1, <1>2 DEF HostShown, Going, Joiners
<1>4. PICK m \in Messages : m.type \notin Bearing
  BY PlainMessage
<1>5. Settled(t)' => Settled(t)
  BY <1>1, <1>3 DEF Settled
<1>6. Settled(t)' => t # s
  <2>r. PICK r : r = [of |-> s, at |-> "out", heir |-> Nobody]
    OBVIOUS
  <2>1. r.of = s /\ r.at = "out"
    BY <2>r
  <2>2. s \in Seated => r \in removals'
    BY <1>1, <2>r DEF Removal
  <2> QED BY <1>1, <2>1, <2>2 DEF Settled, Going
<1>7. t # s => ui'[t] = ui[t] /\ inbox'[t] = inbox[t]
  BY <1>1, CallTypes
<1> QED BY <1>1, <1>3, <1>4, <1>5, <1>6, <1>7, ToldStays

LEMMA DisconnectTold ==
  ASSUME CallTypeOK, HostShown, NEW s \in Sockets, Disconnect(s) PROVE HostShown'
<1> SUFFICES ASSUME NEW t \in Sockets \ past'.hasty PROVE Told(t)'
  BY DEF HostShown
<1>1. /\ UNCHANGED <<joining, host>> /\ Seated' = Seated \ {s} /\ past' = Parting(s)
      /\ removals' = removals \cup Removal(s) /\ ui' = [ui EXCEPT ![s] = NoCall]
      /\ leaving' = leaving \ {s}
      /\ \A u \in Sockets : inbox'[u] = IF u = s THEN <<>> ELSE inbox[u]
  BY DisconnectTyped
<1>2. past.hasty \subseteq past'.hasty
  BY <1>1, PartingIs
<1>3. Told(t) /\ (t # s /\ Going(t) => Going(t)') /\ (t \in Joiners <=> t \in Joiners')
  BY <1>1, <1>2 DEF HostShown, Going, Joiners
<1>4. PICK m \in Messages : m.type \notin Bearing
  BY PlainMessage
<1>5. Settled(t)' => Settled(t) /\ t # s
  BY <1>1, <1>3 DEF Settled
<1>6. t # s => ui'[t] = ui[t] /\ inbox'[t] = inbox[t]
  BY <1>1, CallTypes
<1> QED BY <1>1, <1>3, <1>4, <1>5, <1>6, ToldStays

LEMMA PutOutTold ==
  ASSUME CallTypeOK, HostShown, NEW r, PutOut(r) PROVE HostShown'
<1> SUFFICES ASSUME NEW t \in Sockets \ past'.hasty PROVE Told(t)'
  BY DEF HostShown
<1>a. PICK a : a = [type |-> "left", who |-> r.of]
  OBVIOUS
<1>1. /\ UNCHANGED <<joining, online, ui, past, host>> /\ Seated' = Seated
      /\ r \in Removing /\ r \in removals /\ r.at = "out"
      /\ leaving' = IF r.of \in Seated THEN leaving \cup {r.of} ELSE leaving
      /\ \A x \in removals : x \in removals' \/ x = r
  BY PutOutTyped
<1>2. Told(t) /\ (t \in Joiners <=> t \in Joiners')
  BY <1>1 DEF HostShown, Joiners
<1>3. a \in Messages /\ a.type \notin Bearing
  BY <1>1, <1>a DEF Messages, Removing, Bearing
<1>4. inbox'[t] = inbox[t] \/ inbox'[t] = Append(inbox[t], a)
  BY <1>a, PutOutTyped
<1>5. t \in Seated' /\ Going(t) => Going(t)'
  BY <1>1 DEF Going
<1>6. Settled(t)' => Settled(t)
  BY <1>1, <1>2, <1>5 DEF Settled
<1> QED BY <1>1, <1>2, <1>3, <1>4, <1>6, ToldStays

LEMMA HandOverTold ==
  ASSUME CallTypeOK, FollowInv, NEW r, HandOver(r) PROVE HostShown'
<1> SUFFICES ASSUME NEW t \in Sockets \ past'.hasty PROVE Told(t)'
  BY DEF HostShown
<1>a. PICK a : a = [type |-> "host", host |-> r.heir]
  OBVIOUS
<1>1. /\ UNCHANGED <<leaving, joining, online, ui>> /\ Seated' = Seated
      /\ r \in Removing /\ r.at = "heir" /\ removals' = removals \ {r}
      /\ past'.hasty = past.hasty /\ host' = r.heir
  BY HandOverTyped
<1>2. Settled(t)' => Settled(t)
  BY <1>1 DEF Settled, Going, Joiners
<1>3. a \in Messages /\ a.type \in Bearing /\ a.host = host'
  BY <1>1, <1>a DEF Messages, Removing, Hosts, Bearing
<1>4. inbox'[t] = IF t \in Seated \cap online /\ ui[t].on THEN Append(inbox[t], a) ELSE inbox[t]
  BY <1>a, HandOverTyped
<1>5. Settled(t) => t \in Seated \cap online /\ ui[t].on
  BY <1>1, SettledOn DEF Settled
<1> QED BY <1>2, <1>3, <1>4, <1>5, ToldNew

LEMMA LeaveRoomTold ==
  ASSUME CallTypeOK, HostShown, NEW s \in Sockets, LeaveRoom(s) PROVE HostShown'
<1> SUFFICES ASSUME NEW t \in Sockets \ past'.hasty PROVE Told(t)'
  BY DEF HostShown
<1>1. /\ UNCHANGED <<joining, removals, online, ui, inbox, host>> /\ Seated' = Seated \ {s}
      /\ leaving' = leaving \ {s}
  BY LeaveRoomTyped
<1>2. past.hasty \subseteq past'.hasty
  BY LeaveRoomTyped
<1>3. Told(t) /\ (t # s /\ Going(t) => Going(t)') /\ (t \in Joiners <=> t \in Joiners')
  BY <1>1, <1>2 DEF HostShown, Going, Joiners
<1>4. PICK m \in Messages : m.type \notin Bearing
  BY PlainMessage
<1>5. Settled(t)' => Settled(t)
  BY <1>1, <1>3 DEF Settled
<1> QED BY <1>1, <1>3, <1>4, <1>5, ToldStays

LEMMA RevokeTold ==
  ASSUME CallTypeOK, HostShown, NEW s \in Sockets, Revoke(s) PROVE HostShown'
<1> SUFFICES ASSUME NEW t \in Sockets \ past'.hasty PROVE Told(t)'
  BY DEF HostShown
<1>1. /\ UNCHANGED <<joining, removals, online, ui, host>> /\ Seated' = Seated
      /\ leaving' = IF s \in Seated THEN leaving \cup {s} ELSE leaving
      /\ past.hasty \subseteq past'.hasty
      /\ \A u \in Sockets : inbox'[u] = IF u = s THEN Append(inbox[u], Gone) ELSE inbox[u]
  BY RevokeTyped
<1>2. Told(t) /\ (Going(t) => Going(t)') /\ (t \in Joiners <=> t \in Joiners')
  BY <1>1 DEF HostShown, Going, Joiners
<1>3. Gone \in Messages /\ Gone.type \notin Bearing
  BY DEF Gone, Messages, Bearing
<1>4. Settled(t)' => Settled(t)
  BY <1>1, <1>2 DEF Settled
<1> QED BY <1>1, <1>2, <1>3, <1>4, ToldStays

LEMMA RemoveTold ==
  ASSUME CallTypeOK, HostShown, NEW s \in Sockets, NEW u \in Sockets, RemoveParticipant(s, u)
  PROVE  HostShown'
<1> SUFFICES ASSUME NEW t \in Sockets \ past'.hasty PROVE Told(t)'
  BY DEF HostShown
<1>a. PICK a : a = [type |-> "removed"]
  OBVIOUS
<1>1. /\ UNCHANGED <<leaving, joining, online, ui, host>> /\ Seated' = Seated
      /\ past' = Parting(u) /\ removals' = removals \cup Removal(u)
      /\ \A v \in Sockets : inbox'[v] =
           IF v = u /\ v \in online /\ ui[v].on
           THEN Append(inbox[v], [type |-> "removed"]) ELSE inbox[v]
  BY RemoveTyped
<1>2. past.hasty \subseteq past'.hasty
  BY <1>1, PartingIs
<1>3. Told(t) /\ (Going(t) => Going(t)') /\ (t \in Joiners <=> t \in Joiners')
  BY <1>1, <1>2 DEF HostShown, Going, Joiners
<1>4. a \in Messages /\ a.type \notin Bearing
  BY <1>a DEF Messages, Ends, Bearing
<1>5. inbox'[t] = inbox[t] \/ inbox'[t] = Append(inbox[t], a)
  BY <1>1, <1>a
<1>6. Settled(t)' => Settled(t)
  BY <1>1, <1>3 DEF Settled
<1> QED BY <1>1, <1>3, <1>4, <1>5, <1>6, ToldStays

LEMMA EndCallTold ==
  ASSUME CallTypeOK, NEW s \in Sockets, EndCall(s) PROVE HostShown'
<1>1. Seated' = Seated /\ \A u \in Seated : \E r \in removals' : r.of = u /\ r.at = "end"
  BY EndCallTyped
<1> QED BY <1>1 DEF HostShown, Told, Settled, Going

LEMMA EndRoomTold == ASSUME CallTypeOK, EndRoom PROVE HostShown'
<1>1. Seated' = Seated /\ leaving' = Seated
  BY EndRoomTyped
<1> QED BY <1>1 DEF HostShown, Told, Settled, Going

LEMMA HandleTold ==
  ASSUME CallTypeOK, FollowInv, HostShown, NEW s \in Sockets, Handle(s) PROVE HostShown'
<1> SUFFICES ASSUME NEW t \in Sockets \ past'.hasty PROVE Told(t)'
  BY DEF HostShown
<1>m. PICK m : m = Head(inbox[s])
  OBVIOUS
<1>1. /\ Seated' = Seated /\ m \in Messages /\ m.type # "revoked" /\ inbox[s] # <<>>
      /\ UNCHANGED <<leaving, joining, removals, online, host>>
      /\ past'.hasty = past.hasty
      /\ \A u \in Sockets : ui'[u] = IF u = s THEN Shown(ui[s], m) ELSE ui[u]
  BY <1>m, HandleTyped DEF server
<1>2. PICK f \in SUBSET Sockets, a \in Messages : Answered(s, m, f, a)
  BY <1>m, HandleTyped
<1>3. Told(t) /\ (Settled(t)' <=> Settled(t))
  BY <1>1 DEF HostShown, Settled, Going, Joiners
<1>4. a \in Messages /\ a.type \notin Bearing
  BY <1>2 DEF Answered, Bearing
<1>5. CASE t # s
  <2>1. ui'[t] = ui[t] /\ (inbox'[t] = inbox[t] \/ inbox'[t] = Append(inbox[t], a))
    BY <1>1, <1>2, <1>5 DEF Answered
  <2> QED BY <1>1, <1>3, <1>4, <2>1, ToldStays
<1>6. CASE t = s
  <2> SUFFICES ASSUME Settled(s) PROVE Reads(inbox'[s], ui'[s].host, host')
    BY <1>3, <1>6 DEF Told, Reads, Holds
  <2>1. /\ inbox[s] \in Seq(Messages) /\ ui[s] \in Clients /\ Tail(inbox[s]) \in Seq(Messages)
    BY <1>1, CallTypes, HeadTailProperties DEF Boxes
  <2>2. ui[s].on /\ ~Holds(inbox[s], Ends)
    BY <1>1, <1>6, SettledOn
  <2>3. m.type \notin Ends
    BY <1>1, <1>m, <2>1, <2>2, TailHolds
  <2>4. ui'[s].on /\ ui'[s].host = IF m.type \in Bearing THEN m.host ELSE ui[s].host
    BY <1>1, <2>1, <2>2, <2>3, ShownIs DEF Bearing
  <2>5. Reads(Tail(inbox[s]), ui'[s].host, host)
    BY <1>1, <1>3, <1>6, <1>m, <2>1, <2>4, TailReads DEF Told
  <2>6. inbox'[s] = Tail(inbox[s]) \/ inbox'[s] = Append(Tail(inbox[s]), a)
    BY <1>2, <2>4 DEF Answered
  <2>7. Reads(Append(Tail(inbox[s]), a), ui'[s].host, host)
    BY <1>4, <2>1, <2>5, AppendReads
  <2> QED BY <1>1, <2>5, <2>6, <2>7
<1> QED BY <1>5, <1>6

-----------------------------------------------------------------------------
\* Unless the call was last passed to somebody who was gone or going, or to nobody with others
\* in it: without a host everybody in the call is coming or going; and a host keeps its seat, or
\* was put out of the group and is on its way out, or is being removed, or was dropped.
HostKept ==
  ~past.adrift =>
    /\ host = Nobody => Seated \subseteq leaving \cup Joiners
    /\ host # Nobody /\ host \notin past.dropped =>
         \/ host \in Seated \ leaving
         \/ host \in leaving \cap past.revoked
         \/ \E r \in removals : r.of = host

\* A step that leaves the host alone: nobody takes a seat but by a join, and a host that loses
\* its seat is being removed, or put out of the group.
LEMMA KeptStays ==
  ASSUME CallTypeOK, HostKept, host' = host, past'.adrift = past.adrift,
         past.revoked \subseteq past'.revoked, past.dropped \subseteq past'.dropped,
         Joiners \subseteq Joiners', Seated' \subseteq Seated \cup Joiners',
         \A s \in Seated' : s \in leaving => s \in leaving',
         host \in Seated \ leaving =>
           \/ host \in Seated' \ leaving'
           \/ host \in leaving' \cap past'.revoked
           \/ \E r \in removals' : r.of = host,
         host \in leaving \cap past.revoked =>
           host \in leaving' \/ host \in past'.dropped \/ \E r \in removals' : r.of = host,
         (\E r \in removals : r.of = host) => \E r \in removals' : r.of = host
  PROVE  HostKept'
<1> SUFFICES ASSUME ~past.adrift PROVE
      /\ host = Nobody => Seated' \subseteq leaving' \cup Joiners'
      /\ host # Nobody /\ host \notin past'.dropped =>
           \/ host \in Seated' \ leaving'
           \/ host \in leaving' \cap past'.revoked
           \/ \E r \in removals' : r.of = host
  BY DEF HostKept
<1>1. ASSUME host = Nobody PROVE Seated' \subseteq leaving' \cup Joiners'
  BY <1>1 DEF HostKept
<1>2. ASSUME host # Nobody, host \notin past'.dropped
      PROVE  \/ host \in Seated' \ leaving'
             \/ host \in leaving' \cap past'.revoked
             \/ \E r \in removals' : r.of = host
  <2>1. \/ host \in Seated \ leaving
        \/ host \in leaving \cap past.revoked
        \/ \E r \in removals : r.of = host
    BY <1>2 DEF HostKept
  <2> QED BY <1>2, <2>1
<1> QED BY <1>1, <1>2

LEMMA AskJoinKept ==
  ASSUME CallTypeOK, HostKept, NEW s \in Sockets, AskJoin(s) PROVE HostKept'
<1>1. /\ UNCHANGED <<leaving, removals, host>> /\ Seated' = Seated
      /\ past'.revoked = past.revoked /\ past'.adrift = past.adrift
      /\ past'.dropped = past.dropped /\ joining \subseteq joining'
  BY AskJoinTyped DEF AskJoin
<1>2. Joiners \subseteq Joiners'
  BY <1>1 DEF Joiners
<1> QED BY <1>1, <1>2, KeptStays

LEMMA EnterRoomKept ==
  ASSUME CallTypeOK, HostKept, NEW j, EnterRoom(j) PROVE HostKept'
<1>x. PICK x : x = [j EXCEPT !.at = "tell"]
  OBVIOUS
<1>1. /\ UNCHANGED <<leaving, removals, host, past>> /\ j \in joining
      /\ Seated' = Seated \cup ({j.of} \cap online)
      /\ joining' = (joining \ {j}) \cup {x} /\ x.of = j.of
  BY <1>x, EnterRoomTyped DEF EnterRoom
<1>2. Joiners' = Joiners /\ j.of \in Joiners
  BY <1>1 DEF Joiners
<1>3. Seated' \subseteq Seated \cup Joiners'
  BY <1>1, <1>2
<1>4. leaving \subseteq Seated
  BY CallTypes
<1> QED BY <1>1, <1>2, <1>3, <1>4, KeptStays

LEMMA TellRoomKept ==
  ASSUME CallTypeOK, HostKept, NEW j, TellRoom(j) PROVE HostKept'
<1>h. PICK h : h = IF host = Nobody THEN j.of ELSE host
  OBVIOUS
<1>1. /\ UNCHANGED <<leaving, removals>> /\ Seated' = Seated /\ h \in Sockets /\ host' = h
      /\ past'.revoked = past.revoked /\ past'.dropped = past.dropped
      /\ past'.adrift <=> past.adrift \/ (host = Nobody /\ j.of \notin Seated \ leaving)
  BY <1>h, TellRoomTyped
<1>2. h # Nobody
  BY <1>1, CallAssumption
<1>3. CASE host = Nobody
  BY <1>1, <1>2, <1>3, <1>h DEF HostKept
<1>4. CASE host # Nobody
  BY <1>1, <1>2, <1>4, <1>h DEF HostKept
<1> QED BY <1>3, <1>4

LEMMA LeaveKept ==
  ASSUME CallTypeOK, HostKept, NEW s \in Sockets, Leave(s) PROVE HostKept'
<1>1. /\ UNCHANGED <<leaving, joining, host>> /\ Seated' = Seated /\ past' = Parting(s)
      /\ removals' = removals \cup Removal(s) /\ Joiners' = Joiners
  BY LeaveTyped DEF Joiners
<1>2. /\ past'.revoked = past.revoked /\ past'.dropped = past.dropped
      /\ past'.adrift = past.adrift
  BY <1>1, PartingIs
<1> QED BY <1>1, <1>2, KeptStays

LEMMA DisconnectKept ==
  ASSUME CallTypeOK, HostKept, NEW s \in Sockets, Disconnect(s) PROVE HostKept'
<1>1. /\ UNCHANGED <<joining, host>> /\ Seated' = Seated \ {s} /\ past' = Parting(s)
      /\ removals' = removals \cup Removal(s) /\ leaving' = leaving \ {s} /\ Joiners' = Joiners
  BY DisconnectTyped DEF Joiners
<1>2. /\ past'.revoked = past.revoked /\ past'.dropped = past.dropped
      /\ past'.adrift = past.adrift /\ leaving \subseteq Seated
  BY <1>1, PartingIs, CallTypes
<1>r. PICK r : r = [of |-> s, at |-> "out", heir |-> Nobody]
  OBVIOUS
<1>3. r.of = s /\ (s \in Seated => r \in removals')
  BY <1>1, <1>r DEF Removal
<1>4. /\ host \in Seated \ leaving => host \in Seated' \ leaving' \/ \E x \in removals' : x.of = host
      /\ host \in leaving => host \in leaving' \/ \E x \in removals' : x.of = host
  BY <1>1, <1>2, <1>3
<1> QED BY <1>1, <1>2, <1>4, KeptStays

LEMMA PutOutKept ==
  ASSUME CallTypeOK, HostKept, NEW r, PutOut(r) PROVE HostKept'
<1>1. /\ UNCHANGED <<joining, past, host>> /\ Seated' = Seated /\ r \in removals
      /\ leaving' = IF r.of \in Seated THEN leaving \cup {r.of} ELSE leaving
      /\ \A x \in removals : x \in removals' \/ x = r
      /\ host = r.of => \E x \in removals' : x.of = r.of
  BY PutOutTyped
<1>2. Joiners' = Joiners
  BY <1>1 DEF Joiners
<1> QED BY <1>1, <1>2, KeptStays

LEMMA HandOverKept ==
  ASSUME CallTypeOK, NEW r, HandOver(r) PROVE HostKept'
<1>1. /\ UNCHANGED <<leaving, joining>> /\ Seated' = Seated /\ host' = r.heir
      /\ ~past'.adrift => IF r.heir = Nobody THEN Seated \subseteq leaving \cup Joiners
                          ELSE r.heir \in Seated \ leaving
  BY HandOverTyped
<1>2. Joiners' = Joiners
  BY <1>1 DEF Joiners
<1> QED BY <1>1, <1>2 DEF HostKept

LEMMA LeaveRoomKept ==
  ASSUME CallTypeOK, HostKept, NEW s \in Sockets, LeaveRoom(s) PROVE HostKept'
<1>1. /\ UNCHANGED <<joining, removals, host>> /\ Seated' = Seated \ {s} /\ s \in leaving
      /\ leaving' = leaving \ {s} /\ past'.revoked = past.revoked
      /\ past'.adrift = past.adrift /\ past.dropped \subseteq past'.dropped
      /\ s \in past.revoked => s \in past'.dropped \/ \E r \in removals : r.of = s
  BY LeaveRoomTyped
<1>2. Joiners' = Joiners
  BY <1>1 DEF Joiners
<1> QED BY <1>1, <1>2, KeptStays

LEMMA RevokeKept ==
  ASSUME CallTypeOK, HostKept, NEW s \in Sockets, Revoke(s) PROVE HostKept'
<1>1. /\ UNCHANGED <<joining, removals, host>> /\ Seated' = Seated
      /\ leaving' = IF s \in Seated THEN leaving \cup {s} ELSE leaving
      /\ past'.revoked = past.revoked \cup {s} /\ past'.dropped = past.dropped
      /\ past'.adrift = past.adrift
  BY RevokeTyped
<1>2. Joiners' = Joiners
  BY <1>1 DEF Joiners
<1> QED BY <1>1, <1>2, KeptStays

LEMMA RemoveKept ==
  ASSUME CallTypeOK, HostKept, NEW s \in Sockets, NEW u \in Sockets, RemoveParticipant(s, u)
  PROVE  HostKept'
<1>1. /\ UNCHANGED <<leaving, joining, host>> /\ Seated' = Seated
      /\ past' = Parting(u) /\ removals' = removals \cup Removal(u) /\ Joiners' = Joiners
  BY RemoveTyped DEF Joiners
<1>2. /\ past'.revoked = past.revoked /\ past'.dropped = past.dropped
      /\ past'.adrift = past.adrift
  BY <1>1, PartingIs
<1> QED BY <1>1, <1>2, KeptStays

LEMMA EndCallKept ==
  ASSUME CallTypeOK, HostKept, NEW s \in Sockets, EndCall(s) PROVE HostKept'
<1>1. /\ UNCHANGED <<leaving, joining, host>> /\ Seated' = Seated /\ removals \subseteq removals'
      /\ past'.revoked = past.revoked /\ past'.dropped = past.dropped
      /\ past'.adrift = past.adrift
  BY EndCallTyped
<1>2. Joiners' = Joiners
  BY <1>1 DEF Joiners
<1> QED BY <1>1, <1>2, KeptStays

LEMMA EndRoomKept == ASSUME CallTypeOK, EndRoom PROVE HostKept'
<1>1. Seated' = Seated /\ leaving' = Seated /\ host' = Nobody
  BY EndRoomTyped
<1> QED BY <1>1 DEF HostKept

LEMMA HandleKept ==
  ASSUME CallTypeOK, HostKept, NEW s \in Sockets, Handle(s) PROVE HostKept'
<1>m. PICK m : m = Head(inbox[s])
  OBVIOUS
<1>1. /\ UNCHANGED <<leaving, joining, removals, host>> /\ Seated' = Seated
      /\ past'.dropped = past.dropped /\ past'.revoked = past.revoked /\ past'.adrift = past.adrift
  BY <1>m, HandleTyped DEF server
<1>2. Joiners' = Joiners
  BY <1>1 DEF Joiners
<1> QED BY <1>1, <1>2, KeptStays

-----------------------------------------------------------------------------
LEMMA HostNext ==
  CallTypeOK /\ FollowInv /\ HostShown /\ HostKept /\ [CallNext]_callVars => HostShown' /\ HostKept'
<1> SUFFICES ASSUME CallTypeOK, FollowInv, HostShown, HostKept, [CallNext]_callVars
             PROVE  HostShown' /\ HostKept'
  OBVIOUS
<1>1. CASE UNCHANGED callVars
  <2>1. UNCHANGED <<host, leaving, joining, removals, ui, inbox, past>> /\ Seated' = Seated
    BY <1>1 DEF callVars, Seated
  <2>2. HostShown'
    BY <2>1 DEF HostShown, Told, Settled, Going, Joiners, Reads, Holds
  <2>3. HostKept'
    BY <2>1 DEF HostKept, Joiners
  <2> QED BY <2>2, <2>3
<1>2. ASSUME NEW s \in Sockets,
             AskJoin(s) \/ Leave(s) \/ Disconnect(s) \/ LeaveRoom(s) \/ Revoke(s)
             \/ EndCall(s) \/ Handle(s) \/ HandleRevoked(s)
      PROVE  HostShown' /\ HostKept'
  <2>1. HostShown'
    BY <1>2, AskJoinTold, LeaveTold, DisconnectTold, LeaveRoomTold, RevokeTold, EndCallTold,
       HandleTold DEF HandleRevoked
  <2>2. HostKept'
    BY <1>2, AskJoinKept, LeaveKept, DisconnectKept, LeaveRoomKept, RevokeKept, EndCallKept,
       HandleKept DEF HandleRevoked
  <2> QED BY <2>1, <2>2
<1>3. ASSUME NEW s \in Sockets, NEW t \in Sockets, RemoveParticipant(s, t)
      PROVE  HostShown' /\ HostKept'
  BY <1>3, RemoveTold, RemoveKept
<1>4. ASSUME NEW j \in joining, EnterRoom(j) \/ TellRoom(j) PROVE HostShown' /\ HostKept'
  BY <1>4, EnterRoomTold, EnterRoomKept, TellRoomTold, TellRoomKept
<1>5. ASSUME NEW r \in removals, PutOut(r) \/ HandOver(r) PROVE HostShown' /\ HostKept'
  BY <1>5, PutOutTold, PutOutKept, HandOverTold, HandOverKept
<1>6. CASE EndRoom
  BY <1>6, EndRoomTold, EndRoomKept
<1> QED BY <1>1, <1>2, <1>3, <1>4, <1>5, <1>6 DEF CallNext

LEMMA HostAlways == CallSpec => [](HostShown /\ HostKept)
<1>1. CallInit => HostShown /\ HostKept
  <2>1. CallInit => Seated = {} /\ host = Nobody
    BY DEF CallInit, Seated, ToSet
  <2> QED BY <2>1 DEF HostShown, HostKept, Told, Settled
<1> QED BY <1>1, HostNext, FollowAlways, CallTyped, PTL DEF CallSpec

\* In every call that nobody is joining or leaving any more, every client that did not come or go
\* in haste shows the host that the server has, whoever that is.  And that host is in the call, or
\* the call is empty and has none, unless the call was last passed to somebody who was gone or
\* going, or to nobody with others in it (adrift), or the host was put out of the group and out
\* of the room before its client was gone, so that nobody replaced it (dropped).
THEOREM HostStays == CallSpec => []HostIsPresent
<1>1. CallTypeOK /\ HostShown /\ HostKept => HostIsPresent
  <2> SUFFICES ASSUME CallTypeOK, HostShown, HostKept, Quiet
               PROVE  /\ past.adrift \/ host \in Seated \cup past.dropped \/ (host = Nobody /\ room = <<>>)
                      /\ \A s \in Seated \ past.hasty : ui[s].host = host
    BY DEF HostIsPresent
  <2>1. past.adrift \/ host \in Seated \cup past.dropped \/ (host = Nobody /\ Seated = {})
    BY DEF Quiet, HostKept, Joiners
  <2>2. Seated = {} => room = <<>>
    <3>1. room # <<>> => 1 \in DOMAIN room
      BY CallTypes
    <3> QED BY <3>1 DEF Seated, ToSet
  <2>3. ASSUME NEW s \in Seated \ past.hasty PROVE ui[s].host = host
    <3>1. Told(s) /\ Settled(s)
      BY <2>3, CallTypes DEF HostShown, Quiet, Settled, Going, Joiners
    <3>2. inbox[s] = <<>>
      BY <2>3, CallTypes DEF Quiet
    <3> QED BY <3>1, <3>2 DEF Told, Reads, Holds
  <2> QED BY <2>1, <2>2, <2>3
<1> QED BY <1>1, HostAlways, CallTyped, PTL

-----------------------------------------------------------------------------
(* The connections *)

\* The messages about a peer: that it came, that it is there, its offer, that it left.
Joined(s) == {m \in Messages : m.type = "joined" /\ m.who = s}
Offered(s) == {m \in Messages : m.type = "offer" /\ m.who = s}
Left(s) == {m \in Messages : m.type = "left" /\ m.who = s}
Adding(s) == Joined(s) \cup Offered(s) \cup {m \in Messages : m.type = "ack" /\ s \in m.who}
About(s) == Adding(s) \cup Left(s)

None(msgs, kind) == \A i \in DOMAIN msgs : msgs[i] \notin kind
\* One of the kind, and none of the others after it.
After(msgs, kind, others) ==
  \E i \in DOMAIN msgs : msgs[i] \in kind /\ \A k \in DOMAIN msgs : k > i => msgs[k] \notin others

\* Of messages and the peers of the client that reads them: it will end without s as a peer; and
\* each time that it reads that s came, it is without s just before.
Forgot(msgs, peers, s) == After(msgs, Left(s), Adding(s)) \/ (s \notin peers /\ None(msgs, Adding(s)))
Orderly(msgs, peers, s) ==
  \A i \in DOMAIN msgs : msgs[i] \in Joined(s) =>
    \/ \E k \in DOMAIN msgs : /\ k < i /\ msgs[k] \in Left(s)
                              /\ \A n \in DOMAIN msgs : k < n /\ n < i => msgs[n] \notin Adding(s)
    \/ s \notin peers /\ \A n \in DOMAIN msgs : n < i => msgs[n] \notin Adding(s)

-----------------------------------------------------------------------------
LEMMA AppendNone ==
  ASSUME NEW q \in Seq(Messages), NEW m \in Messages, NEW kind
  PROVE  None(Append(q, m), kind) <=> None(q, kind) /\ m \notin kind
<1>x. PICK x : x = Append(q, m)
  OBVIOUS
<1>1. /\ Len(q) \in Nat /\ DOMAIN q = 1..Len(q) /\ DOMAIN x = 1..(Len(q) + 1)
      /\ \A i \in DOMAIN q : x[i] = q[i]
      /\ x[Len(q) + 1] = m
  BY <1>x, AppendProperties
<1>2. None(x, kind) <=> None(q, kind) /\ m \notin kind
  BY <1>1 DEF None
<1> QED BY <1>2, <1>x

LEMMA TailNone ==
  ASSUME NEW q \in Seq(Messages), q # <<>>, NEW kind
  PROVE  None(q, kind) <=> None(Tail(q), kind) /\ Head(q) \notin kind
<1>x. PICK x : x = Tail(q)
  OBVIOUS
<1>1. /\ Len(q) \in Nat /\ DOMAIN q = 1..Len(q) /\ DOMAIN x = 1..(Len(q) - 1) /\ Head(q) = q[1]
      /\ 1 \in DOMAIN q
      /\ \A i \in DOMAIN x : x[i] = q[i + 1]
  BY <1>x, HeadTailProperties
<1>2. ASSUME None(q, kind) PROVE None(x, kind) /\ Head(q) \notin kind
  BY <1>1, <1>2 DEF None
<1>3. ASSUME None(x, kind), Head(q) \notin kind PROVE None(q, kind)
  <2> SUFFICES ASSUME NEW i \in DOMAIN q PROVE q[i] \notin kind
    BY DEF None
  <2>1. CASE i = 1
    BY <1>1, <1>3, <2>1
  <2>2. CASE i # 1
    <3>1. i - 1 \in DOMAIN x /\ x[i - 1] = q[i]
      BY <1>1, <2>2
    <3> QED BY <1>3, <3>1 DEF None
  <2> QED BY <2>1, <2>2
<1> QED BY <1>2, <1>3, <1>x

LEMMA AppendAfter ==
  ASSUME NEW q \in Seq(Messages), NEW m \in Messages, NEW kind, NEW others
  PROVE  /\ m \in kind => After(Append(q, m), kind, others)
         /\ m \notin others /\ After(q, kind, others) => After(Append(q, m), kind, others)
<1>x. PICK x : x = Append(q, m)
  OBVIOUS
<1>1. /\ Len(q) \in Nat /\ DOMAIN q = 1..Len(q) /\ DOMAIN x = 1..(Len(q) + 1)
      /\ \A i \in DOMAIN q : x[i] = q[i]
      /\ x[Len(q) + 1] = m
  BY <1>x, AppendProperties
<1>2. ASSUME m \in kind PROVE After(x, kind, others)
  <2>1. /\ Len(q) + 1 \in DOMAIN x
        /\ \A k \in DOMAIN x : ~(k > Len(q) + 1)
    BY <1>1
  <2> QED BY <1>1, <1>2, <2>1 DEF After
<1>3. ASSUME m \notin others, NEW i \in DOMAIN q, q[i] \in kind,
             \A k \in DOMAIN q : k > i => q[k] \notin others
      PROVE  After(x, kind, others)
  <2>1. i \in DOMAIN x /\ x[i] = q[i]
    BY <1>1
  <2>2. \A k \in DOMAIN x : k > i => x[k] \notin others
    BY <1>1, <1>3
  <2> QED BY <1>3, <2>1, <2>2 DEF After
<1> QED BY <1>2, <1>3, <1>x DEF After

LEMMA TailAfter ==
  ASSUME NEW q \in Seq(Messages), q # <<>>, NEW kind, NEW others, After(q, kind, others)
  PROVE  After(Tail(q), kind, others) \/ (Head(q) \in kind /\ None(Tail(q), others))
<1>x. PICK x : x = Tail(q)
  OBVIOUS
<1>1. /\ Len(q) \in Nat /\ DOMAIN q = 1..Len(q) /\ DOMAIN x = 1..(Len(q) - 1) /\ Head(q) = q[1]
      /\ \A i \in DOMAIN x : x[i] = q[i + 1]
  BY <1>x, HeadTailProperties
<1>2. PICK i \in DOMAIN q : q[i] \in kind /\ \A k \in DOMAIN q : k > i => q[k] \notin others
  BY DEF After
<1>3. CASE i = 1
  <2>1. \A k \in DOMAIN x : k + 1 \in DOMAIN q /\ k + 1 > i /\ x[k] = q[k + 1]
    BY <1>1, <1>3
  <2> QED BY <1>1, <1>2, <1>3, <1>x, <2>1 DEF None
<1>4. CASE i # 1
  <2>1. i - 1 \in DOMAIN x /\ x[i - 1] = q[i]
    BY <1>1, <1>4
  <2>2. \A k \in DOMAIN x : k > i - 1 => k + 1 \in DOMAIN q /\ k + 1 > i /\ x[k] = q[k + 1]
    BY <1>1
  <2> QED BY <1>2, <1>x, <2>1, <2>2 DEF After
<1> QED BY <1>3, <1>4

\* What is appended and what is read keep a peer forgotten.
LEMMA AppendForgot ==
  ASSUME NEW q \in Seq(Messages), NEW m \in Messages, NEW peers, NEW s
  PROVE  /\ m \in Left(s) => Forgot(Append(q, m), peers, s)
         /\ m \notin Adding(s) /\ Forgot(q, peers, s) => Forgot(Append(q, m), peers, s)
BY AppendAfter, AppendNone DEF Forgot

LEMMA TailForgot ==
  ASSUME NEW q \in Seq(Messages), q # <<>>, NEW s, NEW peers, NEW now, Forgot(q, peers, s),
         Head(q) \in Left(s) => s \notin now, Head(q) \notin Adding(s) /\ s \in now => s \in peers
  PROVE  Forgot(Tail(q), now, s)
<1>1. CASE After(q, Left(s), Adding(s))
  <2>1. After(Tail(q), Left(s), Adding(s)) \/ (Head(q) \in Left(s) /\ None(Tail(q), Adding(s)))
    BY <1>1, TailAfter
  <2> QED BY <2>1 DEF Forgot
<1>2. CASE s \notin peers /\ None(q, Adding(s))
  <2>1. None(Tail(q), Adding(s)) /\ Head(q) \notin Adding(s)
    BY <1>2, TailNone
  <2> QED BY <1>2, <2>1 DEF Forgot
<1> QED BY <1>1, <1>2 DEF Forgot

LEMMA AppendOrderly ==
  ASSUME NEW q \in Seq(Messages), NEW m \in Messages, NEW peers, NEW s, Orderly(q, peers, s),
         m \in Joined(s) => Forgot(q, peers, s)
  PROVE  Orderly(Append(q, m), peers, s)
<1>x. PICK x : x = Append(q, m)
  OBVIOUS
<1>1. /\ Len(q) \in Nat /\ DOMAIN q = 1..Len(q) /\ DOMAIN x = 1..(Len(q) + 1)
      /\ \A i \in DOMAIN q : x[i] = q[i]
      /\ x[Len(q) + 1] = m
  BY <1>x, AppendProperties
<1> SUFFICES ASSUME NEW i \in DOMAIN x, x[i] \in Joined(s)
             PROVE  \/ \E k \in DOMAIN x : /\ k < i /\ x[k] \in Left(s)
                                           /\ \A n \in DOMAIN x : k < n /\ n < i => x[n] \notin Adding(s)
                    \/ s \notin peers /\ \A n \in DOMAIN x : n < i => x[n] \notin Adding(s)
  BY <1>x DEF Orderly
<1>2. CASE i \in DOMAIN q
  <2>1. \/ \E k \in DOMAIN q : /\ k < i /\ q[k] \in Left(s)
                               /\ \A n \in DOMAIN q : k < n /\ n < i => q[n] \notin Adding(s)
        \/ s \notin peers /\ \A n \in DOMAIN q : n < i => q[n] \notin Adding(s)
    BY <1>1, <1>2 DEF Orderly
  <2>2. \A n \in DOMAIN x : n < i => n \in DOMAIN q /\ x[n] = q[n]
    BY <1>1, <1>2
  <2>3. DOMAIN q \subseteq DOMAIN x
    BY <1>1
  <2> QED BY <2>1, <2>2, <2>3
<1>3. CASE i \notin DOMAIN q
  <2>1. i = Len(q) + 1 /\ Forgot(q, peers, s)
    BY <1>1, <1>3
  <2>2. \A n \in DOMAIN x : n < i => n \in DOMAIN q /\ x[n] = q[n]
    BY <1>1, <2>1
  <2>3. \A n \in DOMAIN q : n \in DOMAIN x /\ n < i /\ x[n] = q[n]
    BY <1>1, <2>1
  <2>4. CASE s \notin peers /\ None(q, Adding(s))
    BY <2>2, <2>4 DEF None
  <2>5. ASSUME NEW k \in DOMAIN q, q[k] \in Left(s), \A n \in DOMAIN q : n > k => q[n] \notin Adding(s)
        PROVE  \E j \in DOMAIN x : /\ j < i /\ x[j] \in Left(s)
                                   /\ \A n \in DOMAIN x : j < n /\ n < i => x[n] \notin Adding(s)
    <3>1. k \in DOMAIN x /\ k < i /\ x[k] \in Left(s)
      BY <2>3, <2>5
    <3>2. \A n \in DOMAIN x : k < n /\ n < i => x[n] \notin Adding(s)
      <4> SUFFICES ASSUME NEW n \in DOMAIN x, k < n, n < i PROVE x[n] \notin Adding(s)
        OBVIOUS
      <4>1. n \in DOMAIN q /\ x[n] = q[n] /\ n > k
        BY <1>1, <2>2
      <4> QED BY <2>5, <4>1
    <3> QED BY <3>1, <3>2
  <2> QED BY <2>1, <2>4, <2>5 DEF Forgot, After
<1> QED BY <1>2, <1>3

LEMMA TailOrderly ==
  ASSUME NEW q \in Seq(Messages), q # <<>>, NEW s, NEW peers, NEW now, Orderly(q, peers, s),
         Head(q) \in Left(s) => s \notin now, Head(q) \notin Adding(s) /\ s \in now => s \in peers
  PROVE  Orderly(Tail(q), now, s)
<1>x. PICK x : x = Tail(q)
  OBVIOUS
<1>1. /\ Len(q) \in Nat /\ DOMAIN q = 1..Len(q) /\ DOMAIN x = 1..(Len(q) - 1) /\ Head(q) = q[1]
      /\ 1 \in DOMAIN q
      /\ \A i \in DOMAIN x : x[i] = q[i + 1]
  BY <1>x, HeadTailProperties
<1> SUFFICES ASSUME NEW i \in DOMAIN x, x[i] \in Joined(s)
             PROVE  \/ \E k \in DOMAIN x : /\ k < i /\ x[k] \in Left(s)
                                           /\ \A n \in DOMAIN x : k < n /\ n < i => x[n] \notin Adding(s)
                    \/ s \notin now /\ \A n \in DOMAIN x : n < i => x[n] \notin Adding(s)
  BY <1>x DEF Orderly
<1>i. i \in Nat /\ i + 1 \in DOMAIN q /\ q[i + 1] \in Joined(s) /\ 1 < i + 1
  BY <1>1
<1>s. \A n \in DOMAIN x : n \in Nat /\ n + 1 \in DOMAIN q /\ x[n] = q[n + 1]
  BY <1>1
<1>2. \/ \E k \in DOMAIN q : /\ k < i + 1 /\ q[k] \in Left(s)
                             /\ \A n \in DOMAIN q : k < n /\ n < i + 1 => q[n] \notin Adding(s)
      \/ s \notin peers /\ \A n \in DOMAIN q : n < i + 1 => q[n] \notin Adding(s)
  BY <1>i DEF Orderly
<1>3. CASE s \notin peers /\ \A n \in DOMAIN q : n < i + 1 => q[n] \notin Adding(s)
  <2>1. Head(q) \notin Adding(s)
    BY <1>1, <1>3, <1>i
  <2>2. \A n \in DOMAIN x : n < i => x[n] \notin Adding(s)
    <3> SUFFICES ASSUME NEW n \in DOMAIN x, n < i PROVE x[n] \notin Adding(s)
      OBVIOUS
    <3>1. n + 1 \in DOMAIN q /\ n + 1 < i + 1 /\ x[n] = q[n + 1]
      BY <1>i, <1>s
    <3> QED BY <1>3, <3>1
  <2> QED BY <1>3, <2>1, <2>2
<1>4. ASSUME NEW k \in DOMAIN q, k < i + 1, q[k] \in Left(s),
             \A n \in DOMAIN q : k < n /\ n < i + 1 => q[n] \notin Adding(s)
      PROVE  \/ \E j \in DOMAIN x : /\ j < i /\ x[j] \in Left(s)
                                    /\ \A n \in DOMAIN x : j < n /\ n < i => x[n] \notin Adding(s)
             \/ s \notin now /\ \A n \in DOMAIN x : n < i => x[n] \notin Adding(s)
  <2>1. \A n \in DOMAIN x : k < n + 1 /\ n < i => x[n] \notin Adding(s)
    <3> SUFFICES ASSUME NEW n \in DOMAIN x, k < n + 1, n < i PROVE x[n] \notin Adding(s)
      OBVIOUS
    <3>1. n + 1 \in DOMAIN q /\ n + 1 < i + 1 /\ x[n] = q[n + 1]
      BY <1>i, <1>s
    <3> QED BY <1>4, <3>1
  <2>2. CASE k = 1
    <3>1. s \notin now
      BY <1>1, <1>4, <2>2
    <3>2. \A n \in DOMAIN x : k < n + 1
      BY <1>1, <2>2
    <3> QED BY <2>1, <3>1, <3>2
  <2>3. CASE k # 1
    <3>1. k - 1 \in DOMAIN x /\ x[k - 1] = q[k] /\ k - 1 < i
      BY <1>1, <1>4, <2>3
    <3>2. \A n \in DOMAIN x : k - 1 < n => k < n + 1
      BY <1>1
    <3>3. \A n \in DOMAIN x : k - 1 < n /\ n < i => x[n] \notin Adding(s)
      BY <2>1, <3>2
    <3> QED BY <1>4, <3>1, <3>3
  <2> QED BY <2>2, <2>3
<1> QED BY <1>2, <1>3, <1>4


\* A client that knows all that was sent to it and has a call; one that is in the call for good,
\* as far as the server has got; and one that nobody will hear of before it comes.
Live(s) == ui[s].on /\ ~Holds(inbox[s], Over)
Present(s) == s \in Seated /\ s \notin Joiners /\ Live(s)
Out(s) == \E r \in removals : r.of = s /\ r.at = "out"
Absent(s) == s \in Joiners \/ ((s \notin Seated \/ s \in leaving) /\ s \notin past.revoked /\ ~Out(s))

\* Of two clients u was there first: it has s as a peer that it made an offer to, or will read
\* that s came, and will not read anything else about s; s has u as a peer or will.
Linked(u, s) ==
  /\ \/ /\ s \in ui[u].peers \ ui[u].took /\ None(inbox[u], About(s))
        /\ u \in ui[s].took \/ ~None(inbox[s], Offered(u))
     \/ After(inbox[u], Joined(s), About(s))
  /\ u \in ui[s].peers \/ ~None(inbox[s], Adding(u))
  /\ None(inbox[s], Left(u) \cup Joined(u))

\* What holds between two clients whose comings and goings did not cross.
Apart(u, s) == ~(u \in Joiners /\ s \in Movers)
Seen(u, s) == \A j \in joining : j.of = u => (s \in j.saw <=> s \in Seated)
Fresh(u, s) == u \in Joiners => None(inbox[u], Left(s) \cup Joined(s))
Forgotten(u, s) == Live(u) /\ Absent(s) => Forgot(inbox[u], ui[u].peers, s)
InOrder(u, s) == Live(u) => Orderly(inbox[u], ui[u].peers, s)
Link(u, s) == Present(u) /\ Present(s) => Linked(u, s) \/ Linked(s, u)
PairOk(u, s) == /\ Apart(u, s) /\ Seen(u, s) /\ Fresh(u, s)
                /\ Forgotten(u, s) /\ InOrder(u, s) /\ Link(u, s)

PairInv == \A u, s \in Sockets \ past.hasty : u # s /\ {u, s} \notin past.crossed => PairOk(u, s)

\* A client took offers of its peers only, and has a call only while it is connected; it joins
\* once.
ClientOk(s) == /\ ui[s].took \subseteq ui[s].peers /\ (~ui[s].on => ui[s] = NoCall)
               /\ ui[s].on => s \in online
JoinsOnce(s) == /\ \A j, k \in joining : j.of = s /\ k.of = s => j = k
                /\ s \in Joiners => s \in online
ClientInv == /\ \A s \in Sockets : ClientOk(s)
             /\ \A s \in Sockets \ past.hasty : JoinsOnce(s)

-----------------------------------------------------------------------------
LEMMA ClientStays ==
  ASSUME NEW s \in Sockets, ClientOk(s), ui'[s] = ui[s], s \in online => s \in online'
  PROVE  ClientOk(s)'
BY DEF ClientOk

LEMMA OnceStays ==
  ASSUME ClientInv, joining' \subseteq joining, past.hasty \subseteq past'.hasty,
         \A s \in Joiners' : s \in online => s \in online' \cup past'.hasty
  PROVE  \A s \in Sockets \ past'.hasty : JoinsOnce(s)'
<1> SUFFICES ASSUME NEW s \in Sockets \ past'.hasty PROVE JoinsOnce(s)'
  OBVIOUS
<1>1. JoinsOnce(s) /\ (s \in Joiners' => s \in Joiners)
  BY DEF ClientInv, Joiners
<1> QED BY <1>1 DEF JoinsOnce

LEMMA NoCallOk ==
  ASSUME NEW s, ui'[s] = NoCall PROVE ClientOk(s)'
BY DEF ClientOk, NoCall

LEMMA ShownOk ==
  ASSUME NEW u \in Clients, NEW m \in Messages, NEW v, v = Shown(u, m), u.took \subseteq u.peers
  PROVE  /\ v.took \subseteq v.peers /\ (~v.on => v = NoCall)
         /\ v.on => u.on
<1>1. CASE ~u.on \/ m.type \in Ends
  <2>1. v = NoCall
    BY <1>1, ShownIs
  <2> QED BY <2>1 DEF NoCall
<1>2. CASE u.on /\ m.type \notin Ends
  <2>1. v.on
    BY <1>2, ShownIs
  <2>2. v.took \subseteq v.peers
    <3>0. v = CASE m.type = "joined" -> [u EXCEPT !.host = m.host, !.peers = @ \cup {m.who}]
                [] m.type = "ack"    -> [u EXCEPT !.host = m.host, !.peers = @ \cup m.who]
                [] m.type = "offer"  -> [u EXCEPT !.peers = @ \cup {m.who}, !.took = @ \cup {m.who}]
                [] m.type = "left"   -> [u EXCEPT !.peers = @ \ {m.who}, !.took = @ \ {m.who}]
                [] m.type = "host"   -> [u EXCEPT !.host = m.host]
                [] OTHER             -> u
      BY <1>2 DEF Shown
    <3>1. CASE m.type = "joined"
      <4>1. v.peers = u.peers \cup {m.who} /\ v.took = u.took
        BY <3>0, <3>1 DEF Clients
      <4> QED BY <4>1
    <3>2. CASE m.type = "ack"
      <4>1. v.peers = u.peers \cup m.who /\ v.took = u.took
        BY <3>0, <3>2 DEF Clients
      <4> QED BY <4>1
    <3>3. CASE m.type = "offer"
      <4>1. v.peers = u.peers \cup {m.who} /\ v.took = u.took \cup {m.who}
        BY <3>0, <3>3 DEF Clients
      <4> QED BY <4>1
    <3>4. CASE m.type = "left"
      <4>1. v.peers = u.peers \ {m.who} /\ v.took = u.took \ {m.who}
        BY <3>0, <3>4 DEF Clients
      <4> QED BY <4>1
    <3>5. CASE m.type = "host"
      BY <3>0, <3>5 DEF Clients
    <3>6. CASE m.type \notin {"joined", "ack", "offer", "left", "host"}
      <4>1. v = u
        BY <3>0, <3>6
      <4> QED BY <4>1
    <3> QED BY <3>1, <3>2, <3>3, <3>4, <3>5, <3>6
  <2> QED BY <1>2, <2>1, <2>2
<1> QED BY <1>1, <1>2

\* What the client makes of a message about a peer, and of one that is about others.
LEMMA ShownAbout ==
  ASSUME NEW u \in Clients, u.on, NEW m \in Messages, m.type \notin Ends, NEW v, v = Shown(u, m),
         NEW s \in Sockets
  PROVE  /\ m \in Left(s) => s \notin v.peers
         /\ m \in Adding(s) => s \in v.peers
         /\ m \in Offered(s) => s \in v.took
         /\ m \notin Offered(s) \cup Left(s) => (s \in v.took <=> s \in u.took)
         /\ m \notin About(s) => (s \in v.peers <=> s \in u.peers)
         /\ m \notin Left(s) /\ s \in u.peers => s \in v.peers
         /\ m \notin Left(s) /\ s \in u.took => s \in v.took
         /\ m \notin Adding(s) /\ s \in v.peers => s \in u.peers
<1>0. v = CASE m.type = "joined" -> [u EXCEPT !.host = m.host, !.peers = @ \cup {m.who}]
            [] m.type = "ack"    -> [u EXCEPT !.host = m.host, !.peers = @ \cup m.who]
            [] m.type = "offer"  -> [u EXCEPT !.peers = @ \cup {m.who}, !.took = @ \cup {m.who}]
            [] m.type = "left"   -> [u EXCEPT !.peers = @ \ {m.who}, !.took = @ \ {m.who}]
            [] m.type = "host"   -> [u EXCEPT !.host = m.host]
            [] OTHER             -> u
  BY DEF Shown
<1>1. CASE m.type = "joined"
  <2>1. v.peers = u.peers \cup {m.who} /\ v.took = u.took
    BY <1>0, <1>1 DEF Clients
  <2> QED BY <1>1, <2>1 DEF About, Adding, Joined, Offered, Left
<1>2. CASE m.type = "ack"
  <2>1. v.peers = u.peers \cup m.who /\ v.took = u.took
    BY <1>0, <1>2 DEF Clients
  <2> QED BY <1>2, <2>1 DEF About, Adding, Joined, Offered, Left
<1>3. CASE m.type = "offer"
  <2>1. v.peers = u.peers \cup {m.who} /\ v.took = u.took \cup {m.who}
    BY <1>0, <1>3 DEF Clients
  <2> QED BY <1>3, <2>1 DEF About, Adding, Joined, Offered, Left
<1>4. CASE m.type = "left"
  <2>1. v.peers = u.peers \ {m.who} /\ v.took = u.took \ {m.who}
    BY <1>0, <1>4 DEF Clients
  <2> QED BY <1>4, <2>1 DEF About, Adding, Joined, Offered, Left
<1>5. CASE m.type \notin {"joined", "ack", "offer", "left"}
  <2>1. v.peers = u.peers /\ v.took = u.took
    <3>1. CASE m.type = "host"
      BY <1>0, <3>1 DEF Clients
    <3>2. CASE m.type # "host"
      <4>1. v = u
        BY <1>0, <1>5, <3>2
      <4> QED BY <4>1
    <3> QED BY <3>1, <3>2
  <2> QED BY <1>5, <2>1 DEF About, Adding, Joined, Offered, Left
<1> QED BY <1>1, <1>2, <1>3, <1>4, <1>5

LEMMA AskJoinClients ==
  ASSUME CallTypeOK, FollowInv, ClientInv, NEW x \in Sockets, AskJoin(x) PROVE ClientInv'
<1>1. /\ UNCHANGED <<online>> /\ past.hasty \subseteq past'.hasty
      /\ ui[x].on \/ x \in Movers => x \in past'.hasty
      /\ ui' = [ui EXCEPT ![x] = [@ EXCEPT !.on = TRUE]] /\ x \in online
      /\ joining' = joining
         \/ joining' = joining \cup {[of |-> x, at |-> "room", saw |-> Seated, nth |-> joins]}
  BY AskJoinTyped DEF AskJoin
<1>2. ASSUME NEW s \in Sockets PROVE ClientOk(s)'
  <2>1. ClientOk(s) /\ ui \in [Sockets -> Clients]
    BY CallTypes DEF ClientInv
  <2>2. CASE s # x
    BY <1>1, <2>1, <2>2, ClientStays
  <2>3. CASE s = x
    <3>c. PICK c \in Clients : c = ui[x]
      BY <2>1
    <3>1. ui'[x] = [c EXCEPT !.on = TRUE]
      BY <1>1, <2>1, <3>c
    <3>2. ui'[x].on /\ ui'[x].took = c.took /\ ui'[x].peers = c.peers
      BY <3>1 DEF Clients
    <3> QED BY <1>1, <2>1, <2>3, <3>2, <3>c DEF ClientOk
  <2> QED BY <2>2, <2>3
<1>3. ASSUME NEW s \in Sockets \ past'.hasty PROVE JoinsOnce(s)'
  <2>1. JoinsOnce(s)
    BY <1>1 DEF ClientInv
  <2>2. s = x => s \notin Joiners
    BY <1>1 DEF Movers
  <2> QED BY <1>1, <2>1, <2>2 DEF JoinsOnce, Joiners
<1> QED BY <1>2, <1>3 DEF ClientInv

LEMMA EnterRoomClients == ASSUME CallTypeOK, ClientInv, NEW j, EnterRoom(j) PROVE ClientInv'
<1>x. PICK x : x = [j EXCEPT !.at = "tell"]
  OBVIOUS
<1>1. /\ UNCHANGED <<online, ui, past>> /\ j \in joining
      /\ joining' = (joining \ {j}) \cup {x} /\ x.of = j.of
  BY <1>x, EnterRoomTyped DEF EnterRoom
<1>2. ASSUME NEW s \in Sockets \ past'.hasty PROVE JoinsOnce(s)'
  <2>1. JoinsOnce(s)
    BY <1>1, <1>2 DEF ClientInv
  <2> QED BY <1>1, <2>1 DEF JoinsOnce, Joiners
<1> QED BY <1>1, <1>2 DEF ClientInv, ClientOk

LEMMA HandleClients == ASSUME CallTypeOK, ClientInv, NEW x \in Sockets, Handle(x) PROVE ClientInv'
<1>m. PICK m : m = Head(inbox[x])
  OBVIOUS
<1>1. /\ m \in Messages /\ UNCHANGED <<joining, online>> /\ past'.hasty = past.hasty
      /\ \A t \in Sockets : ui'[t] = IF t = x THEN Shown(ui[x], m) ELSE ui[t]
  BY <1>m, HandleTyped DEF server
<1>2. ASSUME NEW s \in Sockets PROVE ClientOk(s)'
  <2>1. ClientOk(s) /\ ui[s] \in Clients
    BY CallTypes DEF ClientInv
  <2>2. CASE s # x
    BY <1>1, <2>1, <2>2, ClientStays
  <2>3. CASE s = x
    BY <1>1, <2>1, <2>3, ShownOk DEF ClientOk
  <2> QED BY <2>2, <2>3
<1>3. joining' \subseteq joining /\ past.hasty \subseteq past'.hasty
      /\ \A s \in Joiners' : s \in online => s \in online' \cup past'.hasty
  BY <1>1
<1> QED BY <1>2, <1>3, OnceStays DEF ClientInv

LEMMA LeaveClients ==
  ASSUME CallTypeOK, ClientInv, NEW x \in Sockets, Leave(x) \/ Disconnect(x) PROVE ClientInv'
<1>1. /\ UNCHANGED joining /\ past' = Parting(x) /\ online' \in {online, online \ {x}}
      /\ ui' = [ui EXCEPT ![x] = NoCall]
  BY LeaveTyped, DisconnectTyped
<1>2. past.hasty \subseteq past'.hasty /\ (x \in Joiners => x \in past'.hasty)
  BY <1>1, PartingIs
<1>3. ASSUME NEW s \in Sockets PROVE ClientOk(s)'
  <2>1. ClientOk(s) /\ ui \in [Sockets -> Clients]
    BY CallTypes DEF ClientInv
  <2>2. CASE s # x
    BY <1>1, <2>1, <2>2, ClientStays
  <2>3. CASE s = x
    <3>1. ui'[s] = NoCall
      BY <1>1, <2>1, <2>3
    <3> QED BY <3>1, NoCallOk
  <2> QED BY <2>2, <2>3
<1>4. joining' \subseteq joining
      /\ \A s \in Joiners' : s \in online => s \in online' \cup past'.hasty
  BY <1>1, <1>2 DEF Joiners
<1> QED BY <1>2, <1>3, <1>4, OnceStays DEF ClientInv

LEMMA ServerClients ==
  ASSUME ClientInv, UNCHANGED <<online, ui>>, joining' \subseteq joining,
         past.hasty \subseteq past'.hasty
  PROVE  ClientInv'
<1>1. \A s \in Sockets : ClientOk(s)'
  BY DEF ClientInv, ClientOk
<1>2. \A s \in Sockets \ past'.hasty : JoinsOnce(s)'
  BY OnceStays
<1> QED BY <1>1, <1>2 DEF ClientInv

LEMMA ClientNext ==
  CallTypeOK /\ FollowInv /\ ClientInv /\ [CallNext]_callVars => ClientInv'
<1> SUFFICES ASSUME CallTypeOK, FollowInv, ClientInv, [CallNext]_callVars PROVE ClientInv'
  OBVIOUS
<1>1. CASE UNCHANGED callVars
  <2>1. UNCHANGED <<joining, online, ui, past>>
    BY <1>1 DEF callVars
  <2> QED BY <2>1, ServerClients
<1>2. ASSUME NEW s \in Sockets,
             AskJoin(s) \/ Leave(s) \/ Disconnect(s) \/ LeaveRoom(s) \/ Revoke(s)
             \/ EndCall(s) \/ Handle(s) \/ HandleRevoked(s)
      PROVE  ClientInv'
  <2>1. CASE AskJoin(s) \/ Leave(s) \/ Disconnect(s) \/ Handle(s) \/ HandleRevoked(s)
    BY <2>1, AskJoinClients, LeaveClients, HandleClients DEF HandleRevoked
  <2>2. CASE LeaveRoom(s)
    <3>1. UNCHANGED <<joining, online, ui>> /\ past.hasty \subseteq past'.hasty
      BY <2>2, LeaveRoomTyped
    <3> QED BY <3>1, ServerClients
  <2>3. CASE Revoke(s)
    <3>1. UNCHANGED <<joining, online, ui>> /\ past.hasty \subseteq past'.hasty
      BY <2>3, RevokeTyped
    <3> QED BY <3>1, ServerClients
  <2>4. CASE EndCall(s)
    <3>1. UNCHANGED <<joining, online, ui>> /\ past.hasty \subseteq past'.hasty
      BY <2>4, EndCallTyped
    <3> QED BY <3>1, ServerClients
  <2> QED BY <1>2, <2>1, <2>2, <2>3, <2>4
<1>3. ASSUME NEW s \in Sockets, NEW t \in Sockets, RemoveParticipant(s, t) PROVE ClientInv'
  <2>1. UNCHANGED <<joining, online, ui>> /\ past' = Parting(t)
    BY <1>3, RemoveTyped
  <2> QED BY <2>1, PartingIs, ServerClients
<1>4. ASSUME NEW j \in joining, EnterRoom(j) \/ TellRoom(j) PROVE ClientInv'
  <2>1. CASE TellRoom(j)
    <3>1. UNCHANGED <<online, ui>> /\ joining' \subseteq joining /\ past'.hasty = past.hasty
      BY <2>1, TellRoomTyped
    <3> QED BY <3>1, ServerClients
  <2> QED BY <1>4, <2>1, EnterRoomClients
<1>5. ASSUME NEW r \in removals, PutOut(r) \/ HandOver(r) PROVE ClientInv'
  <2>1. UNCHANGED <<joining, online, ui>> /\ past'.hasty = past.hasty
    BY <1>5, PutOutTyped, HandOverTyped
  <2> QED BY <2>1, ServerClients
<1>6. CASE EndRoom
  <2>1. UNCHANGED <<joining, online, ui>> /\ past.hasty \subseteq past'.hasty
    BY <1>6, EndRoomTyped
  <2> QED BY <2>1, ServerClients
<1> QED BY <1>1, <1>2, <1>3, <1>4, <1>5, <1>6 DEF CallNext

LEMMA ClientAlways == CallSpec => []ClientInv
<1>1. CallInit => ClientInv
  <2> SUFFICES ASSUME CallInit PROVE ClientInv
    OBVIOUS
  <2>1. (\A s \in Sockets : ui[s] = NoCall) /\ joining = {}
    BY DEF CallInit
  <2>2. ~NoCall.on /\ NoCall.took \subseteq NoCall.peers
    BY DEF NoCall
  <2>3. \A s \in Sockets : ClientOk(s)
    BY <2>1, <2>2 DEF ClientOk
  <2>4. \A s \in Sockets : JoinsOnce(s)
    BY <2>1 DEF JoinsOnce, Joiners
  <2> QED BY <2>3, <2>4 DEF ClientInv
<1> QED BY <1>1, ClientNext, FollowAlways, CallTyped, PTL DEF CallSpec


\* What is appended to a client's messages, and is not about s, changes nothing between it and s.
LEMMA LinkedStays ==
  ASSUME CallTypeOK, NEW u \in Sockets, NEW s \in Sockets, Linked(u, s),
         NEW m \in Messages, m \notin About(s), NEW n \in Messages, n \notin About(u),
         ui'[u] = ui[u], inbox'[u] = inbox[u] \/ inbox'[u] = Append(inbox[u], m),
         ui'[s] = ui[s], inbox'[s] = inbox[s] \/ inbox'[s] = Append(inbox[s], n)
  PROVE  Linked(u, s)'
<1>1. inbox[u] \in Seq(Messages) /\ inbox[s] \in Seq(Messages)
  BY CallTypes DEF Boxes
<1>2. /\ None(inbox[u], About(s)) => None(inbox'[u], About(s))
      /\ After(inbox[u], Joined(s), About(s)) => After(inbox'[u], Joined(s), About(s))
  <2>1. /\ None(inbox[u], About(s)) => None(Append(inbox[u], m), About(s))
        /\ After(inbox[u], Joined(s), About(s)) => After(Append(inbox[u], m), Joined(s), About(s))
    BY <1>1, AppendNone, AppendAfter
  <2> QED BY <2>1
<1>3. /\ ~None(inbox[s], Offered(u)) => ~None(inbox'[s], Offered(u))
      /\ ~None(inbox[s], Adding(u)) => ~None(inbox'[s], Adding(u))
  <2>1. /\ ~None(inbox[s], Offered(u)) => ~None(Append(inbox[s], n), Offered(u))
        /\ ~None(inbox[s], Adding(u)) => ~None(Append(inbox[s], n), Adding(u))
    BY <1>1, AppendNone
  <2> QED BY <2>1
<1>4. n \notin Left(u) \cup Joined(u)
  BY DEF About, Adding
<1>5. None(inbox[s], Left(u) \cup Joined(u)) => None(inbox'[s], Left(u) \cup Joined(u))
  <2>1. None(inbox[s], Left(u) \cup Joined(u)) => None(Append(inbox[s], n), Left(u) \cup Joined(u))
    BY <1>1, <1>4, AppendNone
  <2> QED BY <2>1
<1>6. /\ \/ /\ s \in ui'[u].peers \ ui'[u].took /\ None(inbox'[u], About(s))
            /\ u \in ui'[s].took \/ ~None(inbox'[s], Offered(u))
         \/ After(inbox'[u], Joined(s), About(s))
      /\ u \in ui'[s].peers \/ ~None(inbox'[s], Adding(u))
      /\ None(inbox'[s], Left(u) \cup Joined(u))
  BY <1>2, <1>3, <1>5 DEF Linked
<1> QED BY <1>6 DEF Linked, None, After, Joined, About, Adding, Offered, Left

LEMMA LiveBefore ==
  ASSUME CallTypeOK, NEW s \in Sockets, NEW m \in Messages, ui'[s] = ui[s], Live(s)',
         inbox'[s] = inbox[s] \/ inbox'[s] = Append(inbox[s], m)
  PROVE  Live(s) /\ (inbox'[s] = Append(inbox[s], m) => m.type \notin Over)
<1>1. inbox[s] \in Seq(Messages)
  BY CallTypes DEF Boxes
<1>2. inbox'[s] = Append(inbox[s], m) =>
        (Holds(inbox'[s], Over) <=> Holds(inbox[s], Over) \/ m.type \in Over)
  BY <1>1, AppendHolds
<1>3. Live(s)' <=> ui'[s].on /\ ~Holds(inbox'[s], Over)
  BY DEF Live, Holds, Over
<1> QED BY <1>2, <1>3 DEF Live

\* A step that u reads nothing new about s from, nor s about u, if both are in the call.
LEMMA PairStays ==
  ASSUME CallTypeOK, NEW u \in Sockets, NEW s \in Sockets, PairOk(u, s), Apart(u, s)',
         \A j \in joining' : j.of = u => /\ \E k \in joining : k.of = u /\ k.saw = j.saw
                                         /\ s \in Seated' <=> s \in Seated,
         NEW m \in Messages, m \notin About(s), NEW n \in Messages, n \notin About(u),
         Live(u)' \/ u \in Joiners' =>
           ui'[u] = ui[u] /\ (inbox'[u] = inbox[u] \/ inbox'[u] = Append(inbox[u], m)),
         Live(u)' /\ Absent(s)' => Absent(s),
         Present(u)' /\ Present(s)' =>
           /\ {u, s} \subseteq Seated \ Joiners /\ ui'[s] = ui[s]
           /\ inbox'[s] = inbox[s] \/ inbox'[s] = Append(inbox[s], n)
  PROVE  PairOk(u, s)'
<1>1. inbox[u] \in Seq(Messages) /\ inbox[s] \in Seq(Messages)
  BY CallTypes DEF Boxes
<1>2. m \notin Adding(s) /\ m \notin Joined(s) /\ m \notin Left(s) \cup Joined(s)
  BY DEF About, Adding
<1>3. Seen(u, s)'
  BY DEF Seen, PairOk
<1>4. Fresh(u, s)'
  <2> SUFFICES ASSUME u \in Joiners' PROVE None(inbox'[u], Left(s) \cup Joined(s))
    BY DEF Fresh, None, Left, Joined
  <2>1. u \in Joiners
    BY DEF Joiners
  <2>2. None(inbox[u], Left(s) \cup Joined(s))
    BY <2>1 DEF Fresh, PairOk
  <2>3. None(Append(inbox[u], m), Left(s) \cup Joined(s))
    BY <1>1, <1>2, <2>2, AppendNone
  <2> QED BY <2>1, <2>2, <2>3
<1>5. Forgotten(u, s)'
  <2> SUFFICES ASSUME Live(u)', Absent(s)' PROVE Forgot(inbox'[u], ui'[u].peers, s)
    BY DEF Forgotten, Forgot, After, None, Left, Adding, Joined, Offered
  <2>1. Live(u)
    BY LiveBefore
  <2>2. Forgot(inbox[u], ui[u].peers, s)
    BY <2>1 DEF Forgotten, PairOk
  <2> QED BY <1>1, <1>2, <2>2, AppendForgot
<1>6. InOrder(u, s)'
  <2> SUFFICES ASSUME Live(u)' PROVE Orderly(inbox'[u], ui'[u].peers, s)
    BY DEF InOrder, Orderly, Left, Adding, Joined, Offered
  <2>1. Live(u)
    BY LiveBefore
  <2>2. Orderly(inbox[u], ui[u].peers, s)
    BY <2>1 DEF InOrder, PairOk
  <2> QED BY <1>1, <1>2, <2>2, AppendOrderly
<1>7. Link(u, s)'
  <2> SUFFICES ASSUME Present(u)', Present(s)' PROVE Linked(u, s)' \/ Linked(s, u)'
    BY DEF Link
  <2>1. Live(u)' /\ Live(s)'
    BY DEF Present
  <2>2. Live(u) /\ Live(s)
    BY <2>1, LiveBefore
  <2>3. Linked(u, s) \/ Linked(s, u)
    BY <2>2 DEF Link, Present, PairOk
  <2> QED BY <2>1, <2>3, LinkedStays
<1> QED BY <1>3, <1>4, <1>5, <1>6, <1>7 DEF PairOk

\* Somebody's going is seen to cross the joins that are under way.
LEMMA ApartStays ==
  ASSUME NEW u, NEW s, u # s, Apart(u, s), {u, s} \notin past'.crossed, Joiners' \subseteq Joiners,
         NEW x, Movers' \subseteq Movers \cup {x}, Pairs(x, Joiners) \subseteq past'.crossed
  PROVE  Apart(u, s)'
<1> SUFFICES ASSUME u \in Joiners', s \in Movers' PROVE FALSE
  BY DEF Apart
<1>1. u \in Joiners /\ s \notin Movers /\ s = x
  BY DEF Apart
<1>2. {s, u} \in Pairs(x, Joiners)
  BY <1>1 DEF Pairs
<1>3. {s, u} = {u, s}
  OBVIOUS
<1> QED BY <1>2, <1>3

LEMMA ApartFewer ==
  ASSUME NEW u, NEW s, Apart(u, s), Joiners' \subseteq Joiners, Movers' \subseteq Movers
  PROVE  Apart(u, s)'
BY DEF Apart

LEMMA OtherMessage ==
  ASSUME NEW s PROVE Gone \in Messages /\ Gone \notin About(s)
BY DEF Gone, Messages, About, Adding, Joined, Offered, Left

\* The pairs that a step leaves out of the exceptions were no exceptions before.
LEMMA PairBefore ==
  ASSUME PairInv, NEW u \in Sockets \ past'.hasty, NEW s \in Sockets \ past'.hasty, u # s,
         {u, s} \notin past'.crossed, past.hasty \subseteq past'.hasty,
         past.crossed \subseteq past'.crossed
  PROVE  PairOk(u, s) /\ PairOk(s, u)
<1>1. {s, u} = {u, s}
  OBVIOUS
<1> QED BY <1>1 DEF PairInv

LEMMA LiveFollows ==
  ASSUME CallTypeOK, FollowInv, ClientInv, NEW u \in Sockets \ past.hasty, Live(u)
  PROVE  Followed(u) /\ ~Going(u) /\ (u \notin Joiners => u \in Seated) /\ u \in online
<1>1. u \in online /\ Followed(u)
  BY DEF Live, ClientInv, ClientOk, FollowInv
<1>2. Comes(u, "room") => u \in Joiners
  BY DEF Comes, Joiners
<1> QED BY <1>1, <1>2 DEF Followed, Live


ConnInv == CallTypeOK /\ FollowInv /\ ClientInv /\ PairInv

LEMMA EnterRoomPair == ASSUME ConnInv, NEW j, EnterRoom(j) PROVE PairInv'
<1> SUFFICES ASSUME NEW u \in Sockets \ past'.hasty, NEW s \in Sockets \ past'.hasty, u # s,
                    {u, s} \notin past'.crossed
             PROVE  PairOk(u, s)'
  BY DEF PairInv
<1> USE DEF ConnInv
<1>x. PICK x : x = [j EXCEPT !.at = "tell"]
  OBVIOUS
<1>1. /\ UNCHANGED <<leaving, removals, online, ui, inbox, past>> /\ j \in joining
      /\ Seated' = Seated \cup ({j.of} \cap online)
      /\ joining' = (joining \ {j}) \cup {x} /\ x.of = j.of /\ x.saw = j.saw
  <2>1. j \in Joinings
    BY EnterRoomTyped
  <2>2. x.saw = j.saw
    BY <1>x, <2>1 DEF Joinings
  <2> QED BY <1>x, <2>2, EnterRoomTyped DEF EnterRoom
<1>2. PairOk(u, s)
  BY <1>1, PairBefore
<1>3. Joiners' = Joiners /\ Movers' = Movers /\ j.of \in Joiners
  BY <1>1 DEF Joiners, Movers
<1>4. Apart(u, s)'
  BY <1>2, <1>3, ApartFewer DEF PairOk
<1>5. \A k \in joining' : k.of = u => /\ \E i \in joining : i.of = u /\ i.saw = k.saw
                                      /\ s \in Seated' <=> s \in Seated
  <2> SUFFICES ASSUME NEW k \in joining', k.of = u
               PROVE  /\ \E i \in joining : i.of = u /\ i.saw = k.saw
                      /\ s \in Seated' <=> s \in Seated
    OBVIOUS
  <2>1. \E i \in joining : i.of = u /\ i.saw = k.saw
    BY <1>1
  <2>2. s \notin Movers
    BY <1>2, <2>1 DEF PairOk, Apart, Joiners
  <2>3. s # j.of
    BY <1>3, <2>2 DEF Movers
  <2> QED BY <1>1, <2>1, <2>3
<1>6. Absent(s)' => Absent(s)
  BY <1>1, <1>3 DEF Absent, Out
<1>7. Present(u)' /\ Present(s)' => {u, s} \subseteq Seated \ Joiners
  BY <1>1, <1>3 DEF Present
<1> QED BY <1>1, <1>2, <1>4, <1>5, <1>6, <1>7, PairStays, OtherMessage

LEMMA LeavePair == ASSUME ConnInv, NEW x \in Sockets, Leave(x) PROVE PairInv'
<1> SUFFICES ASSUME NEW u \in Sockets \ past'.hasty, NEW s \in Sockets \ past'.hasty, u # s,
                    {u, s} \notin past'.crossed
             PROVE  PairOk(u, s)'
  BY DEF PairInv
<1> USE DEF ConnInv
<1>1. /\ UNCHANGED <<leaving, joining, online>> /\ Seated' = Seated /\ past' = Parting(x)
      /\ removals' = removals \cup Removal(x) /\ ui' = [ui EXCEPT ![x] = NoCall]
      /\ \A t \in Sockets : inbox'[t] = IF t = x THEN Heeded(inbox[t]) ELSE inbox[t]
  BY LeaveTyped
<1>2. /\ past.hasty \subseteq past'.hasty /\ past'.revoked = past.revoked
      /\ x \in Joiners => x \in past'.hasty
      /\ past'.crossed = past.crossed \cup Pairs(x, Joiners)
  BY <1>1, PartingIs
<1>3. PairOk(u, s)
  BY <1>2, PairBefore
<1>4. Joiners' = Joiners /\ Movers' \subseteq Movers \cup {x} /\ x \notin {u, s} \cap Joiners
  BY <1>1, <1>2 DEF Joiners, Movers, Removal
<1>5. Apart(u, s)'
  BY <1>2, <1>3, <1>4, ApartStays DEF PairOk
<1>6. ui \in [Sockets -> Clients] /\ (Out(s) => Out(s)')
  BY <1>1, CallTypes DEF Out
<1>7. \A t \in Sockets : Live(t)' => t # x
  BY <1>1, <1>6 DEF Live, NoCall
<1>8. Absent(s)' => Absent(s)
  BY <1>1, <1>2, <1>4, <1>6 DEF Absent
<1>9. \A t \in Sockets : t # x => ui'[t] = ui[t] /\ inbox'[t] = inbox[t]
  BY <1>1, <1>6
<1>10. Present(u)' /\ Present(s)' => {u, s} \subseteq Seated \ Joiners /\ x # s /\ x # u
  BY <1>1, <1>4, <1>7 DEF Present
<1>11. Live(u)' \/ u \in Joiners' => ui'[u] = ui[u] /\ inbox'[u] = inbox[u]
  BY <1>4, <1>7, <1>9
<1> QED BY <1>1, <1>3, <1>5, <1>8, <1>9, <1>10, <1>11, PairStays, OtherMessage

LEMMA DisconnectPair == ASSUME ConnInv, NEW x \in Sockets, Disconnect(x) PROVE PairInv'
<1> SUFFICES ASSUME NEW u \in Sockets \ past'.hasty, NEW s \in Sockets \ past'.hasty, u # s,
                    {u, s} \notin past'.crossed
             PROVE  PairOk(u, s)'
  BY DEF PairInv
<1> USE DEF ConnInv
<1>1. /\ UNCHANGED joining /\ Seated' = Seated \ {x} /\ past' = Parting(x) /\ leaving' = leaving \ {x}
      /\ removals' = removals \cup Removal(x) /\ ui' = [ui EXCEPT ![x] = NoCall]
      /\ \A t \in Sockets : inbox'[t] = IF t = x THEN <<>> ELSE inbox[t]
  BY DisconnectTyped
<1>2. /\ past.hasty \subseteq past'.hasty /\ past'.revoked = past.revoked
      /\ x \in Joiners => x \in past'.hasty
      /\ past'.crossed = past.crossed \cup Pairs(x, Joiners)
  BY <1>1, PartingIs
<1>3. PairOk(u, s)
  BY <1>2, PairBefore
<1>4. Joiners' = Joiners /\ Movers' \subseteq Movers \cup {x} /\ x \notin {u, s} \cap Joiners
  BY <1>1, <1>2 DEF Joiners, Movers, Removal
<1>5. Apart(u, s)'
  BY <1>2, <1>3, <1>4, ApartStays DEF PairOk
<1>6. ui \in [Sockets -> Clients] /\ (Out(s) => Out(s)')
  BY <1>1, CallTypes DEF Out
<1>7. \A t \in Sockets : Live(t)' => t # x
  BY <1>1, <1>6 DEF Live, NoCall
<1>8. Absent(s)' => Absent(s)
  <2>1. CASE s # x
    BY <1>1, <1>2, <1>4, <1>6, <2>1 DEF Absent
  <2>2. CASE s = x
    <3>r. PICK r : r = [of |-> x, at |-> "out", heir |-> Nobody]
      OBVIOUS
    <3>1. r.of = x /\ r.at = "out" /\ (x \in Seated => r \in removals')
      BY <1>1, <3>r DEF Removal
    <3>2. x \in Seated => Out(x)'
      BY <3>1 DEF Out
    <3> QED BY <1>2, <1>4, <1>6, <2>2, <3>2 DEF Absent
  <2> QED BY <2>1, <2>2
<1>9. \A t \in Sockets : t # x => ui'[t] = ui[t] /\ inbox'[t] = inbox[t]
  BY <1>1, <1>6
<1>10. Present(u)' /\ Present(s)' => {u, s} \subseteq Seated \ Joiners /\ x # s /\ x # u
  BY <1>1, <1>4, <1>7 DEF Present
<1>11. Live(u)' \/ u \in Joiners' => ui'[u] = ui[u] /\ inbox'[u] = inbox[u]
  BY <1>4, <1>7, <1>9
<1>12. u \in Joiners => s # x
  <2>1. u \in Joiners /\ s = x => {s, u} \in past'.crossed
    BY <1>2 DEF Pairs
  <2>2. {s, u} = {u, s}
    OBVIOUS
  <2> QED BY <2>1, <2>2
<1>13. \A j \in joining' : j.of = u => j \in joining /\ (s \in Seated' <=> s \in Seated)
  BY <1>1, <1>12 DEF Joiners
<1> QED BY <1>3, <1>5, <1>8, <1>9, <1>10, <1>11, <1>13, PairStays, OtherMessage

LEMMA LeaveRoomPair == ASSUME ConnInv, NEW x \in Sockets, LeaveRoom(x) PROVE PairInv'
<1> SUFFICES ASSUME NEW u \in Sockets \ past'.hasty, NEW s \in Sockets \ past'.hasty, u # s,
                    {u, s} \notin past'.crossed
             PROVE  PairOk(u, s)'
  BY DEF PairInv
<1> USE DEF ConnInv
<1>1. /\ UNCHANGED <<joining, removals, online, ui, inbox>> /\ Seated' = Seated \ {x}
      /\ leaving' = leaving \ {x} /\ x \in leaving
  BY LeaveRoomTyped
<1>2. /\ past.hasty \subseteq past'.hasty /\ past'.revoked = past.revoked
      /\ past'.crossed = past.crossed \cup Pairs(x, Joiners)
  BY LeaveRoomTyped
<1>3. PairOk(u, s)
  BY <1>2, PairBefore
<1>4. Joiners' = Joiners /\ Movers' \subseteq Movers
  BY <1>1 DEF Joiners, Movers
<1>5. Apart(u, s)'
  BY <1>3, <1>4, ApartFewer DEF PairOk
<1>6. u \in Joiners => s # x
  BY <1>1, <1>3 DEF PairOk, Apart, Movers
<1>7. \A j \in joining' : j.of = u => j \in joining /\ (s \in Seated' <=> s \in Seated)
  BY <1>1, <1>6 DEF Joiners
<1>8. Absent(s)' => Absent(s)
  BY <1>1, <1>2, <1>4 DEF Absent, Out
<1>9. Present(u)' /\ Present(s)' => {u, s} \subseteq Seated \ Joiners
  BY <1>1, <1>4 DEF Present
<1> QED BY <1>1, <1>3, <1>5, <1>7, <1>8, <1>9, PairStays, OtherMessage

LEMMA RevokePair == ASSUME ConnInv, NEW x \in Sockets, Revoke(x) PROVE PairInv'
<1> SUFFICES ASSUME NEW u \in Sockets \ past'.hasty, NEW s \in Sockets \ past'.hasty, u # s,
                    {u, s} \notin past'.crossed
             PROVE  PairOk(u, s)'
  BY DEF PairInv
<1> USE DEF ConnInv
<1>1. /\ UNCHANGED <<joining, removals, online, ui>> /\ Seated' = Seated
      /\ leaving' = IF x \in Seated THEN leaving \cup {x} ELSE leaving
      /\ past'.revoked = past.revoked \cup {x} /\ past.hasty \subseteq past'.hasty
      /\ past'.crossed = past.crossed \cup Pairs(x, Joiners)
      /\ \A t \in Sockets : inbox'[t] = IF t = x THEN Append(inbox[t], Gone) ELSE inbox[t]
  BY RevokeTyped
<1>2. PairOk(u, s)
  BY <1>1, PairBefore
<1>3. Joiners' = Joiners /\ Movers' \subseteq Movers \cup {x}
  BY <1>1 DEF Joiners, Movers
<1>4. Apart(u, s)'
  BY <1>1, <1>2, <1>3, ApartStays DEF PairOk
<1>5. Absent(s)' => Absent(s)
  BY <1>1, <1>3 DEF Absent, Out
<1>6. Present(u)' /\ Present(s)' => {u, s} \subseteq Seated \ Joiners
  BY <1>1, <1>3 DEF Present
<1>7. \A t \in Sockets : inbox'[t] = inbox[t] \/ inbox'[t] = Append(inbox[t], Gone)
  BY <1>1
<1> QED BY <1>1, <1>2, <1>4, <1>5, <1>6, <1>7, PairStays, OtherMessage

LEMMA RemovePair ==
  ASSUME ConnInv, NEW a \in Sockets, NEW x \in Sockets, RemoveParticipant(a, x) PROVE PairInv'
<1> SUFFICES ASSUME NEW u \in Sockets \ past'.hasty, NEW s \in Sockets \ past'.hasty, u # s,
                    {u, s} \notin past'.crossed
             PROVE  PairOk(u, s)'
  BY DEF PairInv
<1> USE DEF ConnInv
<1>m. PICK m : m = [type |-> "removed"]
  OBVIOUS
<1>1. /\ UNCHANGED <<leaving, joining, online, ui>> /\ Seated' = Seated
      /\ past' = Parting(x) /\ removals' = removals \cup Removal(x)
      /\ \A t \in Sockets : inbox'[t] = IF t = x /\ t \in online /\ ui[t].on
                                        THEN Append(inbox[t], m) ELSE inbox[t]
  BY <1>m, RemoveTyped
<1>2. /\ past.hasty \subseteq past'.hasty /\ past'.revoked = past.revoked
      /\ past'.crossed = past.crossed \cup Pairs(x, Joiners)
  BY <1>1, PartingIs
<1>3. PairOk(u, s)
  BY <1>2, PairBefore
<1>4. Joiners' = Joiners /\ Movers' \subseteq Movers \cup {x}
  BY <1>1 DEF Joiners, Movers, Removal
<1>5. Apart(u, s)'
  BY <1>2, <1>3, <1>4, ApartStays DEF PairOk
<1>6. Absent(s)' => Absent(s)
  BY <1>1, <1>2, <1>4 DEF Absent, Out
<1>7. Present(u)' /\ Present(s)' => {u, s} \subseteq Seated \ Joiners
  BY <1>1, <1>4 DEF Present
<1>8. \A t \in Sockets : inbox'[t] = inbox[t] \/ inbox'[t] = Append(inbox[t], m)
  BY <1>1
<1>9. m \in Messages /\ m \notin About(u) /\ m \notin About(s)
  BY <1>m DEF Messages, Ends, About, Adding, Joined, Offered, Left
<1> QED BY <1>1, <1>3, <1>5, <1>6, <1>7, <1>8, <1>9, PairStays

LEMMA HandOverPair == ASSUME ConnInv, NEW r, HandOver(r) PROVE PairInv'
<1> SUFFICES ASSUME NEW u \in Sockets \ past'.hasty, NEW s \in Sockets \ past'.hasty, u # s,
                    {u, s} \notin past'.crossed
             PROVE  PairOk(u, s)'
  BY DEF PairInv
<1> USE DEF ConnInv
<1>m. PICK m : m = [type |-> "host", host |-> r.heir]
  OBVIOUS
<1>1. /\ UNCHANGED <<leaving, joining, online, ui>> /\ Seated' = Seated
      /\ r \in Removing /\ r.at = "heir" /\ removals' = removals \ {r}
      /\ past'.hasty = past.hasty /\ past'.revoked = past.revoked /\ past'.crossed = past.crossed
      /\ \A t \in Sockets : inbox'[t] = IF t \in Seated \cap online /\ ui[t].on
                                        THEN Append(inbox[t], m) ELSE inbox[t]
  BY <1>m, HandOverTyped
<1>2. PairOk(u, s)
  BY <1>1, PairBefore
<1>3. Joiners' = Joiners /\ Movers' \subseteq Movers
  BY <1>1 DEF Joiners, Movers
<1>4. Apart(u, s)'
  BY <1>2, <1>3, ApartFewer DEF PairOk
<1>5. Absent(s)' => Absent(s)
  BY <1>1, <1>3 DEF Absent, Out
<1>6. Present(u)' /\ Present(s)' => {u, s} \subseteq Seated \ Joiners
  BY <1>1, <1>3 DEF Present
<1>7. \A t \in Sockets : inbox'[t] = inbox[t] \/ inbox'[t] = Append(inbox[t], m)
  BY <1>1
<1>8. m \in Messages /\ m \notin About(u) /\ m \notin About(s)
  BY <1>1, <1>m DEF Messages, Removing, Hosts, About, Adding, Joined, Offered, Left
<1> QED BY <1>1, <1>2, <1>4, <1>5, <1>6, <1>7, <1>8, PairStays


LEMMA AskJoinPair == ASSUME ConnInv, NEW x \in Sockets, AskJoin(x) PROVE PairInv'
<1> SUFFICES ASSUME NEW u \in Sockets \ past'.hasty, NEW s \in Sockets \ past'.hasty, u # s,
                    {u, s} \notin past'.crossed
             PROVE  PairOk(u, s)'
  BY DEF PairInv
<1> USE DEF ConnInv
<1>j. PICK j : j = [of |-> x, at |-> "room", saw |-> Seated, nth |-> joins]
  OBVIOUS
<1>1. /\ UNCHANGED <<leaving, removals, online>> /\ Seated' = Seated /\ past'.revoked = past.revoked
      /\ past.hasty \subseteq past'.hasty /\ past'.crossed = past.crossed \cup Pairs(x, Movers)
      /\ ui[x].on \/ x \in Movers => x \in past'.hasty
      /\ ui' = [ui EXCEPT ![x] = [@ EXCEPT !.on = TRUE]] /\ x \in online \ past.revoked
      /\ ui \in [Sockets -> Clients] /\ inbox \in Boxes
  BY AskJoinTyped, CallTypes DEF AskJoin
<1>2. PairOk(u, s)
  BY <1>1, PairBefore
<1>3. /\ \A t \in Sockets : t # x => ui'[t] = ui[t] /\ inbox'[t] = inbox[t]
      /\ joining' = joining \/ joining' = joining \cup {j}
      /\ j.of = x /\ j.saw = Seated
  <2>1. \A t \in Sockets : t # x => inbox'[t] = inbox[t]
    BY <1>1 DEF AskJoin, Boxes
  <2>2. joining' = joining \/ joining' = joining \cup {j}
    BY <1>j DEF AskJoin
  <2> QED BY <1>1, <1>j, <2>1, <2>2
<1>4. Joiners' \subseteq Joiners \cup {x} /\ Joiners \subseteq Joiners'
      /\ Movers' \subseteq Movers \cup {x}
  BY <1>1, <1>3 DEF Joiners, Movers
\* Whoever is not in the way and has no call has no seat, and nobody hears of it.
<1>5. x \notin past'.hasty => /\ ~ui[x].on /\ x \notin Joiners /\ x \notin leaving /\ ~Out(x)
                              /\ x \notin Seated /\ ~Holds(inbox[x], {"revoked"})
                              /\ \A i \in DOMAIN inbox[x] : inbox[x][i].type = "revoked"
  <2> SUFFICES ASSUME x \notin past'.hasty
               PROVE  /\ ~ui[x].on /\ x \notin Joiners /\ x \notin leaving /\ ~Out(x)
                      /\ x \notin Seated /\ ~Holds(inbox[x], {"revoked"})
                      /\ \A i \in DOMAIN inbox[x] : inbox[x][i].type = "revoked"
    OBVIOUS
  <2>1. ~ui[x].on /\ x \notin Movers /\ Followed(x)
    BY <1>1 DEF FollowInv
  <2>2. ~Going(x) /\ x \notin Joiners /\ x \notin leaving /\ ~Out(x)
    BY <2>1 DEF Movers, Going, Out
  <2> QED BY <1>1, <2>1, <2>2 DEF Followed
<1>6. CASE x \notin {u, s}
  <2>1. \A k \in joining' : k.of = u => k \in joining
    BY <1>3, <1>6
  <2>2. Apart(u, s)'
    BY <1>2, <1>4, <1>6 DEF PairOk, Apart
  <2>3. Absent(s)' => Absent(s)
    BY <1>1, <1>4, <1>6 DEF Absent, Out
  <2>4. Present(u)' /\ Present(s)' => {u, s} \subseteq Seated \ Joiners
    BY <1>1, <1>4 DEF Present
  <2> QED BY <1>1, <1>2, <1>3, <1>6, <2>1, <2>2, <2>3, <2>4, PairStays, OtherMessage
<1>7. CASE x = s
  <2>1. u \notin Joiners'
    <3>1. u \in Joiners => {s, u} \in past'.crossed
      BY <1>1, <1>7 DEF Pairs, Movers
    <3>2. {s, u} = {u, s}
      OBVIOUS
    <3> QED BY <1>4, <1>7, <3>1, <3>2
  <2>2. Apart(u, s)' /\ \A k \in joining' : k.of # u
    BY <2>1 DEF Apart, Joiners
  <2>3. Absent(s)
    BY <1>1, <1>5, <1>7 DEF Absent
  <2>4. ~Present(s)'
    BY <1>1, <1>5, <1>7 DEF Present
  <2> QED BY <1>2, <1>3, <1>7, <2>2, <2>3, <2>4, PairStays, OtherMessage
<1>8. CASE x = u
  <2>1. inbox[u] = <<>> /\ ui[u] = NoCall /\ u \notin Seated
    <3>1. inbox[u] \in Seq(Messages) /\ ClientOk(u)
      BY <1>1 DEF Boxes, ClientInv
    <3>2. inbox[u] # <<>> => 1 \in DOMAIN inbox[u]
      BY <3>1
    <3> QED BY <1>5, <1>8, <3>1, <3>2 DEF Holds, ClientOk
  <2>2. Apart(u, s)'
    <3>1. s \in Movers => {u, s} \in past'.crossed
      BY <1>1, <1>8 DEF Pairs
    <3> QED BY <1>4, <1>8, <3>1 DEF Apart
  <2>3. Seen(u, s)'
    <3>1. \A k \in joining' : k.of = u => k.saw = Seated
      BY <1>3, <1>5, <1>8 DEF Joiners
    <3> QED BY <1>1, <3>1 DEF Seen
  <2>4. Link(u, s)'
    BY <1>1, <2>1 DEF Link, Present
  <2>5. CASE inbox'[u] = <<>>
    <3>1. ui'[u].peers = {}
      BY <1>1, <1>8, <2>1 DEF NoCall
    <3>2. \A kind : None(inbox'[u], kind)
      BY <2>5 DEF None
    <3>3. Fresh(u, s)'
      BY <3>2 DEF Fresh, None, Left, Joined
    <3>4. Forgot(inbox'[u], ui'[u].peers, s)
      BY <3>1, <3>2 DEF Forgot
    <3>5. Orderly(inbox'[u], ui'[u].peers, s)
      BY <2>5 DEF Orderly
    <3>6. Forgotten(u, s)' /\ InOrder(u, s)'
      BY <3>4, <3>5 DEF Forgotten, InOrder, Forgot, Orderly, After, None, Left, Adding, Joined, Offered
    <3> QED BY <2>2, <2>3, <2>4, <3>3, <3>6 DEF PairOk
  <2>6. CASE inbox'[u] # <<>>
    <3>m. PICK m \in Messages : m = [type |-> "refused"]
      BY DEF Messages, Ends
    <3>1. inbox'[u] = Append(inbox[u], m) /\ joining' = joining
      BY <1>1, <1>8, <2>1, <2>6, <3>m DEF AskJoin, Boxes
    <3>2. Holds(inbox'[u], Over)
      <4>1. inbox[u] \in Seq(Messages) /\ m.type \in Over
        BY <1>1, <3>m DEF Boxes, Over, Ends
      <4> QED BY <3>1, <4>1, AppendHolds
    <3>3. ~Live(u)'
      BY <3>2 DEF Live, Holds, Over
    <3>4. u \notin Joiners'
      BY <1>5, <1>8, <3>1 DEF Joiners
    <3> QED BY <2>2, <2>3, <2>4, <3>3, <3>4 DEF PairOk, Fresh, Forgotten, InOrder
  <2> QED BY <2>5, <2>6
<1> QED BY <1>6, <1>7, <1>8

LEMMA PutOutPair == ASSUME ConnInv, NEW r, PutOut(r) PROVE PairInv'
<1> SUFFICES ASSUME NEW u \in Sockets \ past'.hasty, NEW s \in Sockets \ past'.hasty, u # s,
                    {u, s} \notin past'.crossed
             PROVE  PairOk(u, s)'
  BY DEF PairInv
<1> USE DEF ConnInv
<1>x. PICK x : x = r.of
  OBVIOUS
<1>m. PICK m : m = [type |-> "left", who |-> x]
  OBVIOUS
<1>1. /\ UNCHANGED <<joining, online, ui, past>> /\ Seated' = Seated
      /\ r \in Removing /\ r \in removals /\ r.at = "out" /\ x \in Sockets
      /\ leaving' = IF x \in Seated THEN leaving \cup {x} ELSE leaving
      /\ \A y \in removals' : (y \in removals /\ y # r) \/ (y.at = "heir" /\ y.of = x)
      /\ \A y \in removals : y \in removals' \/ y = r
      /\ \A t \in Sockets : inbox'[t] = IF t \in (Seated \ {x}) \cap online /\ ui[t].on
                                        THEN Append(inbox[t], m) ELSE inbox[t]
  BY <1>x, <1>m, PutOutTyped DEF Removing
<1>2. PairOk(u, s) /\ u \notin past.hasty /\ s \notin past.hasty
  BY <1>1, PairBefore
<1>3. Joiners' = Joiners /\ Movers' \subseteq Movers /\ x \in Movers
  BY <1>1, <1>x DEF Joiners, Movers
<1>4. Apart(u, s)'
  BY <1>2, <1>3, ApartFewer DEF PairOk
<1>5. Present(u)' /\ Present(s)' => {u, s} \subseteq Seated \ Joiners
  BY <1>1, <1>3 DEF Present
<1>6. m \in Messages /\ m.type = "left" /\ m.who = x
  BY <1>1, <1>m DEF Messages
<1>7. \A t \in Sockets : inbox'[t] = inbox[t] \/ inbox'[t] = Append(inbox[t], m)
  BY <1>1
\* Who is going is told so, and knows of no call before.
<1>8. \A t \in Sockets \ past.hasty : Live(t)' => t # x
  <2> SUFFICES ASSUME NEW t \in Sockets \ past.hasty, Live(t)', t = x PROVE FALSE
    OBVIOUS
  <2>1. Live(t)
    BY <1>1, <1>6, <1>7, LiveBefore
  <2>2. ~Going(t)
    BY <2>1, LiveFollows
  <2> QED BY <1>1, <1>x, <2>2 DEF Going
<1>9. CASE x # s
  <2>1. Absent(s)' => Absent(s)
    BY <1>1, <1>3, <1>9, <1>x DEF Absent, Out
  <2>2. m \notin About(s)
    BY <1>6, <1>9 DEF About, Adding, Joined, Offered, Left
  <2>3. x # u => m \notin About(u)
    BY <1>6 DEF About, Adding, Joined, Offered, Left
  <2>4. Present(u)' => x # u
    BY <1>2, <1>8 DEF Present
  <2>5. CASE x = u
    BY <1>1, <1>2, <1>4, <1>6, <1>7, <2>1, <2>2, <2>4, <2>5, PairStays, OtherMessage
  <2>6. CASE x # u
    BY <1>1, <1>2, <1>4, <1>5, <1>6, <1>7, <2>1, <2>2, <2>3, <2>6, PairStays
  <2> QED BY <2>5, <2>6
<1>10. CASE x = s
  <2>1. u \notin Joiners' /\ u \notin Joiners
    BY <1>2, <1>3, <1>10 DEF PairOk, Apart
  <2>2. Seen(u, s)' /\ Fresh(u, s)'
    BY <2>1 DEF Seen, Fresh, Joiners
  <2>3. Link(u, s)'
    BY <1>2, <1>8, <1>10 DEF Link, Present
  <2>4. CASE ~Live(u)'
    BY <1>4, <2>2, <2>3, <2>4 DEF PairOk, Forgotten, InOrder
  <2>5. CASE Live(u)'
    <3>1. Live(u) /\ u \in Seated \cap online /\ ui[u].on /\ inbox[u] \in Seq(Messages)
      <4>1. Live(u)
        BY <1>1, <1>6, <1>7, <2>5, LiveBefore
      <4> QED BY <1>2, <2>1, <4>1, LiveFollows, CallTypes DEF Live, Boxes
    <3>2. inbox'[u] = Append(inbox[u], m) /\ ui'[u] = ui[u]
      BY <1>1, <1>10, <3>1
    <3>3. m \in Left(s) /\ m \notin Joined(s)
      BY <1>6, <1>10 DEF Left, Joined
    <3>4. Forgot(inbox'[u], ui'[u].peers, s)
      BY <1>6, <3>1, <3>2, <3>3, AppendForgot
    <3>5. Orderly(inbox'[u], ui'[u].peers, s)
      BY <1>2, <1>6, <3>1, <3>2, <3>3, AppendOrderly DEF PairOk, InOrder
    <3>6. Forgotten(u, s)' /\ InOrder(u, s)'
      BY <3>4, <3>5 DEF Forgotten, InOrder, Forgot, Orderly, After, None, Left, Adding, Joined, Offered
    <3> QED BY <1>4, <2>2, <2>3, <3>6 DEF PairOk
  <2> QED BY <2>4, <2>5
<1> QED BY <1>9, <1>10

LEMMA EndCallPair == ASSUME ConnInv, NEW a \in Sockets, EndCall(a) PROVE PairInv'
<1> SUFFICES ASSUME NEW u \in Sockets \ past'.hasty, NEW s \in Sockets \ past'.hasty, u # s,
                    {u, s} \notin past'.crossed
             PROVE  PairOk(u, s)'
  BY DEF PairInv
<1> USE DEF ConnInv
<1>m. PICK m : m = [type |-> "ended"]
  OBVIOUS
<1>1. /\ UNCHANGED <<joining, online, ui>> /\ Seated' = Seated
      /\ past'.hasty = past.hasty \cup Joiners
      /\ \A t \in Sockets : inbox'[t] = IF t \in Seated \cap online /\ ui[t].on
                                        THEN Append(inbox[t], m) ELSE inbox[t]
  BY <1>m, EndCallTyped
<1>2. u \notin Joiners /\ u \notin past.hasty /\ u \notin Joiners'
  BY <1>1 DEF Joiners
<1>3. m \in Messages /\ m.type \in Over
  BY <1>m DEF Messages, Over, Ends
<1>4. ~Live(u)'
  <2> SUFFICES ASSUME Live(u)' PROVE FALSE
    OBVIOUS
  <2>1. Live(u) /\ inbox'[u] # Append(inbox[u], m)
    BY <1>1, <1>3, LiveBefore
  <2>2. u \in Seated \cap online /\ ui[u].on
    BY <1>2, <2>1, LiveFollows DEF Live
  <2> QED BY <1>1, <2>1, <2>2
<1> QED BY <1>2, <1>4 DEF PairOk, Apart, Seen, Fresh, Forgotten, InOrder, Link, Present, Joiners

LEMMA EndRoomPair == ASSUME ConnInv, EndRoom PROVE PairInv'
<1> SUFFICES ASSUME NEW u \in Sockets \ past'.hasty, NEW s \in Sockets \ past'.hasty, u # s,
                    {u, s} \notin past'.crossed
             PROVE  PairOk(u, s)'
  BY DEF PairInv
<1> USE DEF ConnInv
<1>1. /\ UNCHANGED <<joining, online, ui, inbox>> /\ Seated' = Seated /\ leaving' = Seated
      /\ removals' \subseteq removals /\ \A r \in removals : r.at # "end" => r \in removals'
      /\ past.hasty \subseteq past'.hasty /\ past'.revoked = past.revoked
      /\ past'.crossed = past.crossed
      /\ \A t \in Seated : Ended(t) \/ t \in past'.hasty
  BY EndRoomTyped
<1>2. PairOk(u, s) /\ u \notin past.hasty
  BY <1>1, PairBefore
<1>3. Joiners' = Joiners /\ (s \in Movers' => s \in Movers)
  BY <1>1 DEF Joiners, Movers, Ended
<1>4. Apart(u, s)'
  BY <1>2, <1>3 DEF PairOk, Apart
\* Who is still in a call has no seat when the call ends, and is on the way to it.
<1>5. Live(u)' => Live(u)
  BY <1>1 DEF Live, Holds
<1>6. Live(u)' => u \in Joiners
  <2> SUFFICES ASSUME Live(u), u \notin Joiners PROVE FALSE
    BY <1>5
  <2>1. u \in Seated /\ ~Going(u)
    BY <1>2, LiveFollows
  <2> QED BY <1>1, <2>1 DEF Ended, Going
<1>7. u \in Joiners => s \notin Movers /\ s \notin Seated
  <2> SUFFICES ASSUME u \in Joiners PROVE s \notin Movers /\ s \notin Seated
    OBVIOUS
  <2>1. s \notin Movers
    BY <1>2 DEF PairOk, Apart
  <2> QED BY <1>1, <2>1 DEF Ended, Movers
<1>8. Live(u)' /\ Absent(s)' => Absent(s)
  BY <1>1, <1>3, <1>6, <1>7 DEF Absent, Out
<1>9. ~Present(u)'
  BY <1>3, <1>6 DEF Present
<1>10. \A j \in joining' : j.of = u => j \in joining /\ (s \in Seated' <=> s \in Seated)
  BY <1>1
<1> QED BY <1>1, <1>2, <1>4, <1>8, <1>9, <1>10, PairStays, OtherMessage


\* Those who are in the room hear that u came, and u of those who were there when it looked.
LEMMA TellLinked ==
  ASSUME CallTypeOK, NEW u \in Sockets, NEW s \in Sockets, u # s, PairOk(u, s),
         NEW a \in Messages, a.type = "ack", s \in Seated => s \in a.who,
         NEW c \in Messages, c \in Joined(u),
         u \in Joiners, s \in Seated,
         ui'[u] = ui[u], inbox'[u] = Append(inbox[u], a), inbox'[s] = Append(inbox[s], c)
  PROVE  Linked(s, u)'
<1>1. inbox[u] \in Seq(Messages) /\ inbox[s] \in Seq(Messages)
  BY CallTypes DEF Boxes
<1>2. a \in Adding(s) /\ a \notin Left(s) \cup Joined(s)
  BY DEF Adding, Left, Joined
<1>3. After(inbox'[s], Joined(u), About(u))
  BY <1>1, AppendAfter
<1>4. ~None(inbox'[u], Adding(s))
  BY <1>1, <1>2, AppendNone
<1>5. None(inbox'[u], Left(s) \cup Joined(s))
  BY <1>1, <1>2, AppendNone DEF PairOk, Fresh
<1>6. /\ \/ /\ u \in ui'[s].peers \ ui'[s].took /\ None(inbox'[s], About(u))
            /\ s \in ui'[u].took \/ ~None(inbox'[u], Offered(s))
         \/ After(inbox'[s], Joined(u), About(u))
      /\ s \in ui'[u].peers \/ ~None(inbox'[u], Adding(s))
      /\ None(inbox'[u], Left(s) \cup Joined(s))
  BY <1>3, <1>4, <1>5
<1> QED BY <1>6 DEF Linked, None, After, Joined, About, Adding, Offered, Left

LEMMA TellRoomPair == ASSUME ConnInv, NEW j, TellRoom(j) PROVE PairInv'
<1> SUFFICES ASSUME NEW u \in Sockets \ past'.hasty, NEW s \in Sockets \ past'.hasty, u # s,
                    {u, s} \notin past'.crossed
             PROVE  PairOk(u, s)'
  BY DEF PairInv
<1> USE DEF ConnInv
<1>x. PICK x : x = j.of
  OBVIOUS
<1>h. PICK h : h = IF host = Nobody THEN j.of ELSE host
  OBVIOUS
<1>a. PICK a : a = [type |-> "ack", who |-> j.saw, host |-> h]
  OBVIOUS
<1>c. PICK c : c = [type |-> "joined", who |-> x, host |-> h]
  OBVIOUS
<1>1. /\ UNCHANGED <<leaving, removals, online, ui>> /\ Seated' = Seated /\ h \in Sockets
      /\ joining' = joining \ {j} /\ past'.hasty = past.hasty /\ past'.revoked = past.revoked
      /\ past'.crossed = past.crossed
      /\ j \in Joinings /\ j \in joining /\ j.at = "tell" /\ x \in Sockets
  BY <1>x, <1>h, TellRoomTyped DEF Joinings
<1>2. \A t \in Sockets : inbox'[t] =
        IF ~(t \in Seated \cup {x} /\ t \in online /\ ui[t].on) THEN inbox[t]
        ELSE Append(inbox[t], IF t = x THEN a ELSE c)
  <2>1. \A t \in Sockets : inbox'[t] =
          IF ~(t \in Seated \cup {j.of} /\ t \in online /\ ui[t].on) THEN inbox[t]
          ELSE Append(inbox[t], IF t = j.of THEN [type |-> "ack", who |-> j.saw, host |-> h]
                                ELSE [type |-> "joined", who |-> j.of, host |-> h])
    BY <1>h, TellRoomTyped
  <2> QED BY <2>1, <1>a, <1>c, <1>x
<1>3. /\ a \in Messages /\ a.type = "ack" /\ a.who = j.saw
      /\ c \in Messages /\ c.type = "joined" /\ c.who = x
  BY <1>1, <1>a, <1>c DEF Messages, Joinings
<1>4. PairOk(u, s) /\ PairOk(s, u) /\ u \notin past.hasty /\ s \notin past.hasty
  BY <1>1, PairBefore
<1>5. Joiners' \subseteq Joiners /\ Joiners \subseteq Joiners' \cup {x} /\ Movers' \subseteq Movers
      /\ x \in Joiners
  BY <1>1, <1>x DEF Joiners, Movers
<1>6. Apart(u, s)' /\ Seen(u, s)'
  <2>1. Apart(u, s)'
    BY <1>4, <1>5, ApartFewer DEF PairOk
  <2>2. Seen(u, s)'
    BY <1>1, <1>4 DEF PairOk, Seen
  <2> QED BY <2>1, <2>2
\* Whoever joins is in the room by now and stays there.
<1>7. \A t \in {u, s} : t = x => /\ t \notin Joiners' /\ t \in Seated \cap online /\ ~Going(t)
                                 /\ ui[t].on /\ Live(t) /\ inbox'[t] = Append(inbox[t], a)
  <2> SUFFICES ASSUME NEW t \in {u, s}, t = x
               PROVE  /\ t \notin Joiners' /\ t \in Seated \cap online /\ ~Going(t)
                      /\ ui[t].on /\ Live(t) /\ inbox'[t] = Append(inbox[t], a)
    OBVIOUS
  <2>1. JoinsOnce(t) /\ t \in online
    BY <1>4, <1>5 DEF ClientInv, JoinsOnce
  <2>2. Followed(t) /\ Comes(t, "tell")
    BY <1>1, <1>4, <1>x, <2>1 DEF FollowInv, Comes
  <2>3. t \notin Joiners'
    BY <1>1, <1>x, <2>1 DEF JoinsOnce, Joiners
  <2>4. t \in Seated \cap online /\ ~Going(t) /\ ui[t].on /\ Live(t)
    BY <2>1, <2>2 DEF Followed, Live
  <2> QED BY <1>2, <2>3, <2>4
<1>8. \A t \in {u, s} : Live(t)' => Live(t) /\ ui[t].on
  <2> SUFFICES ASSUME NEW t \in {u, s}, Live(t)' PROVE Live(t) /\ ui[t].on
    OBVIOUS
  <2>1. ui'[t] = ui[t] /\ (inbox'[t] = inbox[t] \/ inbox'[t] = Append(inbox[t], IF t = x THEN a ELSE c))
    BY <1>1, <1>2
  <2>2. (IF t = x THEN a ELSE c) \in Messages
    BY <1>3
  <2>3. Live(t)
    BY <2>1, <2>2, LiveBefore
  <2> QED BY <2>3 DEF Live
<1>9. \A t \in {u, s} : Present(t)' =>
        t \in Seated \cap online /\ ui[t].on /\ (t # x => inbox'[t] = Append(inbox[t], c))
  BY <1>1, <1>2, <1>4, <1>8, CallTypes DEF Present
<1>10. inbox[u] \in Seq(Messages) /\ inbox[s] \in Seq(Messages)
  BY CallTypes DEF Boxes
<1>11. CASE x \notin {u, s}
  <2>1. c \notin About(u) /\ c \notin About(s)
    BY <1>3, <1>11 DEF About, Adding, Joined, Offered, Left
  <2>2. \A t \in {u, s} : inbox'[t] = inbox[t] \/ inbox'[t] = Append(inbox[t], c)
    BY <1>2, <1>11
  <2>3. Absent(s)' => Absent(s)
    BY <1>1, <1>5 DEF Absent, Out
  <2>4. Present(u)' /\ Present(s)' => {u, s} \subseteq Seated \ Joiners
    BY <1>1, <1>5, <1>11 DEF Present
  <2>5. \A k \in joining' : k.of = u => k \in joining
    BY <1>1
  <2> QED BY <1>1, <1>3, <1>4, <1>6, <2>1, <2>2, <2>3, <2>4, <2>5, PairStays
<1>12. CASE x = u
  <2>1. inbox'[u] = Append(inbox[u], a) /\ ui'[u] = ui[u] /\ Live(u) /\ u \notin Joiners'
    BY <1>1, <1>7, <1>12
  <2>2. s \notin Movers /\ (s \in j.saw <=> s \in Seated)
    BY <1>1, <1>4, <1>5, <1>12, <1>x DEF PairOk, Apart, Seen
  <2>3. Fresh(u, s)'
    BY <2>1 DEF Fresh
  <2>4. Forgotten(u, s)'
    <3> SUFFICES ASSUME Absent(s)' PROVE Forgot(inbox'[u], ui'[u].peers, s)
      BY DEF Forgotten, Forgot, After, None, Left, Adding, Joined, Offered
    <3>1. s \notin Joiners' /\ s \notin leaving
      BY <1>5, <2>2 DEF Movers
    <3>2. s \notin Seated /\ Absent(s)
      BY <1>1, <3>1 DEF Absent, Out
    <3>3. a \notin Adding(s)
      BY <1>3, <2>2, <3>2 DEF Adding, Joined, Offered
    <3>4. Forgot(inbox[u], ui[u].peers, s)
      BY <1>4, <2>1, <3>2 DEF PairOk, Forgotten
    <3> QED BY <1>3, <1>10, <2>1, <3>3, <3>4, AppendForgot
  <2>5. InOrder(u, s)'
    <3>1. a \notin Joined(s) /\ Orderly(inbox[u], ui[u].peers, s)
      BY <1>3, <1>4, <2>1 DEF Joined, PairOk, InOrder
    <3>2. Orderly(inbox'[u], ui'[u].peers, s)
      BY <1>3, <1>10, <2>1, <3>1, AppendOrderly
    <3> QED BY <3>2 DEF InOrder, Orderly, Left, Adding, Joined, Offered
  <2>6. Link(u, s)'
    <3> SUFFICES ASSUME Present(s)' PROVE Linked(s, u)'
      BY DEF Link
    <3>1. s \in Seated /\ inbox'[s] = Append(inbox[s], c)
      BY <1>9, <1>12
    <3>2. c \in Joined(u)
      BY <1>3, <1>12 DEF Joined
    <3> QED BY <1>3, <1>4, <1>5, <1>12, <2>1, <2>2, <3>1, <3>2, TellLinked
  <2> QED BY <1>6, <2>3, <2>4, <2>5, <2>6 DEF PairOk
<1>13. CASE x = s
  <2>1. inbox'[s] = Append(inbox[s], a) /\ ui'[s] = ui[s] /\ s \notin Joiners' /\ s \in Seated
        /\ s \notin leaving
    BY <1>1, <1>7, <1>13 DEF Going
  <2>2. u \notin Joiners /\ u \notin Joiners' /\ ~Absent(s)'
    BY <1>1, <1>4, <1>5, <1>13, <2>1 DEF PairOk, Apart, Movers, Absent
  <2>3. Fresh(u, s)' /\ Forgotten(u, s)'
    BY <2>2 DEF Fresh, Forgotten
  <2>4. InOrder(u, s)'
    <3> SUFFICES ASSUME Live(u)' PROVE Orderly(inbox'[u], ui'[u].peers, s)
      BY DEF InOrder, Orderly, Left, Adding, Joined, Offered
    <3>1. Live(u) /\ Absent(s)
      BY <1>5, <1>8, <1>13 DEF Absent
    <3>2. Orderly(inbox[u], ui[u].peers, s) /\ Forgot(inbox[u], ui[u].peers, s)
      BY <1>4, <3>1 DEF PairOk, InOrder, Forgotten
    <3>3. Orderly(Append(inbox[u], c), ui[u].peers, s)
      BY <1>3, <1>10, <3>2, AppendOrderly
    <3>4. inbox'[u] = inbox[u] \/ inbox'[u] = Append(inbox[u], c)
      BY <1>2, <1>13
    <3> QED BY <1>1, <3>2, <3>3, <3>4
  <2>5. Link(u, s)'
    <3> SUFFICES ASSUME Present(u)' PROVE Linked(u, s)'
      BY DEF Link
    <3>1. u \in Seated /\ inbox'[u] = Append(inbox[u], c)
      BY <1>9, <1>13
    <3>2. u \in j.saw <=> u \in Seated
      BY <1>1, <1>4, <1>13, <1>x DEF PairOk, Seen
    <3>3. c \in Joined(s)
      BY <1>3, <1>13 DEF Joined
    <3> QED BY <1>3, <1>4, <1>5, <1>13, <2>1, <3>1, <3>2, <3>3, TellLinked
  <2> QED BY <1>6, <2>3, <2>4, <2>5 DEF PairOk
<1> QED BY <1>11, <1>12, <1>13


\* u was there first and reads its first message: when it reads that s came it makes an offer.
LEMMA HandleFirst ==
  ASSUME CallTypeOK, NEW u \in Sockets, NEW s \in Sockets, u # s, PairOk(u, s), ClientOk(u),
         Live(u), ui[s].on, {u, s} \subseteq Seated, Linked(u, s), inbox[u] # <<>>,
         NEW m \in Messages, m = Head(inbox[u]), m.type \notin Ends,
         ui'[u] = Shown(ui[u], m), ui'[s] = ui[s],
         NEW f, NEW a \in Messages, a \in Offered(u),
         s \in f <=> m \in Joined(s) /\ s \notin ui[u].peers,
         inbox'[s] = IF s \in f THEN Append(inbox[s], a) ELSE inbox[s],
         inbox'[u] \in {Tail(inbox[u]), Append(Tail(inbox[u]), a)}
  PROVE  Linked(u, s)'
<1>1. /\ inbox[u] \in Seq(Messages) /\ inbox[s] \in Seq(Messages) /\ ui[u] \in Clients /\ ui[u].on
      /\ Tail(inbox[u]) \in Seq(Messages)
  BY CallTypes, HeadTailProperties DEF Boxes, Live
<1>2. a \notin About(s) /\ a \in Adding(u) /\ a \notin Left(u) \cup Joined(u)
  BY DEF About, Adding, Joined, Offered, Left
<1>3. None(Tail(inbox[u]), About(s)) => None(inbox'[u], About(s))
  <2>1. None(Tail(inbox[u]), About(s)) => None(Append(Tail(inbox[u]), a), About(s))
    BY <1>1, <1>2, AppendNone
  <2> QED BY <2>1
<1>4. /\ ~None(inbox[s], Offered(u)) => ~None(inbox'[s], Offered(u))
      /\ ~None(inbox[s], Adding(u)) => ~None(inbox'[s], Adding(u))
      /\ None(inbox[s], Left(u) \cup Joined(u)) => None(inbox'[s], Left(u) \cup Joined(u))
      /\ s \in f => ~None(inbox'[s], Offered(u))
  <2>1. /\ ~None(inbox[s], Offered(u)) => ~None(Append(inbox[s], a), Offered(u))
        /\ ~None(inbox[s], Adding(u)) => ~None(Append(inbox[s], a), Adding(u))
        /\ None(inbox[s], Left(u) \cup Joined(u)) => None(Append(inbox[s], a), Left(u) \cup Joined(u))
        /\ ~None(Append(inbox[s], a), Offered(u))
    BY <1>1, <1>2, AppendNone
  <2> QED BY <2>1
<1>5. \/ /\ s \in ui'[u].peers \ ui'[u].took /\ None(inbox'[u], About(s))
         /\ u \in ui'[s].took \/ ~None(inbox'[s], Offered(u))
      \/ After(inbox'[u], Joined(s), About(s))
  <2>1. CASE s \in ui[u].peers \ ui[u].took /\ None(inbox[u], About(s))
             /\ (u \in ui[s].took \/ ~None(inbox[s], Offered(u)))
    <3>1. None(Tail(inbox[u]), About(s)) /\ m \notin About(s)
      BY <1>1, <2>1, TailNone
    <3>2. m \notin Offered(s) \cup Left(s)
      BY <3>1 DEF About, Adding
    <3>3. s \in ui'[u].peers \ ui'[u].took
      BY <1>1, <2>1, <3>1, <3>2, ShownAbout
    <3> QED BY <1>3, <1>4, <2>1, <3>1, <3>3
  <2>2. CASE After(inbox[u], Joined(s), About(s))
    <3>1. CASE After(Tail(inbox[u]), Joined(s), About(s))
      <4>1. After(Append(Tail(inbox[u]), a), Joined(s), About(s))
        BY <1>1, <1>2, <3>1, AppendAfter
      <4> QED BY <3>1, <4>1
    <3>2. CASE m \in Joined(s) /\ None(Tail(inbox[u]), About(s))
      <4>1. s \notin ui[u].peers
        <5>1. /\ 1 \in DOMAIN inbox[u] /\ inbox[u][1] = m
              /\ \A k \in DOMAIN inbox[u] : ~(k < 1)
          BY <1>1
        <5>2. Orderly(inbox[u], ui[u].peers, s)
          BY DEF PairOk, InOrder
        <5> QED BY <3>2, <5>1, <5>2 DEF Orderly
      <4>2. s \in f /\ s \notin ui[u].took
        BY <3>2, <4>1 DEF ClientOk
      <4>3. m \in Adding(s) /\ m \notin Offered(s) \cup Left(s)
        BY <3>2 DEF Adding, Joined, Offered, Left
      <4>4. s \in ui'[u].peers /\ s \notin ui'[u].took
        BY <1>1, <4>2, <4>3, ShownAbout
      <4> QED BY <1>3, <1>4, <3>2, <4>2, <4>4
    <3> QED BY <1>1, <2>2, <3>1, <3>2, TailAfter
  <2> QED BY <2>1, <2>2 DEF Linked
<1>6. u \in ui'[s].peers \/ ~None(inbox'[s], Adding(u))
  BY <1>4 DEF Linked
<1>7. None(inbox'[s], Left(u) \cup Joined(u))
  BY <1>4 DEF Linked
<1> QED BY <1>5, <1>6, <1>7 DEF Linked, None, After, Joined, About, Adding, Offered, Left

\* u came later and reads its first message: it may be what tells it of s, or the offer of s.
LEMMA HandleSecond ==
  ASSUME CallTypeOK, NEW u \in Sockets, NEW s \in Sockets, u # s,
         Live(u), Linked(s, u), inbox[u] # <<>>,
         NEW m \in Messages, m = Head(inbox[u]), m.type \notin Ends,
         ui'[u] = Shown(ui[u], m), ui'[s] = ui[s],
         NEW f, NEW a \in Messages, a \in Offered(u),
         s \in f => m \in Joined(s),
         inbox'[s] = IF s \in f THEN Append(inbox[s], a) ELSE inbox[s],
         inbox'[u] \in {Tail(inbox[u]), Append(Tail(inbox[u]), a)}
  PROVE  Linked(s, u)'
<1>1. /\ inbox[u] \in Seq(Messages) /\ ui[u] \in Clients /\ ui[u].on /\ Tail(inbox[u]) \in Seq(Messages)
  BY CallTypes, HeadTailProperties DEF Boxes, Live
<1>2. a \notin About(s) /\ a \notin Left(s) \cup Joined(s)
  BY DEF About, Adding, Joined, Offered, Left
<1>3. None(Tail(inbox[u]), Left(s) \cup Joined(s)) /\ m \notin Left(s) /\ m \notin Joined(s)
  BY <1>1, TailNone DEF Linked
<1>4. inbox'[s] = inbox[s]
  BY <1>3
<1>5. None(inbox'[u], Left(s) \cup Joined(s))
  <2>k. PICK k : k = Left(s) \cup Joined(s)
    OBVIOUS
  <2>0. a \notin k /\ None(Tail(inbox[u]), k)
    BY <1>2, <1>3, <2>k
  <2>1. None(Append(Tail(inbox[u]), a), k)
    BY <1>1, <2>0, AppendNone
  <2>2. inbox'[u] = Tail(inbox[u]) \/ inbox'[u] = Append(Tail(inbox[u]), a)
    OBVIOUS
  <2> QED BY <2>0, <2>1, <2>2, <2>k
<1>6. \A kind : ~None(Tail(inbox[u]), kind) => ~None(inbox'[u], kind)
  <2>1. \A kind : ~None(Tail(inbox[u]), kind) => ~None(Append(Tail(inbox[u]), a), kind)
    BY <1>1, AppendNone
  <2> QED BY <2>1
<1>7. \A kind : ~None(inbox[u], kind) => ~None(inbox'[u], kind) \/ m \in kind
  BY <1>1, <1>6, TailNone
<1>8. s \in ui'[u].peers \/ ~None(inbox'[u], Adding(s))
  <2>1. CASE s \in ui[u].peers
    BY <1>1, <1>3, <2>1, ShownAbout
  <2>2. CASE ~None(inbox[u], Adding(s))
    BY <1>1, <1>7, <2>2, ShownAbout
  <2> QED BY <2>1, <2>2 DEF Linked
<1>9. s \in ui[u].took \/ ~None(inbox[u], Offered(s)) =>
        s \in ui'[u].took \/ ~None(inbox'[u], Offered(s))
  BY <1>1, <1>3, <1>7, ShownAbout
<1>10. \/ /\ u \in ui'[s].peers \ ui'[s].took /\ None(inbox'[s], About(u))
          /\ s \in ui'[u].took \/ ~None(inbox'[u], Offered(s))
       \/ After(inbox'[s], Joined(u), About(u))
  BY <1>4, <1>9 DEF Linked
<1> QED BY <1>5, <1>8, <1>10 DEF Linked, None, After, Joined, About, Adding, Offered, Left

\* What the answer of a client is and whom it reaches.
LEMMA HandledIs ==
  ASSUME CallTypeOK, NEW x \in Sockets, Handle(x), NEW m, m = Head(inbox[x])
  PROVE  /\ UNCHANGED <<leaving, joining, removals, online>> /\ Seated' = Seated
         /\ past'.hasty = past.hasty /\ past'.revoked = past.revoked
         /\ past.crossed \subseteq past'.crossed
         /\ m \in Messages /\ m.type # "revoked" /\ inbox[x] # <<>>
         /\ \A t \in Sockets : ui'[t] = IF t = x THEN Shown(ui[x], m) ELSE ui[t]
         /\ \E f \in SUBSET Sockets, a \in Messages : Answered(x, m, f, a)
BY HandleTyped DEF server

\* A client that knows no end of its call reads the next message, and perhaps its own offer.
LEMMA HandleLive ==
  ASSUME CallTypeOK, NEW u \in Sockets, Handle(u), NEW m, m = Head(inbox[u]),
         NEW f \in SUBSET Sockets, NEW a \in Messages, Answered(u, m, f, a), ui'[u].on
  PROVE  /\ ui[u].on /\ m.type \notin Over
         /\ inbox'[u] \in {Tail(inbox[u]), Append(Tail(inbox[u]), a)}
         /\ Live(u)' => Live(u)
<1>1. /\ m \in Messages /\ m.type # "revoked" /\ inbox[u] # <<>> /\ ui'[u] = Shown(ui[u], m)
      /\ inbox[u] \in Seq(Messages) /\ ui[u] \in Clients
  BY HandledIs, CallTypes DEF Boxes
<1>2. ui[u].on /\ m.type \notin Over
  <2>1. ~ui[u].on \/ m.type \in Ends => ui'[u] = NoCall
    BY <1>1, ShownIs
  <2> QED BY <1>1, <2>1 DEF NoCall, Over
<1>3. inbox'[u] \in {Tail(inbox[u]), Append(Tail(inbox[u]), a)}
  BY DEF Answered
<1>4. Live(u)' => Live(u)
  <2>1. Tail(inbox[u]) \in Seq(Messages)
    BY <1>1, HeadTailProperties
  <2>2. Holds(inbox[u], Over) => Holds(Tail(inbox[u]), Over)
    BY <1>1, <1>2, TailHolds
  <2>3. Holds(Tail(inbox[u]), Over) => Holds(Append(Tail(inbox[u]), a), Over)
    BY <2>1, AppendHolds
  <2>4. Live(u)' <=> ui'[u].on /\ ~Holds(inbox'[u], Over)
    BY DEF Live, Holds, Over
  <2> QED BY <1>2, <1>3, <2>2, <2>3, <2>4 DEF Live
<1> QED BY <1>2, <1>3, <1>4


\* Two who are in the call stay linked when one of them reads a message.
LEMMA HandleLinks ==
  ASSUME ConnInv, NEW u \in Sockets \ past.hasty, NEW s \in Sockets \ past.hasty, u # s,
         PairOk(u, s), Handle(u), NEW m, m = Head(inbox[u]),
         NEW f \in SUBSET Sockets, NEW a \in Messages, Answered(u, m, f, a),
         Present(u)', Present(s)'
  PROVE  Linked(u, s)' \/ Linked(s, u)'
<1> USE DEF ConnInv
<1>1. /\ UNCHANGED <<joining, online>> /\ Seated' = Seated /\ m \in Messages /\ inbox[u] # <<>>
      /\ ui'[u] = Shown(ui[u], m) /\ ui'[s] = ui[s]
  BY HandledIs
<1>2. /\ a \in Offered(u) /\ a.type = "offer"
      /\ inbox'[s] = IF s \in f THEN Append(inbox[s], a) ELSE inbox[s]
      /\ s \in f <=> /\ ui[u].on /\ m.type = "joined" /\ s = m.who /\ s \notin ui[u].peers
                     /\ u \in Seated /\ s \in Seated /\ ui[s].on
  BY DEF Answered, Offered
<1>3. {u, s} \subseteq Seated \ Joiners
  BY <1>1 DEF Present, Joiners
<1>4. Live(s) /\ ui[s].on
  <2>1. Live(s)' /\ (inbox'[s] = inbox[s] \/ inbox'[s] = Append(inbox[s], a))
    BY <1>2 DEF Present
  <2>2. Live(s)
    BY <1>1, <2>1, LiveBefore
  <2> QED BY <2>2 DEF Live
<1>5. /\ ui[u].on /\ m.type \notin Ends /\ Live(u)
      /\ inbox'[u] \in {Tail(inbox[u]), Append(Tail(inbox[u]), a)}
  <2>1. Live(u)' /\ ui'[u].on
    BY DEF Present, Live
  <2> QED BY <2>1, HandleLive DEF Over
<1>6. s \in f <=> m \in Joined(s) /\ s \notin ui[u].peers
  BY <1>1, <1>2, <1>3, <1>4, <1>5 DEF Joined
<1>7. Linked(u, s) \/ Linked(s, u)
  BY <1>3, <1>4, <1>5 DEF PairOk, Link, Present
<1>8. ASSUME Linked(u, s) PROVE Linked(u, s)'
  <2>1. ClientOk(u)
    BY DEF ClientInv
  <2> QED BY <1>1, <1>2, <1>3, <1>4, <1>5, <1>6, <1>8, <2>1, HandleFirst
<1>9. ASSUME Linked(s, u) PROVE Linked(s, u)'
  BY <1>1, <1>2, <1>5, <1>6, <1>9, HandleSecond
<1> QED BY <1>7, <1>8, <1>9

LEMMA HandlePair == ASSUME ConnInv, NEW x \in Sockets, Handle(x) PROVE PairInv'
<1> SUFFICES ASSUME NEW u \in Sockets \ past'.hasty, NEW s \in Sockets \ past'.hasty, u # s,
                    {u, s} \notin past'.crossed
             PROVE  PairOk(u, s)'
  BY DEF PairInv
<1> USE DEF ConnInv
<1>m. PICK m : m = Head(inbox[x])
  OBVIOUS
<1>1. /\ UNCHANGED <<leaving, joining, removals, online>> /\ Seated' = Seated
      /\ past'.hasty = past.hasty /\ past'.revoked = past.revoked
      /\ past.crossed \subseteq past'.crossed
      /\ m \in Messages /\ m.type # "revoked" /\ inbox[x] # <<>>
      /\ \A t \in Sockets : ui'[t] = IF t = x THEN Shown(ui[x], m) ELSE ui[t]
  BY <1>m, HandledIs
<1>2. PICK f \in SUBSET Sockets, a \in Messages : Answered(x, m, f, a)
  BY <1>m, HandledIs
<1>3. PairOk(u, s) /\ PairOk(s, u) /\ u \notin past.hasty /\ s \notin past.hasty
  BY <1>1, PairBefore
<1>4. Joiners' = Joiners /\ Movers' = Movers
  BY <1>1 DEF Joiners, Movers
<1>5. Apart(u, s)' /\ Seen(u, s)' /\ (Absent(s)' <=> Absent(s))
  BY <1>1, <1>3, <1>4 DEF PairOk, Apart, Seen, Absent, Out
<1>6. /\ a.type = "offer" /\ a.who = x
      /\ \A t \in Sockets : t # x => inbox'[t] = inbox[t] \/ inbox'[t] = Append(inbox[t], a)
  BY <1>2 DEF Answered
<1>7. /\ a \notin Joined(s) /\ a \notin Left(s) \cup Joined(s) 
      /\ x # s => a \notin About(s) /\ a \notin Adding(s)
      /\ x # u => a \notin About(u)
  BY <1>6 DEF About, Adding, Joined, Offered, Left
<1>8. inbox[u] \in Seq(Messages) /\ inbox[s] \in Seq(Messages) /\ inbox[x] \in Seq(Messages)
      /\ ui[x] \in Clients
  BY CallTypes DEF Boxes
<1>9. x \in {u, s} => Link(u, s)'
  <2> SUFFICES ASSUME x \in {u, s}, Present(u)', Present(s)' PROVE Linked(u, s)' \/ Linked(s, u)'
    BY DEF Link
  <2>1. CASE x = u
    BY <1>2, <1>3, <1>m, <2>1, HandleLinks
  <2>2. CASE x = s
    BY <1>2, <1>3, <1>m, <2>2, HandleLinks
  <2> QED BY <2>1, <2>2
<1>10. CASE x \notin {u, s}
  <2>1. Present(u)' /\ Present(s)' => {u, s} \subseteq Seated \ Joiners
    BY <1>1, <1>4 DEF Present
  <2>2. \A k \in joining' : k \in joining
    BY <1>1
  <2> QED BY <1>1, <1>3, <1>5, <1>6, <1>7, <1>10, <2>1, <2>2, PairStays
<1>11. CASE x = u
  <2>1. Fresh(u, s)'
    <3> SUFFICES ASSUME u \in Joiners PROVE None(inbox'[u], Left(s) \cup Joined(s))
      BY <1>4 DEF Fresh, None, Left, Joined
    <3>1. ui'[u].on
      <4>1. u \in online
        BY <1>3 DEF ClientInv, JoinsOnce
      <4>2. Followed(u) /\ (Comes(u, "room") \/ Comes(u, "tell"))
        <5>1. Followed(u)
          BY <1>3, <4>1 DEF FollowInv
        <5>2. \A j \in joining : j.at \in {"room", "tell"}
          BY CallTypes DEF Joinings
        <5> QED BY <5>1, <5>2 DEF Comes, Joiners
      <4>3. ui[u].on /\ ~Holds(inbox[u], Over)
        BY <4>2 DEF Followed
      <4>4. m.type \notin Over
        BY <1>1, <1>8, <1>11, <1>m, <4>3, TailHolds
      <4> QED BY <1>1, <1>8, <1>11, <4>3, <4>4, ShownIs DEF Over
    <3>2. inbox'[u] \in {Tail(inbox[u]), Append(Tail(inbox[u]), a)}
      BY <1>2, <1>11, <1>m, <3>1, HandleLive
    <3>k. PICK k : k = Left(s) \cup Joined(s)
      OBVIOUS
    <3>3. None(Tail(inbox[u]), k) /\ Tail(inbox[u]) \in Seq(Messages) /\ a \notin k
      <4>1. None(inbox[u], k)
        BY <1>3, <3>k DEF PairOk, Fresh
      <4> QED BY <1>1, <1>7, <1>8, <1>11, <3>k, <4>1, TailNone, HeadTailProperties
    <3>4. None(Append(Tail(inbox[u]), a), k)
      BY <3>3, AppendNone
    <3> QED BY <3>2, <3>3, <3>4, <3>k
  <2>2. Forgotten(u, s)' /\ InOrder(u, s)'
    <3>1. CASE ~Live(u)'
      BY <3>1 DEF Forgotten, InOrder
    <3>2. CASE Live(u)'
      <4>1. /\ ui[u].on /\ m.type \notin Over /\ Live(u)
            /\ inbox'[u] \in {Tail(inbox[u]), Append(Tail(inbox[u]), a)}
        <5>1. ui'[u].on
          BY <3>2 DEF Live
        <5> QED BY <1>2, <1>11, <1>m, <3>2, <5>1, HandleLive
      <4>w. PICK w : w = ui'[u].peers
        OBVIOUS
      <4>q. PICK q \in Seq(Messages) : q = Tail(inbox[u])
        BY <1>1, <1>8, <1>11, HeadTailProperties
      <4>2. (m \in Left(s) => s \notin w) /\ (m \notin Adding(s) /\ s \in w => s \in ui[u].peers)
        BY <1>1, <1>8, <1>11, <4>1, <4>w, ShownAbout DEF Over
      <4>3. Orderly(q, w, s)
        <5>1. Orderly(inbox[u], ui[u].peers, s)
          BY <1>3, <4>1 DEF PairOk, InOrder
        <5> QED BY <1>1, <1>8, <1>11, <1>m, <4>2, <4>q, <5>1, TailOrderly
      <4>4. Orderly(inbox'[u], w, s)
        <5>1. Orderly(Append(q, a), w, s)
          BY <1>7, <4>3, AppendOrderly
        <5> QED BY <4>1, <4>3, <4>q, <5>1
      <4>5. Absent(s) => Forgot(q, w, s)
        <5>1. Absent(s) => Forgot(inbox[u], ui[u].peers, s)
          BY <1>3, <4>1 DEF PairOk, Forgotten
        <5> QED BY <1>1, <1>8, <1>11, <1>m, <4>2, <4>q, <5>1, TailForgot
      <4>6. Absent(s) => Forgot(inbox'[u], w, s)
        <5>1. Absent(s) => Forgot(Append(q, a), w, s)
          BY <1>7, <1>11, <4>5, AppendForgot
        <5> QED BY <4>1, <4>5, <4>q, <5>1
      <4> QED BY <1>5, <4>4, <4>6, <4>w
              DEF Forgotten, InOrder, Forgot, Orderly, After, None, Left, Adding, Joined, Offered
    <3> QED BY <3>1, <3>2
  <2> QED BY <1>5, <1>9, <1>11, <2>1, <2>2 DEF PairOk
<1>12. CASE x = s
  <2>1. ui'[u] = ui[u] /\ (inbox'[u] = inbox[u] \/ inbox'[u] = Append(inbox[u], a))
    BY <1>1, <1>6, <1>12
  <2>2. Fresh(u, s)'
    <3> SUFFICES ASSUME u \in Joiners PROVE None(inbox'[u], Left(s) \cup Joined(s))
      BY <1>4 DEF Fresh, None, Left, Joined
    <3>k. PICK k : k = Left(s) \cup Joined(s)
      OBVIOUS
    <3>1. None(inbox[u], k) /\ a \notin k
      BY <1>3, <1>7, <3>k DEF PairOk, Fresh
    <3>2. None(Append(inbox[u], a), k)
      BY <1>8, <3>1, AppendNone
    <3> QED BY <2>1, <3>1, <3>2, <3>k
  <2>3. Live(u)' => Live(u)
    BY <2>1, LiveBefore
  <2>4. InOrder(u, s)'
    <3> SUFFICES ASSUME Live(u)' PROVE Orderly(inbox'[u], ui'[u].peers, s)
      BY DEF InOrder, Orderly, Left, Adding, Joined, Offered
    <3>1. Orderly(inbox[u], ui[u].peers, s)
      BY <1>3, <2>3 DEF PairOk, InOrder
    <3>2. Orderly(Append(inbox[u], a), ui[u].peers, s)
      BY <1>7, <1>8, <3>1, AppendOrderly
    <3> QED BY <2>1, <3>1, <3>2
  \* Nobody who is going or coming makes an offer, or its offer is one of the exceptions.
  <2>5. Absent(s) => inbox'[u] = inbox[u]
    <3> SUFFICES ASSUME Absent(s), u \in f PROVE FALSE
      BY <1>2, <1>12 DEF Answered
    <3>1. /\ m.type = "joined" /\ u = m.who /\ s \in Seated
          /\ s \in leaving => {s, u} \in past'.crossed
      BY <1>2, <1>12 DEF Answered
    <3>2. {s, u} = {u, s}
      OBVIOUS
    <3>3. s \in Joiners
      BY <3>1, <3>2 DEF Absent
    <3>4. None(inbox[s], Left(u) \cup Joined(u))
      BY <1>3, <3>3 DEF PairOk, Fresh
    <3>5. m \notin Left(u) \cup Joined(u)
      BY <1>1, <1>8, <1>12, <1>m, <3>4, TailNone
    <3> QED BY <1>1, <3>1, <3>5 DEF Joined
  <2>6. Forgotten(u, s)'
    <3> SUFFICES ASSUME Live(u)', Absent(s) PROVE Forgot(inbox'[u], ui'[u].peers, s)
      BY <1>5 DEF Forgotten, Forgot, After, None, Left, Adding, Joined, Offered
    <3>1. Forgot(inbox[u], ui[u].peers, s)
      BY <1>3, <2>3 DEF PairOk, Forgotten
    <3> QED BY <2>1, <2>5, <3>1
  <2> QED BY <1>5, <1>9, <1>12, <2>2, <2>4, <2>6 DEF PairOk
<1> QED BY <1>10, <1>11, <1>12

LEMMA PairNext == ConnInv /\ [CallNext]_callVars => PairInv'
<1> SUFFICES ASSUME ConnInv, [CallNext]_callVars PROVE PairInv'
  OBVIOUS
<1>1. CASE UNCHANGED callVars
  <2>1. UNCHANGED <<room, leaving, joining, removals, ui, inbox, past>> /\ Seated' = Seated
        /\ Joiners' = Joiners /\ Movers' = Movers
    BY <1>1 DEF callVars, Seated, Joiners, Movers
  <2>2. \A t \in Sockets : (Live(t)' <=> Live(t)) /\ (Present(t)' <=> Present(t))
    BY <2>1 DEF Live, Present, Holds, Over
  <2> SUFFICES ASSUME NEW u \in Sockets \ past'.hasty, NEW s \in Sockets \ past'.hasty, u # s,
                      {u, s} \notin past'.crossed
               PROVE  PairOk(u, s)'
    BY DEF PairInv
  <2>3. PairOk(u, s)
    BY <2>1, PairBefore DEF ConnInv
  <2>4. Apart(u, s)'
    BY <2>1, <2>3 DEF PairOk, Apart
  <2>5. Absent(s)' => Absent(s)
    BY <2>1 DEF Absent, Out
  <2>6. \A j \in joining' : j \in joining
    BY <2>1
  <2> QED BY <2>1, <2>2, <2>3, <2>4, <2>5, <2>6, PairStays, OtherMessage DEF ConnInv, Present
<1>2. ASSUME NEW s \in Sockets,
             AskJoin(s) \/ Leave(s) \/ Disconnect(s) \/ LeaveRoom(s) \/ Revoke(s)
             \/ EndCall(s) \/ Handle(s) \/ HandleRevoked(s)
      PROVE  PairInv'
  BY <1>2, AskJoinPair, LeavePair, DisconnectPair, LeaveRoomPair, RevokePair, EndCallPair,
     HandlePair DEF HandleRevoked
<1>3. ASSUME NEW s \in Sockets, NEW t \in Sockets, RemoveParticipant(s, t) PROVE PairInv'
  BY <1>3, RemovePair
<1>4. ASSUME NEW j \in joining, EnterRoom(j) \/ TellRoom(j) PROVE PairInv'
  BY <1>4, EnterRoomPair, TellRoomPair
<1>5. ASSUME NEW r \in removals, PutOut(r) \/ HandOver(r) PROVE PairInv'
  BY <1>5, PutOutPair, HandOverPair
<1>6. CASE EndRoom
  BY <1>6, EndRoomPair
<1> QED BY <1>1, <1>2, <1>3, <1>4, <1>5, <1>6 DEF CallNext

LEMMA PairAlways == CallSpec => []PairInv
<1>1. CallInit => PairInv
  <2> SUFFICES ASSUME CallInit, NEW u \in Sockets, NEW s \in Sockets PROVE PairOk(u, s)
    BY DEF PairInv
  <2>1. Seated = {} /\ joining = {} /\ ~ui[u].on
    BY DEF CallInit, Seated, ToSet, NoCall
  <2> QED BY <2>1 DEF PairOk, Apart, Seen, Fresh, Forgotten, InOrder, Link, Live, Present, Joiners
<1> QED BY <1>1, PairNext, ClientAlways, FollowAlways, CallTyped, PTL DEF CallSpec, ConnInv

\* In every call that nobody is joining or leaving any more, of two clients in it one has taken
\* the other's offer and not the other way round, and nobody has a peer that is gone; excepted
\* are those whose comings and goings crossed, and those of whom one made the other an offer
\* while it was being put out of the room (GroupChatPage 184-237, the gateway's 146-148).
THEOREM PeersConnect == CallSpec => []CallersConnect
<1>1. CallTypeOK /\ FollowInv /\ ClientInv /\ PairInv => CallersConnect
  <2> SUFFICES ASSUME CallTypeOK, FollowInv, ClientInv, PairInv, Quiet,
                      NEW s \in Seated \ past.hasty
               PROVE  /\ \A t \in (Seated \ {s}) \ past.hasty : {s, t} \in past.crossed
                           \/ (t \in ui[s].peers /\ (s \in ui[t].took) # (t \in ui[s].took))
                      /\ \A t \in ui[s].peers :
                           t \in Seated \cup past.hasty \cup past.revoked \/ {s, t} \in past.crossed
    BY DEF CallersConnect
  <2>1. /\ \A t \in Sockets : inbox[t] = <<>> /\ ~Going(t) /\ ~Out(t)
        /\ Joiners = {} /\ leaving = {} /\ Seated \subseteq Sockets /\ Seated \subseteq online
    BY CallTypes DEF Quiet, Joiners, Going, Out
  <2>2. \A t \in Seated \ past.hasty : Present(t)
    <3> SUFFICES ASSUME NEW t \in Seated \ past.hasty PROVE Present(t)
      OBVIOUS
    <3>1. Followed(t) /\ ~Holds(inbox[t], Over)
      BY <2>1 DEF FollowInv, Holds
    <3> QED BY <2>1, <3>1 DEF Followed, Present, Live
  <2>3. \A t \in Sockets : /\ \A kind : None(inbox[t], kind)
                           /\ \A kind, others : ~After(inbox[t], kind, others)
    BY <2>1 DEF None, After
  <2>4. ASSUME NEW t \in (Seated \ {s}) \ past.hasty, {s, t} \notin past.crossed
        PROVE  t \in ui[s].peers /\ (s \in ui[t].took) # (t \in ui[s].took)
    <3>1. Linked(s, t) \/ Linked(t, s)
      BY <2>1, <2>2, <2>4 DEF PairInv, PairOk, Link
    <3>2. CASE Linked(s, t)
      <4>1. t \in ui[s].peers \ ui[s].took /\ s \in ui[t].took
        BY <2>1, <2>3, <3>2 DEF Linked
      <4> QED BY <4>1
    <3>3. CASE Linked(t, s)
      <4>1. s \in ui[t].peers \ ui[t].took /\ t \in ui[s].took /\ t \in ui[s].peers
        BY <2>1, <2>3, <3>3 DEF Linked
      <4> QED BY <4>1
    <3> QED BY <3>1, <3>2, <3>3
  <2>5. ASSUME NEW t \in ui[s].peers, t \notin Seated \cup past.hasty \cup past.revoked,
               {s, t} \notin past.crossed
        PROVE  FALSE
    <3>1. t \in Sockets /\ s # t
      BY <2>1, <2>5, CallTypes DEF Clients
    <3>2. Live(s) /\ Absent(t)
      BY <2>1, <2>2, <2>5, <3>1 DEF Present, Absent
    <3>3. Forgot(inbox[s], ui[s].peers, t)
      BY <2>1, <2>5, <3>1, <3>2 DEF PairInv, PairOk, Forgotten
    <3> QED BY <2>1, <2>3, <2>5, <3>3 DEF Forgot
  <2> QED BY <2>4, <2>5
<1> QED BY <1>1, PairAlways, ClientAlways, FollowAlways, CallTyped, PTL
=============================================================================
