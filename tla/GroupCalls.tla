----------------------------- MODULE GroupCalls -----------------------------
(***************************************************************************)
(* The call of one group: its seats and its host at the server             *)
(* (apps/api/src/realtime.gateway.ts) and the clients that connect to each   *)
(* other through it (apps/web/src/ui/GroupChatPage.tsx).                    *)
(*                                                                         *)
(* One API instance.  A handler goes on after each await as a step; sockets  *)
(* are put out of a room through Redis, so that the room still holds them   *)
(* for a while.  A client reads what it is sent in order; what it sends is   *)
(* handled at once.  A socket that disconnects never returns: a client that  *)
(* reconnects has another.  Media, raised hands, mute requests and         *)
(* presenting are left out; they decide nothing here.                       *)
(***************************************************************************)
EXTENDS Integers, Sequences, FiniteSets, SequencesExt

CONSTANTS Sockets,   \* the sockets in the group
          Nobody,    \* no socket
          Limits,    \* seats a call may have: six, in the code; fewer sockets fill a smaller call
          MaxJoins,  \* bound: calls of call:join
          MaxRevokes \* bound: members who are put out of the group

ASSUME CallAssumption ==
  Nobody \notin Sockets /\ Limits \subseteq Nat \ {0} /\ MaxJoins \in Nat /\ MaxRevokes \in Nat

VARIABLES limit,     \* the seats of this call
          room,      \* the sockets in the call's room, as fetchSockets gives them: in order
          leaving,   \* sockets whose socketsLeave has not come back through Redis
          host,      \* callHosts
          joining,   \* call:join handlers past their look at the room
          removals,  \* handlers that end somebody's part, past their look at the room
          online,    \* sockets that are connected
          ui,        \* each client: whether it has a call, its peers, those of them whose
                     \* offer it took, and the host that it shows
          inbox,     \* what each client has been sent and not handled
          joins,     \* joins so far
          past       \* what happened that the promises make an exception for

callVars == <<limit, room, leaving, host, joining, removals, online, ui, inbox, joins, past>>
server == <<limit, room, leaving, host, joining, removals>>

NoCall == [on |-> FALSE, peers |-> {}, took |-> {}, host |-> Nobody]
Seated == ToSet(room)
First(seats) == IF seats = <<>> THEN Nobody ELSE Head(seats)
Without(s) == IF s \in Seated THEN RemoveAt(room, CHOOSE i \in DOMAIN room : room[i] = s) ELSE room
Pairs(s, others) == {{s, t} : t \in others \ {s}}
Joiners == {j.of : j \in joining}
Movers == Joiners \cup {r.of : r \in removals} \cup leaving

CallInit ==
  /\ limit \in Limits
  /\ room = <<>> /\ leaving = {} /\ host = Nobody
  /\ joining = {} /\ removals = {}
  /\ online = Sockets
  /\ ui = [s \in Sockets |-> NoCall]
  /\ inbox = [s \in Sockets |-> <<>>]
  /\ joins = 0
  /\ past = [crossed |-> {}, hasty |-> {}, revoked |-> {}, dropped |-> {}, overlap |-> FALSE, adrift |-> FALSE]

\* server.to(room).emit.  A client without a call ignores what it is sent, and what it was sent
\* has arrived before it joins again, two round trips later: so it is not sent.
Sent(box, to, msg) ==
  [s \in Sockets |-> IF s \in to \cap online /\ ui[s].on THEN Append(box[s], msg) ELSE box[s]]
Gone == [type |-> "revoked"]
Heeded(msgs) ==   \* without a call; a member is put out of the group once
  IF \E i \in DOMAIN msgs : msgs[i] = Gone THEN <<Gone>> ELSE <<>>

-----------------------------------------------------------------------------
(* Joining *)

FullLate == Len(room) > limit   \* a mutant
Full == Len(room) >= limit

\* joinCall sets callRef and sends call:join; callJoin looks at the room.  joinCall makes sure
\* that there is no call before it waits for the relay's address and the microphone, so a second
\* click is a join of a client that has a call.
AskJoin(s) ==
  /\ s \in online \ past.revoked /\ joins < MaxJoins
  /\ joins' = joins + 1
  /\ ui' = [ui EXCEPT ![s] = [@ EXCEPT !.on = TRUE]]
  /\ IF Full THEN inbox' = [inbox EXCEPT ![s] = Append(@, [type |-> "refused"])] /\ UNCHANGED joining
     ELSE /\ joining' = joining \cup {[of |-> s, at |-> "room", saw |-> Seated, nth |-> joins]}
          /\ UNCHANGED inbox
  /\ past' = [past EXCEPT !.crossed = @ \cup Pairs(s, Movers),
                          !.overlap = @ \/ \E j \in joining : j.at = "room",
                          !.hasty = IF ui[s].on \/ s \in Movers THEN @ \cup {s} ELSE @]
  /\ UNCHANGED <<limit, room, leaving, host, removals, online>>

\* socket.join; a socket that is gone is not found in the room by anybody.
EnterRoom(j) ==
  /\ j \in joining /\ j.at = "room"
  /\ room' = IF j.of \in Seated \/ j.of \notin online THEN room ELSE Append(room, j.of)
  /\ joining' = (joining \ {j}) \cup {[j EXCEPT !.at = "tell"]}
  /\ UNCHANGED <<limit, leaving, host, removals, online, ui, inbox, joins, past>>

\* Who finds no host is the host; the others are told and the answer tells of them.
TellRoom(j) ==
  LET h == IF host = Nobody THEN j.of ELSE host IN
  /\ j \in joining /\ j.at = "tell"
  /\ host' = h
  /\ inbox' = Sent(Sent(inbox, Seated \ {j.of}, [type |-> "joined", who |-> j.of, host |-> h]),
                   {j.of}, [type |-> "ack", who |-> j.saw, host |-> h])
  /\ joining' = joining \ {j}
  /\ past' = [past EXCEPT !.adrift = @ \/ (host = Nobody /\ j.of \notin Seated \ leaving)]
  /\ UNCHANGED <<limit, room, leaving, removals, online, ui, joins>>

-----------------------------------------------------------------------------
(* Leaving *)

\* removeCallParticipant up to its first await.
Removal(s) == IF s \in Seated THEN {[of |-> s, at |-> "out", heir |-> Nobody]} ELSE {}
Parting(s) == [past EXCEPT !.crossed = @ \cup Pairs(s, Joiners),
                           !.hasty = IF s \in Joiners THEN @ \cup {s} ELSE @]

\* leaveCall: the client is done at once; callLeave finds nobody to remove if it is early.
Leave(s) ==
  /\ s \in online /\ ui[s].on
  /\ ui' = [ui EXCEPT ![s] = NoCall]
  /\ inbox' = [inbox EXCEPT ![s] = Heeded(@)]
  /\ removals' = removals \cup Removal(s)
  /\ past' = Parting(s)
  /\ UNCHANGED <<limit, room, leaving, host, joining, online, joins>>

\* The page is left, or the connection lost: removeSocketFromCalls looks at the room before
\* the socket is out of it.
Disconnect(s) ==
  /\ s \in online \cap (Seated \cup Joiners \cup past.revoked)   \* others play no part
  /\ removals' = removals \cup Removal(s)
  /\ online' = online \ {s}
  /\ room' = Without(s)
  /\ leaving' = leaving \ {s}
  /\ ui' = [ui EXCEPT ![s] = NoCall]
  /\ inbox' = [inbox EXCEPT ![s] = <<>>]
  /\ past' = Parting(s)
  /\ UNCHANGED <<limit, host, joining, joins>>

\* The rest of removeCallParticipant: the others are told, and when it was the host the room is looked at again, which may still hold the one who leaves.
HandsOverNever(s) == FALSE   \* a mutant
HandsOver(s) == host = s
PutOut(r) ==
  LET s == r.of IN
  /\ r \in removals /\ r.at = "out"
  /\ leaving' = IF s \in Seated THEN leaving \cup {s} ELSE leaving
  /\ inbox' = Sent(inbox, Seated \ {s}, [type |-> "left", who |-> s])
  /\ removals' = (removals \ {r}) \cup
       IF HandsOver(s) THEN {[r EXCEPT !.at = "heir", !.heir = First(room)]} ELSE {}
  /\ UNCHANGED <<limit, room, host, joining, online, ui, joins, past>>

HandOver(r) ==
  /\ r \in removals /\ r.at = "heir"
  /\ host' = r.heir
  /\ inbox' = Sent(inbox, Seated, [type |-> "host", host |-> r.heir])
  /\ removals' = removals \ {r}
  /\ past' = [past EXCEPT !.adrift = IF r.heir = Nobody THEN ~(Seated \subseteq leaving \cup Joiners)
                                     ELSE r.heir \notin Seated \ leaving]
  /\ UNCHANGED <<limit, room, leaving, joining, online, ui, joins>>

\* socketsLeave, when the message is back from Redis.  Whoever was put out of the group and is
\* out of the room before its client is gone is looked after by nobody: removeSocketFromCalls
\* will not find the room among those of the socket.
LeaveRoom(s) ==
  /\ s \in leaving
  /\ room' = Without(s)
  /\ leaving' = leaving \ {s}
  /\ past' = [Parting(s) EXCEPT !.dropped =
               IF s \in past.revoked /\ \A r \in removals : r.of # s THEN @ \cup {s} ELSE @]
  /\ UNCHANGED <<limit, host, joining, removals, online, ui, inbox, joins>>

\* revokeGroupAccess: out of the room, and told, but the host is not looked after.
Revoke(s) ==
  /\ s \in (Seated \cup Joiners) \ past.revoked /\ s \in online
  /\ Cardinality(past.revoked) < MaxRevokes
  /\ leaving' = IF s \in Seated THEN leaving \cup {s} ELSE leaving
  /\ inbox' = [inbox EXCEPT ![s] = Append(@, Gone)]
  /\ past' = [Parting(s) EXCEPT !.revoked = @ \cup {s}]
  /\ UNCHANGED <<limit, room, host, joining, removals, online, ui, joins>>

-----------------------------------------------------------------------------
(* The host's controls *)

Controls(s) == s \in online /\ ui[s].on /\ host = s /\ s \in Seated

RemoveParticipant(s, t) ==
  /\ Controls(s) /\ t \in Seated \ {s}
  /\ t \notin Movers     \* once: a repeated click changes nothing
  /\ inbox' = Sent(inbox, {t}, [type |-> "removed"])
  /\ removals' = removals \cup Removal(t)
  /\ past' = Parting(t)
  /\ UNCHANGED <<limit, room, leaving, host, joining, online, ui, joins>>

\* end-call: those who are in the room are told; a click while the call is being ended is left out.
Ending == \E r \in removals : r.at = "end"
EndCall(s) ==
  /\ Controls(s) /\ ~Ending
  /\ inbox' = Sent(inbox, Seated, [type |-> "ended"])
  /\ removals' = removals \cup {[of |-> t, at |-> "end", heir |-> Nobody] : t \in Seated}
  /\ past' = [past EXCEPT !.hasty = @ \cup Joiners,
                          !.crossed = @ \cup UNION {Pairs(j, Sockets) : j \in Joiners}]
  /\ UNCHANGED <<limit, room, leaving, host, joining, online, ui, joins>>

\* When fetchSockets has answered, those who are in the room then are put out of it, also those
\* who came since and were told nothing; there is no host.
EndRoom ==
  /\ Ending
  /\ leaving' = Seated
  /\ host' = Nobody
  /\ removals' = {r \in removals : r.at # "end"}
  /\ past' = [past EXCEPT !.adrift = FALSE,
                          !.hasty = @ \cup (Seated \ {r.of : r \in removals \ removals'})]
  /\ UNCHANGED <<limit, room, joining, online, ui, inbox, joins>>

-----------------------------------------------------------------------------
(* A client handles what it was sent *)

EndsUnheard == {"refused", "removed"}   \* a mutant: the end of a call is not heard
Ends == {"refused", "removed", "ended"}

\* Who was there first offers; the joiner waits.
OffersBoth(u, m) ==   \* a mutant: the joiner offers as well
  CASE m.type = "joined" -> {m.who} \ u.peers [] m.type = "ack" -> m.who \ u.peers [] OTHER -> {}
Offers(u, m) == IF m.type = "joined" THEN {m.who} \ u.peers ELSE {}

Shown(u, m) ==
  IF ~u.on \/ m.type \in Ends THEN NoCall ELSE
  CASE m.type = "joined" -> [u EXCEPT !.host = m.host, !.peers = @ \cup {m.who}]
    [] m.type = "ack"    -> [u EXCEPT !.host = m.host, !.peers = @ \cup m.who]
    [] m.type = "offer"  -> [u EXCEPT !.peers = @ \cup {m.who}, !.took = @ \cup {m.who}]
    [] m.type = "left"   -> [u EXCEPT !.peers = @ \ {m.who}, !.took = @ \ {m.who}]
    [] m.type = "host"   -> [u EXCEPT !.host = m.host]
    [] OTHER             -> u

\* An offer is relayed between sockets that are in the room.
Handle(s) ==
  LET m == Head(inbox[s])
      to == IF ui[s].on /\ s \in Seated THEN Offers(ui[s], m) \cap Seated ELSE {}
  IN /\ inbox[s] # <<>> /\ m.type # "revoked"
     /\ ui' = [ui EXCEPT ![s] = Shown(@, m)]
     /\ inbox' = Sent([inbox EXCEPT ![s] = IF ui'[s].on THEN Tail(@) ELSE Heeded(@)], to, [type |-> "offer", who |-> s])
     /\ past' = [past EXCEPT !.crossed = IF s \in leaving THEN @ \cup Pairs(s, to) ELSE @]
     /\ UNCHANGED <<server, online, joins>>

\* group:removed: the client leaves the page of the group.
HandleRevoked(s) ==
  /\ inbox[s] # <<>> /\ Head(inbox[s]).type = "revoked"
  /\ Disconnect(s)

CallNext ==
  \/ \E s \in Sockets :
       \/ AskJoin(s) \/ Leave(s) \/ Disconnect(s) \/ LeaveRoom(s) \/ Revoke(s)
       \/ EndCall(s) \/ Handle(s) \/ HandleRevoked(s)
       \/ \E t \in Sockets : RemoveParticipant(s, t)
  \/ \E j \in joining : EnterRoom(j) \/ TellRoom(j)
  \/ \E r \in removals : PutOut(r) \/ HandOver(r)
  \/ EndRoom

CallSpec == CallInit /\ [][CallNext]_callVars

Clients == [on : BOOLEAN, peers : SUBSET Sockets, took : SUBSET Sockets, host : Sockets \cup {Nobody}]
Messages ==
  [type : {"joined"}, who : Sockets, host : Sockets]
  \cup [type : {"ack"}, who : SUBSET Sockets, host : Sockets]
  \cup [type : {"offer", "left"}, who : Sockets]
  \cup [type : {"host"}, host : Sockets \cup {Nobody}]
  \cup [type : {"revoked"} \cup Ends]
CallTypeOK ==
  /\ limit \in Limits /\ joins \in Nat
  /\ room \in Seq(Sockets) /\ Seated \subseteq online
  /\ \A i, k \in DOMAIN room : room[i] = room[k] => i = k
  /\ leaving \subseteq Seated /\ online \subseteq Sockets /\ host \in Sockets \cup {Nobody}
  /\ joining \subseteq [of : Sockets, at : {"room", "tell"}, saw : SUBSET Sockets, nth : Nat]
  /\ removals \subseteq [of : Sockets, at : {"out", "heir", "end"}, heir : Sockets \cup {Nobody}]
  /\ ui \in [Sockets -> Clients] /\ inbox \in [Sockets -> Seq(Messages)]
  /\ past \in [crossed : SUBSET SUBSET Sockets, hasty : SUBSET Sockets, revoked : SUBSET Sockets,
                dropped : SUBSET Sockets, overlap : BOOLEAN, adrift : BOOLEAN]

-----------------------------------------------------------------------------
\* Nothing is on its way: what the clients and the server hold should agree.
Quiet == joining = {} /\ removals = {} /\ leaving = {} /\ \A s \in Sockets : inbox[s] = <<>>

\* callJoin (78-81) counts the seats before an await: a call has more than six participants
\* only if two joins overlapped there.
SeatsWithinLimit == Len(room) <= limit \/ past.overlap

\* "Existing callers create the offer when this socket joins; the joiner waits for it to avoid
\* offer glare" (GroupChatPage 256): of two clients in a call exactly one has taken the other's
\* offer, and nobody has a peer that is gone, unless the coming of one crossed the coming or
\* going of the other, or one was being put out of the room and still made the other an offer.
CallersConnect ==
  Quiet => \A s \in Seated \ past.hasty :
    /\ \A t \in (Seated \ {s}) \ past.hasty : {s, t} \in past.crossed
         \/ (t \in ui[s].peers /\ (s \in ui[t].took) # (t \in ui[s].took))
    /\ \A t \in ui[s].peers : t \in Seated \cup past.hasty \cup past.revoked \/ {s, t} \in past.crossed

\* A seat is held by a client that shows the call, and a client that shows it has a seat,
\* unless it left or joined once more while its join was under way, or came while the call
\* was being ended: who enters between the message and the look at the room (108) is put out
\* of it untold.
SeatsAreUsed ==
  Quiet => \A s \in online \ past.hasty : s \in Seated <=> ui[s].on

\* The controls are somebody's: the host is in the call, and every client that did not come or go
\* in haste (see SeatsAreUsed) shows the host that the server has.  The host is not in the call
\* in two cases: the call was last passed to somebody who was gone or going, or to nobody with
\* others in it (adrift: removeCallParticipant, 152-157, chooses before an await, callJoin, 81-83,
\* after one); or the host was put out of the group and out of the room before its client was
\* gone (dropped: revokeGroupAccess, 39-44, and removeSocketFromCalls, 159-161), and callHosts
\* keeps a socket that is gone.
HostIsPresent ==
  Quiet =>
    /\ past.adrift \/ host \in Seated \cup past.dropped \/ (host = Nobody /\ room = <<>>)
    /\ \A s \in Seated \ past.hasty : ui[s].host = host
=============================================================================
