-------------------------- MODULE ConnectionsProofs --------------------------
(***************************************************************************)
(* What Connections promises for any events, any number of overlapping      *)
(* passes, and any number of changes and grants.                            *)
(***************************************************************************)
EXTENDS Connections, TLAPS

Grants == 0..MaxGrants
Versions == 0..(MaxChanges + 1)
Times == 0..MaxChanges
Cursors == NoCursor..MaxChanges
Conn == [id : Grants, status : {"none", "connected", "expired"}, refresh : Grants,
         expired : BOOLEAN, cursor : Cursors]
Saw == [id : Grants, refresh : Grants, cursor : Cursors]
Pass == [at : {"idle", "refresh", "store", "expire", "sync", "fetch", "apply"}, saw : Saw,
         todo : SUBSET (Events \X Versions), found : Grants, end : Cursors]
Tokens == [last : Grants, good : SUBSET Grants, rotates : BOOLEAN]
Ghosts == [crossed : BOOLEAN, orphans : SUBSET Events, forgotten : SUBSET Events,
           contested : BOOLEAN]

Typed ==
  /\ provider \in DOMAIN connectors /\ states \subseteq BOOLEAN
  /\ conn \in Conn /\ tokens \in Tokens /\ ghosts \in Ghosts
  /\ mirror \in [Events -> Versions] /\ calendar \in [Events -> Versions]
  /\ changed \in [Events -> Times] /\ clock \in Times
  /\ passes \in [Passes -> Pass]

\* Nothing is newer than the latest grant and the latest change.
PassKnown(x) == x.saw.refresh <= tokens.last /\ x.found <= tokens.last
                /\ x.saw.cursor <= clock /\ x.end <= clock
Known ==
  /\ conn.refresh <= tokens.last /\ conn.cursor <= clock
  /\ \A g \in tokens.good : 0 < g /\ g <= tokens.last
  /\ \A e \in Events : changed[e] <= clock
  /\ \A p \in Passes : PassKnown(passes[p])

\* A row has an id; a row that is gone has no cursor; a pass has seen a row; only a calendar's
\* passes get as far as its events.
Rows ==
  /\ conn.id = 0 <=> conn.status = "none"
  /\ conn.id = 0 => conn.cursor = NoCursor
  /\ \A p \in Busy : passes[p].saw.id # 0 /\ (p \in Syncs \/ connector.calendar)
  /\ \A p \in Passes : passes[p].at \in {"fetch", "apply"} => connector.calendar
  /\ ~connector.calendar => \A e \in Events : mirror[e] = 0

\* Where passes do not cross, there is one, and it has read the row as it is.
Mirrored(e) == mirror[e] = calendar[e]
Alone ==
  /\ \A p \in Busy : passes[p].saw.id = conn.id /\ passes[p].saw.cursor = conn.cursor
  /\ \A p, q \in Busy : p = q
\* What it still has to apply is news, and the rest is applied already.
Fetched(x) ==
  /\ \A item \in x.todo : \/ item[2] = calendar[item[1]]
                          \/ changed[item[1]] > x.end /\ changed[item[1]] > conn.cursor
  /\ x.end # conn.cursor =>
       \A e \in Events \ ghosts.forgotten :
         changed[e] <= x.end => Mirrored(e) \/ <<e, calendar[e]>> \in x.todo
Uncrossed ==
  ~ghosts.crossed /\ conn.id # 0 =>
    Alone /\ \A p \in Passes : At(p, "apply") => Fetched(passes[p])

\* While nothing contests the refresh token: whoever refreshes does it with the stored one or
\* will be refused; who is to store is the only one and has the latest; and if nobody is, the
\* latest is stored, unless it is dead.
Storing == {p \in Passes : At(p, "store")}
Expiring == conn.status = "expired" \/ \E p \in Passes : At(p, "expire")
Current(p) ==
  /\ passes[p].saw.refresh = conn.refresh
  /\ IF tokens.rotates
     THEN passes[p].found = tokens.last /\ conn.refresh \notin tokens.good
     ELSE passes[p].found = conn.refresh
Uncontested ==
  ~ghosts.contested /\ conn.id # 0 =>
    /\ \A p \in Storing : Current(p)
    /\ tokens.rotates => \A p, q \in Storing : p = q
    /\ tokens.last \in tokens.good =>
         conn.refresh = tokens.last \/ (tokens.rotates /\ Storing # {})
    /\ \A p \in Passes : At(p, "refresh") =>
         passes[p].saw.refresh = conn.refresh \/ passes[p].saw.refresh \notin tokens.good
    /\ Expiring => conn.refresh \notin tokens.good /\ tokens.last \notin tokens.good

Shape == Typed /\ Known /\ Rows
ConnInv == /\ Shape /\ Uncrossed /\ Uncontested
           /\ CursorNeverAhead /\ MirrorGoesWithConnection

----------------------------------------------------------------------------
LEMMA Numbers ==
  /\ MaxGrants \in Nat /\ MaxChanges \in Nat /\ 0 \in Grants /\ 0 \in Versions /\ 0 \in Times
  /\ NoCursor \in Cursors /\ Times \subseteq Cursors /\ NoCursor = -1
BY ConnectionAssumption DEF Grants, Versions, Times, Cursors, NoCursor

LEMMA IdleTyped ==
  /\ Idle \in Pass /\ Idle.at = "idle" /\ NoConn \in Conn /\ NoGhosts \in Ghosts
  /\ Idle.saw.refresh = 0 /\ Idle.saw.cursor = -1 /\ Idle.found = 0 /\ Idle.end = -1
  /\ Idle.todo = {}
BY Numbers DEF Idle, Pass, Saw, NoConn, Conn, NoGhosts, Ghosts, Seen

LEMMA InitInv == ConnInit => ConnInv
<1> SUFFICES ASSUME ConnInit PROVE ConnInv
  OBVIOUS
<1>1. Typed
  <2>1. tokens \in Tokens /\ conn \in Conn /\ ghosts \in Ghosts /\ passes \in [Passes -> Pass]
    BY IdleTyped, Numbers DEF ConnInit, Tokens
  <2>2. 1 \in Versions
    BY Numbers DEF Versions
  <2>3. mirror \in [Events -> Versions] /\ calendar \in [Events -> Versions]
        /\ changed \in [Events -> Times] /\ clock \in Times
    BY <2>2, Numbers DEF ConnInit
  <2> QED BY <2>1, <2>3 DEF Typed, ConnInit
<1>2. Known
  BY IdleTyped, Numbers DEF ConnInit, Known, PassKnown, NoConn
<1>3. Busy = {} /\ Storing = {} /\ conn.id = 0 /\ conn.status = "none" /\ conn.cursor = NoCursor
      /\ \A p \in Passes : passes[p].at = "idle"
  BY IdleTyped DEF ConnInit, Busy, Storing, NoConn, At
<1>4. Rows /\ Uncrossed /\ Uncontested /\ CursorNeverAhead /\ MirrorGoesWithConnection
  BY <1>3 DEF Rows, Uncrossed, Uncontested, CursorNeverAhead, MirrorGoesWithConnection, ConnInit
<1> QED BY <1>1, <1>2, <1>4 DEF ConnInv, Shape

----------------------------------------------------------------------------
(* What each action does to the records it writes. *)

Rest(p) == \A q \in Passes : q # p => passes'[q] = passes[q]

LEMMA StartEffect ==
  ASSUME Shape, NEW p \in Passes, StartPass(p)
  PROVE  /\ passes' \in [Passes -> Pass] /\ Rest(p) /\ Busy' = Busy \cup {p}
         /\ passes[p].at = "idle"
         /\ passes'[p].at \in {"refresh", First(p)}
         /\ passes'[p].at = "refresh" => passes'[p].saw.refresh = conn.refresh
         /\ passes'[p].saw.refresh \in {0, conn.refresh}
         /\ passes'[p].saw.id = conn.id /\ passes'[p].saw.cursor = conn.cursor
         /\ passes'[p].todo = {} /\ passes'[p].found = 0 /\ passes'[p].end = -1
<1> DEFINE s == Seen(conn)
           a == IF conn.expired THEN "refresh" ELSE First(p)
           x == [at |-> a, saw |-> s, todo |-> {}, found |-> 0, end |-> -1]
<1>1. conn \in Conn /\ passes \in [Passes -> Pass]
  BY DEF Shape, Typed
<1>2. s \in Saw /\ s.id = conn.id /\ s.cursor = conn.cursor /\ s.refresh \in {0, conn.refresh}
      /\ (conn.expired => s.refresh = conn.refresh)
  <2>1. CASE conn.expired
    <3>1. s = [id |-> conn.id, refresh |-> conn.refresh, cursor |-> conn.cursor]
      BY <2>1 DEF Seen
    <3> QED BY <1>1, <3>1 DEF Conn, Saw
  <2>2. CASE ~conn.expired
    <3>1. s = [id |-> conn.id, refresh |-> 0, cursor |-> conn.cursor]
      BY <2>2 DEF Seen
    <3> QED BY <1>1, <2>2, <3>1, Numbers DEF Conn, Saw
  <2> QED BY <2>1, <2>2
<1>3. a \in {"refresh", First(p)} /\ First(p) \in {"sync", "fetch"} /\ (a = "refresh" => conn.expired)
  BY DEF First
<1> HIDE DEF s, a
<1>5. passes' = [passes EXCEPT ![p] = x]
  <2> DEFINE y == [at |-> "idle", saw |-> s, todo |-> {}, found |-> 0, end |-> -1]
           z == Seen(NoConn)
  <2>4. Idle = [at |-> "idle", saw |-> z, todo |-> {}, found |-> 0, end |-> -1]
    BY DEF Idle, NoCursor
  <2> HIDE DEF z
  <2>0. [Idle EXCEPT !.saw = s] = y
    BY <2>4
  <2>3. [y EXCEPT !.at = a] = x
    OBVIOUS
  <2>1. [[Idle EXCEPT !.saw = s] EXCEPT !.at = a] = x
    BY <2>0, <2>3
  <2>2. [Idle EXCEPT !.saw = Seen(conn), !.at = IF conn.expired THEN "refresh" ELSE First(p)] = x
    BY <2>1 DEF s, a
  <2> QED BY <2>2 DEF StartPass
<1>4. x \in Pass /\ x.at = a /\ x.saw = s /\ x.todo = {} /\ x.found = 0 /\ x.end = -1
  BY <1>2, <1>3, Numbers DEF Pass
<1> HIDE DEF x
<1>6. passes' \in [Passes -> Pass] /\ Rest(p) /\ passes'[p] = x
  BY <1>1, <1>4, <1>5 DEF Rest
<1>7. Busy' = Busy \cup {p}
  BY <1>3, <1>4, <1>6 DEF Busy, Rest
<1>8. passes[p].at = "idle"
  BY DEF StartPass, At
<1> QED BY <1>2, <1>3, <1>4, <1>6, <1>7, <1>8

LEMMA Effect ==
  ASSUME Shape, NEW p \in Passes, NEW x \in Pass, passes' = [passes EXCEPT ![p] = x],
         passes[p].at # "idle"
  PROVE  /\ passes' \in [Passes -> Pass] /\ Rest(p) /\ passes'[p] = x
         /\ Busy' = IF x.at = "idle" THEN Busy \ {p} ELSE Busy
<1>1. passes \in [Passes -> Pass]
  BY DEF Shape, Typed
<1>2. passes' \in [Passes -> Pass] /\ Rest(p) /\ passes'[p] = x
  BY <1>1 DEF Rest
<1> QED BY <1>2 DEF Busy, Rest

LEMMA StopEffect ==
  ASSUME Shape, NEW p \in Passes, Stop(p), passes[p].at # "idle"
  PROVE  /\ passes' \in [Passes -> Pass] /\ Rest(p) /\ passes'[p] = Idle
         /\ Busy' = Busy \ {p}
<1>1. passes' = [passes EXCEPT ![p] = Idle]
  BY DEF Stop
<1> QED BY <1>1, IdleTyped, Effect

LEMMA GotoEffect ==
  ASSUME Shape, NEW p \in Passes, NEW a \in {"refresh", "store", "expire", "sync", "fetch", "apply"},
         passes' = Goto(p, a), passes[p].at # "idle"
  PROVE  /\ passes' \in [Passes -> Pass] /\ Rest(p) /\ Busy' = Busy
         /\ passes'[p].at = a /\ passes'[p].saw = passes[p].saw /\ passes'[p].todo = passes[p].todo
         /\ passes'[p].found = passes[p].found /\ passes'[p].end = passes[p].end
<1> DEFINE x == [passes[p] EXCEPT !.at = a]
<1>1. passes[p] \in Pass /\ passes \in [Passes -> Pass]
  BY DEF Shape, Typed
<1>2. x \in Pass /\ x.at = a /\ x.saw = passes[p].saw /\ x.todo = passes[p].todo
      /\ x.found = passes[p].found /\ x.end = passes[p].end
  BY <1>1 DEF Pass
<1>3. passes' = [passes EXCEPT ![p] = x]
  BY <1>1 DEF Goto
<1> HIDE DEF x
<1> QED BY <1>2, <1>3, Effect

LEMMA AskEffect ==
  ASSUME Shape, NEW p \in Passes, AskRefresh(p)
  PROVE  /\ passes' \in [Passes -> Pass] /\ Rest(p) /\ Busy' = Busy
         /\ passes[p].at = "refresh"
         /\ passes'[p].at = "store" /\ passes'[p].saw = passes[p].saw
         /\ passes'[p].todo = passes[p].todo /\ passes'[p].end = passes[p].end
         /\ passes'[p].found = IF tokens.rotates THEN tokens.last + 1 ELSE passes[p].saw.refresh
         /\ tokens' \in Tokens /\ tokens'.rotates = tokens.rotates
         /\ ~tokens.rotates => tokens' = tokens
         /\ tokens.rotates => /\ tokens'.last = tokens.last + 1
                              /\ tokens'.good = (tokens.good \ {passes[p].saw.refresh})
                                                \cup {tokens.last + 1}
<1> DEFINE old == passes[p].saw.refresh
           f == IF tokens.rotates THEN tokens.last + 1 ELSE old
           x == [passes[p] EXCEPT !.at = "store", !.found = f]
<1>1. passes[p] \in Pass /\ passes \in [Passes -> Pass] /\ tokens \in Tokens /\ passes[p].at = "refresh"
  BY DEF Shape, Typed, AskRefresh, At
<1>2. old \in Grants /\ (tokens.rotates => tokens.last < MaxGrants)
  BY <1>1 DEF Pass, Saw, AskRefresh
<1>3. f \in Grants
  BY <1>1, <1>2, Numbers DEF Tokens, Grants
<1> HIDE DEF f
<1>4. x \in Pass /\ x.at = "store" /\ x.saw = passes[p].saw /\ x.todo = passes[p].todo
      /\ x.found = f /\ x.end = passes[p].end
  BY <1>1, <1>3 DEF Pass
<1>5. passes' = [passes EXCEPT ![p] = x]
  BY <1>1 DEF AskRefresh, Issued, f
<1> HIDE DEF x
<1>6. passes' \in [Passes -> Pass] /\ Rest(p) /\ passes'[p] = x /\ Busy' = Busy
  BY <1>1, <1>4, <1>5, Effect
<1>7. CASE tokens.rotates
  <2>1. tokens' = [tokens EXCEPT !.last = @ + 1, !.good = (@ \ {old}) \cup {tokens.last + 1}]
    BY <1>7 DEF AskRefresh, Issued
  <2>2. tokens.last + 1 \in Grants
    BY <1>3, <1>7 DEF f
  <2>3. tokens'.last = tokens.last + 1 /\ tokens'.good = (tokens.good \ {old}) \cup {tokens.last + 1}
        /\ tokens'.rotates = tokens.rotates /\ tokens' \in Tokens
    BY <1>1, <2>1, <2>2 DEF Tokens
  <2> QED BY <1>1, <1>4, <1>6, <1>7, <2>3 DEF f
<1>8. CASE ~tokens.rotates
  <2>1. tokens' = tokens
    BY <1>8 DEF AskRefresh
  <2> QED BY <1>1, <1>4, <1>6, <1>8, <2>1 DEF f
<1> QED BY <1>7, <1>8

LEMMA StoreEffect ==
  ASSUME Shape, NEW p \in Passes, StoreTokens(p)
  PROVE  /\ passes' \in [Passes -> Pass] /\ Rest(p) /\ Busy' = Busy
         /\ passes[p].at = "store" /\ conn.id = passes[p].saw.id
         /\ passes'[p].at = First(p) /\ passes'[p].saw.id = passes[p].saw.id
         /\ passes'[p].saw.cursor = passes[p].saw.cursor /\ passes'[p].saw.refresh = 0
         /\ passes'[p].todo = passes[p].todo /\ passes'[p].end = passes[p].end
         /\ passes'[p].found = 0
         /\ conn' \in Conn /\ conn'.id = conn.id /\ conn'.status = conn.status
         /\ conn'.refresh = passes[p].found /\ conn'.cursor = conn.cursor
<1> DEFINE s == [passes[p].saw EXCEPT !.refresh = 0]
           x == [passes[p] EXCEPT !.at = First(p), !.found = 0, !.saw = s]
<1>1. passes[p] \in Pass /\ passes \in [Passes -> Pass] /\ conn \in Conn /\ passes[p].at = "store"
      /\ conn.id = passes[p].saw.id
  BY DEF Shape, Typed, StoreTokens, At, Live
<1>2. s \in Saw /\ s.id = passes[p].saw.id /\ s.cursor = passes[p].saw.cursor /\ s.refresh = 0
  BY <1>1, Numbers DEF Pass, Saw
<1>3. passes' = [passes EXCEPT ![p] = x]
  BY <1>1 DEF StoreTokens, Pass
<1>4. First(p) \in {"sync", "fetch"}
  BY DEF First
<1> HIDE DEF s
<1>5. x \in Pass /\ x.at = First(p) /\ x.saw = s /\ x.todo = passes[p].todo
      /\ x.found = 0 /\ x.end = passes[p].end
  BY <1>1, <1>2, <1>4, Numbers DEF Pass
<1> HIDE DEF x
<1>6. passes' \in [Passes -> Pass] /\ Rest(p) /\ passes'[p] = x /\ Busy' = Busy
  BY <1>1, <1>3, <1>4, <1>5, Effect
<1>7. conn' \in Conn /\ conn'.id = conn.id /\ conn'.status = conn.status
      /\ conn'.refresh = passes[p].found /\ conn'.cursor = conn.cursor
  BY <1>1 DEF StoreTokens, Conn, Pass
<1> QED BY <1>1, <1>2, <1>5, <1>6, <1>7

LEMMA FilesEffect ==
  ASSUME Shape, NEW p \in Passes, NEW refused \in BOOLEAN, NEW targets \in BOOLEAN,
         AskFiles(p, refused, targets)
  PROVE  /\ passes' \in [Passes -> Pass] /\ Rest(p) /\ passes[p].at = "sync"
         /\ \/ /\ Busy' = Busy /\ passes'[p].at = "fetch" /\ passes'[p].saw = passes[p].saw
               /\ passes'[p].todo = passes[p].todo /\ passes'[p].end = passes[p].end
               /\ passes'[p].found = passes[p].found /\ connector.calendar
            \/ Busy' = Busy \ {p} /\ passes'[p] = Idle
<1>1. passes[p].at = "sync"
  BY DEF AskFiles, At
<1>2. CASE passes' = Goto(p, "fetch") /\ connector.calendar
  BY <1>1, <1>2, GotoEffect
<1>3. CASE passes' = [passes EXCEPT ![p] = Idle]
  BY <1>1, <1>3, StopEffect DEF Stop
<1> QED BY <1>2, <1>3 DEF AskFiles

LEMMA FetchEffect ==
  ASSUME Shape, NEW p \in Passes, NEW cursor \in Cursors, NEW complete \in BOOLEAN,
         Fetch(p, cursor, complete)
  PROVE  /\ passes' \in [Passes -> Pass] /\ Rest(p) /\ Busy' = Busy
         /\ passes[p].at = "fetch" /\ passes'[p].at = "apply"
         /\ passes'[p].saw = passes[p].saw /\ passes'[p].found = passes[p].found
         /\ passes'[p].end = IF complete THEN clock ELSE passes[p].saw.cursor
         /\ \A item \in passes'[p].todo : item[1] \in Events /\ item[2] = calendar[item[1]]
         /\ complete => \A e \in Delta(cursor) : <<e, calendar[e]>> \in passes'[p].todo
<1>1. passes[p] \in Pass /\ passes \in [Passes -> Pass] /\ passes[p].at = "fetch"
      /\ clock \in Cursors /\ calendar \in [Events -> Versions]
  BY Numbers DEF Shape, Typed, Fetch, At
<1>2. PICK part \in IF complete THEN {Delta(cursor)} ELSE SUBSET Delta(cursor) :
        passes' = [passes EXCEPT ![p].at = "apply",
                    ![p].end = IF complete THEN clock ELSE passes[p].saw.cursor,
                    ![p].todo = {<<e, calendar[e]>> : e \in part}]
  BY DEF Fetch
<1>3. part \subseteq Delta(cursor) /\ part \subseteq Events /\ (complete => part = Delta(cursor))
  BY <1>2 DEF Delta
<1> DEFINE n == IF complete THEN clock ELSE passes[p].saw.cursor
           t == {<<e, calendar[e]>> : e \in part}
           x == [passes[p] EXCEPT !.at = "apply", !.end = n, !.todo = t]
<1>4. n \in Cursors
  BY <1>1 DEF Pass, Saw
<1>5. t \in SUBSET (Events \X Versions) /\ \A item \in t : item[1] \in Events /\ item[2] = calendar[item[1]]
  BY <1>1, <1>3
<1>6. complete => \A e \in Delta(cursor) : <<e, calendar[e]>> \in t
  BY <1>3
<1>7. passes' = [passes EXCEPT ![p] = x]
  BY <1>1, <1>2 DEF Pass
<1> HIDE DEF t
<1>8. x \in Pass /\ x.at = "apply" /\ x.saw = passes[p].saw /\ x.todo = t
      /\ x.found = passes[p].found /\ x.end = n
  BY <1>1, <1>4, <1>5 DEF Pass
<1> HIDE DEF x
<1>9. passes' \in [Passes -> Pass] /\ Rest(p) /\ passes'[p] = x /\ Busy' = Busy
  BY <1>1, <1>7, <1>8, Effect
<1> QED BY <1>1, <1>5, <1>6, <1>8, <1>9

LEMMA ApplyEffect ==
  ASSUME Shape, NEW p \in Passes, NEW item \in passes[p].todo, Apply(p, item)
  PROVE  /\ passes' \in [Passes -> Pass] /\ Rest(p) /\ Busy' = Busy
         /\ passes[p].at = "apply" /\ passes'[p].at = "apply"
         /\ passes'[p].saw = passes[p].saw /\ passes'[p].found = passes[p].found
         /\ passes'[p].end = passes[p].end /\ passes'[p].todo = passes[p].todo \ {item}
         /\ item[1] \in Events /\ item[2] \in Versions /\ item = <<item[1], item[2]>>
         /\ mirror' \in [Events -> Versions]
         /\ \A e \in Events : mirror'[e] = IF e = item[1] THEN item[2] ELSE mirror[e]
<1> DEFINE t == passes[p].todo \ {item}
           x == [passes[p] EXCEPT !.todo = t]
<1>1. passes[p] \in Pass /\ passes \in [Passes -> Pass] /\ passes[p].at = "apply"
      /\ mirror \in [Events -> Versions]
  BY DEF Shape, Typed, Apply, At
<1>2. item \in Events \X Versions /\ t \in SUBSET (Events \X Versions)
  BY <1>1 DEF Pass
<1>3. passes' = [passes EXCEPT ![p] = x]
  BY <1>1 DEF Apply
<1> HIDE DEF t
<1>4. x \in Pass /\ x.at = "apply" /\ x.saw = passes[p].saw /\ x.todo = t
      /\ x.found = passes[p].found /\ x.end = passes[p].end
  BY <1>1, <1>2 DEF Pass
<1> HIDE DEF x
<1>5. passes' \in [Passes -> Pass] /\ Rest(p) /\ passes'[p] = x /\ Busy' = Busy
  BY <1>1, <1>3, <1>4, Effect
<1>6. mirror' = [mirror EXCEPT ![item[1]] = item[2]]
  BY DEF Apply
<1>7. item[1] \in Events /\ item[2] \in Versions /\ item = <<item[1], item[2]>>
  BY <1>2
<1>8. mirror' \in [Events -> Versions]
      /\ \A e \in Events : mirror'[e] = IF e = item[1] THEN item[2] ELSE mirror[e]
  BY <1>1, <1>6, <1>7
<1> QED BY <1>1, <1>4, <1>5, <1>7, <1>8 DEF t

LEMMA SaveEffect ==
  ASSUME Shape, NEW p \in Passes, SaveCursor(p)
  PROVE  /\ passes' \in [Passes -> Pass] /\ Rest(p) /\ passes'[p] = Idle /\ Busy' = Busy \ {p}
         /\ passes[p].at = "apply" /\ passes[p].todo = {}
         /\ conn' \in Conn /\ conn'.id = conn.id /\ conn'.status = conn.status
         /\ conn'.refresh = conn.refresh
         /\ \/ conn' = conn
            \/ conn.id = passes[p].saw.id /\ passes[p].end # passes[p].saw.cursor
               /\ conn'.cursor = passes[p].end
<1>1. passes[p] \in Pass /\ passes[p].at = "apply" /\ passes[p].todo = {} /\ conn \in Conn
  BY DEF Shape, Typed, SaveCursor, At, AppliedAll
<1>2. passes' \in [Passes -> Pass] /\ Rest(p) /\ passes'[p] = Idle /\ Busy' = Busy \ {p}
  BY <1>1, StopEffect DEF SaveCursor
<1>3. \/ conn' = conn
      \/ conn' = [conn EXCEPT !.cursor = passes[p].end] /\ conn.id = passes[p].saw.id
         /\ passes[p].end # passes[p].saw.cursor
  BY DEF SaveCursor, Live
<1> QED BY <1>1, <1>2, <1>3 DEF Conn, Pass

LEMMA MarkEffect ==
  ASSUME Shape, NEW p \in Passes, MarkExpired(p)
  PROVE  /\ passes' \in [Passes -> Pass] /\ Rest(p) /\ passes'[p] = Idle /\ Busy' = Busy \ {p}
         /\ passes[p].at = "expire" /\ conn.id = passes[p].saw.id
         /\ conn' \in Conn /\ conn'.id = conn.id /\ conn'.status = "expired"
         /\ conn'.refresh = conn.refresh /\ conn'.cursor = conn.cursor
<1>1. passes[p] \in Pass /\ passes[p].at = "expire" /\ conn \in Conn /\ conn.id = passes[p].saw.id
  BY DEF Shape, Typed, MarkExpired, At, Live
<1>2. passes' \in [Passes -> Pass] /\ Rest(p) /\ passes'[p] = Idle /\ Busy' = Busy \ {p}
  BY <1>1, StopEffect DEF MarkExpired
<1>3. conn' = [conn EXCEPT !.status = "expired"]
  BY DEF MarkExpired
<1> QED BY <1>1, <1>2, <1>3 DEF Conn

LEMMA FailEffect ==
  ASSUME Shape, NEW p \in Passes, FailPass(p)
  PROVE  /\ passes' \in [Passes -> Pass] /\ Rest(p) /\ passes'[p] = Idle /\ Busy' = Busy \ {p}
         /\ passes[p].at # "idle"
<1>1. passes[p].at # "idle"
  BY DEF FailPass, At
<1> QED BY <1>1, StopEffect DEF FailPass

\* Everything a ghost record may become.
LEMMA GhostFields ==
  ASSUME ghosts \in Ghosts, NEW b \in BOOLEAN, NEW c \in BOOLEAN, NEW E \in SUBSET Events
  PROVE  /\ [ghosts EXCEPT !.crossed = b] \in Ghosts
         /\ [ghosts EXCEPT !.crossed = b].contested = ghosts.contested
         /\ [ghosts EXCEPT !.crossed = b].crossed = b
         /\ [ghosts EXCEPT !.crossed = b].orphans = ghosts.orphans
         /\ [ghosts EXCEPT !.crossed = b].forgotten = ghosts.forgotten
         /\ [ghosts EXCEPT !.contested = c] \in Ghosts
         /\ [ghosts EXCEPT !.contested = c].contested = c
         /\ [ghosts EXCEPT !.contested = c].crossed = ghosts.crossed
         /\ [ghosts EXCEPT !.contested = c].orphans = ghosts.orphans
         /\ [ghosts EXCEPT !.contested = c].forgotten = ghosts.forgotten
         /\ [ghosts EXCEPT !.orphans = E] \in Ghosts
         /\ [ghosts EXCEPT !.orphans = E].contested = ghosts.contested
         /\ [ghosts EXCEPT !.orphans = E].crossed = ghosts.crossed
         /\ [ghosts EXCEPT !.orphans = E].orphans = E
         /\ [ghosts EXCEPT !.orphans = E].forgotten = ghosts.forgotten
         /\ [ghosts EXCEPT !.forgotten = E] \in Ghosts
         /\ [ghosts EXCEPT !.forgotten = E].contested = ghosts.contested
         /\ [ghosts EXCEPT !.forgotten = E].crossed = ghosts.crossed
         /\ [ghosts EXCEPT !.forgotten = E].orphans = ghosts.orphans
         /\ [ghosts EXCEPT !.forgotten = E].forgotten = E
BY DEF Ghosts

----------------------------------------------------------------------------
(* What is kept by a step that leaves alone what a promise is about. *)

LEMMA SameConnector == ASSUME provider' = provider PROVE connector' = connector
BY DEF connector

LEMMA ContestFrame ==
  ASSUME Uncontested, tokens' = tokens, conn'.id = conn.id, conn'.refresh = conn.refresh,
         conn'.status = conn.status, ghosts.contested => ghosts'.contested,
         \A q \in Passes : \/ passes'[q] = passes[q]
                           \/ /\ passes'[q].at \notin {"refresh", "store", "expire"}
                              /\ passes[q].at = "store" => ghosts'.contested
  PROVE  Uncontested'
<1> SUFFICES ASSUME ~ghosts'.contested, conn'.id # 0
             PROVE  Uncontested'
  BY DEF Uncontested
<1>1. Storing' = Storing
  BY DEF Storing, At
<1>2. \A q \in Passes : passes'[q].at \in {"refresh", "store", "expire"} => passes'[q] = passes[q]
  OBVIOUS
<1>3. Expiring' => Expiring
  BY <1>2 DEF Expiring, At
<1>4. \A q \in Storing' : Current(q)'
  <2> SUFFICES ASSUME NEW q \in Storing' PROVE Current(q)'
    OBVIOUS
  <2>1. q \in Storing /\ q \in Passes /\ passes'[q] = passes[q]
    BY <1>1, <1>2 DEF Storing, At
  <2>2. Current(q)
    BY <2>1 DEF Uncontested
  <2> QED BY <2>1, <2>2 DEF Current
<1>5. \A q \in Passes : At(q, "refresh")' =>
         passes'[q].saw.refresh = conn.refresh \/ passes'[q].saw.refresh \notin tokens.good
  BY <1>2 DEF Uncontested, At
<1> QED BY <1>1, <1>3, <1>4, <1>5 DEF Uncontested

LEMMA CrossFrame ==
  ASSUME Uncrossed, CursorNeverAhead, conn'.id = conn.id, conn'.cursor = conn.cursor,
         UNCHANGED <<mirror, calendar, changed>>,
         ghosts.crossed => ghosts'.crossed, ghosts'.forgotten = ghosts.forgotten,
         Busy' \subseteq Busy,
         \A q \in Passes : /\ passes'[q].at = "apply" => passes'[q] = passes[q]
                           /\ passes'[q].at # "idle" => /\ passes'[q].saw.id = passes[q].saw.id
                                                        /\ passes'[q].saw.cursor = passes[q].saw.cursor
  PROVE  Uncrossed' /\ CursorNeverAhead'
<1>1. CursorNeverAhead'
  BY DEF CursorNeverAhead
<1>2. ASSUME ~ghosts'.crossed, conn'.id # 0
      PROVE  Alone' /\ \A p \in Passes : At(p, "apply")' => Fetched(passes[p])'
  <2>1. Alone /\ \A p \in Passes : At(p, "apply") => Fetched(passes[p])
    BY <1>2 DEF Uncrossed
  <2>2. Alone'
    BY <2>1 DEF Alone, Busy
  <2>3. ASSUME NEW p \in Passes, At(p, "apply")' PROVE Fetched(passes[p])'
    <3>1. passes'[p] = passes[p] /\ Fetched(passes[p])
      BY <2>1, <2>3 DEF At
    <3> QED BY <3>1 DEF Fetched, Mirrored
  <2> QED BY <2>2, <2>3
<1> QED BY <1>1, <1>2 DEF Uncrossed

LEMMA MirrorFrame ==
  ASSUME MirrorGoesWithConnection, mirror' = mirror, conn'.id = conn.id,
         ghosts'.orphans = ghosts.orphans
  PROVE  MirrorGoesWithConnection'
BY DEF MirrorGoesWithConnection

\* A step of one pass that leaves the provider's side alone.
LEMMA ShapeFrame ==
  ASSUME Shape, NEW p \in Passes, Rest(p), passes' \in [Passes -> Pass],
         UNCHANGED <<provider, mirror, calendar, changed, clock, states, tokens>>,
         conn' \in Conn, conn'.id = conn.id, conn'.status = "none" <=> conn.status = "none",
         conn'.refresh <= tokens.last, conn'.cursor <= clock,
         conn.id = 0 => conn'.cursor = conn.cursor,
         ghosts' \in Ghosts, PassKnown(passes'[p]),
         passes'[p].at # "idle" => passes'[p].saw.id # 0 /\ (p \in Syncs \/ connector.calendar),
         passes'[p].at \in {"fetch", "apply"} => connector.calendar
  PROVE  Shape'
<1>0. connector' = connector
  BY SameConnector
<1>1. Typed'
  BY DEF Shape, Typed
<1>2. Known'
  <2>1. ASSUME NEW q \in Passes PROVE PassKnown(passes[q])'
    <3>1. PassKnown(passes'[q])
      <4>1. CASE q = p
        BY <4>1
      <4>2. CASE q # p
        BY <4>2 DEF Rest, Shape, Known
      <4> QED BY <4>1, <4>2
    <3> QED BY <3>1 DEF PassKnown
  <2> QED BY <2>1 DEF Shape, Known
<1>3. Rows'
  <2>1. \A q \in Busy' : passes'[q].saw.id # 0 /\ (q \in Syncs \/ connector.calendar)
    BY DEF Shape, Rows, Rest, Busy
  <2>2. \A q \in Passes : passes'[q].at \in {"fetch", "apply"} => connector.calendar
    BY DEF Shape, Rows, Rest
  <2> QED BY <1>0, <2>1, <2>2 DEF Shape, Rows
<1> QED BY <1>1, <1>2, <1>3 DEF Shape

LEMMA IdleKnown == ASSUME Shape PROVE PassKnown(Idle)
BY IdleTyped, Numbers DEF Shape, Typed, Tokens, Grants, Times, PassKnown

LEMMA ShapeFacts ==
  ASSUME Shape
  PROVE  /\ conn \in Conn /\ tokens \in Tokens /\ ghosts \in Ghosts
         /\ passes \in [Passes -> Pass] /\ \A q \in Passes : passes[q] \in Pass
         /\ mirror \in [Events -> Versions] /\ calendar \in [Events -> Versions]
         /\ changed \in [Events -> Times] /\ clock \in Times /\ clock \in Nat
         /\ tokens.last \in Nat /\ conn.id \in Nat /\ conn.refresh \in Nat
         /\ conn.cursor \in Int
         /\ conn.refresh <= tokens.last /\ conn.cursor <= clock
         /\ \A e \in Events : changed[e] \in Nat /\ changed[e] <= clock
         /\ \A q \in Passes : /\ PassKnown(passes[q]) /\ passes[q].saw.refresh \in Nat
                              /\ passes[q].found \in Nat /\ passes[q].end \in Int
                              /\ passes[q].saw.cursor \in Int
<1>1. Typed /\ Known
  BY DEF Shape
<1>2. \A q \in Passes : passes[q] \in Pass
  BY <1>1 DEF Typed
<1>3. \A q \in Passes : passes[q].saw.refresh \in Nat /\ passes[q].found \in Nat
                        /\ passes[q].end \in Int /\ passes[q].saw.cursor \in Int
  BY <1>2, Numbers DEF Pass, Saw, Grants, Cursors
<1>4. \A e \in Events : changed[e] \in Nat /\ changed[e] <= clock
  BY <1>1, Numbers DEF Typed, Known, Times
<1>5. conn.id \in Nat /\ conn.refresh \in Nat /\ conn.cursor \in Int /\ tokens.last \in Nat /\ clock \in Nat
  BY <1>1, Numbers DEF Typed, Conn, Tokens, Grants, Cursors, Times
<1> QED BY <1>1, <1>2, <1>3, <1>4, <1>5 DEF Typed, Known

----------------------------------------------------------------------------
(* Each action keeps the invariant. *)

LEMMA AskRefreshKeeps ==
  ASSUME ConnInv, NEW p \in Passes, AskRefresh(p) PROVE ConnInv'
<1> USE DEF ConnInv
<1> DEFINE old == passes[p].saw.refresh
<1>1. /\ passes' \in [Passes -> Pass] /\ Rest(p) /\ Busy' = Busy
      /\ passes[p].at = "refresh"
      /\ passes'[p].at = "store" /\ passes'[p].saw = passes[p].saw
      /\ passes'[p].todo = passes[p].todo /\ passes'[p].end = passes[p].end
      /\ passes'[p].found = IF tokens.rotates THEN tokens.last + 1 ELSE old
      /\ tokens' \in Tokens /\ tokens'.rotates = tokens.rotates
      /\ (~tokens.rotates => tokens' = tokens)
      /\ (tokens.rotates => /\ tokens'.last = tokens.last + 1
                            /\ tokens'.good = (tokens.good \ {old}) \cup {tokens.last + 1})
  BY AskEffect
<1>2. UNCHANGED <<provider, conn, mirror, calendar, changed, clock, states, ghosts>>
      /\ connector' = connector /\ old \in tokens.good /\ p \in Busy
  BY <1>1, SameConnector DEF AskRefresh, Busy
<1>3. Typed'
  BY <1>1, <1>2 DEF Shape, Typed
<1>4. Known'
  <2>1. tokens.last <= tokens'.last /\ tokens.last \in Nat /\ tokens'.last \in Nat
    BY <1>1, ShapeFacts
  <2>2. \A g \in tokens'.good : 0 < g /\ g <= tokens'.last
    <3> SUFFICES ASSUME NEW g \in tokens'.good PROVE 0 < g /\ g <= tokens'.last
      OBVIOUS
    <3>1. CASE ~tokens.rotates
      BY <1>1, <3>1 DEF Shape, Known
    <3>2. CASE tokens.rotates /\ g = tokens.last + 1
      BY <1>1, <2>1, <3>2
    <3>3. CASE tokens.rotates /\ g # tokens.last + 1
      <4>1. g \in tokens.good /\ g \in Grants
        BY <1>1, <3>3, ShapeFacts DEF Tokens
      <4>2. g \in Nat /\ 0 < g /\ g <= tokens.last
        BY <4>1 DEF Shape, Known, Grants
      <4> QED BY <1>1, <2>1, <3>3, <4>2
    <3> QED BY <3>1, <3>2, <3>3
  <2>3. \A q \in Passes : PassKnown(passes[q])'
    <3> SUFFICES ASSUME NEW q \in Passes PROVE PassKnown(passes[q])'
      OBVIOUS
    <3>1. CASE q # p
      <4>1. passes'[q] = passes[q]
        BY <1>1, <3>1 DEF Rest
      <4> QED BY <1>2, <2>1, <4>1, ShapeFacts DEF PassKnown
    <3>2. CASE q = p
      <4>1. passes'[p].found <= tokens'.last
        BY <1>1, <2>1, ShapeFacts DEF PassKnown
      <4> QED BY <1>1, <1>2, <2>1, <3>2, <4>1, ShapeFacts DEF PassKnown
    <3> QED BY <3>1, <3>2
  <2>4. conn'.refresh <= tokens'.last
    BY <1>2, <2>1, ShapeFacts
  <2> QED BY <1>2, <2>2, <2>3, <2>4 DEF Shape, Known
<1>5. Rows'
  BY <1>1, <1>2 DEF Shape, Rows, Rest, Busy
<1>6. Uncrossed' /\ CursorNeverAhead'
  BY <1>1, <1>2, CrossFrame DEF Rest
<1>7. MirrorGoesWithConnection'
  BY <1>2, MirrorFrame
<1>8. Uncontested'
  <2> SUFFICES ASSUME ~ghosts'.contested, conn'.id # 0 PROVE Uncontested'
    BY DEF Uncontested
  <2>1. ~ghosts.contested /\ conn.id # 0
    BY <1>2
  <2>2. old = conn.refresh /\ conn.refresh \in tokens.good /\ ~Expiring
    BY <1>1, <1>2, <2>1 DEF Uncontested, At
  <2>3. tokens.rotates => Storing = {}
    BY <2>1, <2>2 DEF Uncontested, Current
  <2>4. Storing' = Storing \cup {p}
    BY <1>1 DEF Storing, At, Rest
  <2>5. ~Expiring'
    BY <1>1, <1>2, <2>2 DEF Expiring, At, Rest
  <2>6. CASE tokens.rotates
    <3>1. Storing' = {p}
      BY <2>3, <2>4, <2>6
    <3>2. conn.refresh \notin tokens'.good
      BY <1>1, <2>2, <2>6, ShapeFacts
    <3>3. Current(p)'
      BY <1>1, <1>2, <2>2, <2>6, <3>2 DEF Current
    <3>4. ASSUME NEW q \in Passes, At(q, "refresh")'
          PROVE passes'[q].saw.refresh = conn.refresh \/ passes'[q].saw.refresh \notin tokens'.good
      <4>1. q # p /\ passes'[q] = passes[q] /\ At(q, "refresh")
        BY <1>1, <3>4 DEF At, Rest
      <4>2. passes[q].saw.refresh <= tokens.last /\ passes[q].saw.refresh \in Nat
        BY ShapeFacts DEF PassKnown
      <4>3. passes[q].saw.refresh # tokens.last + 1
        BY <4>2, ShapeFacts
      <4> QED BY <1>1, <2>1, <2>6, <4>1, <4>3 DEF Uncontested
    <3> QED BY <1>1, <1>2, <2>5, <3>1, <3>3, <3>4 DEF Uncontested
  <2>7. CASE ~tokens.rotates
    <3>1. tokens' = tokens
      BY <1>1, <2>7
    <3>2. \A q \in Storing' : Current(q)'
      <4> SUFFICES ASSUME NEW q \in Storing' PROVE Current(q)'
        OBVIOUS
      <4>1. CASE q = p
        BY <1>1, <1>2, <2>2, <2>7, <3>1, <4>1 DEF Current
      <4>2. CASE q # p
        <5>1. q \in Storing /\ passes'[q] = passes[q]
          BY <1>1, <2>4, <4>2 DEF Storing, Rest
        <5>2. Current(q)
          BY <2>1, <5>1 DEF Uncontested
        <5> QED BY <1>2, <3>1, <5>1, <5>2 DEF Current
      <4> QED BY <4>1, <4>2
    <3>3. \A q \in Passes : At(q, "refresh")' =>
             passes'[q].saw.refresh = conn.refresh \/ passes'[q].saw.refresh \notin tokens.good
      BY <1>1, <2>1 DEF Uncontested, At, Rest
    <3>4. tokens.last \in tokens.good => conn.refresh = tokens.last
      BY <2>1, <2>7 DEF Uncontested
    <3> QED BY <1>2, <2>5, <2>7, <3>1, <3>2, <3>3, <3>4 DEF Uncontested
  <2> QED BY <2>6, <2>7
<1> QED BY <1>3, <1>4, <1>5, <1>6, <1>7, <1>8 DEF Shape

LEMMA RefreshFailsKeeps ==
  ASSUME ConnInv, NEW p \in Passes, RefreshFails(p) PROVE ConnInv'
<1> USE DEF ConnInv
<1> DEFINE old == passes[p].saw.refresh
           c == ghosts.contested \/ old \in tokens.good \/ conn.refresh # old
                \/ \E q \in Passes : At(q, "store")
<1>0. passes[p].at = "refresh" /\ p \in Busy /\ ghosts' = [ghosts EXCEPT !.contested = c]
      /\ passes' = Goto(p, "expire")
  BY DEF RefreshFails, At, Busy
<1>1. /\ passes' \in [Passes -> Pass] /\ Rest(p) /\ Busy' = Busy
      /\ passes'[p].at = "expire" /\ passes'[p].saw = passes[p].saw
      /\ passes'[p].todo = passes[p].todo
      /\ passes'[p].found = passes[p].found /\ passes'[p].end = passes[p].end
  BY <1>0, GotoEffect
<1>2. UNCHANGED <<provider, conn, mirror, calendar, changed, clock, states, tokens>>
  BY DEF RefreshFails
<1>3. ghosts' \in Ghosts /\ ghosts'.contested = c /\ ghosts'.crossed = ghosts.crossed
      /\ ghosts'.orphans = ghosts.orphans /\ ghosts'.forgotten = ghosts.forgotten
  <2>1. c \in BOOLEAN
    BY ShapeFacts DEF Ghosts
  <2> HIDE DEF c
  <2> QED BY <1>0, <2>1, ShapeFacts, GhostFields
<1>4. PassKnown(passes'[p])
  BY <1>1, ShapeFacts DEF PassKnown
<1>5. Shape'
  BY <1>0, <1>1, <1>2, <1>3, <1>4, ShapeFacts, ShapeFrame DEF Shape, Rows
<1>6. Uncrossed' /\ CursorNeverAhead'
  BY <1>1, <1>2, <1>3, CrossFrame DEF Rest
<1>7. MirrorGoesWithConnection'
  BY <1>2, <1>3, MirrorFrame
<1>8. Uncontested'
  <2> SUFFICES ASSUME ~ghosts'.contested, conn'.id # 0 PROVE Uncontested'
    BY DEF Uncontested
  <2>1. ~ghosts.contested /\ conn.id # 0 /\ conn.refresh \notin tokens.good /\ Storing = {}
    BY <1>2, <1>3 DEF Storing
  <2>2. Storing' = {}
    BY <1>1, <2>1 DEF Storing, At, Rest
  <2>3. tokens.last \notin tokens.good
    BY <2>1 DEF Uncontested
  <2>4. \A q \in Passes : At(q, "refresh")' => At(q, "refresh") /\ passes'[q] = passes[q]
    BY <1>1 DEF At, Rest
  <2> QED BY <1>2, <2>1, <2>2, <2>3, <2>4 DEF Uncontested
<1> QED BY <1>5, <1>6, <1>7, <1>8

LEMMA StoreTokensKeeps ==
  ASSUME ConnInv, NEW p \in Passes, StoreTokens(p) PROVE ConnInv'
<1> USE DEF ConnInv
<1> DEFINE c == ghosts.contested \/ conn.refresh # passes[p].saw.refresh
<1>1. /\ passes' \in [Passes -> Pass] /\ Rest(p) /\ Busy' = Busy
      /\ passes[p].at = "store" /\ conn.id = passes[p].saw.id
      /\ passes'[p].at = First(p) /\ passes'[p].saw.id = passes[p].saw.id
      /\ passes'[p].saw.cursor = passes[p].saw.cursor /\ passes'[p].saw.refresh = 0
      /\ passes'[p].todo = passes[p].todo /\ passes'[p].end = passes[p].end
      /\ passes'[p].found = 0
      /\ conn' \in Conn /\ conn'.id = conn.id /\ conn'.status = conn.status
      /\ conn'.refresh = passes[p].found /\ conn'.cursor = conn.cursor
  BY StoreEffect
<1>2. UNCHANGED <<provider, mirror, calendar, changed, clock, states, tokens>>
      /\ ghosts' = [ghosts EXCEPT !.contested = c] /\ p \in Busy
  BY <1>1 DEF StoreTokens, Busy
<1>3. ghosts' \in Ghosts /\ ghosts'.contested = c /\ ghosts'.crossed = ghosts.crossed
      /\ ghosts'.orphans = ghosts.orphans /\ ghosts'.forgotten = ghosts.forgotten
  <2>1. c \in BOOLEAN
    BY ShapeFacts DEF Ghosts
  <2> HIDE DEF c
  <2> QED BY <1>2, <2>1, ShapeFacts, GhostFields
<1>4. PassKnown(passes'[p]) /\ conn'.refresh <= tokens.last
  BY <1>1, ShapeFacts DEF PassKnown
<1>9. First(p) \in {"sync", "fetch"} /\ (First(p) = "fetch" => p \notin Syncs)
  BY DEF First
<1>5. Shape'
  <2>1. passes'[p].saw.id # 0 /\ (p \in Syncs \/ connector.calendar)
    BY <1>1, <1>2 DEF Shape, Rows
  <2>2. passes'[p].at \in {"fetch", "apply"} => connector.calendar
    BY <1>1, <1>9, <2>1
  <2> QED BY <1>1, <1>2, <1>3, <1>4, <2>1, <2>2, ShapeFacts, ShapeFrame
<1>6. Uncrossed' /\ CursorNeverAhead'
  BY <1>1, <1>2, <1>3, <1>9, CrossFrame DEF Rest
<1>7. MirrorGoesWithConnection'
  BY <1>1, <1>2, <1>3, MirrorFrame
<1>8. Uncontested'
  <2> SUFFICES ASSUME ~ghosts'.contested, conn'.id # 0 PROVE Uncontested'
    BY DEF Uncontested
  <2>1. ~ghosts.contested /\ conn.id # 0 /\ p \in Storing
    BY <1>1, <1>3 DEF Storing, At
  <2>2. Current(p)
    BY <2>1 DEF Uncontested
  <2>3. Storing' = Storing \ {p}
    BY <1>1, <1>9 DEF Storing, At, Rest
  <2>4. Expiring' => Expiring
    BY <1>1, <1>9 DEF Expiring, At, Rest
  <2>5. \A q \in Passes : At(q, "refresh")' => At(q, "refresh") /\ passes'[q] = passes[q]
    BY <1>1, <1>9 DEF At, Rest
  <2>6. CASE tokens.rotates
    <3>1. Storing' = {} /\ conn'.refresh = tokens.last /\ conn.refresh \notin tokens.good
      BY <1>1, <2>1, <2>2, <2>3, <2>6 DEF Uncontested, Current
    <3>2. \A q \in Passes : At(q, "refresh")' => passes'[q].saw.refresh \notin tokens.good
      BY <2>1, <2>5, <3>1 DEF Uncontested
    <3>3. Expiring' => tokens.last \notin tokens.good
      BY <2>1, <2>4 DEF Uncontested
    <3> QED BY <1>2, <3>1, <3>2, <3>3 DEF Uncontested
  <2>7. CASE ~tokens.rotates
    <3>1. conn'.refresh = conn.refresh
      BY <1>1, <2>2, <2>7 DEF Current
    <3>2. \A q \in Storing' : Current(q)'
      <4> SUFFICES ASSUME NEW q \in Storing' PROVE Current(q)'
        OBVIOUS
      <4>1. q \in Storing /\ passes'[q] = passes[q] /\ Current(q)
        BY <1>1, <2>1, <2>3 DEF Storing, Rest, Uncontested
      <4> QED BY <1>2, <2>7, <3>1, <4>1 DEF Current
    <3>3. \A q \in Passes : At(q, "refresh")' =>
             passes'[q].saw.refresh = conn'.refresh \/ passes'[q].saw.refresh \notin tokens'.good
      BY <1>2, <2>1, <2>5, <3>1 DEF Uncontested
    <3>4. tokens.last \in tokens.good => conn.refresh = tokens.last
      BY <2>1, <2>7 DEF Uncontested
    <3>5. Expiring' => conn.refresh \notin tokens.good /\ tokens.last \notin tokens.good
      BY <2>1, <2>4 DEF Uncontested
    <3> QED BY <1>2, <2>7, <3>1, <3>2, <3>3, <3>4, <3>5 DEF Uncontested
  <2> QED BY <2>6, <2>7
<1> QED BY <1>5, <1>6, <1>7, <1>8

LEMMA MarkExpiredKeeps ==
  ASSUME ConnInv, NEW p \in Passes, MarkExpired(p) PROVE ConnInv'
<1> USE DEF ConnInv
<1> DEFINE c == ghosts.contested \/ conn.refresh # passes[p].saw.refresh
<1>1. /\ passes' \in [Passes -> Pass] /\ Rest(p) /\ passes'[p] = Idle /\ Busy' = Busy \ {p}
      /\ passes[p].at = "expire" /\ conn.id = passes[p].saw.id
      /\ conn' \in Conn /\ conn'.id = conn.id /\ conn'.status = "expired"
      /\ conn'.refresh = conn.refresh /\ conn'.cursor = conn.cursor
  BY MarkEffect
<1>2. UNCHANGED <<provider, mirror, calendar, changed, clock, states, tokens>>
      /\ ghosts' = [ghosts EXCEPT !.contested = c] /\ p \in Busy
  BY <1>1 DEF MarkExpired, Busy
<1>3. ghosts' \in Ghosts /\ ghosts'.contested = c /\ ghosts'.crossed = ghosts.crossed
      /\ ghosts'.orphans = ghosts.orphans /\ ghosts'.forgotten = ghosts.forgotten
  <2>1. c \in BOOLEAN
    BY ShapeFacts DEF Ghosts
  <2> HIDE DEF c
  <2> QED BY <1>2, <2>1, ShapeFacts, GhostFields
<1>4. conn.id # 0 /\ conn.status # "none"
  BY <1>1, <1>2 DEF Shape, Rows
<1>5. Shape'
  BY <1>1, <1>2, <1>3, <1>4, IdleTyped, IdleKnown, ShapeFacts, ShapeFrame
<1>6. Uncrossed' /\ CursorNeverAhead'
  BY <1>1, <1>2, <1>3, IdleTyped, CrossFrame DEF Rest
<1>7. MirrorGoesWithConnection'
  BY <1>1, <1>2, <1>3, MirrorFrame
<1>8. Uncontested'
  <2> SUFFICES ASSUME ~ghosts'.contested, conn'.id # 0 PROVE Uncontested'
    BY DEF Uncontested
  <2>1. ~ghosts.contested /\ conn.id # 0 /\ Expiring
    BY <1>1, <1>3 DEF Expiring, At
  <2>2. conn.refresh \notin tokens.good /\ tokens.last \notin tokens.good
    BY <2>1 DEF Uncontested
  <2>3. Storing' = Storing
    BY <1>1, IdleTyped DEF Storing, At, Rest
  <2>4. \A q \in Storing' : Current(q)'
    <3> SUFFICES ASSUME NEW q \in Storing' PROVE Current(q)'
      OBVIOUS
    <3>1. q # p
      BY <1>1, IdleTyped DEF Storing, At
    <3>2. q \in Storing /\ passes'[q] = passes[q] /\ Current(q)
      BY <1>1, <2>1, <2>3, <3>1 DEF Storing, Rest, Uncontested
    <3> QED BY <1>1, <1>2, <3>2 DEF Current
  <2>5. \A q \in Passes : At(q, "refresh")' => At(q, "refresh") /\ passes'[q] = passes[q]
    BY <1>1, IdleTyped DEF At, Rest
  <2> QED BY <1>1, <1>2, <2>1, <2>2, <2>3, <2>4, <2>5 DEF Uncontested
<1> QED BY <1>5, <1>6, <1>7, <1>8

LEMMA FailPassKeeps ==
  ASSUME ConnInv, NEW p \in Passes, FailPass(p) PROVE ConnInv'
<1> USE DEF ConnInv
<1> DEFINE c == ghosts.contested \/ At(p, "store")
<1>1. /\ passes' \in [Passes -> Pass] /\ Rest(p) /\ passes'[p] = Idle /\ Busy' = Busy \ {p}
      /\ passes[p].at # "idle"
  BY FailEffect
<1>2. UNCHANGED <<provider, conn, mirror, calendar, changed, clock, states, tokens>>
      /\ ghosts' = [ghosts EXCEPT !.contested = c]
  BY DEF FailPass
<1>3. ghosts' \in Ghosts /\ ghosts'.contested = c /\ ghosts'.crossed = ghosts.crossed
      /\ ghosts'.orphans = ghosts.orphans /\ ghosts'.forgotten = ghosts.forgotten
  <2>1. c \in BOOLEAN
    BY ShapeFacts DEF Ghosts, At
  <2> HIDE DEF c
  <2> QED BY <1>2, <2>1, ShapeFacts, GhostFields
<1>5. Shape'
  BY <1>1, <1>2, <1>3, IdleTyped, IdleKnown, ShapeFacts, ShapeFrame
<1>6. Uncrossed' /\ CursorNeverAhead'
  BY <1>1, <1>2, <1>3, IdleTyped, CrossFrame DEF Rest
<1>7. MirrorGoesWithConnection'
  BY <1>2, <1>3, MirrorFrame
<1>8. Uncontested'
  <2>1. \A q \in Passes : \/ passes'[q] = passes[q]
                          \/ /\ passes'[q].at \notin {"refresh", "store", "expire"}
                             /\ passes[q].at = "store" => ghosts'.contested
    BY <1>1, <1>3, IdleTyped DEF Rest, At
  <2> QED BY <1>2, <1>3, <2>1, ContestFrame
<1> QED BY <1>5, <1>6, <1>7, <1>8

LEMMA AskFilesKeeps ==
  ASSUME ConnInv, NEW p \in Passes, NEW refused \in BOOLEAN, NEW targets \in BOOLEAN,
         AskFiles(p, refused, targets)
  PROVE  ConnInv'
<1> USE DEF ConnInv
<1>1. /\ passes' \in [Passes -> Pass] /\ Rest(p) /\ passes[p].at = "sync"
      /\ \/ /\ Busy' = Busy /\ passes'[p].at = "fetch" /\ passes'[p].saw = passes[p].saw
            /\ passes'[p].todo = passes[p].todo /\ passes'[p].end = passes[p].end
            /\ passes'[p].found = passes[p].found /\ connector.calendar
         \/ Busy' = Busy \ {p} /\ passes'[p] = Idle
  BY FilesEffect
<1>2. UNCHANGED <<provider, conn, mirror, calendar, changed, clock, states, tokens, ghosts>>
      /\ p \in Busy
  BY <1>1 DEF AskFiles, Busy
<1>4. PassKnown(passes'[p]) /\ passes'[p].at \in {"fetch", "idle"}
  BY <1>1, IdleTyped, IdleKnown, ShapeFacts DEF PassKnown
<1>3. passes'[p].at # "idle" => passes'[p].saw = passes[p].saw /\ connector.calendar
  BY <1>1, IdleTyped
<1>5. Shape'
  BY <1>1, <1>2, <1>3, <1>4, ShapeFacts, ShapeFrame DEF Shape, Rows
<1>6. Uncrossed' /\ CursorNeverAhead'
  BY <1>1, <1>2, <1>3, <1>4, CrossFrame DEF Rest
<1>7. MirrorGoesWithConnection'
  BY <1>2, MirrorFrame
<1>8. Uncontested'
  BY <1>1, <1>2, <1>4, ContestFrame DEF Rest
<1> QED BY <1>5, <1>6, <1>7, <1>8

LEMMA StartPassKeeps ==
  ASSUME ConnInv, NEW p \in Passes, StartPass(p) PROVE ConnInv'
<1> USE DEF ConnInv
<1> DEFINE b == ghosts.crossed \/ Busy # {}
<1>1. /\ passes' \in [Passes -> Pass] /\ Rest(p) /\ Busy' = Busy \cup {p}
      /\ passes[p].at = "idle"
      /\ passes'[p].at \in {"refresh", First(p)}
      /\ (passes'[p].at = "refresh" => passes'[p].saw.refresh = conn.refresh)
      /\ passes'[p].saw.refresh \in {0, conn.refresh}
      /\ passes'[p].saw.id = conn.id /\ passes'[p].saw.cursor = conn.cursor
      /\ passes'[p].todo = {} /\ passes'[p].found = 0 /\ passes'[p].end = -1
  BY StartEffect
<1>2. UNCHANGED <<provider, conn, mirror, calendar, changed, clock, states, tokens>>
      /\ ghosts' = [ghosts EXCEPT !.crossed = b] /\ conn.status = "connected"
      /\ (p \in Sweeps => connector.calendar)
  BY DEF StartPass
<1>3. ghosts' \in Ghosts /\ ghosts'.contested = ghosts.contested /\ ghosts'.crossed = b
      /\ ghosts'.orphans = ghosts.orphans /\ ghosts'.forgotten = ghosts.forgotten
  <2>1. b \in BOOLEAN
    BY ShapeFacts DEF Ghosts
  <2> HIDE DEF b
  <2> QED BY <1>2, <2>1, ShapeFacts, GhostFields
<1>4. PassKnown(passes'[p])
  BY <1>1, ShapeFacts DEF PassKnown
<1>9. First(p) \in {"sync", "fetch"} /\ (First(p) = "fetch" => p \notin Syncs)
      /\ (p \in Syncs \/ connector.calendar) /\ conn.id # 0
  BY <1>2 DEF First, Passes, Shape, Rows
<1>5. Shape'
  BY <1>1, <1>2, <1>3, <1>4, <1>9, ShapeFacts, ShapeFrame
<1>6. Uncrossed'
  <2> SUFFICES ASSUME ~ghosts'.crossed PROVE Alone' /\ \A q \in Passes : At(q, "apply")' => Fetched(passes[q])'
    BY DEF Uncrossed
  <2>1. Busy = {} /\ Busy' = {p}
    BY <1>1, <1>3
  <2>2. Alone'
    BY <1>1, <1>2, <2>1 DEF Alone
  <2>3. \A q \in Passes : passes'[q].at # "apply"
    BY <1>1, <1>9, <2>1 DEF Busy
  <2> QED BY <2>2, <2>3 DEF At
<1>10. CursorNeverAhead'
  BY <1>2, <1>3 DEF CursorNeverAhead
<1>7. MirrorGoesWithConnection'
  BY <1>2, <1>3, MirrorFrame
<1>8. Uncontested'
  <2> SUFFICES ASSUME ~ghosts.contested, conn.id # 0 PROVE Uncontested'
    BY <1>2, <1>3 DEF Uncontested
  <2>1. Storing' = Storing
    BY <1>1, <1>9 DEF Storing, At, Rest
  <2>2. Expiring' => Expiring
    BY <1>1, <1>2, <1>9 DEF Expiring, At, Rest
  <2>3. \A q \in Storing' : Current(q)'
    <3> SUFFICES ASSUME NEW q \in Storing' PROVE Current(q)'
      OBVIOUS
    <3>1. q # p
      BY <1>1, <1>9 DEF Storing, At
    <3>2. q \in Storing /\ passes'[q] = passes[q] /\ Current(q)
      BY <1>1, <2>1, <3>1 DEF Storing, Rest, Uncontested
    <3> QED BY <1>2, <3>2 DEF Current
  <2>4. ASSUME NEW q \in Passes, At(q, "refresh")'
        PROVE passes'[q].saw.refresh = conn.refresh \/ passes'[q].saw.refresh \notin tokens.good
    <3>1. CASE q = p
      BY <1>1, <2>4, <3>1 DEF At
    <3>2. CASE q # p
      BY <1>1, <2>4, <3>2 DEF At, Rest, Uncontested
    <3> QED BY <3>1, <3>2
  <2> QED BY <1>2, <2>1, <2>2, <2>3, <2>4 DEF Uncontested
<1> QED BY <1>5, <1>6, <1>7, <1>8, <1>10

LEMMA FetchKeeps ==
  ASSUME ConnInv, NEW p \in Passes, NEW cursor \in {passes[p].saw.cursor, NoCursor},
         NEW complete \in BOOLEAN, Fetch(p, cursor, complete)
  PROVE  ConnInv'
<1> USE DEF ConnInv
<1> DEFINE gone == ghosts.forgotten \cup {e \in Events : calendar[e] = 0}
<1>0. cursor \in Cursors
  BY ShapeFacts, Numbers DEF Pass, Saw
<1>1. /\ passes' \in [Passes -> Pass] /\ Rest(p) /\ Busy' = Busy
      /\ passes[p].at = "fetch" /\ passes'[p].at = "apply"
      /\ passes'[p].saw = passes[p].saw /\ passes'[p].found = passes[p].found
      /\ passes'[p].end = IF complete THEN clock ELSE passes[p].saw.cursor
      /\ \A item \in passes'[p].todo : item[1] \in Events /\ item[2] = calendar[item[1]]
      /\ (complete => \A e \in Delta(cursor) : <<e, calendar[e]>> \in passes'[p].todo)
  BY <1>0, FetchEffect
<1>2. UNCHANGED <<provider, conn, mirror, calendar, changed, clock, states, tokens>> /\ p \in Busy
      /\ ghosts' = IF cursor = NoCursor THEN [ghosts EXCEPT !.forgotten = gone] ELSE ghosts
  BY <1>1 DEF Fetch, Busy
<1>3. /\ ghosts' \in Ghosts /\ ghosts'.contested = ghosts.contested
      /\ ghosts'.crossed = ghosts.crossed /\ ghosts'.orphans = ghosts.orphans
      /\ ghosts.forgotten \subseteq ghosts'.forgotten
      /\ (cursor = NoCursor => \A e \in Events \ ghosts'.forgotten : calendar[e] # 0)
  <2>1. gone \in SUBSET Events /\ ghosts.forgotten \subseteq gone
        /\ \A e \in Events \ gone : calendar[e] # 0
    BY ShapeFacts DEF Ghosts
  <2> HIDE DEF gone
  <2>2. CASE cursor = NoCursor
    <3>1. ghosts'.forgotten = gone
      BY <1>2, <2>1, <2>2, ShapeFacts, GhostFields
    <3> QED BY <1>2, <2>1, <2>2, <3>1, ShapeFacts, GhostFields
  <2>3. CASE cursor # NoCursor
    BY <1>2, <2>3, ShapeFacts
  <2> QED BY <2>2, <2>3
<1>4. PassKnown(passes'[p])
  BY <1>1, ShapeFacts DEF PassKnown
<1>5. Shape'
  BY <1>1, <1>2, <1>3, <1>4, ShapeFacts, ShapeFrame DEF Shape, Rows
<1>6. CursorNeverAhead'
  BY <1>2, <1>3 DEF CursorNeverAhead
<1>7. MirrorGoesWithConnection'
  BY <1>2, <1>3, MirrorFrame
<1>8. Uncontested'
  <2>1. \A q \in Passes : \/ passes'[q] = passes[q]
                          \/ /\ passes'[q].at \notin {"refresh", "store", "expire"}
                             /\ passes[q].at = "store" => ghosts'.contested
    BY <1>1 DEF Rest
  <2> QED BY <1>2, <1>3, <2>1, ContestFrame
<1>9. Uncrossed'
  <2> SUFFICES ASSUME ~ghosts'.crossed, conn'.id # 0
               PROVE Alone' /\ \A q \in Passes : At(q, "apply")' => Fetched(passes[q])'
    BY DEF Uncrossed
  <2>1. Alone
    BY <1>2, <1>3 DEF Uncrossed
  <2>2. \A q \in Busy' : passes'[q].saw = passes[q].saw
    BY <1>1 DEF Rest, Busy
  <2>3. Alone'
    BY <1>1, <1>2, <2>1, <2>2 DEF Alone
  <2>4. passes[p].saw.cursor = conn.cursor
    BY <1>2, <2>1 DEF Alone
  <2>5. ASSUME passes'[p].end # conn.cursor, NEW e \in Events \ ghosts'.forgotten
        PROVE Mirrored(e) \/ <<e, calendar[e]>> \in passes'[p].todo
    <3>1. complete
      BY <1>1, <2>4, <2>5
    <3>2. CASE cursor = NoCursor
      <4>1. e \in Delta(cursor)
        BY <1>3, <2>5, <3>2 DEF Delta
      <4> QED BY <1>1, <3>1, <4>1
    <3>3. CASE cursor # NoCursor /\ changed[e] > cursor
      <4>1. e \in Delta(cursor)
        BY <2>5, <3>3 DEF Delta
      <4> QED BY <1>1, <3>1, <4>1
    <3>4. CASE cursor # NoCursor /\ changed[e] <= cursor
      <4>1. cursor = conn.cursor
        BY <2>4, <3>4
      <4> QED BY <1>2, <1>3, <2>5, <3>4, <4>1 DEF CursorNeverAhead, Mirrored
    <3>5. cursor \in Int /\ changed[e] \in Int
      BY <2>4, <2>5, ShapeFacts, Numbers
    <3> QED BY <3>2, <3>3, <3>4, <3>5
  <2>6. Fetched(passes[p])'
    BY <1>1, <1>2, <2>5 DEF Fetched, Mirrored
  <2>7. \A q \in Passes : At(q, "apply")' => q = p
    <3> SUFFICES ASSUME NEW q \in Passes, At(q, "apply")' PROVE q = p
      OBVIOUS
    <3>1. q \in Busy'
      BY DEF Busy, At
    <3> QED BY <1>1, <1>2, <2>1, <3>1 DEF Alone
  <2> QED BY <2>3, <2>6, <2>7
<1> QED BY <1>5, <1>6, <1>7, <1>8, <1>9

LEMMA ApplyKeeps ==
  ASSUME ConnInv, NEW p \in Passes, NEW item \in passes[p].todo, Apply(p, item)
  PROVE  ConnInv'
<1> USE DEF ConnInv
<1> DEFINE e == item[1]
           more == ghosts.orphans \cup {e}
<1>1. /\ passes' \in [Passes -> Pass] /\ Rest(p) /\ Busy' = Busy
      /\ passes[p].at = "apply" /\ passes'[p].at = "apply"
      /\ passes'[p].saw = passes[p].saw /\ passes'[p].found = passes[p].found
      /\ passes'[p].end = passes[p].end /\ passes'[p].todo = passes[p].todo \ {item}
      /\ e \in Events /\ item[2] \in Versions /\ item = <<e, item[2]>>
      /\ mirror' \in [Events -> Versions]
      /\ \A f \in Events : mirror'[f] = IF f = e THEN item[2] ELSE mirror[f]
  BY ApplyEffect
<1> DEFINE safe == Live(p) \/ item[2] = 0
<1>2. UNCHANGED <<provider, conn, calendar, changed, clock, states, tokens>> /\ p \in Busy
      /\ connector' = connector
  BY <1>1, SameConnector DEF Apply, Busy
<1>4. (safe => ghosts' = ghosts) /\ (~safe => ghosts' = [ghosts EXCEPT !.orphans = more])
  <2>1. ghosts' = IF safe THEN ghosts ELSE [ghosts EXCEPT !.orphans = more]
    BY DEF Apply
  <2> HIDE DEF safe
  <2> QED BY <2>1
<1>3. /\ ghosts' \in Ghosts /\ ghosts'.contested = ghosts.contested
      /\ ghosts'.crossed = ghosts.crossed /\ ghosts'.forgotten = ghosts.forgotten
      /\ ghosts.orphans \subseteq ghosts'.orphans
      /\ (Live(p) \/ item[2] = 0 \/ e \in ghosts'.orphans)
  <2>1. more \in SUBSET Events /\ ghosts.orphans \subseteq more /\ e \in more
    BY <1>1, ShapeFacts DEF Ghosts
  <2> HIDE DEF more
  <2>2. CASE safe
    BY <1>4, <2>2, ShapeFacts
  <2>3. CASE ~safe
    <3>1. ghosts' = [ghosts EXCEPT !.orphans = more]
      BY <1>4, <2>3
    <3> QED BY <2>1, <3>1, ShapeFacts, GhostFields
  <2> QED BY <2>2, <2>3
<1>5. Shape'
  <2>1. Typed'
    BY <1>1, <1>2, <1>3 DEF Shape, Typed
  <2>2. \A q \in Passes : PassKnown(passes[q])'
    BY <1>1, <1>2, ShapeFacts DEF Rest, PassKnown
  <2>3. Known'
    BY <1>2, <2>2 DEF Shape, Known
  <2>4. connector.calendar
    BY <1>1 DEF Shape, Rows
  <2>5. \A q \in Busy' : passes'[q].saw.id # 0
    BY <1>1 DEF Shape, Rows, Rest, Busy
  <2>6. Rows'
    BY <1>2, <2>4, <2>5 DEF Shape, Rows
  <2> QED BY <2>1, <2>3, <2>6 DEF Shape
<1>6. MirrorGoesWithConnection'
  <2> SUFFICES ASSUME conn.id = 0, NEW f \in Events, mirror'[f] # 0 PROVE f \in ghosts'.orphans
    BY <1>2 DEF MirrorGoesWithConnection
  <2>1. ~Live(p)
    BY <1>2 DEF Live, Shape, Rows
  <2> QED BY <1>1, <1>3, <2>1 DEF MirrorGoesWithConnection
<1>7. Uncontested'
  <2>1. \A q \in Passes : \/ passes'[q] = passes[q]
                          \/ /\ passes'[q].at \notin {"refresh", "store", "expire"}
                             /\ passes[q].at = "store" => ghosts'.contested
    BY <1>1 DEF Rest
  <2> QED BY <1>2, <1>3, <2>1, ContestFrame
<1>8. ASSUME ~ghosts.crossed, conn.id # 0
      PROVE  Alone /\ Fetched(passes[p])
  BY <1>1, <1>8 DEF Uncrossed, At
<1>9. CursorNeverAhead'
  <2> SUFFICES ASSUME ~ghosts.crossed, conn.cursor # NoCursor, NEW f \in Events \ ghosts.forgotten,
                      changed[f] <= conn.cursor
               PROVE  mirror'[f] = calendar[f]
    BY <1>2, <1>3 DEF CursorNeverAhead
  <2>1. CASE f # e
    BY <1>1, <2>1 DEF CursorNeverAhead
  <2>2. CASE f = e
    <3>1. Fetched(passes[p])
      BY <1>8 DEF Shape, Rows
    <3>2. ~(changed[f] > conn.cursor)
      BY ShapeFacts
    <3>3. item[2] = calendar[e]
      BY <2>2, <3>1, <3>2 DEF Fetched
    <3> QED BY <1>1, <2>2, <3>3
  <2> QED BY <2>1, <2>2
<1>10. Uncrossed'
  <2> SUFFICES ASSUME ~ghosts'.crossed, conn'.id # 0
               PROVE Alone' /\ \A q \in Passes : At(q, "apply")' => Fetched(passes[q])'
    BY DEF Uncrossed
  <2>1. Alone /\ Fetched(passes[p])
    BY <1>2, <1>3, <1>8
  <2>2. Alone'
    BY <1>1, <1>2, <2>1 DEF Alone, Rest
  <2>3. ASSUME passes[p].end # conn.cursor, NEW f \in Events \ ghosts.forgotten,
               changed[f] <= passes[p].end
        PROVE  mirror'[f] = calendar[f] \/ <<f, calendar[f]>> \in passes'[p].todo
    <3>1. mirror[f] = calendar[f] \/ <<f, calendar[f]>> \in passes[p].todo
      BY <2>1, <2>3 DEF Fetched, Mirrored
    <3>2. CASE f # e
      <4>1. <<f, calendar[f]>> # item
        BY <1>1, <3>2
      <4> QED BY <1>1, <2>3, <3>1, <3>2, <4>1
    <3>3. CASE f = e
      <4>1. ~(changed[f] > passes[p].end)
        BY <2>3, ShapeFacts
      <4>2. item[2] = calendar[f]
        BY <2>1, <3>3, <4>1 DEF Fetched
      <4> QED BY <1>1, <3>3, <4>2
    <3> QED BY <3>2, <3>3
  <2>4. \A i \in passes'[p].todo : \/ i[2] = calendar[i[1]]
                                   \/ changed[i[1]] > passes[p].end /\ changed[i[1]] > conn.cursor
    BY <1>1, <2>1 DEF Fetched
  <2>6. Fetched(passes[p])'
    BY <1>1, <1>2, <1>3, <2>3, <2>4 DEF Fetched, Mirrored
  <2>7. \A q \in Passes : At(q, "apply")' => q = p
    <3> SUFFICES ASSUME NEW q \in Passes, At(q, "apply")' PROVE q = p
      OBVIOUS
    <3>1. q \in Busy'
      BY DEF Busy, At
    <3> QED BY <1>1, <1>2, <2>1, <3>1 DEF Alone
  <2> QED BY <2>2, <2>6, <2>7
<1> QED BY <1>5, <1>6, <1>7, <1>9, <1>10

LEMMA SaveCursorKeeps ==
  ASSUME ConnInv, NEW p \in Passes, SaveCursor(p) PROVE ConnInv'
<1> USE DEF ConnInv
<1>1. /\ passes' \in [Passes -> Pass] /\ Rest(p) /\ passes'[p] = Idle /\ Busy' = Busy \ {p}
      /\ passes[p].at = "apply" /\ passes[p].todo = {}
      /\ conn' \in Conn /\ conn'.id = conn.id /\ conn'.status = conn.status
      /\ conn'.refresh = conn.refresh
      /\ \/ conn' = conn
         \/ conn.id = passes[p].saw.id /\ passes[p].end # passes[p].saw.cursor
            /\ conn'.cursor = passes[p].end
  BY SaveEffect
<1>2. UNCHANGED <<provider, mirror, calendar, changed, clock, states, tokens, ghosts>> /\ p \in Busy
  BY <1>1 DEF SaveCursor, Busy
<1>3. conn'.cursor <= clock /\ (conn.id = 0 => conn' = conn)
  BY <1>1, <1>2, ShapeFacts DEF PassKnown, Shape, Rows
<1>5. Shape'
  BY <1>1, <1>2, <1>3, IdleTyped, IdleKnown, ShapeFacts, ShapeFrame
<1>6. MirrorGoesWithConnection'
  BY <1>1, <1>2, MirrorFrame
<1>7. Uncontested'
  <2>1. \A q \in Passes : \/ passes'[q] = passes[q]
                          \/ /\ passes'[q].at \notin {"refresh", "store", "expire"}
                             /\ passes[q].at = "store" => ghosts'.contested
    BY <1>1, IdleTyped DEF Rest
  <2> QED BY <1>1, <1>2, <2>1, ContestFrame
<1>8. Uncrossed'
  <2> SUFFICES ASSUME ~ghosts.crossed, conn.id # 0
               PROVE Alone' /\ \A q \in Passes : ~At(q, "apply")'
    BY <1>1, <1>2 DEF Uncrossed
  <2>1. Alone
    BY DEF Uncrossed
  <2>2. Busy' = {}
    BY <1>1, <1>2, <2>1 DEF Alone
  <2> QED BY <2>2 DEF Alone, Busy, At
<1>9. CursorNeverAhead'
  <2>1. CASE conn' = conn
    BY <1>2, <2>1 DEF CursorNeverAhead
  <2>2. CASE conn.id = passes[p].saw.id /\ passes[p].end # passes[p].saw.cursor
             /\ conn'.cursor = passes[p].end
    <3> SUFFICES ASSUME ~ghosts.crossed, NEW e \in Events \ ghosts.forgotten,
                        changed[e] <= passes[p].end
                 PROVE  mirror[e] = calendar[e]
      BY <1>2, <2>2 DEF CursorNeverAhead
    <3>1. conn.id # 0
      BY <1>2, <2>2 DEF Shape, Rows
    <3>2. Alone /\ Fetched(passes[p])
      BY <1>1, <3>1 DEF Uncrossed, At
    <3>3. passes[p].end # conn.cursor
      BY <1>2, <2>2, <3>2 DEF Alone
    <3> QED BY <1>1, <3>2, <3>3 DEF Fetched, Mirrored
  <2> QED BY <1>1, <2>1, <2>2
<1> QED BY <1>5, <1>6, <1>7, <1>8, <1>9

\* A step of nobody that concerns the row, the mirror or a pass: Authorize, StateLost, and none.
LEMMA StatesKeep ==
  ASSUME ConnInv, states' \subseteq BOOLEAN,
         UNCHANGED <<provider, conn, mirror, calendar, changed, clock, tokens, passes, ghosts>>
  PROVE  ConnInv'
<1> USE DEF ConnInv
<1>1. connector' = connector /\ Busy' = Busy
  BY SameConnector DEF Busy
<1>2. Shape'
  BY <1>1 DEF Shape, Typed, Known, PassKnown, Rows
<1>3. Uncrossed' /\ CursorNeverAhead'
  BY <1>1, CrossFrame
<1>4. Uncontested'
  BY ContestFrame
<1>5. MirrorGoesWithConnection'
  BY MirrorFrame
<1> QED BY <1>2, <1>3, <1>4, <1>5

LEMMA AccessExpiresKeeps == ASSUME ConnInv, AccessExpires PROVE ConnInv'
<1> USE DEF ConnInv
<1>1. conn' \in Conn /\ conn'.id = conn.id /\ conn'.status = conn.status
      /\ conn'.refresh = conn.refresh /\ conn'.cursor = conn.cursor
  <2>1. conn' = [conn EXCEPT !.expired = TRUE]
    BY DEF AccessExpires
  <2> QED BY <2>1, ShapeFacts DEF Conn
<1>2. UNCHANGED <<provider, mirror, calendar, changed, clock, states, tokens, passes, ghosts>>
      /\ connector' = connector /\ Busy' = Busy
  BY SameConnector DEF AccessExpires, Busy
<1>3. Shape'
  BY <1>1, <1>2 DEF Shape, Typed, Known, PassKnown, Rows
<1>4. Uncrossed' /\ CursorNeverAhead'
  BY <1>1, <1>2, CrossFrame
<1>5. Uncontested'
  BY <1>1, <1>2, ContestFrame
<1>6. MirrorGoesWithConnection'
  BY <1>1, <1>2, MirrorFrame
<1> QED BY <1>3, <1>4, <1>5, <1>6

LEMMA DisconnectKeeps == ASSUME ConnInv, Disconnect PROVE ConnInv'
<1> USE DEF ConnInv
<1>1. conn' = NoConn /\ ghosts' = NoGhosts /\ mirror' = Cleared
      /\ UNCHANGED <<provider, calendar, changed, clock, states, tokens, passes>>
      /\ connector' = connector /\ Busy' = Busy
  BY SameConnector DEF Disconnect, Busy
<1>2. conn' \in Conn /\ conn'.id = 0 /\ conn'.status = "none" /\ conn'.refresh = 0
      /\ conn'.cursor = NoCursor /\ ghosts' \in Ghosts
  BY <1>1, IdleTyped DEF NoConn
<1>3. mirror' \in [Events -> Versions] /\ \A e \in Events : mirror'[e] = 0
  <2>1. CASE connector.calendar
    BY <1>1, <2>1, Numbers DEF Cleared
  <2>2. CASE ~connector.calendar
    <3>1. \A e \in Events : mirror[e] = 0
      BY <2>2 DEF Shape, Rows
    <3> QED BY <1>1, <2>2, <3>1, Numbers DEF Cleared
  <2> QED BY <2>1, <2>2
<1>4. Shape'
  <2>1. Typed'
    BY <1>1, <1>2, <1>3 DEF Shape, Typed
  <2>2. Known'
    BY <1>1, <1>2, ShapeFacts, Numbers DEF Shape, Known, PassKnown
  <2>3. Rows'
    BY <1>1, <1>2, <1>3 DEF Shape, Rows
  <2> QED BY <2>1, <2>2, <2>3 DEF Shape
<1>5. Uncrossed' /\ CursorNeverAhead' /\ Uncontested' /\ MirrorGoesWithConnection'
  BY <1>2, <1>3 DEF Uncrossed, CursorNeverAhead, Uncontested, MirrorGoesWithConnection
<1> QED BY <1>4, <1>5

LEMMA OAuthCallbackKeeps ==
  ASSUME ConnInv, NEW offline \in BOOLEAN, OAuthCallback(offline) PROVE ConnInv'
<1> USE DEF ConnInv
<1> DEFINE t == tokens.last + 1
           b == Busy # {}
           c == Refreshing # {}
           i == IF conn.id = 0 THEN t ELSE conn.id
           r == IF offline THEN t ELSE 0
           g == IF offline THEN tokens.good \cup {t} ELSE tokens.good
<1>0. tokens \in Tokens /\ conn \in Conn /\ tokens.last \in Nat /\ t \in Grants /\ t \in Nat /\ t # 0
  BY ShapeFacts, Numbers DEF OAuthCallback, Grants
<1>1. tokens' \in Tokens /\ tokens'.last = t /\ tokens'.good = g /\ tokens'.rotates = tokens.rotates
  <2>1. tokens' = [tokens EXCEPT !.last = t, !.good = g]
    BY <1>0 DEF OAuthCallback, Tokens
  <2>2. g \in SUBSET Grants
    BY <1>0 DEF Tokens
  <2> HIDE DEF g, t
  <2> QED BY <1>0, <2>1, <2>2 DEF Tokens
<1>2. conn' \in Conn /\ conn'.id = i /\ i # 0 /\ conn'.status = "connected" /\ conn'.refresh = r
      /\ conn'.cursor = NoCursor
  <2>1. conn' = [id |-> i, status |-> "connected", refresh |-> r, expired |-> FALSE,
                 cursor |-> NoCursor]
    BY DEF OAuthCallback
  <2>2. i \in Grants /\ i # 0 /\ r \in Grants
    BY <1>0, Numbers DEF Conn
  <2> HIDE DEF i, r
  <2> QED BY <2>1, <2>2, Numbers DEF Conn
<1>3. ghosts' \in Ghosts /\ ghosts'.contested = c /\ ghosts'.crossed = b
      /\ ghosts'.orphans = ghosts.orphans /\ ghosts'.forgotten = ghosts.forgotten
  <2>1. ghosts' = [ghosts EXCEPT !.crossed = b, !.contested = c]
    BY DEF OAuthCallback
  <2>2. b \in BOOLEAN /\ c \in BOOLEAN /\ {} \in SUBSET Events /\ ghosts \in Ghosts
    BY ShapeFacts
  <2> HIDE DEF b, c
  <2>3. [ghosts EXCEPT !.crossed = b, !.contested = c] \in Ghosts
        /\ [ghosts EXCEPT !.crossed = b, !.contested = c].crossed = b
        /\ [ghosts EXCEPT !.crossed = b, !.contested = c].contested = c
        /\ [ghosts EXCEPT !.crossed = b, !.contested = c].orphans = ghosts.orphans
        /\ [ghosts EXCEPT !.crossed = b, !.contested = c].forgotten = ghosts.forgotten
    BY <2>2 DEF Ghosts
  <2> QED BY <2>1, <2>3
<1>4. UNCHANGED <<provider, mirror, calendar, changed, clock, passes>> /\ states' = {}
      /\ connector' = connector /\ Busy' = Busy
  BY SameConnector DEF OAuthCallback, Busy
<1>5. Shape'
  <2>1. Typed'
    BY <1>1, <1>2, <1>3, <1>4 DEF Shape, Typed
  <2>2. \A x \in tokens'.good : 0 < x /\ x <= tokens'.last
    <3> SUFFICES ASSUME NEW x \in tokens'.good PROVE 0 < x /\ x <= t
      BY <1>1
    <3>1. CASE x = t
      BY <1>0, <3>1
    <3>2. CASE x \in tokens.good
      <4>1. x \in Nat /\ 0 < x /\ x <= tokens.last
        BY <1>0, <3>2 DEF Shape, Known, Tokens, Grants
      <4> QED BY <1>0, <4>1
    <3> QED BY <1>1, <3>1, <3>2
  <2>3. \A q \in Passes : PassKnown(passes[q])'
    BY <1>0, <1>1, <1>4, ShapeFacts DEF PassKnown
  <2>4. conn'.refresh <= tokens'.last /\ conn'.cursor <= clock'
    BY <1>0, <1>1, <1>2, <1>4, ShapeFacts, Numbers
  <2>5. Known'
    BY <1>4, <2>2, <2>3, <2>4 DEF Shape, Known
  <2>6. Rows'
    BY <1>2, <1>4 DEF Shape, Rows
  <2> QED BY <2>1, <2>5, <2>6 DEF Shape
<1>6. Uncrossed'
  <2> SUFFICES ASSUME Busy = {} PROVE Alone' /\ \A q \in Passes : ~At(q, "apply")'
    BY <1>3 DEF Uncrossed
  <2> QED BY <1>4 DEF Alone, Busy, At
<1>7. CursorNeverAhead' /\ MirrorGoesWithConnection'
  BY <1>2 DEF CursorNeverAhead, MirrorGoesWithConnection
<1>8. Uncontested'
  <2> SUFFICES ASSUME Refreshing = {} PROVE Uncontested'
    BY <1>3 DEF Uncontested
  <2>1. \A q \in Passes : ~At(q, "refresh")' /\ ~At(q, "store")' /\ ~At(q, "expire")'
    BY <1>4 DEF Refreshing, At
  <2>2. Storing' = {} /\ ~Expiring'
    BY <1>2, <2>1 DEF Storing, Expiring
  <2>3. tokens'.last \in tokens'.good => conn'.refresh = tokens'.last
    <3>1. CASE offline
      BY <1>1, <1>2, <3>1
    <3>2. CASE ~offline
      <4>1. t \notin tokens.good
        BY <1>0 DEF Shape, Known
      <4> QED BY <1>1, <3>2, <4>1
    <3> QED BY <3>1, <3>2
  <2> QED BY <2>1, <2>2, <2>3 DEF Uncontested
<1> QED BY <1>5, <1>6, <1>7, <1>8

LEMMA CalendarChangesKeeps ==
  ASSUME ConnInv, NEW e \in Events, NEW version \in Versions, CalendarChanges(e, version)
  PROVE  ConnInv'
<1> USE DEF ConnInv
<1> DEFINE less == ghosts.forgotten \ {e}
<1>1. /\ UNCHANGED <<provider, conn, mirror, states, tokens, passes>>
      /\ clock' = clock + 1 /\ clock' \in Times /\ connector.calendar
      /\ connector' = connector /\ Busy' = Busy
      /\ calendar' \in [Events -> Versions] /\ changed' \in [Events -> Times]
      /\ \A f \in Events : calendar'[f] = IF f = e THEN version ELSE calendar[f]
      /\ \A f \in Events : changed'[f] = IF f = e THEN clock + 1 ELSE changed[f]
  <2>1. clock + 1 \in Times
    BY ShapeFacts, Numbers DEF CalendarChanges, Times
  <2>2. UNCHANGED <<provider, conn, mirror, states, tokens, passes>> /\ clock' = clock + 1
        /\ connector.calendar /\ connector' = connector /\ Busy' = Busy
        /\ calendar' = [calendar EXCEPT ![e] = version] /\ changed' = [changed EXCEPT ![e] = clock + 1]
    BY SameConnector DEF CalendarChanges, Busy
  <2> QED BY <2>1, <2>2, ShapeFacts
<1>2. ghosts' \in Ghosts /\ ghosts'.contested = ghosts.contested /\ ghosts'.crossed = ghosts.crossed
      /\ ghosts'.orphans = ghosts.orphans /\ ghosts'.forgotten = less
  <2>1. less \in SUBSET Events /\ ghosts' = [ghosts EXCEPT !.forgotten = less]
    BY ShapeFacts DEF CalendarChanges, Ghosts
  <2> HIDE DEF less
  <2> QED BY <2>1, ShapeFacts, GhostFields
<1>3. Shape'
  <2>1. Typed'
    BY <1>1, <1>2 DEF Shape, Typed
  <2>2. \A q \in Passes : PassKnown(passes[q])'
    BY <1>1, ShapeFacts DEF PassKnown
  <2>3. \A f \in Events : changed'[f] <= clock'
    <3> SUFFICES ASSUME NEW f \in Events PROVE changed'[f] <= clock + 1
      BY <1>1
    <3>1. changed[f] \in Nat /\ changed[f] <= clock /\ clock \in Nat
      BY ShapeFacts
    <3>2. changed[f] <= clock + 1 /\ clock + 1 <= clock + 1
      BY <3>1
    <3> QED BY <1>1, <3>2
  <2>4. conn.cursor <= clock + 1
    BY ShapeFacts
  <2>5. Known'
    BY <1>1, <2>2, <2>3, <2>4 DEF Shape, Known
  <2>6. Rows'
    BY <1>1 DEF Shape, Rows
  <2> QED BY <2>1, <2>5, <2>6 DEF Shape
<1>4. MirrorGoesWithConnection' /\ Uncontested'
  BY <1>1, <1>2, MirrorFrame, ContestFrame
<1>5. CursorNeverAhead'
  <2> SUFFICES ASSUME ~ghosts.crossed, conn.cursor # NoCursor, NEW f \in Events \ less,
                      changed'[f] <= conn.cursor
               PROVE  mirror[f] = calendar'[f]
    BY <1>1, <1>2 DEF CursorNeverAhead
  <2>1. f # e
    <3>1. ~(clock + 1 <= conn.cursor)
      BY ShapeFacts
    <3> QED BY <1>1, <3>1
  <2>2. f \notin ghosts.forgotten /\ changed'[f] = changed[f] /\ calendar'[f] = calendar[f]
    BY <1>1, <2>1
  <2> QED BY <2>2 DEF CursorNeverAhead
<1>6. Uncrossed'
  <2> SUFFICES ASSUME ~ghosts.crossed, conn.id # 0, NEW p \in Passes, At(p, "apply")
               PROVE  Fetched(passes[p])'
    BY <1>1, <1>2 DEF Uncrossed, Alone, At
  <2>1. Fetched(passes[p])
    BY DEF Uncrossed
  <2> DEFINE x == passes[p]
  <2>2. x.end <= clock /\ x.end \in Int /\ conn.cursor <= clock /\ conn.cursor \in Int /\ clock \in Nat
        /\ x.todo \subseteq Events \X Versions
    BY ShapeFacts DEF PassKnown, Pass
  <2>3. ASSUME NEW item \in x.todo
        PROVE  \/ item[2] = calendar'[item[1]]
               \/ changed'[item[1]] > x.end /\ changed'[item[1]] > conn.cursor
    <3>1. item[1] \in Events
      BY <2>2, <2>3
    <3>2. CASE item[1] = e
      <4>1. clock + 1 > x.end /\ clock + 1 > conn.cursor
        BY <2>2
      <4> QED BY <1>1, <3>1, <3>2, <4>1
    <3>3. CASE item[1] # e
      <4>1. \/ item[2] = calendar[item[1]]
            \/ changed[item[1]] > x.end /\ changed[item[1]] > conn.cursor
        BY <2>1 DEF Fetched
      <4> QED BY <1>1, <3>1, <3>3, <4>1
    <3> QED BY <3>2, <3>3
  <2>4. ASSUME x.end # conn.cursor, NEW f \in Events \ less, changed'[f] <= x.end
        PROVE  mirror[f] = calendar'[f] \/ <<f, calendar'[f]>> \in x.todo
    <3>1. f # e
      <4>1. ~(clock + 1 <= x.end)
        BY <2>2
      <4> QED BY <1>1, <2>4, <4>1
    <3>2. f \notin ghosts.forgotten /\ changed'[f] = changed[f] /\ calendar'[f] = calendar[f]
      BY <1>1, <2>4, <3>1
    <3> QED BY <2>1, <2>4, <3>2 DEF Fetched, Mirrored
  <2> QED BY <1>1, <1>2, <2>3, <2>4 DEF Fetched, Mirrored
<1> QED BY <1>3, <1>4, <1>5, <1>6

LEMMA EditEventKeeps ==
  ASSUME ConnInv, NEW e \in Events, NEW version \in Versions, EditEvent(e, version)
  PROVE  ConnInv'
<1> USE DEF ConnInv
<1> DEFINE more == ghosts.forgotten \cup {e}
<1>1. UNCHANGED <<provider, conn, calendar, changed, clock, states, tokens, passes>> /\ mirror[e] # 0
      /\ connector' = connector /\ Busy' = Busy /\ mirror' \in [Events -> Versions]
      /\ \A f \in Events : f # e => mirror'[f] = mirror[f]
  BY SameConnector, ShapeFacts DEF EditEvent, Busy
<1>2. ghosts' \in Ghosts /\ ghosts'.contested = ghosts.contested /\ ghosts'.crossed = ghosts.crossed
      /\ ghosts'.orphans = ghosts.orphans /\ ghosts'.forgotten = more
  <2>1. more \in SUBSET Events /\ ghosts' = [ghosts EXCEPT !.forgotten = more]
    BY ShapeFacts DEF EditEvent, Ghosts
  <2> HIDE DEF more
  <2> QED BY <2>1, ShapeFacts, GhostFields
<1>3. Shape'
  <2>1. Typed' /\ Known'
    BY <1>1, <1>2 DEF Shape, Typed, Known, PassKnown
  <2>2. connector.calendar
    BY <1>1 DEF Shape, Rows
  <2>3. Rows'
    BY <1>1, <2>2 DEF Shape, Rows
  <2> QED BY <2>1, <2>3 DEF Shape
<1>4. MirrorGoesWithConnection' /\ Uncontested'
  <2>1. MirrorGoesWithConnection'
    BY <1>1, <1>2 DEF MirrorGoesWithConnection
  <2> QED BY <1>1, <1>2, <2>1, ContestFrame
<1>5. CursorNeverAhead'
  BY <1>1, <1>2 DEF CursorNeverAhead
<1>6. Uncrossed'
  <2> SUFFICES ASSUME ~ghosts.crossed, conn.id # 0, NEW p \in Passes, At(p, "apply")
               PROVE  Fetched(passes[p])'
    BY <1>1, <1>2 DEF Uncrossed, Alone, At
  <2>1. Fetched(passes[p])
    BY DEF Uncrossed
  <2> QED BY <1>1, <1>2, <2>1 DEF Fetched, Mirrored
<1> QED BY <1>3, <1>4, <1>5, <1>6

LEMMA NextInv == ConnInv /\ [ConnNext]_connVars => ConnInv'
<1> SUFFICES ASSUME ConnInv, [ConnNext]_connVars PROVE ConnInv'
  OBVIOUS
<1>1. CASE UNCHANGED connVars
  <2>1. states' \subseteq BOOLEAN
    BY <1>1 DEF connVars, ConnInv, Shape, Typed
  <2> QED BY <1>1, <2>1, StatesKeep DEF connVars
<1>2. CASE Authorize \/ StateLost
  <2>2. codeVerifier \in BOOLEAN
    BY DEF codeVerifier
  <2>3. states' = {codeVerifier} \/ states' = {}
    BY <1>2 DEF Authorize, StateLost
  <2>1. states' \subseteq BOOLEAN
    BY <2>2, <2>3
  <2> QED BY <1>2, <2>1, StatesKeep DEF Authorize, StateLost
<1>3. CASE OAuthCallback(TRUE) \/ OAuthCallback(FALSE)
  BY <1>3, OAuthCallbackKeeps
<1>4. CASE Disconnect
  BY <1>4, DisconnectKeeps
<1>5. CASE AccessExpires
  BY <1>5, AccessExpiresKeeps
<1>6. ASSUME NEW p \in Passes,
             \/ StartPass(p) \/ AskRefresh(p) \/ RefreshFails(p) \/ StoreTokens(p) \/ MarkExpired(p)
             \/ SaveCursor(p) \/ FailPass(p)
      PROVE  ConnInv'
  BY <1>6, StartPassKeeps, AskRefreshKeeps, RefreshFailsKeeps, StoreTokensKeeps, MarkExpiredKeeps,
     SaveCursorKeeps, FailPassKeeps
<1>7. ASSUME NEW p \in Passes,
             AskFiles(p, TRUE, TRUE) \/ AskFiles(p, TRUE, FALSE) \/ AskFiles(p, FALSE, TRUE)
      PROVE  ConnInv'
  BY <1>7, AskFilesKeeps
<1>8. ASSUME NEW p \in Passes, NEW complete \in BOOLEAN,
             Fetch(p, passes[p].saw.cursor, complete) \/ Fetch(p, NoCursor, complete)
      PROVE  ConnInv'
  BY <1>8, FetchKeeps
<1>9. ASSUME NEW p \in Passes, NEW item \in passes[p].todo, Apply(p, item) PROVE ConnInv'
  BY <1>9, ApplyKeeps
<1>10. ASSUME NEW e \in Events, NEW version \in 0..(MaxChanges + 1),
              EditEvent(e, version) \/ CalendarChanges(e, version)
       PROVE  ConnInv'
  BY <1>10, EditEventKeeps, CalendarChangesKeeps DEF Versions
<1> QED BY <1>1, <1>2, <1>3, <1>4, <1>5, <1>6, <1>7, <1>8, <1>9, <1>10 DEF ConnNext

LEMMA SpecInv == ConnSpec => []ConnInv
BY InitInv, NextInv, PTL DEF ConnSpec

----------------------------------------------------------------------------
\* The row, the mirror, the calendar and the passes hold what the program could store: no id,
\* version or cursor beyond what was granted or changed, and no dead token among the good ones.
THEOREM ConnTyped == ConnSpec => []ConnTypeOK
<1>1. ConnInv => ConnTypeOK
  <2> SUFFICES ASSUME ConnInv PROVE ConnTypeOK
    OBVIOUS
  <2>1. Shape
    BY DEF ConnInv
  <2>2. tokens.last \in 0..MaxGrants /\ tokens.good \subseteq 1..MaxGrants
    <3>1. tokens \in Tokens
      BY <2>1 DEF Shape, Typed
    <3>2. \A g \in tokens.good : g \in 0..MaxGrants /\ 0 < g
      BY <2>1, <3>1 DEF Shape, Known, Tokens, Grants
    <3>3. \A g \in tokens.good : g \in 1..MaxGrants
      BY <3>2, Numbers
    <3> QED BY <3>1, <3>3 DEF Tokens, Grants
  <2>3. \A q \in Passes : passes[q].at \in {"idle", "refresh", "store", "expire", "sync", "fetch", "apply"}
    BY <2>1, ShapeFacts DEF Pass
  <2> QED BY <2>1, <2>2, <2>3 DEF ConnTypeOK, Shape, Typed, Conn, Grants, Cursors, Versions
<1> QED BY <1>1, SpecInv, PTL

\* reconcileOutlook: however passes fail and wherever the calendar's answers end, a stored cursor
\* is never ahead of the mirror, with CursorNeverAhead's exceptions.
THEOREM CursorFollows == ConnSpec => []CursorNeverAhead
<1>1. ConnInv => CursorNeverAhead
  BY DEF ConnInv
<1> QED BY <1>1, SpecInv, PTL

\* disconnectIntegration: nothing mirrored outlives its connection but what a pass that was
\* under way wrote afterwards.
THEOREM MirrorGoes == ConnSpec => []MirrorGoesWithConnection
<1>1. ConnInv => MirrorGoesWithConnection
  BY DEF ConnInv
<1> QED BY <1>1, SpecInv, PTL

\* connectionTokens: whatever number of passes refresh, a connection is called expired only when
\* the last refresh token is dead, with ExpiredOnlyIfRefused's exceptions.
THEOREM ExpiredRightly == ConnSpec => []ExpiredOnlyIfRefused
<1>1. ConnInv => ExpiredOnlyIfRefused
  <2> SUFFICES ASSUME ConnInv, conn.status = "expired", ~ghosts.contested
               PROVE  tokens.last \notin tokens.good
    BY DEF ExpiredOnlyIfRefused
  <2>1. conn.id # 0 /\ Expiring
    BY DEF ConnInv, Shape, Rows, Expiring
  <2> QED BY <2>1 DEF ConnInv, Uncontested
<1> QED BY <1>1, SpecInv, PTL
=============================================================================
