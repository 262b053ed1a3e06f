------------------------------ MODULE MCBrowser ------------------------------
(* Parts of the client, two of them with their server, that share no state, checked in one run:
   a behaviour chooses one of them and takes its steps.  A third socket comes to a call only
   when the other two are in it.                                                             *)
EXTENDS GroupCalls, TabSessions, GroupPages, BrowserPush, TLC

CONSTANT Guest   \* a socket that joins a call in progress

VARIABLE part   \* the part that runs

shown == <<callVars, tabVars, pageVars, pushVars, part>>

\* Two clients in a call, one of them its host; the other has taken the host's offer.
CallStarted ==
  \E h, s \in Sockets \ {Guest} :
    /\ h # s /\ limit \in Limits /\ room = <<h, s>> /\ host = h
    /\ leaving = {} /\ joining = {} /\ removals = {} /\ online = Sockets
    /\ ui = [c \in Sockets |->
         IF c = Guest THEN NoCall
         ELSE [on |-> TRUE, peers |-> {h, s} \ {c}, took |-> {h} \ {c}, host |-> h]]
    /\ inbox = [c \in Sockets |-> <<>>] /\ joins = 2
    /\ past = [crossed |-> {}, hasty |-> {}, revoked |-> {}, dropped |-> {}, overlap |-> FALSE, adrift |-> FALSE]

\* A part that does not run starts in one state.
MCInit ==
  /\ part \in {"call", "third", "tabs", "hub", "nav", "push"}
  /\ (IF part = "third" THEN CallStarted ELSE CallInit) /\ TabInit /\ PageInit /\ PushInit
  /\ CASE part = "call" -> limit < 3 [] part = "third" -> limit = 3 [] OTHER -> limit = 1
  /\ part # "push" => \A p \in Pages : /\ settings[p].in = CHOOSE b \in Browsers : TRUE
                                       /\ settings[p].by = CHOOSE u \in Owners : TRUE

\* The guest joins while those who are in the call leave or are put out of it by the host.
ThirdNext ==
  \/ \E s \in Sockets : \/ AskJoin(s) \/ Leave(s) \/ LeaveRoom(s) \/ Handle(s)
                        \/ \E t \in Sockets : RemoveParticipant(s, t)
  \/ \E j \in joining : EnterRoom(j) \/ TellRoom(j)
  \/ \E r \in removals : PutOut(r) \/ HandOver(r)

\* Bound: a call is ended before somebody is put out of the group, or not at all.
EndsFirst == Ending' => past'.revoked = {}

CallPart == part = "call" /\ CallNext /\ ui'[Guest] = NoCall /\ joins' <= 2 /\ EndsFirst
            /\ UNCHANGED <<tabVars, pageVars, pushVars, part>>
ThirdPart == part = "third" /\ ThirdNext /\ UNCHANGED <<tabVars, pageVars, pushVars, part>>
TabPart == part = "tabs" /\ TabNext /\ UNCHANGED <<callVars, pageVars, pushVars, part>>
HubPart == part = "hub" /\ HubNext /\ UNCHANGED <<callVars, tabVars, pushVars, part>>
NavPart == part = "nav" /\ NavNext /\ UNCHANGED <<callVars, tabVars, pushVars, part>>
PushPart == part = "push" /\ PushNext /\ UNCHANGED <<callVars, tabVars, pageVars, part>>

MCNext == CallPart \/ ThirdPart \/ TabPart \/ HubPart \/ NavPart \/ PushPart
MCSpec == MCInit /\ [][MCNext]_shown

\* Sockets, tabs, groups and settings pages have the same names, so that one permutation serves every part.
BrowserSymmetry == Permutations(Sockets \ {Guest})
=============================================================================
