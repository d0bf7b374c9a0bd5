------------------------------ MODULE PartyNet ------------------------------
(***************************************************************************)
(* The parties of the agent (PartyMan) with the field server's copies of   *)
(* them (GLPartyFieldMan), the clients' pictures (GLPartyClient) and all   *)
(* that is under way between them.                                         *)
(*                                                                         *)
(* A client hears of its party over two connections: the agent itself      *)
(* tells it of invitations, of members who leave, of a new leader and of   *)
(* the end of the party; the field server tells it of a new party, of      *)
(* members who join and of a leader replaced, once the agent's notice has  *)
(* reached the field.  Nothing orders the one against the other.           *)
(***************************************************************************)
EXTENDS PartyMan, SequencesExt

CONSTANTS
  MaxRequests,  \* bound: requests the clients send
  MaxLogins,    \* bound: characters that come on line
  MaxDrops,     \* bound: characters that go, by frames or by a second login
  MaxMoves,     \* bound: times a character leaves the field while on line
  MaxCrashes,   \* bound: restarts of the field server
  MaxLosses,    \* bound: connections to the field lost while it runs on
  MaxRestarts   \* bound: restarts of the agent

ASSUME BoundAssumption ==
  {MaxRequests, MaxLogins, MaxDrops, MaxMoves, MaxCrashes, MaxLosses, MaxRestarts} \subseteq Nat

VARIABLES
  copy,       \* m_pParty of the field
  gaeaTo,     \* m_pGaeaTOParty, and m_dwPartyID of the characters there
  here,       \* the ids whose clients are connected to the field
  fromField,  \* notices under way from the field to the client at each id
  apart,      \* history: the agent has lost its parties, and the field kept its
              \* records, since the field was last started
  view,       \* GLPartyClient of the client at each id
  dialog,     \* the invitation a client shows, and the request to join
  sent,       \* the client's requests under way to the agent
  spent       \* how much of each bound is used up

fieldVars == <<copy, gaeaTo, here, fromField, apart>>
clientVars == <<view, dialog, sent>>
netVars == <<agentVars, fieldVars, clientVars, spent>>

Bounds == [requests |-> MaxRequests, logins |-> MaxLogins, drops |-> MaxDrops,
           moves |-> MaxMoves, crashes |-> MaxCrashes, losses |-> MaxLosses,
           restarts |-> MaxRestarts]
Spend(b, n) == spent[b] + n <= Bounds[b] /\ spent' = [spent EXCEPT ![b] = @ + n]

Copies == [master : Ids \cup {NoId}, member : SUBSET Ids]
NoCopy == [master |-> NoId, member |-> {}]
NoView == [party |-> NoParty, master |-> NoId, others |-> {}]
NoDialog == [lure |-> <<>>, search |-> NoId]

----------------------------------------------------------------------------
(* The field server.                                                       *)

\* What a notice does to the field's records f.copy and f.gaeaTo.
Valued(f, p) == f.copy[p].master # NoId
Enlist(c, g) ==
  IF Cardinality(c.member) = MAXPARTY THEN c ELSE [c EXCEPT !.member = @ \cup {g}]

MsgPartyFNew(f, m) ==
  [copy |-> [f.copy EXCEPT ![m.party] = [master |-> m.master, member |-> m.member]],
   gaeaTo |-> [g \in Ids |-> IF g \in m.member \cup {m.master} THEN m.party ELSE f.gaeaTo[g]]]

MsgPartyAdd(f, m) ==
  [copy |-> [f.copy EXCEPT ![m.party] = Enlist(@, m.who)],
   gaeaTo |-> [f.gaeaTo EXCEPT ![m.who] = m.party]]

MsgPartyDel(f, m) ==
  [copy |-> [f.copy EXCEPT ![m.party].member = @ \ {m.who}],
   gaeaTo |-> [f.gaeaTo EXCEPT ![m.who] = NoParty]]

MsgPartyDissolved(f, m) ==
  [copy |-> [f.copy EXCEPT ![m.party] = NoCopy],
   gaeaTo |-> [g \in Ids |-> IF g \in f.copy[m.party].member THEN NoParty ELSE f.gaeaTo[g]]]

MsgPartyNewLeader(f, m) == [f EXCEPT !.copy[m.party].master = m.who]

\* WRONG: the old leader stays a member.
MsgPartyMasterRenewKept(f, m) ==
  [copy |-> [f.copy EXCEPT ![m.party].master = m.new],
   gaeaTo |-> [f.gaeaTo EXCEPT ![m.old] = NoParty]]

MsgPartyMasterRenew(f, m) ==
  [copy |-> [f.copy EXCEPT ![m.party] = [master |-> m.new, member |-> @.member \ {m.old}]],
   gaeaTo |-> [f.gaeaTo EXCEPT ![m.old] = NoParty]]

Follow(f, m) ==
  CASE m.type = "FNEW" -> MsgPartyFNew(f, m)
    [] m.type # "FNEW" /\ ~Valued(f, m.party) -> f
    [] m.type = "ADD" /\ Valued(f, m.party) -> MsgPartyAdd(f, m)
    [] m.type = "DEL" /\ Valued(f, m.party) -> MsgPartyDel(f, m)
    [] m.type = "DISSOLVE" /\ Valued(f, m.party) -> MsgPartyDissolved(f, m)
    [] m.type = "AUTHORITY" /\ Valued(f, m.party) -> MsgPartyNewLeader(f, m)
    [] m.type = "RENEW" /\ Valued(f, m.party) -> MsgPartyMasterRenew(f, m)

Field == [copy |-> copy, gaeaTo |-> gaeaTo]

\* What the field, left as f by the notice, passes on to the client of g.
PassOn(f, m, g) ==
  LET c == f.copy[m.party]
  IN CASE m.type = "FNEW" -> IF g \in m.member THEN <<m>> ELSE <<>>
       [] m.type = "ADD" -> (IF g = m.who THEN <<FNew(m.party, c.master, c.member)>> ELSE <<>>)
                            \o (IF g \in c.member THEN <<m>> ELSE <<>>)
       [] m.type = "RENEW" -> IF g \in c.member THEN <<m>> ELSE <<>>
       [] OTHER -> <<>>

Hears(m) == m.type = "FNEW" \/ Valued(Field, m.party)

FieldReads ==
  LET m == Head(toField)
      f == Follow(Field, m)
  IN /\ toField # <<>>
     /\ toField' = Tail(toField)
     /\ copy' = f.copy /\ gaeaTo' = f.gaeaTo
     /\ fromField' = [g \in Ids |-> IF g \in here /\ Hears(m)
                                    THEN fromField[g] \o PassOn(f, m, g) ELSE fromField[g]]
     /\ UNCHANGED <<who, pid, asked, party, free, turn, toClient, here, apart, clientVars, spent>>

\* A character leaves the field for another map, and enters it again.  What
\* is under way from the field is lost with the connection.
LeaveField(g) ==
  /\ Spend("moves", 1)
  /\ g \in here
  /\ here' = here \ {g}
  /\ fromField' = [fromField EXCEPT ![g] = <<>>]
  /\ UNCHANGED <<agentVars, copy, gaeaTo, apart, clientVars>>

EnterField(g) ==
  /\ On(g) /\ g \notin here
  /\ here' = here \cup {g}
  /\ UNCHANGED <<agentVars, copy, gaeaTo, fromField, apart, clientVars, spent>>

----------------------------------------------------------------------------
(* The clients.                                                            *)

Shown(g) == view[g].others \cup ({view[g].master} \ {NoId})

LureAnswer(a, q, ok) == [type |-> "LURE_TAR_ANS", who |-> a, party |-> q, ok |-> ok]
SearchAnswer(t, ok) == [type |-> "SEARCH_LURE_TAR_ANS", who |-> t, ok |-> ok]

Ask(g, m) ==
  /\ On(g)
  /\ Spend("requests", 1)
  /\ sent' = [sent EXCEPT ![g] = Append(@, m)]
  /\ UNCHANGED <<agentVars, fieldVars, view>>

\* GLPartyClient::Lure
Lure(g, t) ==
  /\ t # g /\ On(t) /\ t \notin Shown(g)
  /\ Ask(g, [type |-> "LURE", who |-> t])
  /\ UNCHANGED dialog

\* GLCharacter::ReqPartySearchJoin
ReqPartySearchJoin(g, t) ==
  /\ t # g /\ view[g].party = NoParty
  /\ Ask(g, [type |-> "SEARCH_LURE", who |-> t])
  /\ UNCHANGED dialog

\* GLPartyClient::Secede: oneself, or as the leader another.
Secede(g, t) ==
  /\ t \in view[g].others
  /\ t = g \/ view[g].master = g
  /\ Ask(g, [type |-> "SECEDE", who |-> t, party |-> view[g].party])
  /\ UNCHANGED dialog

\* GLPartyClient::Authority
Authority(g, t) ==
  /\ t \in view[g].others \ {g} /\ view[g].master = g
  /\ Ask(g, [type |-> "AUTHORITY", who |-> t, party |-> view[g].party])
  /\ UNCHANGED dialog

\* GLPartyClient::Dissolve
\* WRONG: without asking whether one leads a party.
DissolveAnyway(g) ==
  /\ Ask(g, [type |-> "DISSOLVE", party |-> view[g].party])
  /\ UNCHANGED dialog

Dissolve(g) ==
  /\ view[g].master = g
  /\ Ask(g, [type |-> "DISSOLVE", party |-> view[g].party])
  /\ UNCHANGED dialog

\* The answers given in the two dialogs.
AnswerLure(g, ok) ==
  /\ dialog[g].lure # <<>>
  /\ Ask(g, LureAnswer(dialog[g].lure[1], dialog[g].lure[2], ok))
  /\ dialog' = [dialog EXCEPT ![g].lure = <<>>]

AnswerSearch(g, ok) ==
  /\ dialog[g].search # NoId
  /\ Ask(g, SearchAnswer(dialog[g].search, ok))
  /\ dialog' = [dialog EXCEPT ![g].search = NoId]

\* What a notice does to a client's picture v of its party.
NextView(g, v, m) ==
  CASE m.type = "FNEW" ->
         [party |-> m.party, master |-> IF m.master \in m.member THEN m.master ELSE NoId,
          others |-> m.member \ {m.master}]
    [] m.type = "ADD" ->
         IF v.party = m.party /\ m.who # v.master
         THEN [v EXCEPT !.others = @ \cup {m.who}] ELSE v
    [] m.type = "DEL" ->
         IF v.party # m.party \/ m.who \notin v.others THEN v
         ELSE IF m.who = g THEN NoView ELSE [v EXCEPT !.others = @ \ {m.who}]
    [] m.type = "DISSOLVE" -> NoView
    [] m.type = "AUTHORITY" ->
         IF v.party # m.party \/ v.master = m.who THEN v
         ELSE [v EXCEPT !.master = IF m.who \in v.others THEN m.who ELSE NoId,
                        !.others = (@ \cup ({v.master} \ {NoId})) \ {m.who}]
    [] m.type = "RENEW" ->
         [v EXCEPT !.master = IF m.new \in v.others THEN m.new ELSE NoId,
                   !.others = @ \ {m.new}]
    [] OTHER -> v

\* What a notice does to the dialogs d, and what the client answers by itself.
\* An invitation that finds one shown is refused and yet shown in its place; a
\* request to join that finds one shown is refused, and both are gone.
NextDialog(d, m) ==
  CASE m.type = "LURE_TAR" -> [d EXCEPT !.lure = <<m.master, m.party>>]
    [] m.type = "SEARCH_FB" -> [d EXCEPT !.search = IF @ = NoId THEN m.who ELSE NoId]
    [] OTHER -> d

Refusal(d, m) ==
  CASE m.type = "LURE_TAR" /\ d.lure # <<>> -> <<LureAnswer(m.master, m.party, FALSE)>>
    [] m.type = "SEARCH_FB" /\ d.search # NoId -> <<SearchAnswer(m.who, FALSE)>>
    [] OTHER -> <<>>

\* An invitation of somebody out of sight is not shown.
ClientReadsAgent(g) ==
  LET m == Head(toClient[g])
  IN /\ toClient[g] # <<>>
     /\ toClient' = [toClient EXCEPT ![g] = Tail(@)]
     /\ view' = [view EXCEPT ![g] = NextView(g, @, m)]
     /\ \/ /\ dialog' = [dialog EXCEPT ![g] = NextDialog(@, m)]
           /\ sent' = [sent EXCEPT ![g] = @ \o Refusal(dialog[g], m)]
        \/ m.type = "LURE_TAR" /\ UNCHANGED <<dialog, sent>>
     /\ UNCHANGED <<who, pid, asked, party, free, turn, toField, fieldVars, spent>>

ClientReadsField(g) ==
  /\ fromField[g] # <<>>
  /\ fromField' = [fromField EXCEPT ![g] = Tail(@)]
  /\ view' = [view EXCEPT ![g] = NextView(g, @, Head(fromField[g]))]
  /\ UNCHANGED <<agentVars, copy, gaeaTo, here, apart, dialog, sent, spent>>

----------------------------------------------------------------------------
(* The agent at work on the requests.                                      *)

\* A request whose conditions fail is dropped without a trace.
Unless(may, A) == A \/ (~may /\ UNCHANGED agentVars)

\* An invitation, and the answer to a request to join, may also fail for the
\* schools, the teams, the clubs or the maps of the two.
Obey(g, m) ==
  \/ m.type = "LURE" /\ (MsgPartyLure(g, m.who) \/ UNCHANGED agentVars)
  \/ m.type = "SEARCH_LURE" /\ (MsgPartySearchLure(g, m.who) \/ UNCHANGED agentVars)
  \/ /\ m.type = "LURE_TAR_ANS" /\ m.ok
     /\ Unless(Accepts(m.who, g, m.party), MsgPartyLureTarOk(m.who, g, m.party))
  \/ /\ m.type = "LURE_TAR_ANS" /\ ~m.ok
     /\ Unless(MayAnswer(m.who, g, m.party), MsgPartyLureTarRefuse(m.who, g, m.party))
  \/ /\ m.type = "SEARCH_LURE_TAR_ANS" /\ m.ok
     /\ MsgPartyLureSearchTarOk(g, m.who) \/ UNCHANGED agentVars
  \/ /\ m.type = "SEARCH_LURE_TAR_ANS" /\ ~m.ok
     /\ MsgPartyLureSearchTarRefuse(g, m.who) \/ UNCHANGED agentVars
  \/ /\ m.type = "SECEDE"
     /\ Unless(MayCommand(g, m.party, m.who), MsgPartySecede(g, m.party, m.who))
  \/ /\ m.type = "AUTHORITY"
     /\ Unless(MayCommand(g, m.party, m.who), MsgPartyAuthority(g, m.party, m.who))
  \/ /\ m.type = "DISSOLVE"
     /\ Unless(MayDissolve(g, m.party), MsgPartyDissolve(g, m.party))

Serve(g) ==
  /\ turn = Idle /\ sent[g] # <<>>
  /\ Obey(g, Head(sent[g]))
  /\ sent' = [sent EXCEPT ![g] = Tail(@)]
  /\ UNCHANGED <<fieldVars, view, dialog, spent>>

\* The clients of S end, and their connections with them.
ClientsEnd(S) ==
  /\ view' = [g \in Ids |-> IF g \in S THEN NoView ELSE view[g]]
  /\ dialog' = [g \in Ids |-> IF g \in S THEN NoDialog ELSE dialog[g]]
  /\ sent' = [g \in Ids |-> IF g \in S THEN <<>> ELSE sent[g]]
  /\ fromField' = [g \in Ids |-> IF g \in S THEN <<>> ELSE fromField[g]]
  /\ here' = here \ S
  /\ UNCHANGED <<copy, gaeaTo>>

\* A client can do nothing before its character is on the field.
Login(g, c) ==
  /\ CreatePC(g, c)
  /\ Spend("logins", 1)
  /\ here' = here \cup {g}
  /\ UNCHANGED <<copy, gaeaTo, fromField, apart, clientVars>>

LoginTwice(g) ==
  /\ DropTwice(g)
  /\ Spend("drops", 1)
  /\ ClientsEnd({g}) /\ UNCHANGED apart

Frame(S) ==
  /\ FrameMove(S)
  /\ Spend("drops", Cardinality(S))
  /\ ClientsEnd(S) /\ UNCHANGED apart

FrameGoesOn == FrameMoveParty /\ UNCHANGED <<fieldVars, clientVars, spent>>

\* The field server crashes and starts again; the agent connects to it anew
\* (FieldConnectAll) and resets its parties (ResetFieldInfo).
FieldRestart ==
  /\ Spend("crashes", 1)
  /\ \E s \in Orders({p \in Parties : Valid(p)}) : DelPartyAll(s, <<>>)
  /\ copy' = [p \in Parties |-> NoCopy]
  /\ gaeaTo' = [g \in Ids |-> NoParty]
  /\ here' = {}
  /\ fromField' = [g \in Ids |-> <<>>]
  /\ apart' = FALSE
  /\ UNCHANGED clientVars

\* A field runs on and its connection to the agent is lost (the heartbeat of
\* AgentSrvHeartBeatCheck closes it), to be renewed later by FieldConnectAll:
\* all the agent said from some moment on is lost, then its parties are reset.
\* FieldConnectAll announces a reset to the field too and sends the period
\* twice, so the field keeps its records.
FieldReconnect ==
  /\ Spend("losses", 1)
  /\ \E k \in 0 .. Len(toField), s \in Orders({p \in Parties : Valid(p)}) :
       DelPartyAll(s, SubSeq(toField, 1, k))
  /\ apart' = TRUE
  /\ UNCHANGED <<copy, gaeaTo, here, fromField, clientVars>>

\* The agent crashes, and the clients with their connections.  Started again,
\* FieldConnectAll sends the fields the period twice, and no reset.
AgentRestart ==
  /\ Spend("restarts", 1)
  /\ Restart
  /\ ClientsEnd(Ids) /\ apart' = TRUE

NetInit ==
  /\ AgentInit
  /\ copy = [p \in Parties |-> NoCopy]
  /\ gaeaTo = [g \in Ids |-> NoParty]
  /\ here = {}
  /\ fromField = [g \in Ids |-> <<>>]
  /\ apart = FALSE
  /\ view = [g \in Ids |-> NoView]
  /\ dialog = [g \in Ids |-> NoDialog]
  /\ sent = [g \in Ids |-> <<>>]
  /\ spent = [b \in DOMAIN Bounds |-> 0]

Request(g) ==
  \/ \E t \in Ids : \/ Lure(g, t) \/ ReqPartySearchJoin(g, t)
                    \/ Secede(g, t) \/ Authority(g, t)
  \/ Dissolve(g)
  \/ \E ok \in BOOLEAN : AnswerLure(g, ok) \/ AnswerSearch(g, ok)

NetNext ==
  \/ \E g \in Ids : \/ Request(g) \/ Serve(g)
                    \/ ClientReadsAgent(g) \/ ClientReadsField(g)
                    \/ EnterField(g) \/ LeaveField(g)
                    \/ LoginTwice(g) \/ \E c \in Chars : Login(g, c)
  \/ FieldReads
  \/ \E S \in SUBSET Ids : Frame(S)
  \/ FrameGoesOn
  \/ FieldRestart \/ FieldReconnect \/ AgentRestart

NetSpec == NetInit /\ [][NetNext]_netVars

\* The update thread runs a frame again and again, to its end.
Fairness == WF_netVars(\E S \in SUBSET Ids : Frame(S)) /\ WF_netVars(FrameGoesOn)

----------------------------------------------------------------------------
(* Properties.                                                             *)

SentTypes ==
  [type : {"LURE", "SEARCH_LURE"}, who : Ids]
    \cup [type : {"SECEDE", "AUTHORITY"}, who : Ids, party : Parties]
    \cup [type : {"DISSOLVE"}, party : Parties]
    \cup [type : {"LURE_TAR_ANS"}, who : Ids, party : Parties \cup {NoParty}, ok : BOOLEAN]
    \cup [type : {"SEARCH_LURE_TAR_ANS"}, who : Ids, ok : BOOLEAN]

\* A client never asks for a party it does not know, and nothing has a leader
\* or members outside the ids.
NetTypeOK ==
  /\ AgentTypeOK
  /\ copy \in [Parties -> Copies]
  /\ gaeaTo \in [Ids -> Parties \cup {NoParty}]
  /\ here \subseteq Ids /\ apart \in BOOLEAN
  /\ view \in [Ids -> [party : Parties \cup {NoParty}, master : Ids \cup {NoId}, others : SUBSET Ids]]
  /\ \A g \in Ids : /\ dialog[g].search \in Ids \cup {NoId}
                    /\ Range(sent[g]) \subseteq SentTypes

\* The field's records, once it has read what is under way, are the agent's
\* parties, and the characters on line are in their parties there
\* (GLPartyFieldMan): the agent's notices suffice to keep them so, whatever
\* leaders and members do, come and go, and though the field server restarts.
\* A field that runs on while the agent starts anew, or while the connection
\* between the two is lost, is sent no reset: it follows until then, and again
\* once it is itself started anew.
FieldFollows ==
  ~apart =>
    LET f == FoldLeft(Follow, Field, toField)
    IN /\ \A p \in Parties : f.copy[p] = [master |-> party[p].master, member |-> party[p].member]
       /\ \A g \in Ids : On(g) => f.gaeaTo[g] = pid[g]

\* A frame leaves no party with members who have gone, nor one with a single
\* member (GLPartyMan::FrameMove).
FrameEnds == turn # Idle /\ turn' = Idle
FrameClears ==
  [][FrameEnds => \A p \in Parties : /\ party'[p].member \subseteq OnLine(Ids)
                                     /\ Cardinality(party'[p].member) # 1]_netVars

\* A party whose leader has gone is given one who is on line, or dissolved.
LeaderRestored ==
  \A p \in Parties : (Valid(p) /\ ~On(party[p].master)) ~> (~Valid(p) \/ On(party[p].master))
=============================================================================
