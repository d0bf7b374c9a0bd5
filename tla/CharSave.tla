------------------------------ MODULE CharSave ------------------------------
(* Who owns a character's state: the agent server that lets a connection     *)
(* join with a character, the field servers a character lives on one after   *)
(* the other, and the database thread of each field, which saves and loads.  *)
(*                                                                           *)
(* An action is one handler of an update thread, one job of a database       *)
(* thread, or one connection closed by a worker thread.  Messages on one TCP *)
(* connection stay in order; the agent's connection to a field and the       *)
(* connections it opens there for each client are different ones.  A state   *)
(* of a character is a number: playing gives it the next one.                *)
(*                                                                           *)
(* A user plays one character, so that its name, its id and its user number  *)
(* are one value.  A connection selects a character once and visits a field  *)
(* once (slots reused by others are the subject of the connection layer).    *)
(* CSaveChaPos, taken when no field serves the saved map, is left out.       *)
EXTENDS Naturals, SequencesExt, FiniteSetsExt

CONSTANTS
  Chars,        \* characters
  Conns,        \* client connections at the agent
  Gaeas,        \* Gaea ids, which the agent hands out
  Fields,       \* field servers
  None,         \* no Gaea id, nobody, no field
  MaxPlay,      \* bound: how many states a character goes through
  MaxJobs       \* bound: a periodic save starts only when fewer jobs wait

ASSUME NoneAssumption == None \notin Chars \cup Conns \cup Gaeas \cup Fields
ASSUME GaeasAssumption == IsFiniteSet(Gaeas)
ASSUME BoundAssumption == MaxPlay \in Nat /\ MaxJobs \in Nat

VARIABLES
  pcs,          \* agent: m_PCArray
  free,         \* agent: m_FreePCGIDs
  reserved,     \* agent: m_RegDropOutPC
  conns,        \* agent: client slots, and the field each is linked to
  live,         \* field: m_PCArray
  slot,         \* field: the slots of agent connections
  saving,       \* field: m_reqSaveDBUserID
  drops,        \* field: m_reqDropOutChar
  jobs,         \* field: the queue of CDbExecuter
  toField,      \* messages of the agent's own connection to each field
  toSlot,       \* messages of the connection opened for a client
  loaded,       \* SNETJOIN2FIELDSERVER messages of the database thread
  answers,      \* SNETPC_FIELDSVR_CHARCHK_FB on the way to the agent
  outs,         \* SNETPC_FIELDSVR_OUT_FB on the way to the agent
  db,           \* the state of each character in the database
  newest        \* the newest state of each character anywhere

agentVars == <<pcs, free, reserved, conns>>
fieldVars == <<live, slot, saving, drops, jobs>>
wires     == <<toField, toSlot, loaded, answers, outs>>
vars      == <<agentVars, fieldVars, wires, db, newest>>

\* A character at the agent, and one at a field.
JoiningAt == [char : Chars, conn : Conns, checked : SUBSET Fields,
              cur : Fields \cup {None}, next : Fields \cup {None}]
PlayedAt  == [char : Chars, conn : Conns, ver : 0..MaxPlay]

ASSUME NobodyAssumption == None \notin JoiningAt \cup PlayedAt

Open(s)   == s.st = "open"
NoSlot    == [st |-> "none", char |-> None, gaea |-> None]

\* At f: where character c lives (m_PCNameMap), and where connection n does
\* (m_PCClientIDMAP).
Places(f, c)    == {g \in Gaeas : live[f][g] # None /\ live[f][g].char = c}
PlacesOf(f, n)  == {g \in Gaeas : live[f][g] # None /\ live[f][g].conn = n}

Save(f, g) == [op |-> "SAVE", char |-> live[f][g].char, ver |-> live[f][g].ver,
               conn |-> live[f][g].conn]
Load(c, n) == [op |-> "LOAD", char |-> c, conn |-> n]
Answer(g)  == [op |-> "ANSWER", gaea |-> g]
Out(n)     == [op |-> "OUT", conn |-> n]

Init ==
  /\ pcs = [g \in Gaeas |-> None]
  /\ free = SetToSeq(Gaeas)
  /\ reserved = <<>>
  /\ conns = [n \in Conns |-> [st |-> "lobby", gaea |-> None, link |-> None]]
  /\ live = [f \in Fields |-> [g \in Gaeas |-> None]]
  /\ slot = [f \in Fields |-> [n \in Conns |-> NoSlot]]
  /\ saving = [f \in Fields |-> {}]
  /\ drops = [f \in Fields |-> <<>>]
  /\ jobs = [f \in Fields |-> <<>>]
  /\ toField = [f \in Fields |-> <<>>]
  /\ toSlot = [f \in Fields |-> [n \in Conns |-> <<>>]]
  /\ loaded = [f \in Fields |-> <<>>]
  /\ answers = [f \in Fields |-> <<>>]
  /\ outs = {}
  /\ db = [c \in Chars |-> 0]
  /\ newest = [c \in Chars |-> 0]
-----------------------------------------------------------------------------
(* The agent                                                                 *)

\* Of the ids reserved to leave, those given back: each once, if somebody is there.
\* WRONG: without asking whether somebody is there.
ReturnedUnasked == reserved

Returned == FlattenSeq([i \in DOMAIN reserved |->
  IF pcs[reserved[i]] # None /\ \A j \in 1..(i - 1) : reserved[j] # reserved[i]
  THEN <<reserved[i]>> ELSE <<>>])

\* The fields that have answered about the character at g, with f (m_bFIELD_CK).
\* WRONG: forgets the others.
AnsweredLast(g, f) == {f}

Answered(g, f) == pcs[g].checked \cup {f}

\* With the answer of f every field has answered, for the first time.
IsFieldCheckComplete(g, f) == pcs[g].checked # Fields /\ Answered(g, f) = Fields

SendToAll(m) == toField' = [f \in Fields |-> Append(toField[f], m)]

\* A connection joins with a character.  If the agent has that character, both
\* connections are told to go; otherwise it asks every field to let go of it.
\* The worker may close the connection before its Gaea id is set.
MsgAgentReqJoin(n, c) ==
  /\ conns[n].st = "lobby"
  /\ LET here == {g \in Gaeas : pcs[g] # None /\ pcs[g].char = c} IN
     \/ \E g \in here :
          /\ pcs' = [pcs EXCEPT ![g] = None]
          /\ free' = Append(free, g)
          /\ SendToAll([kind |-> "FORCED", char |-> c])
          /\ conns' = [conns EXCEPT ![n].st = "refused"]
     \/ /\ here = {} /\ free = <<>>
        /\ conns' = [conns EXCEPT ![n].st = "refused"]
        /\ UNCHANGED <<pcs, free, toField>>
     \/ /\ here = {} /\ free # <<>>
        /\ pcs' = [pcs EXCEPT ![Head(free)] =
             [char |-> c, conn |-> n, checked |-> {}, cur |-> None, next |-> None]]
        /\ free' = Tail(free)
        /\ SendToAll([kind |-> "CHARCHK", char |-> c, gaea |-> Head(free)])
        /\ \/ conns' = [conns EXCEPT ![n].st = "in", ![n].gaea = Head(free)]
           \/ conns' = [conns EXCEPT ![n].st = "closed"]
  /\ UNCHANGED <<reserved, fieldVars, toSlot, loaded, answers, outs, db, newest>>

\* The slots of the fields with the link of connection n closed.
Unlinked(n) ==
  [f \in Fields |-> [slot[f] EXCEPT ![n].st = IF @ = "open" THEN "closing" ELSE @]]

\* ConnectFieldSvr: close the link of connection n, open one to f, and send
\* the character at Gaea id g there.  Whether n is still on line is not asked.
Connect(n, f, g) ==
  /\ slot[f][n] = NoSlot
  /\ conns' = [conns EXCEPT ![n].link = [field |-> f, gaea |-> g]]
  /\ slot' = [Unlinked(n) EXCEPT ![f][n].st = "open"]
  /\ toSlot' = [toSlot EXCEPT ![f][n] =
       Append(@, [kind |-> "JOIN", char |-> pcs[g].char, gaea |-> g])]

\* The new link cannot be opened.
ConnectFails(n) ==
  /\ conns' = [conns EXCEPT ![n].link = None]
  /\ slot' = Unlinked(n)
  /\ UNCHANGED toSlot

\* A field has let go of a character; the last one to answer makes it join the
\* field h of its map.
MsgReqFieldSvrCharChkFb(f) ==
  /\ answers[f] # <<>>
  /\ answers' = [answers EXCEPT ![f] = Tail(@)]
  /\ LET g == Head(answers[f]) IN
     \/ /\ pcs[g] = None
        /\ UNCHANGED <<pcs, conns, slot, toSlot>>
     \/ /\ pcs[g] # None
        /\ ~IsFieldCheckComplete(g, f)
        /\ pcs' = [pcs EXCEPT ![g].checked = Answered(g, f)]
        /\ UNCHANGED <<conns, slot, toSlot>>
     \/ /\ pcs[g] # None
        /\ IsFieldCheckComplete(g, f)
        /\ \/ \E h \in Fields :
                /\ pcs' = [pcs EXCEPT ![g].checked = Answered(g, f), ![g].cur = h]
                /\ Connect(pcs[g].conn, h, g)
           \/ /\ pcs' = [pcs EXCEPT ![g].checked = Answered(g, f)]
              /\ ConnectFails(pcs[g].conn)
  /\ UNCHANGED <<free, reserved, live, saving, drops, jobs, toField, loaded, outs,
                 db, newest>>

\* A client in play passes a gate to a map of field f.  It asks once
\* (EM_REQ_GATEOUT).
MsgReqGateOut(n, f) ==
  /\ conns[n].st = "in" /\ pcs[conns[n].gaea] # None
  /\ LET g == conns[n].gaea
         p == pcs[g]
         l == conns[p.conn].link IN
     /\ p.cur \notin {None, f} /\ p.next = None
     /\ PlacesOf(p.cur, n) # {}
     /\ slot[f][p.conn] = NoSlot
     /\ pcs' = [pcs EXCEPT ![g].next = f]
     /\ toSlot' = IF l # None /\ Open(slot[l.field][p.conn])
                  THEN [toSlot EXCEPT ![l.field][p.conn] = Append(@, [kind |-> "OUT"])]
                  ELSE toSlot
  /\ UNCHANGED <<free, reserved, conns, fieldVars, toField, loaded, answers, outs,
                 db, newest>>

\* The field it leaves has saved it: on to the next.
MsgFieldSvrOutFb(f, n) ==
  /\ <<f, n>> \in outs
  /\ outs' = outs \ {<<f, n>>}
  /\ LET l == conns[n].link
         next == IF l = None THEN None
                 ELSE IF pcs[l.gaea] = None THEN None ELSE pcs[l.gaea].next IN
     \/ /\ next = None
        /\ UNCHANGED <<pcs, conns, slot, toSlot>>
     \/ /\ next # None
        /\ Connect(n, next, l.gaea)
        /\ pcs' = [pcs EXCEPT ![l.gaea].cur = next, ![l.gaea].next = None]
     \/ /\ next # None
        /\ ConnectFails(n)
        /\ UNCHANGED pcs
  /\ UNCHANGED <<free, reserved, live, saving, drops, jobs, toField, loaded, answers,
                 db, newest>>

\* A worker closes a client's connection, and its link with it.
CloseClient(n) ==
  /\ conns[n].st \in {"in", "refused"}
  /\ conns' = [conns EXCEPT ![n] = [st |-> "closed", gaea |-> None, link |-> None]]
  /\ reserved' = IF conns[n].gaea = None THEN reserved ELSE Append(reserved, conns[n].gaea)
  /\ slot' = Unlinked(n)
  /\ UNCHANGED <<pcs, free, live, saving, drops, jobs, wires, db, newest>>

\* GLAgentServer::ClearReservedDropOutPC, once a frame
AgentFrame ==
  /\ reserved # <<>>
  /\ reserved' = <<>>
  /\ free' = free \o Returned
  /\ pcs' = [g \in Gaeas |-> IF g \in ToSet(reserved) THEN None ELSE pcs[g]]
  /\ UNCHANGED <<conns, fieldVars, wires, db, newest>>
-----------------------------------------------------------------------------
(* A field                                                                   *)

\* ReserveDropOutPC: the character at g will leave at the next frame, and then
\* connection n, if there is one, hears of it.
ReserveDropOutPC(f, g, n) ==
  IF g = None \/ live[f][g] = None
  THEN UNCHANGED <<saving, drops>>
  ELSE /\ saving' = [saving EXCEPT ![f] = @ \cup {live[f][g].char}]
       /\ drops' = [drops EXCEPT ![f] =
            Append(@, [gaea |-> g, char |-> live[f][g].char, out |-> n])]

\* The saves of characters that are told to leave at once.
\* WRONG: takes a save under way for the last one.
EvictSavesOnce(f, s) ==
  SetToSeq({Save(f, g) : g \in {h \in s : live[f][h].char \notin saving[f]}})

EvictSaves(f, s) == SetToSeq({Save(f, g) : g \in s})

\* The jobs for a character that leaves at a frame: its save, and then the
\* message that it has left.
\* WRONG: tells before it saves.
DropJobsFirstOut(f, d) ==
  (IF d.out = None THEN <<>> ELSE <<Out(d.out)>>) \o <<Save(f, d.gaea)>>

\* WRONG: the next field will save it.
DropJobsNoSave(f, d) == IF d.out = None THEN <<Save(f, d.gaea)>> ELSE <<Out(d.out)>>

DropJobs(f, d) ==
  <<Save(f, d.gaea)>> \o (IF d.out = None THEN <<>> ELSE <<Out(d.out)>>)

\* CreatePC accepts what was loaded for a slot: the slot is that user's and has
\* a Gaea id, the user is not marked as being saved, id and name are not taken.
\* WRONG: no look at the names in play.
MayCreateNamesake(f, m) ==
  /\ slot[f][m.conn].char = m.char /\ slot[f][m.conn].gaea # None
  /\ m.char \notin saving[f]
  /\ live[f][slot[f][m.conn].gaea] = None

MayCreate(f, m) ==
  /\ slot[f][m.conn].char = m.char /\ slot[f][m.conn].gaea # None
  /\ m.char \notin saving[f]
  /\ live[f][slot[f][m.conn].gaea] = None
  /\ Places(f, m.char) = {}

\* The agent asks to let go of a character: whoever has its name or its Gaea id
\* is saved and leaves at once.  The answer waits behind the saves if there was
\* anybody, or the user is marked as being saved.
RequestFieldSvrCharChk(f) ==
  /\ toField[f] # <<>> /\ Head(toField[f]).kind = "CHARCHK"
  /\ LET m == Head(toField[f])
         named == Places(f, m.char)
         there == named \cup {g \in {m.gaea} : live[f][g] # None}
         saves == EvictSaves(f, named) \o EvictSaves(f, there \ named) IN
     /\ saving' = [saving EXCEPT ![f] = @ \cup {live[f][g].char : g \in there}]
     /\ live' = [live EXCEPT ![f] = [g \in Gaeas |-> IF g \in there THEN None ELSE @[g]]]
     /\ IF there # {} \/ m.char \in saving[f]
        THEN /\ jobs' = [jobs EXCEPT ![f] = @ \o Append(saves, Answer(m.gaea))]
             /\ UNCHANGED answers
        ELSE /\ answers' = [answers EXCEPT ![f] = Append(@, m.gaea)]
             /\ UNCHANGED jobs
  /\ toField' = [toField EXCEPT ![f] = Tail(@)]
  /\ UNCHANGED <<agentVars, slot, drops, toSlot, loaded, outs, db, newest>>

ServerCtrlCharDropOutForced(f) ==
  /\ toField[f] # <<>> /\ Head(toField[f]).kind = "FORCED"
  /\ \/ \E g \in Places(f, Head(toField[f]).char) : ReserveDropOutPC(f, g, None)
     \/ Places(f, Head(toField[f]).char) = {} /\ UNCHANGED <<saving, drops>>
  /\ toField' = [toField EXCEPT ![f] = Tail(@)]
  /\ UNCHANGED <<agentVars, live, slot, jobs, toSlot, loaded, answers, outs, db, newest>>

\* The agent sends a character: load it.  A slot that has closed takes it too.
MsgGameJoinChar(f, n) ==
  /\ toSlot[f][n] # <<>> /\ Head(toSlot[f][n]).kind = "JOIN"
  /\ LET m == Head(toSlot[f][n]) IN
     /\ slot' = [slot EXCEPT ![f][n].char = m.char, ![f][n].gaea = m.gaea]
     /\ jobs' = [jobs EXCEPT ![f] = Append(@, Load(m.char, n))]
  /\ toSlot' = [toSlot EXCEPT ![f][n] = Tail(@)]
  /\ UNCHANGED <<agentVars, live, saving, drops, toField, loaded, answers, outs, db, newest>>

\* The character leaves for another field.
RequestFieldSvrOut(f, n) ==
  /\ toSlot[f][n] # <<>> /\ Head(toSlot[f][n]).kind = "OUT"
  /\ LET g == slot[f][n].gaea IN
     IF g \in PlacesOf(f, n)
     THEN /\ slot' = [slot EXCEPT ![f][n].gaea = None]
          /\ ReserveDropOutPC(f, g, n)
     ELSE UNCHANGED <<slot, saving, drops>>
  /\ toSlot' = [toSlot EXCEPT ![f][n] = Tail(@)]
  /\ UNCHANGED <<agentVars, live, jobs, toField, loaded, answers, outs, db, newest>>

\* A character has been loaded for the slot of connection n: CreatePC, unless
\* n already plays; then the one it plays leaves.
MsgFieldReqJoin(f) ==
  /\ loaded[f] # <<>>
  /\ LET m == Head(loaded[f])
         n == m.conn
         g == slot[f][n].gaea IN
     \/ /\ ~MayCreate(f, m)
        /\ UNCHANGED <<live, saving, drops>>
     \/ /\ MayCreate(f, m) /\ PlacesOf(f, n) = {}
        /\ live' = [live EXCEPT ![f][g] = [char |-> m.char, conn |-> n, ver |-> m.ver]]
        /\ UNCHANGED <<saving, drops>>
     \/ /\ MayCreate(f, m)
        /\ \E h \in PlacesOf(f, n) : ReserveDropOutPC(f, h, None)
        /\ UNCHANGED live
  /\ loaded' = [loaded EXCEPT ![f] = Tail(@)]
  /\ UNCHANGED <<agentVars, slot, jobs, toField, toSlot, answers, outs, db, newest>>

\* Playing changes the state of a character.
Play(f, g) ==
  /\ live[f][g] # None
  /\ LET c == live[f][g].char IN
     /\ newest[c] < MaxPlay
     /\ live' = [live EXCEPT ![f][g].ver = newest[c] + 1]
     /\ newest' = [newest EXCEPT ![c] = @ + 1]
  /\ UNCHANGED <<agentVars, slot, saving, drops, jobs, wires, db>>

\* The periodic save of a character in play
SaveCharDB(f, g) ==
  /\ live[f][g] # None
  /\ Len(jobs[f]) < MaxJobs
  /\ saving' = [saving EXCEPT ![f] = @ \cup {live[f][g].char}]
  /\ jobs' = [jobs EXCEPT ![f] = Append(@, Save(f, g))]
  /\ UNCHANGED <<agentVars, live, slot, drops, wires, db, newest>>

\* A worker finds the connection of a slot closed: by the agent, or by the
\* client once it plays here.
FieldCloseClient(f, n) ==
  /\ \/ slot[f][n].st = "closing"
     \/ Open(slot[f][n]) /\ PlacesOf(f, n) # {}
  /\ ReserveDropOutPC(f, slot[f][n].gaea, None)
  /\ slot' = [slot EXCEPT ![f][n] = [st |-> "closed", char |-> None, gaea |-> None]]
  /\ UNCHANGED <<agentVars, live, jobs, wires, db, newest>>

\* ClearReservedDropOutPC, in every frame: who is still there is saved and
\* leaves; for the others the mark is taken back.
FrameMove(f) ==
  LET d == drops[f]
      leaving == {i \in DOMAIN d : /\ live[f][d[i].gaea] # None
                                   /\ \A j \in 1..(i - 1) : d[j].gaea # d[i].gaea} IN
  /\ d # <<>>
  /\ drops' = [drops EXCEPT ![f] = <<>>]
  /\ live' = [live EXCEPT ![f] =
       [g \in Gaeas |-> IF \E i \in DOMAIN d : d[i].gaea = g THEN None ELSE @[g]]]
  /\ jobs' = [jobs EXCEPT ![f] = @ \o FlattenSeq([i \in DOMAIN d |->
       IF i \in leaving THEN DropJobs(f, d[i]) ELSE <<>>])]
  /\ saving' = [saving EXCEPT ![f] = @ \ {d[i].char : i \in DOMAIN d \ leaving}]
  /\ UNCHANGED <<agentVars, slot, wires, db, newest>>
-----------------------------------------------------------------------------
(* The database thread of a field takes its jobs in order.                   *)

Job(f, op) == jobs[f] # <<>> /\ Head(jobs[f]).op = op
Done(f)    == jobs' = [jobs EXCEPT ![f] = Tail(@)]

\* The result of SaveCharacter is not looked at.
ExecuteSave(f) ==
  /\ Job(f, "SAVE") /\ Done(f)
  /\ LET j == Head(jobs[f]) IN
     /\ db' \in {[db EXCEPT ![j.char] = j.ver], db}
     /\ saving' = [saving EXCEPT ![f] = @ \ {j.char}]
  /\ UNCHANGED <<agentVars, live, slot, drops, wires, newest>>

\* When the database fails to answer, nobody joins.
ExecuteLoad(f) ==
  /\ Job(f, "LOAD") /\ Done(f)
  /\ \/ LET j == Head(jobs[f]) IN
        loaded' = [loaded EXCEPT ![f] =
          Append(@, [char |-> j.char, ver |-> db[j.char], conn |-> j.conn])]
     \/ UNCHANGED loaded
  /\ UNCHANGED <<agentVars, live, slot, saving, drops, toField, toSlot, answers, outs,
                 db, newest>>

ExecuteToAgent(f) ==
  /\ \/ /\ Job(f, "ANSWER")
        /\ answers' = [answers EXCEPT ![f] = Append(@, Head(jobs[f]).gaea)]
        /\ UNCHANGED outs
     \/ /\ Job(f, "OUT")
        /\ outs' = LET n == Head(jobs[f]).conn IN
                   IF Open(slot[f][n]) THEN outs \cup {<<f, n>>} ELSE outs
        /\ UNCHANGED answers
  /\ Done(f)
  /\ UNCHANGED <<agentVars, live, slot, saving, drops, toField, toSlot, loaded,
                 db, newest>>
-----------------------------------------------------------------------------
AgentNext ==
  \/ \E n \in Conns, c \in Chars : MsgAgentReqJoin(n, c)
  \/ \E f \in Fields : MsgReqFieldSvrCharChkFb(f)
  \/ \E n \in Conns, f \in Fields : MsgReqGateOut(n, f) \/ MsgFieldSvrOutFb(f, n)
  \/ \E n \in Conns : CloseClient(n)
  \/ AgentFrame

\* What a field does by itself: its messages, its frames, its jobs.
FieldServes(f) ==
  \/ RequestFieldSvrCharChk(f) \/ ServerCtrlCharDropOutForced(f)
  \/ \E n \in Conns : MsgGameJoinChar(f, n) \/ RequestFieldSvrOut(f, n)
  \/ MsgFieldReqJoin(f)

DbNext(f) == ExecuteSave(f) \/ ExecuteLoad(f) \/ ExecuteToAgent(f)

Next ==
  \/ AgentNext
  \/ \E f \in Fields : FieldServes(f) \/ FrameMove(f) \/ DbNext(f)
  \/ \E f \in Fields, n \in Conns : FieldCloseClient(f, n)
  \/ \E f \in Fields, g \in Gaeas : Play(f, g) \/ SaveCharDB(f, g)

Spec == Init /\ [][Next]_vars

Fairness ==
  \A f \in Fields :
    /\ WF_vars(RequestFieldSvrCharChk(f) \/ ServerCtrlCharDropOutForced(f))
    /\ WF_vars(FrameMove(f))
    /\ WF_vars(DbNext(f))
    /\ WF_vars(MsgReqFieldSvrCharChkFb(f))

LiveSpec == Spec /\ Fairness
-----------------------------------------------------------------------------
TypeOK ==
  /\ pcs \in [Gaeas -> JoiningAt \cup {None}]
  /\ free \in SeqOf(Gaeas, Cardinality(Gaeas))
  /\ reserved \in Seq(Gaeas)
  /\ conns \in [Conns -> [st : {"lobby", "refused", "in", "closed"},
       gaea : Gaeas \cup {None}, link : [field : Fields, gaea : Gaeas] \cup {None}]]
  /\ live \in [Fields -> [Gaeas -> PlayedAt \cup {None}]]
  /\ slot \in [Fields -> [Conns -> [st : {"none", "open", "closing", "closed"},
       char : Chars \cup {None}, gaea : Gaeas \cup {None}]]]
  /\ saving \in [Fields -> SUBSET Chars]
  /\ drops \in [Fields ->
       Seq([gaea : Gaeas, char : Chars, out : Conns \cup {None}])]
  /\ loaded \in [Fields -> Seq([char : Chars, ver : 0..MaxPlay, conn : Conns])]
  /\ answers \in [Fields -> Seq(Gaeas)]
  /\ outs \subseteq Fields \X Conns
  /\ db \in [Chars -> 0..MaxPlay] /\ newest \in [Chars -> 0..MaxPlay]

\* A Gaea id of the agent is either free, and then in the list once, or some
\* character's: the paths that give ids back (a closed connection, a second
\* login) never do so twice, and lose none.
IdsKept == \A g \in Gaeas :
  Cardinality({i \in DOMAIN free : free[i] = g}) = IF pcs[g] = None THEN 1 ELSE 0

\* On one field a character lives at most once, and a connection plays at most
\* one, however late a load or a join arrives there.
OnePerField == \A f \in Fields : \A g, h \in Gaeas :
  live[f][g] # None /\ live[f][h] # None /\ g # h =>
    live[f][g].char # live[f][h].char /\ live[f][g].conn # live[f][h].conn

\* The jobs q will save character c in state v, and in no other after that.
SavesLast(q, c, v) == \E i \in DOMAIN q :
  /\ q[i].op = "SAVE" /\ q[i].char = c /\ q[i].ver = v
  /\ \A j \in (i + 1)..Len(q) : q[j].op = "SAVE" => q[j].char # c

\* Whichever way a character leaves a field (closed connection, gate, second
\* login, check by the agent), the last save under way there is of the state in
\* which it left.
LeavesSaved == [][\A f \in Fields, g \in Gaeas :
  live[f][g] # None /\ live'[f][g] = None =>
    SavesLast(jobs'[f], live[f][g].char, live[f][g].ver)]_vars

\* When the agent hears that the character of a connection has left a field, and
\* lets the next field load it, that field has neither the character nor a save
\* of it left.
HandOverSaved == \A f \in Fields, n \in Conns : <<f, n>> \in outs =>
  /\ PlacesOf(f, n) = {}
  /\ \A i \in DOMAIN jobs[f] : jobs[f][i].op = "SAVE" => jobs[f][i].conn # n

\* No user stays marked as being saved, which would keep it out of the field.
SavesFinish == \A f \in Fields, c \in Chars : c \in saving[f] ~> c \notin saving[f]

\* A character that waits for the fields' answers gets them all in the end,
\* unless it leaves: none is lost behind a save or a drop.
ChecksFinish == \A g \in Gaeas :
  pcs[g] # None ~> pcs[g] = None \/ (pcs[g] # None /\ pcs[g].checked = Fields)

\* NOT what the code does: that a field lets go of a character only when no save
\* of it waits.  The set of users being saved (m_reqSaveDBUserID, "the userids
\* for which a save has been requested") forgets a user at the first of its
\* saves, though another may wait.
LetGoSaved == [][\A f \in Fields :
  Len(answers'[f]) > Len(answers[f]) =>
    LET g == Last(answers'[f]) IN pcs[g] # None =>
      \A i \in DOMAIN jobs'[f] : jobs'[f][i].op = "SAVE" => jobs'[f][i].char # pcs[g].char]_vars
=============================================================================
