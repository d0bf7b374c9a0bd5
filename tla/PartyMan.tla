------------------------------ MODULE PartyMan ------------------------------
(***************************************************************************)
(* The agent server's parties: GLPartyMan, its GLPARTY records, and the    *)
(* party handlers of GLAgentServer.                                        *)
(*                                                                         *)
(* The agent's update thread handles the messages of the clients one by    *)
(* one and then runs a frame: it drops the characters whose clients have   *)
(* gone and looks over the parties in the order of their ids.  `turn' is   *)
(* the party the frame looks at next, or Idle between two frames; nothing  *)
(* else of the agent runs during a frame, so that one step per party is    *)
(* what the loop does.                                                     *)
(*                                                                         *)
(* What the agent says goes to the field server and to each client over a  *)
(* connection of its own, in order.  Who reads there is left open here:    *)
(* PartyNet adds the field server and the clients.                         *)
(***************************************************************************)
EXTENDS Integers, Sequences, FiniteSets, Functions

CONSTANTS
  Ids,       \* Gaea ids, the indices of m_PCArray
  Chars,     \* characters of the database
  MaxParty,  \* number of party records
  MAXPARTY,  \* members a party may have
  Nobody, NoId, NoParty

Parties == 0 .. MaxParty - 1
Idle == MaxParty

ASSUME NumberAssumption == MaxParty \in Nat /\ MAXPARTY \in Nat \ {0, 1}
ASSUME NullAssumption == Nobody \notin Chars /\ NoId \notin Ids /\ NoParty \notin Parties
ASSUME IdsAssumption == IsFiniteSet(Ids)

VARIABLES
  who,       \* m_PCArray: the character on line at each id
  pid,       \* m_dwPartyID of the character at each id
  asked,     \* m_mapPartyReq: whom the character at an id may take in
  party,     \* m_pParty
  free,      \* m_FreePartyID
  turn,
  toField,   \* notices under way to the field server
  toClient   \* notices under way to the client at each id

agentVars == <<who, pid, asked, party, free, turn, toField, toClient>>
keepPC == UNCHANGED <<who, turn>>

\* GLPARTY: the members in the order they joined, as who joined before whom.
Party == [master : Ids \cup {NoId}, member : SUBSET Ids, before : SUBSET (Ids \X Ids)]
NoOne == [master |-> NoId, member |-> {}, before |-> {}]

On(g) == g \in Ids /\ who[g] # Nobody
Valid(p) == p \in Parties /\ party[p].master # NoId
IsMaster(p, g) == party[p].master = g
IsFull(p) == Cardinality(party[p].member) = MAXPARTY

\* A party still lists the id g, which its character may have left by now.
\* WRONG: an id is free as soon as its character has gone.
ListedNever(g) == FALSE

Listed(g) == \E p \in Parties : g \in party[p].member \/ party[p].master = g

\* GLPARTY::ADDMEMBER
AddMember(r, g) ==
  IF g \in r.member THEN r
  ELSE [r EXCEPT !.member = @ \cup {g}, !.before = @ \cup (r.member \X {g})]

\* The members of r who are in S, in the same order.
Keep(r, S) == [r EXCEPT !.member = @ \cap S, !.before = @ \cap (S \X S)]

\* f with m put behind what is under way to each of S.
Tell(f, S, m) == [g \in Ids |-> IF g \in S THEN Append(f[g], m) ELSE f[g]]

OnLine(S) == {g \in S : On(g)}

----------------------------------------------------------------------------
(* Notices.                                                                *)

LureTar(a, p) == [type |-> "LURE_TAR", master |-> a, party |-> p]
SearchFB(g) == [type |-> "SEARCH_FB", who |-> g]
FNew(p, a, S) == [type |-> "FNEW", party |-> p, master |-> a, member |-> S]
Add(p, g) == [type |-> "ADD", party |-> p, who |-> g]
Del(p, g) == [type |-> "DEL", party |-> p, who |-> g]
Dissolved(p) == [type |-> "DISSOLVE", party |-> p]
AuthorityTo(p, g) == [type |-> "AUTHORITY", party |-> p, who |-> g]
Renew(p, old, new) == [type |-> "RENEW", party |-> p, old |-> old, new |-> new]

----------------------------------------------------------------------------
(* Invitations.  A character takes in whom it has in m_mapPartyReq: those  *)
(* it invited and those who asked to join.                                 *)

\* MsgPartyLure and MsgPartySearchLure: a character without a party may ask
\* anybody, one with a party as its leader while there is room.
MayTakeIn(a, t) ==
  /\ On(a) /\ On(t)
  /\ pid[t] = NoParty
  /\ \/ pid[a] = NoParty
     \/ Valid(pid[a]) /\ IsMaster(pid[a], a) /\ ~IsFull(pid[a])

MsgPartyLure(a, t) ==
  /\ turn = Idle /\ MayTakeIn(a, t)
  /\ asked' = [asked EXCEPT ![a] = @ \cup {who[t]}]
  /\ toClient' = Tell(toClient, {t}, LureTar(a, pid[a]))
  /\ keepPC /\ UNCHANGED <<pid, party, free, toField>>

\* The leader is shown the request; of one without a party it is only noted.
MsgPartySearchLure(t, a) ==
  /\ turn = Idle /\ MayTakeIn(a, t)
  /\ asked' = [asked EXCEPT ![a] = @ \cup {who[t]}]
  /\ toClient' = IF pid[a] = NoParty THEN toClient
                 ELSE Tell(toClient, {a}, SearchFB(t))
  /\ keepPC /\ UNCHANGED <<pid, party, free, toField>>

Unasked(a, t) == [asked EXCEPT ![a] = @ \ {who[t]}]

\* GLPartyMan::NewParty with its first member.
NewParty(a, t) ==
  LET p == Head(free)
      r == [master |-> a, member |-> {a, t}, before |-> {<<a, t>>}]
  IN /\ free # <<>>
     /\ free' = Tail(free)
     /\ party' = [party EXCEPT ![p] = r]
     /\ pid' = [pid EXCEPT ![a] = p, ![t] = p]
     /\ toField' = Append(toField, FNew(p, a, r.member))

NoNewParty == free = <<>> /\ UNCHANGED <<pid, party, free, toField>>

Join(a, t) ==
  LET p == pid[a]
  IN /\ party' = [party EXCEPT ![p] = AddMember(@, t)]
     /\ pid' = [pid EXCEPT ![t] = p]
     /\ toField' = Append(toField, Add(p, t))
     /\ UNCHANGED free

\* t answers an invitation of a that named party q.  The party t joins is the
\* one a is in by now, whoever leads it.
First(a, q) == q = NoParty /\ pid[a] = NoParty

MayAnswer(a, t, q) ==
  /\ On(a) /\ On(t)
  /\ IF First(a, q) THEN pid[t] = NoParty ELSE Valid(pid[a]) /\ ~IsFull(pid[a])

Accepts(a, t, q) == MayAnswer(a, t, q) /\ pid[t] = NoParty /\ who[t] \in asked[a]

MsgPartyLureTarOk(a, t, q) ==
  /\ turn = Idle /\ Accepts(a, t, q)
  /\ asked' = Unasked(a, t)
  /\ IF First(a, q) THEN NewParty(a, t) \/ NoNewParty ELSE Join(a, t)
  /\ keepPC /\ UNCHANGED toClient

\* A refusal is forgotten, unless it is of a first invitation and came with
\* other options (sOption) than the invitation.
MsgPartyLureTarRefuse(a, t, q) ==
  /\ turn = Idle /\ MayAnswer(a, t, q)
  /\ \/ asked' = Unasked(a, t)
     \/ First(a, q) /\ UNCHANGED asked
  /\ keepPC /\ UNCHANGED <<pid, party, free, toField, toClient>>

\* a answers the request of t to join its party.
MayAnswerSearch(a, t) ==
  /\ On(a) /\ On(t)
  /\ pid[t] = NoParty /\ pid[a] # NoParty
  /\ Valid(pid[a]) /\ ~IsFull(pid[a])

Admits(a, t) == MayAnswerSearch(a, t) /\ who[t] \in asked[a]

MsgPartyLureSearchTarOk(a, t) ==
  /\ turn = Idle /\ Admits(a, t)
  /\ asked' = Unasked(a, t)
  /\ Join(a, t)
  /\ keepPC /\ UNCHANGED toClient

MsgPartyLureSearchTarRefuse(a, t) ==
  /\ turn = Idle /\ MayAnswerSearch(a, t)
  /\ asked' = Unasked(a, t)
  /\ keepPC /\ UNCHANGED <<pid, party, free, toField, toClient>>

----------------------------------------------------------------------------
(* Leaving, handing over and dissolving.                                   *)

\* g has a say about t in p: about itself, or as the leader.
MayCommand(g, p, t) ==
  /\ Valid(p) /\ t \in party[p].member
  /\ t = g \/ IsMaster(p, g)
  /\ On(t)

MsgPartySecede(g, p, t) ==
  /\ turn = Idle /\ MayCommand(g, p, t)
  /\ toClient' = Tell(toClient, OnLine(party[p].member), Del(p, t))
  /\ toField' = Append(toField, Del(p, t))
  /\ pid' = [pid EXCEPT ![t] = NoParty]
  /\ party' = [party EXCEPT ![p] = Keep(@, Ids \ {t})]
  /\ keepPC /\ UNCHANGED <<asked, free>>

MsgPartyAuthority(g, p, t) ==
  /\ turn = Idle /\ MayCommand(g, p, t)
  /\ toClient' = Tell(toClient, OnLine(party[p].member), AuthorityTo(p, t))
  /\ toField' = Append(toField, AuthorityTo(p, t))
  /\ party' = [party EXCEPT ![p].master = t]
  /\ keepPC /\ UNCHANGED <<pid, asked, free>>

\* GLPartyMan::DelParty for a party whose members are S by now, after the
\* notices in field and client.
\* WRONG: the id is not given back.
DelPartyLost(p, S, field, client) ==
  /\ UNCHANGED free
  /\ pid' = [g \in Ids |-> IF g \in OnLine(S) THEN NoParty ELSE pid[g]]
  /\ toClient' = Tell(client, OnLine(S), Dissolved(p))
  /\ toField' = Append(field, Dissolved(p))
  /\ party' = [party EXCEPT ![p] = NoOne]

DelParty(p, S, field, client) ==
  /\ free' = Append(free, p)
  /\ pid' = [g \in Ids |-> IF g \in OnLine(S) THEN NoParty ELSE pid[g]]
  /\ toClient' = Tell(client, OnLine(S), Dissolved(p))
  /\ toField' = Append(field, Dissolved(p))
  /\ party' = [party EXCEPT ![p] = NoOne]

MayDissolve(g, p) == Valid(p) /\ IsMaster(p, g)

MsgPartyDissolve(g, p) ==
  /\ turn = Idle /\ MayDissolve(g, p)
  /\ DelParty(p, party[p].member, toField, toClient)
  /\ keepPC /\ UNCHANGED asked

\* GLPartyMan::DelPartyAll, when the connections to the fields are renewed and
\* `field' of the notices is still under way.  s lists the parties in the order
\* of the loop.
DelPartyAll(s, field) ==
  LET S == {p \in Parties : Valid(p)}
      M == UNION {party[p].member : p \in S}
  IN /\ turn = Idle
     /\ \A p \in S : \E i \in DOMAIN s : s[i] = p
     /\ \A i, j \in DOMAIN s : i < j => s[i] < s[j]
     /\ free' = free \o s
     /\ pid' = [g \in Ids |-> IF g \in OnLine(M) THEN NoParty ELSE pid[g]]
     /\ toClient' = [g \in Ids |-> IF On(g) /\ pid[g] # NoParty /\ g \in M
                                   THEN Append(toClient[g], Dissolved(pid[g])) ELSE toClient[g]]
     /\ toField' = field \o [i \in DOMAIN s |-> Dissolved(s[i])]
     /\ party' = [p \in Parties |-> NoOne]
     /\ keepPC /\ UNCHANGED asked

----------------------------------------------------------------------------
(* Characters come and go.                                                 *)

\* CreatePC.  The list of free Gaea ids is longer than the logins between
\* two frames: no id comes back to use while a party still lists it.
CreatePC(g, c) ==
  /\ turn = Idle
  /\ who[g] = Nobody /\ ~Listed(g)
  /\ \A h \in Ids : who[h] # c
  /\ who' = [who EXCEPT ![g] = c]
  /\ UNCHANGED <<pid, asked, party, free, turn, toField, toClient>>

\* DropOutPC: the character's object is deleted, its parties are not told.
DropOutPC(S) ==
  /\ who' = [g \in Ids |-> IF g \in S THEN Nobody ELSE who[g]]
  /\ pid' = [g \in Ids |-> IF g \in S THEN NoParty ELSE pid[g]]
  /\ asked' = [g \in Ids |-> IF g \in S THEN {} ELSE asked[g]]
  /\ toClient' = [g \in Ids |-> IF g \in S THEN <<>> ELSE toClient[g]]
  /\ UNCHANGED <<party, free, toField>>

\* A second login drops the first one at once, between two frames.
DropTwice(g) ==
  /\ turn = Idle /\ On(g)
  /\ DropOutPC({g})
  /\ UNCHANGED turn

\* FrameMove opens with ClearReservedDropOutPC: the clients of S have gone.
FrameMove(S) ==
  /\ turn = Idle
  /\ S \subseteq OnLine(Ids)
  /\ turn' = 0
  /\ DropOutPC(S)

\* What GLPartyMan::FrameMove does to the party whose turn it is.
NextTurn == turn \in Parties /\ turn' = turn + 1 /\ UNCHANGED <<who, asked>>

FrameNoParty ==
  /\ NextTurn /\ ~Valid(turn)
  /\ UNCHANGED <<pid, party, free, toField, toClient>>

\* The members but a leader who has gone.
Rest(p) == IF On(party[p].master) THEN party[p].member
           ELSE party[p].member \ {party[p].master}

\* The leader has gone and not even two are left.
\* WRONG: the party is passed over.
FrameLeaderlessKept ==
  /\ NextTurn /\ Valid(turn) /\ ~On(party[turn].master)
  /\ Cardinality(Rest(turn)) < 2
  /\ UNCHANGED <<pid, party, free, toField, toClient>>

FrameLeaderless ==
  /\ NextTurn /\ Valid(turn) /\ ~On(party[turn].master)
  /\ Cardinality(Rest(turn)) < 2
  /\ DelParty(turn, Rest(turn), toField, toClient)

\* The leader stays, or the one who joined next becomes the leader.
Leads(p, a) ==
  \/ On(party[p].master) /\ a = party[p].master
  \/ /\ ~On(party[p].master) /\ a \in Rest(p) /\ Cardinality(Rest(p)) >= 2
     /\ \A g \in Rest(p) \ {a} : <<a, g>> \in party[p].before

Gone(p) == {g \in Rest(p) : ~On(g)}

\* The orders of the loops over a set S of parties or members.
Orders(S) == [1 .. Cardinality(S) -> S]

\* A party of S is dissolved.
\* WRONG: only an empty one.
AloneNot(S) == S = {}

Alone(S) == Cardinality(S) = 1

\* Then those who have gone are taken off, in order (s), and everybody told.
FrameParty(a, s) ==
  LET p == turn
      left == OnLine(Rest(p))
      dels == [i \in DOMAIN s |-> Del(p, s[i])]
      field == (IF On(party[p].master) THEN toField
                ELSE Append(toField, Renew(p, party[p].master, a))) \o dels
      client == [g \in Ids |-> IF g \in left THEN toClient[g] \o dels ELSE toClient[g]]
  IN /\ NextTurn /\ Valid(p) /\ Leads(p, a)
     /\ \A g \in Gone(p) : \E i \in DOMAIN s : s[i] = g
     /\ \A i, j \in DOMAIN s : i < j => <<s[i], s[j]>> \in party[p].before
     /\ IF Alone(left)
        THEN DelParty(p, left, field, client)
        ELSE /\ party' = [party EXCEPT ![p] = [Keep(@, left) EXCEPT !.master = a]]
             /\ toField' = field /\ toClient' = client
             /\ UNCHANGED <<pid, free>>

FrameMoveParty ==
  \/ FrameNoParty
  \/ FrameLeaderless
  \/ turn \in Parties /\ \E a \in Ids : \E s \in Orders(Gone(turn)) : FrameParty(a, s)

----------------------------------------------------------------------------
(* The agent starts.                                                       *)

AgentInit ==
  /\ who = [g \in Ids |-> Nobody]
  /\ pid = [g \in Ids |-> NoParty]
  /\ asked = [g \in Ids |-> {}]
  /\ party = [p \in Parties |-> NoOne]
  /\ free = [i \in 1 .. MaxParty |-> i - 1]
  /\ turn = Idle
  /\ toField = <<>>
  /\ toClient = [g \in Ids |-> <<>>]

\* The agent starts anew; what it had sent to the field server still arrives.
Restart ==
  /\ who' = [g \in Ids |-> Nobody]
  /\ pid' = [g \in Ids |-> NoParty]
  /\ asked' = [g \in Ids |-> {}]
  /\ party' = [p \in Parties |-> NoOne]
  /\ free' = [i \in 1 .. MaxParty |-> i - 1]
  /\ turn' = Idle
  /\ toClient' = [g \in Ids |-> <<>>]
  /\ UNCHANGED toField

----------------------------------------------------------------------------
(* Properties.                                                             *)

\* Parties, their ids and the characters' party ids stay within their types,
\* and no party has more than MAXPARTY members.
AgentTypeOK ==
  /\ who \in [Ids -> Chars \cup {Nobody}]
  /\ pid \in [Ids -> Parties \cup {NoParty}]
  /\ asked \in [Ids -> SUBSET Chars]
  /\ party \in [Parties -> Party]
  /\ \A p \in Parties : Cardinality(party[p].member) <= MAXPARTY
  /\ free \in Seq(Parties)
  /\ turn \in 0 .. MaxParty

\* A character on line is a member of the one party whose id it carries, and
\* of no other (m_dwPartyID against m_cMEMBER); who is not, carries none.
OneParty ==
  \A g \in Ids : On(g) => \A p \in Parties : g \in party[p].member <=> pid[g] = p

\* Every party id is either free, once, or that of a valid party
\* (m_FreePartyID): none is lost and none is given out twice.
IdsOnce ==
  /\ \A p \in Parties : Valid(p) <=> p \notin Range(free)
  /\ \A i, j \in DOMAIN free : i # j => free[i] # free[j]
=============================================================================
