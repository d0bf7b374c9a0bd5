------------------------------- MODULE Pickup -------------------------------
(***************************************************************************)
(* Lifting, dropping and exchanging items (GLCharInvenMsg.cpp) seen from   *)
(* both ends: the field server's GLChar owns the hand and the inventory,   *)
(* the client (GLCharacter, GLCharactorReq.cpp) keeps a copy, decides on   *)
(* that copy what to ask for, and repairs it from the server's answers.    *)
(* The connection is two FIFO channels.  Items are 1x1 and do not pile.    *)
(***************************************************************************)
EXTENDS Naturals, SequencesExt

CONSTANTS Items,        \* the items of the scene
          Cells,        \* the cells of the inventory
          None,         \* an empty cell, an empty hand
          MaxRequests,  \* bound: requests on their way to the server
          MaxAnswers    \* bound: answers on their way to the client

ASSUME PickupAssumption ==
  None \notin Items /\ MaxRequests \in Nat \ {0} /\ MaxAnswers \in Nat \ {0}

VARIABLES field,   \* the items on the ground (GLLandMan)
          shown,   \* the items the client still draws on the ground
          server,  \* what the server's GLChar holds
          client,  \* what the client's GLCharacter believes it holds
          up,      \* requests under way, oldest first
          down     \* answers under way, oldest first

vars == <<field, shown, server, client, up, down>>

Views == [hand: Items \cup {None}, bag: [Cells -> Items \cup {None}]]
FieldRequests == [kind: {"FIELD_TO_HOLD", "FIELD_TO_INVEN"}, item: Items]
CellRequests == [kind: {"INVEN_TO_HOLD", "INVEN_EX_HOLD", "HOLD_TO_INVEN"},
                 cell: Cells]
Requests == FieldRequests \cup CellRequests \cup {[kind |-> "HOLD_TO_FIELD"]}
Answers == [kind: {"INVEN_INSERT", "INVEN_DEL_AND_INSERT"}, cell: Cells, item: Items]
             \cup [kind: {"INVEN_DELETE"}, cell: Cells]
             \cup [kind: {"PUTON_UPDATE"}, item: Items]
             \cup {[kind |-> "PUTON_RELEASE"]}

Free(v) == {c \in Cells : v.bag[c] = None}
Carried(v) == (({v.hand} \cup {v.bag[c] : c \in Cells}) \ {None})

-----------------------------------------------------------------------------
(***************************************************************************)
(* The client: what it asks for, and how an answer changes its copy.       *)
(***************************************************************************)
Ask(r) == /\ Len(up) < MaxRequests
          /\ up' = Append(up, r)
          /\ UNCHANGED <<field, shown, server, client, down>>

\* The inventory takes an item that fits; otherwise it goes to the hand.
ReqFieldTo(i) ==
  /\ client.hand = None
  /\ i \in shown
  /\ Ask([kind |-> IF Free(client) = {} THEN "FIELD_TO_HOLD" ELSE "FIELD_TO_INVEN",
          item |-> i])

ReqInvenTo(c) ==
  \/ /\ client.hand # None /\ client.bag[c] # None
     /\ Ask([kind |-> "INVEN_EX_HOLD", cell |-> c])
  \/ /\ client.hand = None /\ client.bag[c] # None
     /\ Ask([kind |-> "INVEN_TO_HOLD", cell |-> c])
  \/ /\ client.hand # None /\ client.bag[c] = None
     /\ Ask([kind |-> "HOLD_TO_INVEN", cell |-> c])

ReqHoldToField == client.hand # None /\ Ask([kind |-> "HOLD_TO_FIELD"])

\* GLInventory::InsertItem leaves an occupied cell as it is.
Applied(v, m) ==
  CASE m.kind = "PUTON_UPDATE"  -> [v EXCEPT !.hand = m.item]
    [] m.kind = "PUTON_RELEASE" -> [v EXCEPT !.hand = None]
    [] m.kind = "INVEN_DELETE"  -> [v EXCEPT !.bag[m.cell] = None]
    [] m.kind = "INVEN_DEL_AND_INSERT" -> [v EXCEPT !.bag[m.cell] = m.item]
    [] m.kind = "INVEN_INSERT"  ->
         [v EXCEPT !.bag[m.cell] = IF @ = None THEN m.item ELSE @]

MsgProcess == /\ down # <<>>
              /\ client' = Applied(client, Head(down))
              /\ down' = Tail(down)
              /\ UNCHANGED <<field, shown, server, up>>

\* What the client draws on the ground follows what lies there, some time later.
Redraw == /\ shown' = field
          /\ UNCHANGED <<field, server, client, up, down>>

-----------------------------------------------------------------------------
(***************************************************************************)
(* The server: one operator per request handler.                           *)
(***************************************************************************)
Serving(kind) == /\ up # <<>> /\ Head(up).kind = kind
                 /\ Len(down) + 2 <= MaxAnswers
                 /\ up' = Tail(up)
                 /\ UNCHANGED <<shown, client>>

\* DropOutItem: the item leaves the ground.
DropOutItem(i) == field' = field \ {i}

MsgReqFieldToHold ==
  /\ Serving("FIELD_TO_HOLD")
  /\ LET i == Head(up).item IN
       /\ i \in field
       /\ server' = [server EXCEPT !.hand = i]
       /\ down' = Append(down, [kind |-> "PUTON_UPDATE", item |-> i])
       /\ DropOutItem(i)

MsgReqFieldToInven ==
  /\ Serving("FIELD_TO_INVEN")
  /\ LET i == Head(up).item IN
       /\ i \in field
       /\ \E c \in Free(server) :
            /\ server' = [server EXCEPT !.bag[c] = i]
            /\ down' = Append(down, [kind |-> "INVEN_INSERT", cell |-> c, item |-> i])
       /\ DropOutItem(i)

\* A plausible slip: the test of the hand is dropped.
MsgReqInvenToHoldAnyway ==
  /\ Serving("INVEN_TO_HOLD")
  /\ LET c == Head(up).cell
         i == server.bag[c] IN
       /\ i # None
       /\ server' = [hand |-> i, bag |-> [server.bag EXCEPT ![c] = None]]
       /\ down' = down \o <<[kind |-> "INVEN_DELETE", cell |-> c],
                            [kind |-> "PUTON_UPDATE", item |-> i]>>
  /\ UNCHANGED field

MsgReqInvenToHold ==
  /\ Serving("INVEN_TO_HOLD")
  /\ LET c == Head(up).cell
         i == server.bag[c] IN
       /\ i # None
       /\ server.hand = None
       /\ server' = [hand |-> i, bag |-> [server.bag EXCEPT ![c] = None]]
       /\ down' = down \o <<[kind |-> "INVEN_DELETE", cell |-> c],
                            [kind |-> "PUTON_UPDATE", item |-> i]>>
  /\ UNCHANGED field

\* A plausible slip: the answer was filled in before the items changed places.
MsgReqInvenExHoldStale ==
  /\ Serving("INVEN_EX_HOLD")
  /\ LET c == Head(up).cell IN
       /\ server.hand # None /\ server.bag[c] # None
       /\ server' = [hand |-> server.bag[c],
                     bag  |-> [server.bag EXCEPT ![c] = server.hand]]
       /\ down' = down \o <<[kind |-> "INVEN_DEL_AND_INSERT", cell |-> c,
                             item |-> server.bag[c]],
                            [kind |-> "PUTON_UPDATE", item |-> server.bag[c]]>>
  /\ UNCHANGED field

MsgReqInvenExHold ==
  /\ Serving("INVEN_EX_HOLD")
  /\ LET c == Head(up).cell IN
       /\ server.hand # None /\ server.bag[c] # None
       /\ server' = [hand |-> server.bag[c],
                     bag  |-> [server.bag EXCEPT ![c] = server.hand]]
       /\ down' = down \o <<[kind |-> "INVEN_DEL_AND_INSERT", cell |-> c,
                             item |-> server.hand],
                            [kind |-> "PUTON_UPDATE", item |-> server.bag[c]]>>
  /\ UNCHANGED field

\* A plausible slip: the test that the hand holds an item is dropped.
MsgReqHoldToInvenAnyway ==
  /\ Serving("HOLD_TO_INVEN")
  /\ LET c == Head(up).cell IN
       /\ server.bag[c] = None
       /\ server' = [hand |-> None, bag |-> [server.bag EXCEPT ![c] = server.hand]]
       /\ down' = down \o <<[kind |-> "INVEN_INSERT", cell |-> c, item |-> server.hand],
                            [kind |-> "PUTON_RELEASE"]>>
  /\ UNCHANGED field

MsgReqHoldToInven ==
  /\ Serving("HOLD_TO_INVEN")
  /\ LET c == Head(up).cell IN
       /\ server.hand # None
       /\ server.bag[c] = None
       /\ server' = [hand |-> None, bag |-> [server.bag EXCEPT ![c] = server.hand]]
       /\ down' = down \o <<[kind |-> "INVEN_INSERT", cell |-> c, item |-> server.hand],
                            [kind |-> "PUTON_RELEASE"]>>
  /\ UNCHANGED field

\* A plausible slip: the hand keeps the item that now lies on the ground.
MsgReqHoldToFieldKept ==
  /\ Serving("HOLD_TO_FIELD")
  /\ server.hand # None
  /\ field' = field \cup {server.hand}
  /\ down' = Append(down, [kind |-> "PUTON_RELEASE"])
  /\ UNCHANGED server

MsgReqHoldToField ==
  /\ Serving("HOLD_TO_FIELD")
  /\ server.hand # None
  /\ field' = field \cup {server.hand}
  /\ server' = [server EXCEPT !.hand = None]
  /\ down' = Append(down, [kind |-> "PUTON_RELEASE"])

\* Every handler has reasons of its own to refuse: the item is gone or reserved,
\* the inventory is locked or full, a trade runs, the spot is no ground.  The
\* answer, if there is one, is a text that changes nothing.
Refuse == /\ up # <<>>
          /\ up' = Tail(up)
          /\ UNCHANGED <<field, shown, server, client, down>>

\* Another character takes the item, or its time on the ground is over.
Vanish(i) == /\ i \in field
             /\ DropOutItem(i)
             /\ UNCHANGED <<shown, server, client, up, down>>

-----------------------------------------------------------------------------
\* The character has entered the map with a full or partly filled inventory and
\* the client has been told so.
Init ==
  /\ server \in {v \in Views : /\ v.hand = None
                               /\ \A c, d \in Cells : c # d /\ v.bag[c] # None =>
                                                        v.bag[c] # v.bag[d]}
  /\ client = server
  /\ field = Items \ Carried(server)
  /\ shown = field
  /\ up = <<>> /\ down = <<>>

Next == \/ \E i \in Items : ReqFieldTo(i) \/ Vanish(i)
        \/ \E c \in Cells : ReqInvenTo(c)
        \/ ReqHoldToField \/ MsgProcess \/ Redraw
        \/ MsgReqFieldToHold \/ MsgReqFieldToInven
        \/ MsgReqInvenToHold \/ MsgReqInvenExHold
        \/ MsgReqHoldToInven \/ MsgReqHoldToField
        \/ Refuse

Spec == Init /\ [][Next]_vars

-----------------------------------------------------------------------------
\* The hands, inventories, requests and answers are what the code can hold and
\* send: no request is served on an empty hand (an answer that names no item).
TypeOK == /\ field \in SUBSET Items /\ shown \in SUBSET Items
          /\ server \in Views /\ client \in Views
          /\ up \in Seq(Requests) /\ Len(up) <= MaxRequests
          /\ down \in Seq(Answers) /\ Len(down) <= MaxAnswers

\* The client's copy with the answers under way applied, in their order, is the
\* server's: whatever the client asked for on a stale copy, and whatever was
\* refused, its view never drifts from GLChar's.
ViewCatchesUp == FoldLeft(Applied, client, down) = server

\* No item is in two places of the server: two cells, the hand, the ground.
NoDuplicates ==
  /\ Carried(server) \cap field = {}
  /\ \A c \in Cells : server.bag[c] # None =>
       /\ server.bag[c] # server.hand
       /\ \A d \in Cells \ {c} : server.bag[d] # server.bag[c]

\* A character parts with an item only by laying it on the ground, or by lifting
\* an item from the ground while holding it (MsgReqFieldToHold overwrites the
\* hand): no other request, however late it comes, makes an item disappear.
LostOnlyByLifting ==
  [][\A i \in Carried(server) \ Carried(server') :
       i \in field' \/ (i = server.hand /\ server'.hand \in field)]_vars

\* What the comment above MsgReqFieldToHold takes for granted: an item is lifted
\* from the ground into an empty hand.
LiftedIntoEmptyHand ==
  [][\A i \in field : server'.hand = i => server.hand = None]_vars
=============================================================================
