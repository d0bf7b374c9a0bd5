---------------------------- MODULE PickupProofs ----------------------------
(***************************************************************************)
(* What holds of Pickup for any items, any inventory and any bounds: the   *)
(* types, that no item is in two places of the server, that an item is     *)
(* lost only by lifting another one with a full hand, and that the copy of *)
(* the client is the server's once the answers under way have come.        *)
(***************************************************************************)
EXTENDS Pickup, FoldLemmas, TLAPS

\* The inductive invariant: where an item is decides what a request may do, so
\* the types and the uniqueness of items are carried along together.
IInv == TypeOK /\ NoDuplicates

-----------------------------------------------------------------------------
\* Applying a well-formed answer to a view gives a view (GLCharacter::MsgProcess).
LEMMA AppliedType == ASSUME NEW v \in Views, NEW m \in Answers
                     PROVE  Applied(v, m) \in Views
<1> DEFINE w == Applied(v, m)
<1>1. CASE m.kind = "PUTON_UPDATE"
  <2>1. m.item \in Items  BY <1>1 DEF Answers
  <2>2. w = [v EXCEPT !.hand = m.item]  BY <1>1 DEF Applied
  <2> QED  BY <2>1, <2>2 DEF Views
<1>2. CASE m.kind = "PUTON_RELEASE"
  <2>1. w = [v EXCEPT !.hand = None]  BY <1>2 DEF Applied
  <2> QED  BY <2>1 DEF Views
<1>3. CASE m.kind = "INVEN_DELETE"
  <2>1. w = [v EXCEPT !.bag[m.cell] = None]  BY <1>3 DEF Applied
  <2> QED  BY <2>1 DEF Views
<1>4. CASE m.kind = "INVEN_DEL_AND_INSERT"
  <2>1. m.item \in Items  BY <1>4 DEF Answers
  <2>2. w = [v EXCEPT !.bag[m.cell] = m.item]  BY <1>4 DEF Applied
  <2> QED  BY <2>1, <2>2 DEF Views
<1>5. CASE m.kind = "INVEN_INSERT"
  <2>1. m.item \in Items  BY <1>5 DEF Answers
  <2>2. w = [v EXCEPT !.bag[m.cell] = IF @ = None THEN m.item ELSE @]
    BY <1>5 DEF Applied
  <2> QED  BY <2>1, <2>2 DEF Views
<1> QED  BY <1>1, <1>2, <1>3, <1>4, <1>5 DEF Answers

\* Asking, applying an answer and redrawing leave the server alone.
LEMMA ClientIInv ==
  ASSUME IInv,
         \/ \E i \in Items : ReqFieldTo(i) \/ Vanish(i)
         \/ \E c \in Cells : ReqInvenTo(c)
         \/ ReqHoldToField \/ MsgProcess \/ Redraw \/ Refuse
  PROVE  IInv'
<1> USE PickupAssumption
<1>1. ASSUME NEW r \in Requests, Ask(r) PROVE IInv'
  BY <1>1 DEF IInv, TypeOK, NoDuplicates, Carried, Ask
<1>2. ASSUME NEW i \in Items, ReqFieldTo(i) PROVE IInv'
  BY <1>1, <1>2 DEF ReqFieldTo, Requests, FieldRequests
<1>3. ASSUME NEW c \in Cells, ReqInvenTo(c) PROVE IInv'
  BY <1>1, <1>3 DEF ReqInvenTo, Requests, CellRequests
<1>4. CASE ReqHoldToField
  BY <1>1, <1>4 DEF ReqHoldToField, Requests
<1>5. CASE MsgProcess
  <2>1. Head(down) \in Answers /\ Tail(down) \in Seq(Answers) /\ Len(Tail(down)) <= MaxAnswers
    BY <1>5 DEF IInv, TypeOK, MsgProcess
  <2>2. client' \in Views
    BY <1>5, <2>1, AppliedType DEF IInv, TypeOK, MsgProcess
  <2> QED  BY <1>5, <2>1, <2>2 DEF IInv, TypeOK, NoDuplicates, Carried, MsgProcess
<1>6. CASE Redraw
  BY <1>6 DEF IInv, TypeOK, NoDuplicates, Carried, Redraw
<1>7. CASE Refuse
  BY <1>7 DEF IInv, TypeOK, NoDuplicates, Carried, Refuse
<1>8. ASSUME NEW i \in Items, Vanish(i) PROVE IInv'
  BY <1>8 DEF IInv, TypeOK, NoDuplicates, Carried, Vanish, DropOutItem
<1> QED  BY <1>2, <1>3, <1>4, <1>5, <1>6, <1>7, <1>8

\* Each request handler keeps the invariant.
LEMMA ServerIInv ==
  ASSUME IInv,
         \/ MsgReqFieldToHold \/ MsgReqFieldToInven \/ MsgReqInvenToHold
         \/ MsgReqInvenExHold \/ MsgReqHoldToInven \/ MsgReqHoldToField
  PROVE  IInv'
<1> USE PickupAssumption
<1>1. ASSUME NEW kind, Serving(kind)
      PROVE  /\ Head(up) \in Requests /\ Head(up).kind = kind
             /\ up' \in Seq(Requests) /\ Len(up') <= MaxRequests
             /\ shown' \in SUBSET Items /\ client' \in Views
             /\ Len(down) + 2 <= MaxAnswers
  BY <1>1 DEF IInv, TypeOK, Serving
<1>2. ASSUME NEW a \in Answers, Len(down) + 2 <= MaxAnswers
      PROVE  Append(down, a) \in Seq(Answers) /\ Len(Append(down, a)) <= MaxAnswers
  BY <1>2 DEF IInv, TypeOK
<1>3. ASSUME NEW a \in Answers, NEW b \in Answers, Len(down) + 2 <= MaxAnswers
      PROVE  down \o <<a, b>> \in Seq(Answers) /\ Len(down \o <<a, b>>) <= MaxAnswers
  BY <1>3 DEF IInv, TypeOK
<1>4. ASSUME field' \in SUBSET Items, server' \in Views,
             down' \in Seq(Answers), Len(down') <= MaxAnswers,
             NEW kind, Serving(kind), NoDuplicates'
      PROVE  IInv'
  BY <1>1, <1>4 DEF IInv, TypeOK
<1>5. server \in Views /\ field \in SUBSET Items /\ NoDuplicates
  BY DEF IInv, TypeOK
<1>6. CASE MsgReqFieldToHold
  <2> DEFINE i == Head(up).item
  <2>1. Serving("FIELD_TO_HOLD") /\ i \in field /\ i \in Items
    BY <1>1, <1>5, <1>6 DEF MsgReqFieldToHold
  <2>2. server' = [server EXCEPT !.hand = i] /\ field' = field \ {i}
    BY <1>6 DEF MsgReqFieldToHold, DropOutItem
  <2>3. down' = Append(down, [kind |-> "PUTON_UPDATE", item |-> i])
    BY <1>6 DEF MsgReqFieldToHold
  <2>4. [kind |-> "PUTON_UPDATE", item |-> i] \in Answers  BY <2>1 DEF Answers
  <2> HIDE DEF i
  <2>5. server'.hand = i /\ server'.bag = server.bag /\ server' \in Views
    BY <1>5, <2>1, <2>2 DEF Views
  <2>6. NoDuplicates'
    BY <1>5, <2>1, <2>2, <2>5 DEF NoDuplicates, Carried
  <2>7. down' \in Seq(Answers) /\ Len(down') <= MaxAnswers
    BY <1>1, <1>2, <2>1, <2>3, <2>4
  <2> QED  BY <1>4, <1>5, <2>1, <2>2, <2>5, <2>6, <2>7
<1>7. CASE MsgReqFieldToInven
  <2> DEFINE i == Head(up).item
  <2>1. Serving("FIELD_TO_INVEN") /\ i \in field /\ i \in Items
    BY <1>1, <1>5, <1>7 DEF MsgReqFieldToInven
  <2>2. PICK c \in Free(server) :
           /\ server' = [server EXCEPT !.bag[c] = i]
           /\ down' = Append(down, [kind |-> "INVEN_INSERT", cell |-> c, item |-> i])
    BY <1>7 DEF MsgReqFieldToInven
  <2>3. field' = field \ {i}
    BY <1>7 DEF MsgReqFieldToInven, DropOutItem
  <2>4. c \in Cells /\ server.bag[c] = None  BY <2>2 DEF Free
  <2>5. [kind |-> "INVEN_INSERT", cell |-> c, item |-> i] \in Answers
    BY <2>1, <2>4 DEF Answers
  <2> HIDE DEF i
  <2>6. server'.hand = server.hand /\ server' \in Views
    BY <1>5, <2>1, <2>2, <2>4 DEF Views
  <2>7. \A d \in Cells : server'.bag[d] = IF d = c THEN i ELSE server.bag[d]
    BY <1>5, <2>2, <2>4 DEF Views
  <2>8. NoDuplicates'
    BY <1>5, <2>1, <2>3, <2>4, <2>6, <2>7 DEF NoDuplicates, Carried
  <2>9. down' \in Seq(Answers) /\ Len(down') <= MaxAnswers
    BY <1>1, <1>2, <2>1, <2>2, <2>5
  <2> QED  BY <1>4, <1>5, <2>1, <2>3, <2>6, <2>8, <2>9
<1>8. CASE MsgReqInvenToHold
  <2> DEFINE c == Head(up).cell
             i == server.bag[c]
  <2>1. Serving("INVEN_TO_HOLD") /\ server.hand = None /\ i # None
    BY <1>8 DEF MsgReqInvenToHold
  <2>2. c \in Cells
    BY <1>1, <2>1 DEF Requests, FieldRequests, CellRequests
  <2>3. i \in Items  BY <1>5, <2>1, <2>2 DEF Views
  <2>4. /\ server' = [hand |-> i, bag |-> [server.bag EXCEPT ![c] = None]]
        /\ down' = down \o <<[kind |-> "INVEN_DELETE", cell |-> c],
                             [kind |-> "PUTON_UPDATE", item |-> i]>>
        /\ field' = field
    BY <1>8 DEF MsgReqInvenToHold
  <2>5. /\ [kind |-> "INVEN_DELETE", cell |-> c] \in Answers
        /\ [kind |-> "PUTON_UPDATE", item |-> i] \in Answers
    BY <2>2, <2>3 DEF Answers
  <2> HIDE DEF c
  <2>6. server'.hand = server.bag[c] /\ server' \in Views
    BY <1>5, <2>2, <2>3, <2>4 DEF Views
  <2>7. \A d \in Cells : server'.bag[d] = IF d = c THEN None ELSE server.bag[d]
    BY <1>5, <2>4, <2>2 DEF Views
  <2>8. NoDuplicates'
    BY <1>5, <2>1, <2>2, <2>3, <2>4, <2>6, <2>7 DEF NoDuplicates, Carried
  <2>9. down' \in Seq(Answers) /\ Len(down') <= MaxAnswers
    BY <1>1, <1>3, <2>1, <2>4, <2>5
  <2> QED  BY <1>4, <1>5, <2>1, <2>4, <2>6, <2>8, <2>9
<1>9. CASE MsgReqInvenExHold
  <2> DEFINE c == Head(up).cell
             i == server.bag[c]
             h == server.hand
  <2>1. Serving("INVEN_EX_HOLD") /\ h # None /\ i # None
    BY <1>9 DEF MsgReqInvenExHold
  <2>2. c \in Cells
    BY <1>1, <2>1 DEF Requests, FieldRequests, CellRequests
  <2>3. i \in Items /\ h \in Items  BY <1>5, <2>1, <2>2 DEF Views
  <2>4. /\ server' = [hand |-> i, bag |-> [server.bag EXCEPT ![c] = h]]
        /\ down' = down \o <<[kind |-> "INVEN_DEL_AND_INSERT", cell |-> c, item |-> h],
                             [kind |-> "PUTON_UPDATE", item |-> i]>>
        /\ field' = field
    BY <1>9 DEF MsgReqInvenExHold
  <2>5. /\ [kind |-> "INVEN_DEL_AND_INSERT", cell |-> c, item |-> h] \in Answers
        /\ [kind |-> "PUTON_UPDATE", item |-> i] \in Answers
    BY <2>2, <2>3 DEF Answers
  <2> HIDE DEF c
  <2>6. server'.hand = server.bag[c] /\ server' \in Views
    BY <1>5, <2>2, <2>3, <2>4 DEF Views
  <2>7. \A d \in Cells : server'.bag[d] = IF d = c THEN server.hand ELSE server.bag[d]
    BY <1>5, <2>4, <2>2 DEF Views
  <2>8. NoDuplicates'
    BY <1>5, <2>1, <2>2, <2>3, <2>4, <2>6, <2>7 DEF NoDuplicates, Carried
  <2>9. down' \in Seq(Answers) /\ Len(down') <= MaxAnswers
    BY <1>1, <1>3, <2>1, <2>4, <2>5
  <2> QED  BY <1>4, <1>5, <2>1, <2>4, <2>6, <2>8, <2>9
<1>10. CASE MsgReqHoldToInven
  <2> DEFINE c == Head(up).cell
             h == server.hand
  <2>1. Serving("HOLD_TO_INVEN") /\ h # None /\ server.bag[c] = None
    BY <1>10 DEF MsgReqHoldToInven
  <2>2. c \in Cells
    BY <1>1, <2>1 DEF Requests, FieldRequests, CellRequests
  <2>3. h \in Items  BY <1>5, <2>1 DEF Views
  <2>4. /\ server' = [hand |-> None, bag |-> [server.bag EXCEPT ![c] = h]]
        /\ down' = down \o <<[kind |-> "INVEN_INSERT", cell |-> c, item |-> h],
                             [kind |-> "PUTON_RELEASE"]>>
        /\ field' = field
    BY <1>10 DEF MsgReqHoldToInven
  <2>5. /\ [kind |-> "INVEN_INSERT", cell |-> c, item |-> h] \in Answers
        /\ [kind |-> "PUTON_RELEASE"] \in Answers
    BY <2>2, <2>3 DEF Answers
  <2> HIDE DEF c
  <2>6. server'.hand = None /\ server' \in Views
    BY <1>5, <2>2, <2>3, <2>4 DEF Views
  <2>7. \A d \in Cells : server'.bag[d] = IF d = c THEN server.hand ELSE server.bag[d]
    BY <1>5, <2>4, <2>2 DEF Views
  <2>8. NoDuplicates'
    BY <1>5, <2>1, <2>2, <2>3, <2>4, <2>6, <2>7 DEF NoDuplicates, Carried
  <2>9. down' \in Seq(Answers) /\ Len(down') <= MaxAnswers
    BY <1>1, <1>3, <2>1, <2>4, <2>5
  <2> QED  BY <1>4, <1>5, <2>1, <2>4, <2>6, <2>8, <2>9
<1>11. CASE MsgReqHoldToField
  <2> DEFINE h == server.hand
  <2>1. Serving("HOLD_TO_FIELD") /\ h # None
    BY <1>11 DEF MsgReqHoldToField
  <2>2. h \in Items  BY <1>5, <2>1 DEF Views
  <2>3. /\ field' = field \cup {h}
        /\ server' = [server EXCEPT !.hand = None]
        /\ down' = Append(down, [kind |-> "PUTON_RELEASE"])
    BY <1>11 DEF MsgReqHoldToField
  <2>4. [kind |-> "PUTON_RELEASE"] \in Answers  BY DEF Answers
  <2>5. server'.hand = None /\ server'.bag = server.bag /\ server' \in Views
    BY <1>5, <2>3 DEF Views
  <2>6. NoDuplicates'
    BY <1>5, <2>1, <2>2, <2>3, <2>5 DEF NoDuplicates, Carried, Views
  <2>7. down' \in Seq(Answers) /\ Len(down') <= MaxAnswers
    BY <1>1, <1>2, <2>1, <2>3, <2>4
  <2> QED  BY <1>4, <1>5, <2>1, <2>2, <2>3, <2>5, <2>6, <2>7
<1> QED  BY <1>6, <1>7, <1>8, <1>9, <1>10, <1>11

\* The invariant holds of every reachable state.
THEOREM Invariance == Spec => []IInv
<1>1. Init => IInv
  <2> SUFFICES ASSUME Init PROVE IInv
    OBVIOUS
  <2> USE PickupAssumption
  <2>1. server \in Views /\ server.hand = None
        /\ \A c, d \in Cells : c # d /\ server.bag[c] # None => server.bag[c] # server.bag[d]
    BY DEF Init
  <2>2. TypeOK
    BY <2>1 DEF Init, TypeOK
  <2>3. NoDuplicates
    BY <2>1 DEF Init, NoDuplicates, Carried
  <2> QED  BY <2>2, <2>3 DEF IInv
<1>2. IInv /\ [Next]_vars => IInv'
  <2> SUFFICES ASSUME IInv, [Next]_vars PROVE IInv'
    OBVIOUS
  <2>1. CASE Next
    BY <2>1, ClientIInv, ServerIInv DEF Next
  <2>2. CASE UNCHANGED vars
    BY <2>2 DEF vars, IInv, TypeOK, NoDuplicates, Carried
  <2> QED  BY <2>1, <2>2
<1> QED  BY <1>1, <1>2, PTL DEF Spec

\* Requests, answers and both inventories are always well-formed: no answer names
\* an empty hand as the item (the handlers test the hand and the cell first).
THEOREM TypeCorrect == Spec => []TypeOK
<1>1. IInv => TypeOK  BY DEF IInv
<1> QED  BY <1>1, Invariance, PTL

\* No sequence of requests, however stale, puts an item in two places of the
\* server (MsgReqInvenToHold, MsgReqInvenExHold, MsgReqHoldToInven, ...).
THEOREM ItemsUnique == Spec => []NoDuplicates
<1>1. IInv => NoDuplicates  BY DEF IInv
<1> QED  BY <1>1, Invariance, PTL

\* Whatever a character stops carrying lies on the ground, or was in the hand that
\* MsgReqFieldToHold filled with an item from the ground: the one step that loses
\* an item, and no other.
THEOREM OneWayToLose == Spec => LostOnlyByLifting
<1> DEFINE Lost == \A i \in Carried(server) \ Carried(server') :
                     i \in field' \/ (i = server.hand /\ server'.hand \in field)
<1>1. ASSUME IInv, [Next]_vars PROVE [Lost]_vars
  <2> SUFFICES ASSUME Next PROVE Lost
    BY <1>1
  <2>1. server \in Views /\ up \in Seq(Requests)
    BY <1>1 DEF IInv, TypeOK
  <2>2. ASSUME server' = server PROVE Lost
    BY <2>2 DEF Carried
  <2>3. CASE \/ \E i \in Items : ReqFieldTo(i) \/ Vanish(i)
             \/ \E c \in Cells : ReqInvenTo(c)
             \/ ReqHoldToField \/ MsgProcess \/ Redraw \/ Refuse
    <3>1. server' = server
      BY <2>3 DEF ReqFieldTo, Vanish, ReqInvenTo, ReqHoldToField, MsgProcess, Redraw,
                  Refuse, Ask
    <3> QED  BY <2>2, <3>1
  <2>4. CASE MsgReqFieldToHold
    <3> DEFINE i == Head(up).item
    <3>1. i \in field /\ server' = [server EXCEPT !.hand = i]
      BY <2>4 DEF MsgReqFieldToHold
    <3> HIDE DEF i
    <3>2. server'.hand = i /\ server'.bag = server.bag  BY <2>1, <3>1 DEF Views
    <3> QED  BY <3>1, <3>2 DEF Carried
  <2>5. CASE MsgReqFieldToInven
    <3> DEFINE i == Head(up).item
    <3>1. PICK c \in Free(server) : server' = [server EXCEPT !.bag[c] = i]
      BY <2>5 DEF MsgReqFieldToInven
    <3> HIDE DEF i
    <3>2. c \in Cells /\ server.bag[c] = None  BY <3>1 DEF Free
    <3>3. /\ server'.hand = server.hand
          /\ \A d \in Cells : server'.bag[d] = IF d = c THEN i ELSE server.bag[d]
      BY <2>1, <3>1, <3>2 DEF Views
    <3> QED  BY <3>2, <3>3 DEF Carried
  <2>6. CASE MsgReqInvenToHold
    <3> DEFINE c == Head(up).cell
    <3>1. /\ server.hand = None
          /\ server' = [hand |-> server.bag[c], bag |-> [server.bag EXCEPT ![c] = None]]
      BY <2>6 DEF MsgReqInvenToHold
    <3> HIDE DEF c
    <3>2. /\ server'.hand = server.bag[c]
          /\ \A d \in Cells : server'.bag[d] = IF d = c THEN None ELSE server.bag[d]
      BY <2>1, <3>1 DEF Views
    <3> QED  BY <3>1, <3>2 DEF Carried
  <2>7. CASE MsgReqInvenExHold
    <3> DEFINE c == Head(up).cell
    <3>1. /\ Serving("INVEN_EX_HOLD")
          /\ server' = [hand |-> server.bag[c],
                        bag |-> [server.bag EXCEPT ![c] = server.hand]]
      BY <2>7 DEF MsgReqInvenExHold
    <3>2. c \in Cells
      BY <2>1, <3>1 DEF Serving, Requests, FieldRequests, CellRequests
    <3> HIDE DEF c
    <3>3. /\ server'.hand = server.bag[c]
          /\ \A d \in Cells : server'.bag[d] = IF d = c THEN server.hand ELSE server.bag[d]
      BY <2>1, <3>1, <3>2 DEF Views
    <3> QED  BY <3>2, <3>3 DEF Carried
  <2>8. CASE MsgReqHoldToInven
    <3> DEFINE c == Head(up).cell
    <3>1. /\ Serving("HOLD_TO_INVEN") /\ server.bag[c] = None
          /\ server' = [hand |-> None, bag |-> [server.bag EXCEPT ![c] = server.hand]]
      BY <2>8 DEF MsgReqHoldToInven
    <3>2. c \in Cells
      BY <2>1, <3>1 DEF Serving, Requests, FieldRequests, CellRequests
    <3> HIDE DEF c
    <3>3. /\ server'.hand = None
          /\ \A d \in Cells : server'.bag[d] = IF d = c THEN server.hand ELSE server.bag[d]
      BY <2>1, <3>1, <3>2 DEF Views
    <3> QED  BY <3>1, <3>2, <3>3 DEF Carried
  <2>9. CASE MsgReqHoldToField
    <3>1. /\ field' = field \cup {server.hand}
          /\ server' = [server EXCEPT !.hand = None]
      BY <2>9 DEF MsgReqHoldToField
    <3>2. server'.hand = None /\ server'.bag = server.bag  BY <2>1, <3>1 DEF Views
    <3> QED  BY <3>1, <3>2 DEF Carried
  <2> QED  BY <2>3, <2>4, <2>5, <2>6, <2>7, <2>8, <2>9 DEF Next
<1> QED  BY <1>1, Invariance, PTL DEF Spec, LostOnlyByLifting

-----------------------------------------------------------------------------
(* What the client's copy becomes when all the answers under way are applied *)

Move == [x \in Views \X Answers |-> Applied(x[1], x[2])]

LEMMA MoveType == Folds(Move, Views, Answers)
  BY AppliedType DEF Move, Folds

LEMMA MoveIs ==
  ASSUME NEW v \in Views, NEW m \in Answers
  PROVE  Move[<<v, m>>] = Applied(v, m)
  BY DEF Move

\* The library's fold of Applied is what Applied makes of the answers one by one.
LEMMA ReplayIs ==
  ASSUME NEW v \in Views, NEW q \in Seq(Answers)
  PROVE  FoldLeft(Applied, v, q) = Outcome(Move, v, q)
<1> DEFINE E(it) == it = [s \in SUBSET (1 .. Len(q)) |->
                            IF s = {} THEN v
                            ELSE Applied(it[s \ {Greatest(s)}], q[Greatest(s)])]
           it == CHOOSE it : E(it)
<1>1. FoldLeft(Applied, v, q) = it[1 .. Len(q)]
  <2>1. DOMAIN q = 1 .. Len(q)
    BY LenProperties
  <2> QED  BY <2>1 DEF FoldLeft, MapThenFoldSet, Max, Greatest
<1>2. ASSUME NEW s \in SUBSET (1 .. Len(q)), s # {}
      PROVE  q[Greatest(s)] \in Answers /\ s \ {Greatest(s)} \in SUBSET (1 .. Len(q))
  <2>1. Greatest(s) \in 1 .. Len(q)
    BY <1>2, GreatestOf, LenProperties
  <2> QED  BY <2>1, ElementOfSeq
<1>3. PICK r : IsSetFold(r, Views, Move, v, q)
  BY MoveType, SetFoldExists
<1>4. /\ r \in [SUBSET (1 .. Len(q)) -> Views]
      /\ \A s \in SUBSET (1 .. Len(q)) :
           r[s] = IF s = {} THEN v ELSE Move[<<r[s \ {Greatest(s)}], q[Greatest(s)]>>]
  BY <1>3 DEF IsSetFold
<1>5. ASSUME NEW s \in SUBSET (1 .. Len(q)), s # {}
      PROVE  r[s] = Applied(r[s \ {Greatest(s)}], q[Greatest(s)])
  <2>1. r[s \ {Greatest(s)}] \in Views
    BY <1>2, <1>4, <1>5
  <2> QED  BY <1>2, <1>4, <1>5, <2>1, MoveIs
<1>6. E(r)
  <2>1. r = [s \in SUBSET (1 .. Len(q)) |-> r[s]]
    BY <1>4
  <2>2. \A s \in SUBSET (1 .. Len(q)) :
          r[s] = IF s = {} THEN v ELSE Applied(r[s \ {Greatest(s)}], q[Greatest(s)])
    BY <1>4, <1>5
  <2> QED  BY <2>1, <2>2
<1>7. E(it)
  BY <1>6
<1> HIDE DEF it
<1>8. it[{}] = v
  BY <1>7
<1>9. ASSUME NEW s \in SUBSET (1 .. Len(q)), s # {}, it[s \ {Greatest(s)}] \in Views
      PROVE  it[s] = Move[<<it[s \ {Greatest(s)}], q[Greatest(s)]>>]
  <2>1. it[s] = Applied(it[s \ {Greatest(s)}], q[Greatest(s)])
    BY <1>7, <1>9
  <2> QED  BY <1>2, <1>9, <2>1, MoveIs
<1>10. it[1 .. Len(q)] = Outcome(Move, v, q)
  <2>1. ActsAsFold(it, Views, Move, v, q)
    BY <1>8, <1>9 DEF ActsAsFold
  <2> QED  BY <2>1, MoveType, SetFoldIsOutcome
<1> QED  BY <1>1, <1>10

Caught == Outcome(Move, client, down)

LEMMA CaughtType ==
  ASSUME TypeOK
  PROVE  Caught \in Views
  BY MoveType, OutcomeType DEF TypeOK, Caught

\* Reading an answer changes nothing of what will have been read.
LEMMA CaughtReads ==
  ASSUME TypeOK, MsgProcess
  PROVE  Caught' = Caught
<1>1. client \in Views /\ down \in Seq(Answers) /\ down # <<>>
      /\ down' = Tail(down) /\ client' = Applied(client, Head(down))
  BY DEF TypeOK, MsgProcess
<1>2. Head(down) \in Answers
  BY <1>1, RangeTail
<1>3. client' = Move[<<client, Head(down)>>]
  BY <1>1, <1>2, MoveIs
<1>4. Outcome(Move, Move[<<client, Head(down)>>], Tail(down)) = Outcome(Move, client, down)
  BY <1>1, MoveType, OutcomeTail
<1> QED  BY <1>1, <1>3, <1>4 DEF Caught

\* One answer is put behind the others, or two.
LEMMA CaughtOne ==
  ASSUME TypeOK, NEW a \in Answers, client' = client, down' = Append(down, a)
  PROVE  Caught' = Applied(Caught, a)
<1>1. client \in Views /\ down \in Seq(Answers)
  BY DEF TypeOK
<1>2. Outcome(Move, client, Append(down, a)) = Move[<<Outcome(Move, client, down), a>>]
  BY <1>1, MoveType, OutcomeAppend
<1> QED  BY <1>2, CaughtType, MoveIs DEF Caught

LEMMA CaughtTwo ==
  ASSUME TypeOK, NEW a \in Answers, NEW b \in Answers, client' = client,
         down' = down \o <<a, b>>
  PROVE  Caught' = Applied(Applied(Caught, a), b)
<1>1. client \in Views /\ down \in Seq(Answers)
  BY DEF TypeOK
<1>2. PICK q \in Seq(Answers) : q = Append(down, a)
  BY <1>1, RangeAppend
<1>3. down' = Append(q, b)
  BY <1>1, <1>2
<1>4. ASSUME NEW r \in Seq(Answers), NEW e \in Answers
      PROVE  Outcome(Move, client, Append(r, e)) = Move[<<Outcome(Move, client, r), e>>]
  BY <1>1, MoveType, OutcomeAppend
<1>5. Outcome(Move, client, Append(q, b)) = Move[<<Outcome(Move, client, q), b>>]
  BY <1>2, <1>4
<1>6. Outcome(Move, client, q) = Applied(Caught, a)
  BY <1>1, <1>2, <1>4, CaughtType, MoveIs DEF Caught
<1>7. Applied(Caught, a) \in Views
  BY CaughtType, AppliedType
<1> QED  BY <1>3, <1>5, <1>6, <1>7, MoveIs DEF Caught

\* What each answer does to a view.
LEMMA AppliedUpdate ==
  ASSUME NEW v \in Views, NEW i \in Items
  PROVE  Applied(v, [kind |-> "PUTON_UPDATE", item |-> i]) = [hand |-> i, bag |-> v.bag]
<1> DEFINE m == [kind |-> "PUTON_UPDATE", item |-> i]
<1>1. Applied(v, m) = [v EXCEPT !.hand = m.item]
  BY DEF Applied
<1> QED  BY <1>1 DEF Views

LEMMA AppliedRelease ==
  ASSUME NEW v \in Views
  PROVE  Applied(v, [kind |-> "PUTON_RELEASE"]) = [hand |-> None, bag |-> v.bag]
<1> DEFINE m == [kind |-> "PUTON_RELEASE"]
<1>1. Applied(v, m) = [v EXCEPT !.hand = None]
  BY DEF Applied
<1> QED  BY <1>1 DEF Views

LEMMA AppliedDelete ==
  ASSUME NEW v \in Views, NEW c \in Cells
  PROVE  Applied(v, [kind |-> "INVEN_DELETE", cell |-> c])
           = [hand |-> v.hand, bag |-> [v.bag EXCEPT ![c] = None]]
<1> DEFINE m == [kind |-> "INVEN_DELETE", cell |-> c]
<1>1. Applied(v, m) = [v EXCEPT !.bag[m.cell] = None]
  BY DEF Applied
<1> QED  BY <1>1 DEF Views

LEMMA AppliedExchange ==
  ASSUME NEW v \in Views, NEW c \in Cells, NEW i \in Items
  PROVE  Applied(v, [kind |-> "INVEN_DEL_AND_INSERT", cell |-> c, item |-> i])
           = [hand |-> v.hand, bag |-> [v.bag EXCEPT ![c] = i]]
<1> DEFINE m == [kind |-> "INVEN_DEL_AND_INSERT", cell |-> c, item |-> i]
<1>1. Applied(v, m) = [v EXCEPT !.bag[m.cell] = m.item]
  BY DEF Applied
<1> QED  BY <1>1 DEF Views

LEMMA AppliedInsert ==
  ASSUME NEW v \in Views, NEW c \in Cells, NEW i \in Items, v.bag[c] = None
  PROVE  Applied(v, [kind |-> "INVEN_INSERT", cell |-> c, item |-> i])
           = [hand |-> v.hand, bag |-> [v.bag EXCEPT ![c] = i]]
<1> DEFINE m == [kind |-> "INVEN_INSERT", cell |-> c, item |-> i]
<1>1. Applied(v, m) = [v EXCEPT !.bag[m.cell] = IF @ = None THEN m.item ELSE @]
  BY DEF Applied
<1> QED  BY <1>1 DEF Views

\* Every handler sends the answers that make of its old view the new one.

LEMMA CaughtStep ==
  ASSUME IInv, Caught = server, Next
  PROVE  Caught' = server'
<1>1. TypeOK /\ server \in Views /\ up \in Seq(Requests)
  BY DEF IInv, TypeOK
<1>2. ASSUME NEW kind, Serving(kind)
      PROVE  Head(up) \in Requests /\ Head(up).kind = kind /\ client' = client
  BY <1>1, <1>2 DEF Serving
<1>3. CASE \/ \E i \in Items : ReqFieldTo(i) \/ Vanish(i)
           \/ \E c \in Cells : ReqInvenTo(c)
           \/ ReqHoldToField \/ Redraw \/ Refuse
  <2>1. server' = server /\ client' = client /\ down' = down
    BY <1>3 DEF ReqFieldTo, Vanish, ReqInvenTo, ReqHoldToField, Redraw, Refuse, Ask
  <2> QED  BY <2>1 DEF Caught
<1>4. CASE MsgProcess
  <2>1. server' = server
    BY <1>4 DEF MsgProcess
  <2> QED  BY <1>1, <1>4, <2>1, CaughtReads
<1>5. CASE MsgReqFieldToHold
  <2> DEFINE i == Head(up).item
  <2>1. Serving("FIELD_TO_HOLD") /\ i \in Items
    BY <1>1, <1>5 DEF MsgReqFieldToHold, IInv, TypeOK
  <2>2. server' = [server EXCEPT !.hand = i]
    BY <1>5 DEF MsgReqFieldToHold
  <2>3. down' = Append(down, [kind |-> "PUTON_UPDATE", item |-> i])
    BY <1>5 DEF MsgReqFieldToHold
  <2>4. [kind |-> "PUTON_UPDATE", item |-> i] \in Answers
    BY <2>1 DEF Answers
  <2> HIDE DEF i
  <2>5. server' = [hand |-> i, bag |-> server.bag]
    BY <1>1, <2>2 DEF Views
  <2>6. Caught' = Applied(server, [kind |-> "PUTON_UPDATE", item |-> i])
    BY <1>1, <1>2, <2>1, <2>3, <2>4, CaughtOne
  <2> QED  BY <1>1, <2>1, <2>5, <2>6, AppliedUpdate
<1>6. CASE MsgReqFieldToInven
  <2> DEFINE i == Head(up).item
  <2>1. Serving("FIELD_TO_INVEN") /\ i \in Items
    BY <1>1, <1>6 DEF MsgReqFieldToInven, IInv, TypeOK
  <2>2. PICK c \in Free(server) :
           /\ server' = [server EXCEPT !.bag[c] = i]
           /\ down' = Append(down, [kind |-> "INVEN_INSERT", cell |-> c, item |-> i])
    BY <1>6 DEF MsgReqFieldToInven
  <2>3. c \in Cells /\ server.bag[c] = None
    BY <2>2 DEF Free
  <2>4. [kind |-> "INVEN_INSERT", cell |-> c, item |-> i] \in Answers
    BY <2>1, <2>3 DEF Answers
  <2> HIDE DEF i
  <2>5. server' = [hand |-> server.hand, bag |-> [server.bag EXCEPT ![c] = i]]
    BY <1>1, <2>2 DEF Views
  <2>6. Caught' = Applied(server, [kind |-> "INVEN_INSERT", cell |-> c, item |-> i])
    BY <1>1, <1>2, <2>1, <2>2, <2>4, CaughtOne
  <2> QED  BY <1>1, <2>1, <2>3, <2>5, <2>6, AppliedInsert
<1>7. CASE MsgReqInvenToHold
  <2> DEFINE c == Head(up).cell
             i == server.bag[c]
  <2>1. Serving("INVEN_TO_HOLD") /\ i # None
    BY <1>7 DEF MsgReqInvenToHold
  <2>2. c \in Cells
    BY <1>2, <2>1 DEF Requests, FieldRequests, CellRequests
  <2>3. i \in Items
    BY <1>1, <2>1, <2>2 DEF Views
  <2>4. /\ server' = [hand |-> i, bag |-> [server.bag EXCEPT ![c] = None]]
        /\ down' = down \o <<[kind |-> "INVEN_DELETE", cell |-> c],
                             [kind |-> "PUTON_UPDATE", item |-> i]>>
    BY <1>7 DEF MsgReqInvenToHold
  <2>5. /\ [kind |-> "INVEN_DELETE", cell |-> c] \in Answers
        /\ [kind |-> "PUTON_UPDATE", item |-> i] \in Answers
    BY <2>2, <2>3 DEF Answers
  <2> HIDE DEF c, i
  <2> DEFINE v == [hand |-> server.hand, bag |-> [server.bag EXCEPT ![c] = None]]
  <2>6. Applied(server, [kind |-> "INVEN_DELETE", cell |-> c]) = v
    BY <1>1, <2>2, AppliedDelete
  <2>7. v \in Views
    BY <1>1, <2>5, <2>6, AppliedType
  <2>8. Caught' = Applied(v, [kind |-> "PUTON_UPDATE", item |-> i])
    BY <1>1, <1>2, <2>1, <2>4, <2>5, <2>6, CaughtTwo
  <2>9. Caught' = [hand |-> i, bag |-> v.bag]
    BY <2>3, <2>7, <2>8, AppliedUpdate
  <2> QED  BY <2>4, <2>9
<1>8. CASE MsgReqInvenExHold
  <2> DEFINE c == Head(up).cell
             i == server.bag[c]
             h == server.hand
  <2>1. Serving("INVEN_EX_HOLD") /\ h # None /\ i # None
    BY <1>8 DEF MsgReqInvenExHold
  <2>2. c \in Cells
    BY <1>2, <2>1 DEF Requests, FieldRequests, CellRequests
  <2>3. i \in Items /\ h \in Items
    BY <1>1, <2>1, <2>2 DEF Views
  <2>4. /\ server' = [hand |-> i, bag |-> [server.bag EXCEPT ![c] = h]]
        /\ down' = down \o <<[kind |-> "INVEN_DEL_AND_INSERT", cell |-> c, item |-> h],
                             [kind |-> "PUTON_UPDATE", item |-> i]>>
    BY <1>8 DEF MsgReqInvenExHold
  <2>5. /\ [kind |-> "INVEN_DEL_AND_INSERT", cell |-> c, item |-> h] \in Answers
        /\ [kind |-> "PUTON_UPDATE", item |-> i] \in Answers
    BY <2>2, <2>3 DEF Answers
  <2> HIDE DEF c, i, h
  <2> DEFINE v == [hand |-> server.hand, bag |-> [server.bag EXCEPT ![c] = h]]
  <2>6. Applied(server, [kind |-> "INVEN_DEL_AND_INSERT", cell |-> c, item |-> h]) = v
    BY <1>1, <2>2, <2>3, AppliedExchange
  <2>7. v \in Views
    BY <1>1, <2>5, <2>6, AppliedType
  <2>8. Caught' = Applied(v, [kind |-> "PUTON_UPDATE", item |-> i])
    BY <1>1, <1>2, <2>1, <2>4, <2>5, <2>6, CaughtTwo
  <2>9. Caught' = [hand |-> i, bag |-> v.bag]
    BY <2>3, <2>7, <2>8, AppliedUpdate
  <2> QED  BY <2>4, <2>9
<1>9. CASE MsgReqHoldToInven
  <2> DEFINE c == Head(up).cell
             h == server.hand
  <2>1. Serving("HOLD_TO_INVEN") /\ h # None /\ server.bag[c] = None
    BY <1>9 DEF MsgReqHoldToInven
  <2>2. c \in Cells
    BY <1>2, <2>1 DEF Requests, FieldRequests, CellRequests
  <2>3. h \in Items
    BY <1>1, <2>1 DEF Views
  <2>4. /\ server' = [hand |-> None, bag |-> [server.bag EXCEPT ![c] = h]]
        /\ down' = down \o <<[kind |-> "INVEN_INSERT", cell |-> c, item |-> h],
                             [kind |-> "PUTON_RELEASE"]>>
    BY <1>9 DEF MsgReqHoldToInven
  <2>5. /\ [kind |-> "INVEN_INSERT", cell |-> c, item |-> h] \in Answers
        /\ [kind |-> "PUTON_RELEASE"] \in Answers
    BY <2>2, <2>3 DEF Answers
  <2> HIDE DEF c, h
  <2> DEFINE v == [hand |-> server.hand, bag |-> [server.bag EXCEPT ![c] = h]]
  <2>6. Applied(server, [kind |-> "INVEN_INSERT", cell |-> c, item |-> h]) = v
    BY <1>1, <2>1, <2>2, <2>3, AppliedInsert
  <2>7. v \in Views
    BY <1>1, <2>5, <2>6, AppliedType
  <2>8. Caught' = Applied(v, [kind |-> "PUTON_RELEASE"])
    BY <1>1, <1>2, <2>1, <2>4, <2>5, <2>6, CaughtTwo
  <2>9. Caught' = [hand |-> None, bag |-> v.bag]
    BY <2>7, <2>8, AppliedRelease
  <2> QED  BY <2>4, <2>9
<1>10. CASE MsgReqHoldToField
  <2>1. /\ Serving("HOLD_TO_FIELD")
        /\ server' = [server EXCEPT !.hand = None]
        /\ down' = Append(down, [kind |-> "PUTON_RELEASE"])
    BY <1>10 DEF MsgReqHoldToField
  <2>2. [kind |-> "PUTON_RELEASE"] \in Answers
    BY DEF Answers
  <2>3. server' = [hand |-> None, bag |-> server.bag]
    BY <1>1, <2>1 DEF Views
  <2>4. Caught' = Applied(server, [kind |-> "PUTON_RELEASE"])
    BY <1>1, <1>2, <2>1, <2>2, CaughtOne
  <2> QED  BY <1>1, <2>3, <2>4, AppliedRelease
<1> QED  BY <1>3, <1>4, <1>5, <1>6, <1>7, <1>8, <1>9, <1>10 DEF Next

\* Whatever was asked for on a stale copy and whatever was refused, the client's
\* view with the answers under way applied is GLChar's: the handlers answer with
\* what they did, in the order they did it.
THEOREM ViewNeverDrifts == Spec => []ViewCatchesUp
<1>1. Init => Caught = server
  <2>1. Init => client = server /\ down = <<>>
    BY DEF Init
  <2>2. Outcome(Move, client, <<>>) = client
    BY OutcomeEmpty
  <2> QED  BY <2>1, <2>2 DEF Caught
<1>2. IInv /\ Caught = server /\ [Next]_vars => (Caught = server)'
  <2>1. ASSUME UNCHANGED vars
        PROVE  Caught' = Caught /\ server' = server
    BY <2>1 DEF vars, Caught
  <2> QED  BY <2>1, CaughtStep
<1>3. IInv /\ Caught = server => ViewCatchesUp
  <2> SUFFICES ASSUME IInv, Caught = server PROVE ViewCatchesUp
    OBVIOUS
  <2>1. client \in Views /\ down \in Seq(Answers)
    BY DEF IInv, TypeOK
  <2>2. FoldLeft(Applied, client, down) = Outcome(Move, client, down)
    BY <2>1, ReplayIs
  <2> QED  BY <2>2 DEF Caught, ViewCatchesUp
<1> QED  BY <1>1, <1>2, <1>3, Invariance, PTL DEF Spec
=============================================================================
