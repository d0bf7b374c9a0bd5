-------------------------- MODULE ClientSlotsProofs --------------------------
(* What holds of the connection slots for any number of slots, Gaea ids and  *)
(* messages: the types, that an id is registered once, that an id in use     *)
(* becomes free in one way only, and that the server's closes lose no id.    *)
EXTENDS ClientSlots, SequenceTheorems, TLAPS

\* The inductive invariant: an id that waits is dropped if the map has it, so
\* what is lost depends on the map and the list agreeing.
IInv == TypeOK /\ FreeIdsOnce

-----------------------------------------------------------------------------
(* The elements of the lists *)

LEMMA TailSet ==
  ASSUME NEW S, NEW q \in Seq(S), q # <<>>
  PROVE  /\ Head(q) \in S /\ Tail(q) \in Seq(S)
         /\ ToSet(q) = {Head(q)} \cup ToSet(Tail(q))
         /\ IsInjective(q) => IsInjective(Tail(q)) /\ Head(q) \notin ToSet(Tail(q))
<1>1. /\ Tail(q) \in Seq(S) /\ Len(Tail(q)) = Len(q) - 1 /\ Len(q) \in Nat \ {0}
      /\ \A i \in 1..Len(Tail(q)) : Tail(q)[i] = q[i + 1]
      /\ Head(q) = q[1] /\ Head(q) \in S
  BY HeadTailProperties, EmptySeq
<1>2. DOMAIN q = 1..Len(q) /\ DOMAIN Tail(q) = 1..(Len(q) - 1)
  BY <1>1, LenProperties
<1>3. ASSUME NEW i \in DOMAIN q PROVE q[i] = Head(q) \/ q[i] \in ToSet(Tail(q))
  <2>1. CASE i = 1
    BY <2>1, <1>1
  <2>2. CASE i # 1
    <3>1. i - 1 \in DOMAIN Tail(q) /\ Tail(q)[i - 1] = q[i]
      BY <2>2, <1>1, <1>2
    <3> QED  BY <3>1 DEF ToSet
  <2> QED  BY <2>1, <2>2
<1>4. ASSUME NEW i \in DOMAIN Tail(q) PROVE i + 1 \in DOMAIN q /\ Tail(q)[i] = q[i + 1]
  BY <1>1, <1>2
<1>5. ToSet(q) = {Head(q)} \cup ToSet(Tail(q))
  <2>1. 1 \in DOMAIN q
    BY <1>1, <1>2
  <2> QED  BY <1>1, <1>3, <1>4, <2>1 DEF ToSet
<1>6. ASSUME IsInjective(q) PROVE IsInjective(Tail(q))
  <2>1. ASSUME NEW i \in DOMAIN Tail(q), NEW j \in DOMAIN Tail(q), Tail(q)[i] = Tail(q)[j]
        PROVE  i = j
    <3>1. i + 1 = j + 1
      BY <1>4, <1>6, <2>1 DEF IsInjective
    <3> QED  BY <3>1, <1>2, <1>1
  <2> QED  BY <2>1 DEF IsInjective
<1>7. ASSUME IsInjective(q), NEW i \in DOMAIN Tail(q) PROVE Tail(q)[i] # Head(q)
  <2>1. 1 \in DOMAIN q /\ i + 1 # 1
    BY <1>1, <1>2
  <2> QED  BY <2>1, <1>1, <1>4, <1>7 DEF IsInjective
<1> QED  BY <1>1, <1>5, <1>6, <1>7 DEF ToSet

LEMMA AppendSet ==
  ASSUME NEW S, NEW q \in Seq(S), NEW e \in S
  PROVE  /\ Append(q, e) \in Seq(S) /\ Len(Append(q, e)) = Len(q) + 1
         /\ ToSet(Append(q, e)) = ToSet(q) \cup {e}
         /\ IsInjective(q) /\ e \notin ToSet(q) => IsInjective(Append(q, e))
<1>1. /\ Append(q, e) \in Seq(S) /\ Len(Append(q, e)) = Len(q) + 1 /\ Len(q) \in Nat
      /\ DOMAIN q = 1..Len(q) /\ DOMAIN Append(q, e) = 1..(Len(q) + 1)
      /\ Append(q, e)[Len(q) + 1] = e
      /\ \A i \in 1..Len(q) : Append(q, e)[i] = q[i]
  BY LenProperties
<1>2. \A i \in 1..(Len(q) + 1) : i \in 1..Len(q) \/ i = Len(q) + 1
  BY <1>1
<1>3. 1..Len(q) \subseteq 1..(Len(q) + 1) /\ Len(q) + 1 \in 1..(Len(q) + 1)
  BY <1>1
<1>4. ToSet(Append(q, e)) = ToSet(q) \cup {e}
  BY <1>1, <1>2, <1>3 DEF ToSet
<1>5. ASSUME IsInjective(q), e \notin ToSet(q) PROVE IsInjective(Append(q, e))
  BY <1>1, <1>2, <1>5 DEF IsInjective, ToSet
<1> QED  BY <1>1, <1>4, <1>5

LEMMA ConcatSet ==
  ASSUME NEW S, NEW q \in Seq(S), NEW r \in Seq(S)
  PROVE  q \o r \in Seq(S) /\ ToSet(q \o r) = ToSet(q) \cup ToSet(r)
<1>1. /\ q \o r \in Seq(S) /\ Len(q \o r) = Len(q) + Len(r)
      /\ Len(q) \in Nat /\ Len(r) \in Nat
      /\ DOMAIN q = 1..Len(q) /\ DOMAIN r = 1..Len(r)
      /\ DOMAIN (q \o r) = 1..(Len(q) + Len(r))
      /\ \A i \in 1..(Len(q) + Len(r)) :
           (q \o r)[i] = IF i <= Len(q) THEN q[i] ELSE r[i - Len(q)]
  BY ConcatProperties, LenProperties
<1>2. ASSUME NEW i \in DOMAIN (q \o r) PROVE (q \o r)[i] \in ToSet(q) \cup ToSet(r)
  <2>1. i \in DOMAIN q \/ i - Len(q) \in DOMAIN r
    BY <1>1
  <2>2. CASE i <= Len(q)
    BY <1>1, <2>2 DEF ToSet
  <2>3. CASE ~(i <= Len(q))
    <3>1. i - Len(q) \in DOMAIN r /\ (q \o r)[i] = r[i - Len(q)]
      BY <1>1, <2>3
    <3> QED  BY <3>1 DEF ToSet
  <2> QED  BY <2>2, <2>3
<1>3. ASSUME NEW i \in DOMAIN q PROVE q[i] \in ToSet(q \o r)
  <2>1. i \in DOMAIN (q \o r) /\ (q \o r)[i] = q[i]
    BY <1>1
  <2> QED  BY <2>1 DEF ToSet
<1>4. ASSUME NEW i \in DOMAIN r PROVE r[i] \in ToSet(q \o r)
  <2>1. i + Len(q) \in DOMAIN (q \o r) /\ (q \o r)[i + Len(q)] = r[i]
    BY <1>1
  <2> QED  BY <2>1 DEF ToSet
<1> QED  BY <1>1, <1>2, <1>3, <1>4 DEF ToSet

-----------------------------------------------------------------------------
(* What the close of a pair gives back *)

LEMMA Empty == <<>> \in Seq(Slots) /\ ToSet(<<>>) = {}
<1>1. DOMAIN <<>> = {}
  BY LenProperties, EmptySeq
<1> QED  BY <1>1, EmptySeq DEF ToSet

LEMMA One ==
  ASSUME NEW s \in Slots
  PROVE  <<s>> \in Seq(Slots) /\ ToSet(<<s>>) = {s}
<1>1. DOMAIN <<s>> = {1} /\ <<s>>[1] = s
  OBVIOUS
<1> QED  BY <1>1 DEF ToSet

\* The ids given back are those of the two slots that are on line.
LEMMA GivenBackPair ==
  ASSUME TypeOK, NEW s \in Slots
  PROVE  /\ GivenBack(s) \in Seq(Slots) /\ ToSet(GivenBack(s)) = Pair(s)
         /\ Pair(s) \subseteq Slots
<1>1. ASSUME NEW t \in OrNone(Slots)
      PROVE  /\ OnLine(t) \in Seq(Slots)
             /\ ToSet(OnLine(t)) = {u \in {t} \ {None} : slot[u].online}
  <2>1. CASE t = None \/ ~slot[t].online
    <3>1. OnLine(t) = <<>>
      BY <2>1 DEF OnLine
    <3> QED  BY <2>1, <3>1, Empty
  <2>2. CASE t # None /\ slot[t].online
    <3>1. OnLine(t) = <<t>> /\ t \in Slots
      BY <2>2 DEF OnLine, OrNone
    <3> QED  BY <2>2, <3>1, One
  <2> QED  BY <2>1, <2>2
<1>2. Partner(s) \in OrNone(Slots) /\ s \in OrNone(Slots) /\ s # None
  BY NoneAssumption DEF TypeOK, SlotState, Partner, OrNone
<1>3. \/ GivenBack(s) = OnLine(s) /\ Partner(s) = s
      \/ GivenBack(s) = OnLine(Partner(s)) \o OnLine(s)
      \/ GivenBack(s) = OnLine(s) \o OnLine(Partner(s))
  BY DEF GivenBack
<1>4. /\ OnLine(s) \in Seq(Slots) /\ OnLine(Partner(s)) \in Seq(Slots)
      /\ ToSet(OnLine(s)) = {u \in {s} \ {None} : slot[u].online}
      /\ ToSet(OnLine(Partner(s))) = {u \in {Partner(s)} \ {None} : slot[u].online}
  BY <1>1, <1>2
<1>5. /\ GivenBack(s) \in Seq(Slots)
      /\ ToSet(GivenBack(s)) = ToSet(OnLine(s)) \cup ToSet(OnLine(Partner(s)))
  <2> DEFINE a == OnLine(s)
             b == OnLine(Partner(s))
  <2>1. a \in Seq(Slots) /\ b \in Seq(Slots)
    BY <1>4
  <2> HIDE DEF a, b
  <2>2. /\ a \o b \in Seq(Slots) /\ ToSet(a \o b) = ToSet(a) \cup ToSet(b)
        /\ b \o a \in Seq(Slots) /\ ToSet(b \o a) = ToSet(b) \cup ToSet(a)
    BY <2>1, ConcatSet
  <2>3. (GivenBack(s) = a /\ a = b) \/ GivenBack(s) = b \o a \/ GivenBack(s) = a \o b
    BY <1>3 DEF a, b
  <2>4. GivenBack(s) \in Seq(Slots) /\ ToSet(GivenBack(s)) = ToSet(a) \cup ToSet(b)
    BY <2>1, <2>2, <2>3
  <2> QED  BY <2>4 DEF a, b
<1>6. Pair(s) \subseteq Slots
  BY <1>2 DEF Pair, OrNone
<1> QED  BY <1>4, <1>5, <1>6 DEF Pair

LEMMA BlankType ==
  Blank \in SlotState /\ Blank.online = FALSE
BY DEF Blank, SlotState, OrNone

\* Closing the slots S, of which q are the ids given back.
LEMMA CloseSlotsType ==
  ASSUME TypeOK, NEW S \in SUBSET Slots, NEW q \in Seq(Slots), CloseSlots(q, S)
  PROVE  /\ slot' \in [Slots -> SlotState] /\ pre' \in Seq(Slots) /\ late' \subseteq Slots
         /\ ToSet(pre') = ToSet(pre) \cup ToSet(q)
         /\ \A s \in S : ~slot'[s].online
         /\ \A s \in Slots \ S : slot'[s] = slot[s]
BY BlankType, ConcatSet DEF TypeOK, CloseSlots, Reset

-----------------------------------------------------------------------------
(* The inductive invariant *)

LEMMA InitIInv == Init => IInv
<1> SUFFICES ASSUME Init PROVE IInv
  OBVIOUS
<1>1. \A n \in Nat : [1..n -> Slots] \subseteq Seq(Slots)
  OBVIOUS
<1>2. free \in Seq(Slots) /\ IsInjective(free) /\ ToSet(free) = Slots
  BY <1>1 DEF Init, SeqOf
<1>3. slot \in [Slots -> SlotState]
  BY BlankType DEF Init
<1>4. pre \in Seq(Slots) /\ queue \in Seq(Message) /\ due \in 0..Len(queue)
  BY EmptySeq DEF Init
<1> QED  BY <1>2, <1>3, <1>4 DEF Init, IInv, TypeOK, FreeIdsOnce, OrNone

\* The listener
LEMMA ListenerIInv ==
  ASSUME IInv, GetFreeClientID \/ NoFreeClientID
               \/ \E type \in {"agent", "client"} : SetAcceptedClient(type)
  PROVE  IInv'
<1>1. CASE GetFreeClientID
  <2> DEFINE s == Head(free)
  <2>1. /\ free \in Seq(Slots) /\ free # <<>> /\ s \in Slots /\ Tail(free) \in Seq(Slots)
        /\ IsInjective(Tail(free)) /\ s \notin ToSet(Tail(free))
        /\ mapped = {s} \cup ToSet(Tail(free))
    BY <1>1, TailSet DEF IInv, TypeOK, FreeIdsOnce, GetFreeClientID
  <2> DEFINE used == [slot[s] EXCEPT !.online = TRUE]
  <2>2. used \in SlotState
    BY <2>1 DEF IInv, TypeOK, SlotState
  <2>3. slot' = [slot EXCEPT ![s] = used]
    BY <1>1 DEF GetFreeClientID
  <2>4. slot' \in [Slots -> SlotState]
    BY <2>1, <2>2, <2>3 DEF IInv, TypeOK
  <2>5. FreeIdsOnce' /\ mapped' \subseteq Slots /\ free' \in Seq(Slots) /\ acc' \in OrNone(Slots)
    BY <1>1, <2>1 DEF FreeIdsOnce, GetFreeClientID, Taken, IInv, TypeOK, OrNone
  <2> QED  BY <1>1, <2>4, <2>5 DEF IInv, TypeOK, GetFreeClientID
<1>2. CASE NoFreeClientID
  BY <1>2 DEF IInv, TypeOK, FreeIdsOnce, NoFreeClientID
<1>3. ASSUME NEW type \in {"agent", "client"}, SetAcceptedClient(type) PROVE IInv'
  <2> DEFINE used == [slot[acc] EXCEPT !.online = TRUE, !.sock = TRUE, !.type = type]
  <2>1. acc \in Slots /\ late' \subseteq Slots /\ acc' \in OrNone(Slots)
    BY <1>3 DEF IInv, TypeOK, SetAcceptedClient, OrNone
  <2>2. used \in SlotState
    BY <2>1 DEF IInv, TypeOK, SlotState
  <2>3. slot' = [slot EXCEPT ![acc] = used]
    BY <1>3 DEF SetAcceptedClient
  <2>4. slot' \in [Slots -> SlotState]
    BY <2>1, <2>2, <2>3 DEF IInv, TypeOK
  <2> QED  BY <1>3, <2>1, <2>4 DEF IInv, TypeOK, FreeIdsOnce, SetAcceptedClient, ids
<1> QED  BY <1>1, <1>2, <1>3

\* The ids that wait
LEMMA SweepIInv ==
  ASSUME IInv, FrameStart \/ Sweep
  PROVE  IInv'
<1>1. CASE FrameStart
  BY <1>1 DEF IInv, TypeOK, FreeIdsOnce, FrameStart
<1>2. CASE ResetPreSleepCID
  <2> DEFINE s == Head(pre)
  <2>1. s \in Slots /\ Tail(pre) \in Seq(Slots) /\ free \in Seq(Slots)
    BY <1>2, TailSet DEF IInv, TypeOK, ResetPreSleepCID
  <2>2. free' \in Seq(Slots) /\ mapped' \subseteq Slots /\ FreeIdsOnce'
    <3>1. CASE s \notin mapped
      <4>1. free' = Append(free, s) /\ mapped' = mapped \cup {s}
        BY <1>2, <3>1 DEF ResetPreSleepCID, IsToRegister
      <4> QED  BY <2>1, <3>1, <4>1, AppendSet DEF IInv, TypeOK, FreeIdsOnce
    <3>2. CASE s \in mapped
      BY <1>2, <3>2 DEF ResetPreSleepCID, IsToRegister, IInv, TypeOK, FreeIdsOnce
    <3> QED  BY <3>1, <3>2
  <2> QED  BY <1>2, <2>1, <2>2 DEF IInv, TypeOK, ResetPreSleepCID
<1>3. CASE ResetPreSleepCIDEnd
  <2>1. due' \in 0..Len(queue)
    BY <1>3, LenProperties DEF IInv, TypeOK, ResetPreSleepCIDEnd
  <2> QED  BY <1>3, <2>1 DEF IInv, TypeOK, FreeIdsOnce, ResetPreSleepCIDEnd
<1> QED  BY <1>1, <1>2, <1>3 DEF Sweep

\* The closes, by the server and by SendClientFinal
LEMMA CloseIInv ==
  ASSUME IInv,
         \/ \E s \in Slots : Disconnect(s) \/ LateCompletion(s) \/ SendClientFinal(s)
         \/ CloseClientPair
  PROVE  IInv'
<1>1. ASSUME NEW s \in Slots, Disconnect(s) \/ LateCompletion(s) PROVE IInv'
  <2>1. CloseClient(s) /\ UNCHANGED <<slot, ids, acc, late, work, queue, due>>
    BY <1>1 DEF Disconnect, LateCompletion
  <2>2. slot[s].agent \in OrNone(Slots)
    BY DEF IInv, TypeOK, SlotState
  <2>3. closing' \in OrNone(Slots)
    BY <2>1, <2>2 DEF CloseClient, OrNone
  <2> QED  BY <2>1, <2>3 DEF IInv, TypeOK, FreeIdsOnce, ids
<1>2. ASSUME NEW s \in Slots, SendClientFinal(s) PROVE IInv'
  <2>1. /\ CloseSlots(<<s>>, {s})
        /\ UNCHANGED <<free, mapped, lock, acc, work, closing, queue, due>>
    BY <1>2 DEF SendClientFinal
  <2>2. slot' \in [Slots -> SlotState] /\ pre' \in Seq(Slots) /\ late' \subseteq Slots
    BY <2>1, One, CloseSlotsType DEF IInv
  <2> QED  BY <2>1, <2>2 DEF IInv, TypeOK, FreeIdsOnce
<1>3. CASE CloseClientPair
  <2>1. closing \in Slots /\ UNCHANGED <<free, mapped, lock, acc, work, queue, due>>
        /\ closing' \in OrNone(Slots)
    BY <1>3 DEF IInv, TypeOK, CloseClientPair, OrNone
  <2>2. \/ CloseSlots(GivenBack(closing), Pair(closing))
        \/ UNCHANGED <<slot, pre, late>>
    BY <1>3 DEF CloseClientPair
  <2>3. slot' \in [Slots -> SlotState] /\ pre' \in Seq(Slots) /\ late' \subseteq Slots
    BY <2>1, <2>2, GivenBackPair, CloseSlotsType DEF IInv, TypeOK
  <2> QED  BY <2>1, <2>3 DEF IInv, TypeOK, FreeIdsOnce
<1> QED  BY <1>1, <1>2, <1>3

\* The workers' receiving
LEMMA ReceiveIInv ==
  ASSUME IInv,
         \/ \E s \in Slots : GetQueuedCompletionStatus(s)
         \/ AddRcvMsg \/ CloseInvalid \/ FindOffline \/ ResetOffline
  PROVE  IInv'
<1>1. ASSUME NEW s \in Slots, GetQueuedCompletionStatus(s) PROVE IInv'
  <2>1. work' \in OrNone([slot : Slots, at : {"add", "reset"}])
    BY <1>1 DEF GetQueuedCompletionStatus, OrNone
  <2> QED  BY <1>1, <2>1 DEF IInv, TypeOK, FreeIdsOnce, GetQueuedCompletionStatus, ids
<1>2. None \in OrNone([slot : Slots, at : {"add", "reset"}])
      /\ (work # None => work.slot \in Slots)
  BY DEF OrNone, IInv, TypeOK
<1>3. CASE AddRcvMsg
  <2>1. Received(work.slot) \subseteq Message
    <3> DEFINE s == work.slot
    <3>1. s \in Slots /\ slot \in [Slots -> SlotState]
      BY <1>2, <1>3 DEF AddRcvMsg, IInv, TypeOK
    <3>2. ASSUME NEW m \in Received(s) PROVE m \in Message
      <4>1. CASE slot[s].type = "client"
        <5>1. PICK a \in {t \in Slots : slot[t].gaea # None} :
                m = [kind |-> "IDENTITY", slot |-> s, gaea |-> slot[a].gaea, agent |-> a]
          BY <3>2, <4>1 DEF Received
        <5>2. slot[a].gaea \in Gaeas
          BY <3>1, <5>1 DEF SlotState, OrNone
        <5> QED  BY <3>1, <5>1, <5>2 DEF Message
      <4>2. CASE slot[s].type # "client"
        BY <3>1, <3>2, <4>2 DEF Received, Message
      <4> QED  BY <4>1, <4>2
    <3> QED  BY <3>2
  <2>2. CASE UNCHANGED queue
    BY <1>2, <1>3, <2>2 DEF IInv, TypeOK, FreeIdsOnce, AddRcvMsg, ids
  <2>3. CASE \E m \in Received(work.slot) : queue' = Append(queue, m)
    <3>1. PICK m \in Message : queue' = Append(queue, m)
      BY <2>1, <2>3
    <3>2. queue' \in Seq(Message) /\ Len(queue') = Len(queue) + 1 /\ Len(queue) \in Nat
      BY <3>1, AppendSet, LenProperties DEF IInv, TypeOK
    <3>3. due' \in 0..Len(queue')
      BY <1>3, <3>2 DEF AddRcvMsg, IInv, TypeOK
    <3> QED  BY <1>2, <1>3, <3>2, <3>3 DEF IInv, TypeOK, FreeIdsOnce, AddRcvMsg, ids
  <2> QED  BY <1>3, <2>2, <2>3 DEF AddRcvMsg
<1>4. CASE CloseInvalid
  <2>1. slot' \in [Slots -> SlotState] /\ late' \subseteq Slots
    BY <1>2, <1>4, BlankType DEF IInv, TypeOK, CloseInvalid, Reset
  <2> QED  BY <1>2, <1>4, <2>1 DEF IInv, TypeOK, FreeIdsOnce, CloseInvalid, ids
<1>5. CASE FindOffline
  <2>1. work' \in OrNone([slot : Slots, at : {"add", "reset"}])
    <3>1. work \in [slot : Slots, at : {"add", "reset"}]
      BY <1>5 DEF IInv, TypeOK, OrNone, FindOffline
    <3> QED  BY <1>5, <3>1 DEF FindOffline, OrNone
  <2> QED  BY <1>5, <2>1 DEF IInv, TypeOK, FreeIdsOnce, FindOffline, ids
<1>6. CASE ResetOffline
  <2>1. slot' \in [Slots -> SlotState]
    BY <1>2, <1>6, BlankType DEF IInv, TypeOK, ResetOffline, Reset
  <2> QED  BY <1>2, <1>6, <2>1 DEF IInv, TypeOK, FreeIdsOnce, ResetOffline, ids
<1> QED  BY <1>1, <1>3, <1>4, <1>5, <1>6

\* A slot's links are set, its connection stays.
LEMMA LinkType ==
  ASSUME NEW r \in SlotState
  PROVE  /\ \A a \in OrNone(Slots), g \in OrNone(Gaeas) :
              /\ [r EXCEPT !.gaea = g, !.agent = a] \in SlotState
              /\ [r EXCEPT !.gaea = g, !.agent = a].online = r.online
         /\ \A c \in OrNone(Slots) :
              /\ [r EXCEPT !.client = c] \in SlotState
              /\ [r EXCEPT !.client = c].online = r.online
BY DEF SlotState

\* The messages of a frame: who is on line stays the same.
LEMMA MessageShape ==
  ASSUME TypeOK, MsgGameJoinChar \/ MsgJoinInfoFromClient
  PROVE  /\ slot' \in [Slots -> SlotState]
         /\ \A s \in Slots : slot'[s].online = slot[s].online
         /\ queue' \in Seq(Message) /\ due' \in 0..Len(queue')
         /\ UNCHANGED <<ids, acc, late, work, closing>>
<1> DEFINE m == Head(queue)
<1>1. due > 0 /\ queue' = Tail(queue) /\ due' = due - 1 /\ m.kind \in {"JOIN", "IDENTITY"}
      /\ UNCHANGED <<ids, acc, late, work, closing>>
  BY DEF MsgGameJoinChar, MsgJoinInfoFromClient, NextMsg, MsgDone
<1>2. queue # <<>> /\ Len(queue) \in Nat /\ due \in 0..Len(queue) /\ queue \in Seq(Message)
  BY <1>1, EmptySeq, LenProperties DEF TypeOK
<1>3. m \in Message /\ queue' \in Seq(Message) /\ Len(queue') = Len(queue) - 1
  BY <1>1, <1>2, HeadTailProperties
<1>4. due' \in 0..Len(queue')
  BY <1>1, <1>2, <1>3
<1>5. slot \in [Slots -> SlotState] /\ m.slot \in Slots /\ m.gaea \in Gaeas
  BY <1>3 DEF TypeOK, Message
<1>6. CASE MsgGameJoinChar
  <2> DEFINE r == [slot[m.slot] EXCEPT !.gaea = m.gaea, !.agent = m.slot]
  <2>1. r \in SlotState /\ r.online = slot[m.slot].online
    BY <1>5, LinkType DEF OrNone
  <2>2. slot' = [slot EXCEPT ![m.slot] = r]
    BY <1>6 DEF MsgGameJoinChar
  <2> HIDE DEF r, m
  <2>3. slot' \in [Slots -> SlotState] /\ \A s \in Slots : slot'[s].online = slot[s].online
    BY <1>5, <2>1, <2>2
  <2> QED  BY <1>1, <1>3, <1>4, <2>3
<1>7. CASE MsgJoinInfoFromClient
  <2>1. m.agent \in Slots
    BY <1>3, <1>7 DEF Message, MsgJoinInfoFromClient, NextMsg
  <2> DEFINE r == [slot[m.agent] EXCEPT !.client = m.slot]
             mid == [slot EXCEPT ![m.agent] = r]
             t == [mid[m.slot] EXCEPT !.agent = m.agent, !.gaea = m.gaea]
  <2>2. r \in SlotState /\ r.online = slot[m.agent].online
    BY <1>5, <2>1, LinkType DEF OrNone
  <2> HIDE DEF r
  <2>3. mid \in [Slots -> SlotState] /\ \A s \in Slots : mid[s].online = slot[s].online
    BY <1>5, <2>1, <2>2
  <2>4. slot' = slot \/ slot' = [mid EXCEPT ![m.slot] = t]
    BY <1>7 DEF MsgJoinInfoFromClient, r
  <2> HIDE DEF mid
  <2>5. t \in SlotState /\ t.online = mid[m.slot].online
    <3> DEFINE r0 == mid[m.slot]
    <3>1. r0 \in SlotState /\ m.agent \in OrNone(Slots) /\ m.gaea \in OrNone(Gaeas)
      BY <1>5, <2>1, <2>3 DEF OrNone
    <3>2. t = [r0 EXCEPT !.agent = m.agent, !.gaea = m.gaea]
      OBVIOUS
    <3> HIDE DEF r0, m, t
    <3>3. t \in SlotState
      BY <3>1, <3>2 DEF SlotState
    <3>4. t.online = r0.online
      BY <3>1, <3>2 DEF SlotState
    <3> QED  BY <3>3, <3>4 DEF r0
  <2> HIDE DEF t, m
  <2>6. slot' \in [Slots -> SlotState] /\ \A s \in Slots : slot'[s].online = slot[s].online
    BY <1>5, <2>3, <2>4, <2>5
  <2> QED  BY <1>1, <1>3, <1>4, <2>6
<1> QED  BY <1>6, <1>7

LEMMA MessageIInv ==
  ASSUME IInv, MsgGameJoinChar \/ MsgJoinInfoFromClient
  PROVE  IInv'
BY MessageShape DEF IInv, TypeOK, FreeIdsOnce, ids

LEMMA StepIInv == IInv /\ [Next]_vars => IInv'
<1>1. IInv /\ UNCHANGED vars => IInv'
  BY DEF IInv, TypeOK, FreeIdsOnce, vars, ids
<1> QED  BY <1>1, ListenerIInv, SweepIInv, CloseIInv, ReceiveIInv, MessageIInv
         DEF Next, Sweep, UpdateNext, WorkerNext

LEMMA Invariance == Spec => []IInv
BY InitIInv, StepIInv, PTL DEF Spec

\* Every slot, list, message and thread holds what its program variable can.
THEOREM Types == Spec => []TypeOK
BY Invariance, PTL DEF IInv

\* No id is in the free list twice: GetFreeClientID never gives two connections
\* the same id out of one registration.
THEOREM IdsRegisteredOnce == Spec => []FreeIdsOnce
BY Invariance, PTL DEF IInv
-----------------------------------------------------------------------------
(* Where an id can be *)

\* A step that leaves the lists, who accepts and who is on line as they are
LEMMA QuietStep ==
  ASSUME UNCHANGED <<free, pre, acc>>, \A s \in Slots : slot'[s].online = slot[s].online,
         NEW s \in Slots
  PROVE  (Crossed(s)' <=> Crossed(s)) /\ (Lost(s)' <=> Lost(s))
BY DEF Crossed, Lost, Listed

\* A step of a worker that empties one slot
LEMMA EmptyingStep ==
  ASSUME UNCHANGED <<free, pre, acc>>, NEW t \in Slots, slot \in [Slots -> SlotState],
         slot' = [slot EXCEPT ![t] = Blank], NEW s \in Slots, Crossed(s)'
  PROVE  Crossed(s)
<1>1. slot'[s].online => slot[s].online
  BY BlankType
<1> QED  BY <1>1 DEF Crossed, Listed

\* A close that gives back the ids of exactly the slots on line among those it
\* closes
LEMMA ClosingStep ==
  ASSUME TypeOK, NEW S \in SUBSET Slots, NEW q \in Seq(Slots), CloseSlots(q, S),
         ToSet(q) = S, UNCHANGED <<free, acc>>, NEW s \in Slots
  PROVE  (Crossed(s)' => Crossed(s)) /\ (Lost(s)' => Lost(s))
<1>1. /\ ToSet(pre') = ToSet(pre) \cup S
      /\ \A t \in S : ~slot'[t].online
      /\ \A t \in Slots \ S : slot'[t] = slot[t]
  BY CloseSlotsType
<1> QED  BY <1>1 DEF Crossed, Lost, Listed

\* Where an id goes in one step, whichever it is
LEMMA Whereabouts ==
  ASSUME IInv, [Next]_vars, NEW s \in Slots
  PROVE  /\ Crossed(s)' => Crossed(s) \/ acc = s \/ acc' = s
         /\ Lost(s)' => Lost(s) \/ CloseInvalid \/ ResetOffline
<1> DEFINE Goal == /\ Crossed(s)' => Crossed(s) \/ acc = s \/ acc' = s
                   /\ Lost(s)' => Lost(s) \/ CloseInvalid \/ ResetOffline
<1>1. CASE UNCHANGED vars
  BY <1>1, QuietStep DEF vars, ids
<1>2. CASE GetFreeClientID
  <2> DEFINE t == Head(free)
  <2>1. t \in Slots /\ ToSet(free) = {t} \cup ToSet(Tail(free))
    BY <1>2, TailSet DEF IInv, TypeOK, GetFreeClientID
  <2>2. \A u \in Slots : slot'[u].online => slot[u].online \/ u = t
    BY <1>2, <2>1 DEF IInv, TypeOK, GetFreeClientID
  <2>3. \A u \in Slots \ {t} : slot'[u] = slot[u]
    BY <1>2, <2>1 DEF IInv, TypeOK, GetFreeClientID
  <2>4. acc' = t /\ free' = Tail(free) /\ pre' = pre /\ acc = None
    BY <1>2 DEF GetFreeClientID
  <2> QED  BY <2>1, <2>2, <2>3, <2>4, NoneAssumption DEF Crossed, Lost, Listed
<1>3. CASE NoFreeClientID \/ FrameStart \/ ResetPreSleepCIDEnd
  BY <1>3, QuietStep DEF NoFreeClientID, FrameStart, ResetPreSleepCIDEnd
<1>4. ASSUME NEW type \in {"agent", "client"}, SetAcceptedClient(type) PROVE Goal
  <2>1. acc \in Slots
    BY <1>4 DEF IInv, TypeOK, SetAcceptedClient, OrNone
  <2> DEFINE used == [slot[acc] EXCEPT !.online = TRUE, !.sock = TRUE, !.type = type]
  <2>2. slot' = [slot EXCEPT ![acc] = used] /\ UNCHANGED <<free, pre>>
    BY <1>4 DEF SetAcceptedClient, ids
  <2>3. used.online = TRUE
    BY <2>1 DEF IInv, TypeOK, SlotState
  <2> HIDE DEF used
  <2>4. \A u \in Slots \ {acc} : slot'[u] = slot[u]
    BY <2>1, <2>2 DEF IInv, TypeOK
  <2>5. slot'[acc].online
    BY <2>1, <2>2, <2>3 DEF IInv, TypeOK
  <2>6. CASE s = acc
    BY <2>5, <2>6 DEF Lost
  <2>7. CASE s # acc
    BY <2>2, <2>4, <2>7 DEF Crossed, Lost, Listed
  <2> QED  BY <2>6, <2>7
<1>5. CASE ResetPreSleepCID
  <2> DEFINE t == Head(pre)
  <2>1. t \in Slots /\ ToSet(pre) = {t} \cup ToSet(Tail(pre)) /\ pre' = Tail(pre)
        /\ UNCHANGED <<slot, acc>>
    BY <1>5, TailSet DEF IInv, TypeOK, ResetPreSleepCID
  <2>2. ToSet(free') = ToSet(free) \cup {t}
    <3>1. CASE t \in mapped
      BY <1>5, <3>1 DEF ResetPreSleepCID, IsToRegister, IInv, FreeIdsOnce
    <3>2. CASE t \notin mapped
      <4>1. free' = Append(free, t)
        BY <1>5, <3>2 DEF ResetPreSleepCID, IsToRegister
      <4> QED  BY <2>1, <4>1, AppendSet DEF IInv, TypeOK
    <3> QED  BY <3>1, <3>2
  <2>3. Listed(s)' <=> Listed(s)
    BY <2>1, <2>2 DEF Listed
  <2> QED  BY <2>1, <2>3 DEF Crossed, Lost
<1>6. ASSUME NEW u \in Slots,
             Disconnect(u) \/ LateCompletion(u) \/ GetQueuedCompletionStatus(u)
      PROVE  Goal
  BY <1>6, QuietStep DEF Disconnect, LateCompletion, GetQueuedCompletionStatus, ids
<1>7. CASE CloseClientPair
  <2>1. closing \in Slots /\ UNCHANGED <<free, acc>>
    BY <1>7 DEF IInv, TypeOK, CloseClientPair, OrNone
  <2>2. CASE CloseSlots(GivenBack(closing), Pair(closing))
    BY <2>1, <2>2, GivenBackPair, ClosingStep DEF IInv
  <2>3. CASE UNCHANGED <<slot, pre, late>>
    BY <2>1, <2>3, QuietStep
  <2> QED  BY <1>7, <2>2, <2>3 DEF CloseClientPair
<1>8. ASSUME NEW u \in Slots, SendClientFinal(u) PROVE Goal
  <2>1. CloseSlots(<<u>>, {u}) /\ UNCHANGED <<free, acc>>
    BY <1>8 DEF SendClientFinal
  <2> QED  BY <2>1, One, ClosingStep DEF IInv
<1>9. CASE AddRcvMsg \/ FindOffline
  BY <1>9, QuietStep DEF AddRcvMsg, FindOffline, ids
<1>10. CASE CloseInvalid \/ ResetOffline
  <2>1. work.slot \in Slots
    BY <1>10 DEF IInv, TypeOK, OrNone, CloseInvalid, ResetOffline
  <2>2. slot' = [slot EXCEPT ![work.slot] = Blank] /\ UNCHANGED <<free, pre, acc>>
    BY <1>10 DEF CloseInvalid, ResetOffline, Reset, ids
  <2>3. slot \in [Slots -> SlotState]
    BY DEF IInv, TypeOK
  <2> QED  BY <1>10, <2>1, <2>2, <2>3, EmptyingStep
<1>11. CASE MsgGameJoinChar \/ MsgJoinInfoFromClient
  BY <1>11, MessageShape, QuietStep DEF IInv, ids
<1> QED
  BY <1>1, <1>2, <1>3, <1>4, <1>5, <1>6, <1>7, <1>8, <1>9, <1>10, <1>11
  DEF Next, Sweep, UpdateNext, WorkerNext

\* An id in use becomes free only while the listener has taken it and has not
\* yet put a connection on it, or has given it to one this very moment.
THEOREM CrossedOnlyWhileAccepting == Spec => CrossedWhileAccepting
<1>1. IInv /\ [Next]_vars => (\A s \in Slots : ~Crossed(s) /\ Crossed(s)' => acc = s \/ acc' = s)
  BY Whereabouts
<1>2. UNCHANGED vars => (\A s \in Slots : ~Crossed(s) /\ Crossed(s)' => acc = s \/ acc' = s)
  BY QuietStep DEF vars, ids
<1> QED  BY <1>1, <1>2, Invariance, PTL DEF Spec, CrossedWhileAccepting

\* The server's own closes, of one slot or of a pair, lose no id.
THEOREM ClosesLoseNoId == Spec => LostOnlyByWorkers
<1>1. IInv /\ [Next]_vars =>
        ((\E s \in Slots : ~Lost(s) /\ Lost(s)') => CloseInvalid \/ ResetOffline)
  BY Whereabouts
<1>2. UNCHANGED vars =>
        ((\E s \in Slots : ~Lost(s) /\ Lost(s)') => CloseInvalid \/ ResetOffline)
  BY QuietStep DEF vars, ids
<1> QED  BY <1>1, <1>2, Invariance, PTL DEF Spec, LostOnlyByWorkers
=============================================================================
