----------------------------- MODULE ClientSlots -----------------------------
(* The connection slots of a field server: the listener takes a free slot id *)
(* and puts a connection on it, worker threads serve completions that name a *)
(* slot only, the server closes a slot together with the one linked to it,   *)
(* and the ids come back to the free list once a frame.                      *)
(*                                                                           *)
(* A step is a critical section of CClientManager or of one CNetUser, or a   *)
(* step of one thread between two of them.  The ids are those from           *)
(* NET_RESERVED_SLOT on.  The agent opens connections of its own for each    *)
(* client; which address a connection has decides its type.                  *)
EXTENDS SequencesExt

CONSTANTS
  Slots,     \* slot ids
  Gaeas,     \* Gaea ids
  None,      \* slot 0, GAEAID_NULL, nobody
  MaxQueue   \* bound: messages of clients that wait for the update thread

ASSUME NoneAssumption == None \notin Slots \cup Gaeas
ASSUME QueueAssumption == MaxQueue \in Nat

VARIABLES
  slot,      \* m_pClient
  free,      \* m_deqSleepCID
  mapped,    \* m_mapSleepCID
  pre,       \* m_vecSleepCID
  lock,      \* who runs ResetPreSleepCID, under the manager's lock
  acc,       \* the id the listener holds between getting and using it
  late,      \* slots that have closed a socket: completions of it may still come
  work,      \* the data a worker has taken from the completion port
  closing,   \* the slot CFieldServer::CloseClient is about to close
  queue,     \* messages received
  due        \* how many of them the update thread serves in this frame

ids  == <<free, mapped, pre, lock>>
vars == <<slot, ids, acc, late, work, closing, queue, due>>

OrNone(S) == S \cup {None}

Blank == [online |-> FALSE, sock |-> FALSE, type |-> "none", gaea |-> None,
          agent |-> None, client |-> None]

\* WRONG: the slot stays on line.
ResetOnline(r) == [Blank EXCEPT !.online = r.online]

Reset(r) == Blank

Message == [kind : {"JOIN"}, slot : Slots, gaea : Gaeas]
  \cup [kind : {"IDENTITY"}, slot : Slots, gaea : Gaeas, agent : Slots]

Init ==
  /\ slot = [s \in Slots |-> Blank]
  /\ free \in {q \in SeqOf(Slots, Cardinality(Slots)) : IsInjective(q) /\ ToSet(q) = Slots}
  /\ mapped = Slots
  /\ pre = <<>> /\ lock = None
  /\ acc = None /\ late = {} /\ work = None /\ closing = None
  /\ queue = <<>> /\ due = 0

-----------------------------------------------------------------------------
(* The listener                                                              *)

\* An accepted connection gets the first free id.
\* WRONG: the id stays in the map.
Taken(s) == mapped \ {s}

GetFreeClientID ==
  /\ acc = None /\ lock = None /\ free # <<>>
  /\ acc' = Head(free)
  /\ free' = Tail(free)
  /\ mapped' = Taken(Head(free))
  /\ slot' = [slot EXCEPT ![Head(free)].online = TRUE]
  /\ UNCHANGED <<pre, lock, late, work, closing, queue, due>>

\* Without one it is closed at once, and the ids that wait are registered.
NoFreeClientID ==
  /\ acc = None /\ lock = None /\ free = <<>> /\ pre # <<>>
  /\ lock' = "listener"
  /\ UNCHANGED <<slot, free, mapped, pre, acc, late, work, closing, queue, due>>

\* A connection already there is closed, the links found there are kept.
SetAcceptedClient(type) ==
  /\ acc # None
  /\ slot' = [slot EXCEPT ![acc].online = TRUE, ![acc].sock = TRUE, ![acc].type = type]
  /\ late' = IF slot[acc].sock THEN late \cup {acc} ELSE late
  /\ acc' = None
  /\ UNCHANGED <<ids, work, closing, queue, due>>
-----------------------------------------------------------------------------
(* The ids that wait                                                         *)

\* The frame begins.
FrameStart ==
  /\ due = 0 /\ lock = None
  /\ lock' = "frame"
  /\ UNCHANGED <<slot, free, mapped, pre, acc, late, work, closing, queue, due>>

\* WRONG: the ids already registered are registered again.
IsToRegisterAlways(s) == TRUE

IsToRegister(s) == s \notin mapped

ResetPreSleepCID ==
  /\ lock # None /\ pre # <<>>
  /\ pre' = Tail(pre)
  /\ IF IsToRegister(Head(pre))
     THEN free' = Append(free, Head(pre)) /\ mapped' = mapped \cup {Head(pre)}
     ELSE UNCHANGED <<free, mapped>>
  /\ UNCHANGED <<slot, lock, acc, late, work, closing, queue, due>>

\* All are registered; a frame goes on to the messages received so far.
ResetPreSleepCIDEnd ==
  /\ lock # None /\ pre = <<>>
  /\ lock' = None
  /\ due' = IF lock = "frame" THEN Len(queue) ELSE due
  /\ UNCHANGED <<slot, free, mapped, pre, acc, late, work, closing, queue>>
-----------------------------------------------------------------------------
(* Closing                                                                   *)

\* A slot on line gives its id back.
\* WRONG: slot 0 too.
OnLineAny(t) == IF t = None THEN <<t>> ELSE IF slot[t].online THEN <<t>> ELSE <<>>

OnLine(t) == IF t = None THEN <<>> ELSE IF slot[t].online THEN <<t>> ELSE <<>>

\* The slot the manager closes with s
Partner(s) == IF slot[s].type = "client" THEN slot[s].agent ELSE slot[s].client

Pair(s) == {t \in {s, Partner(s)} \ {None} : slot[t].online}

\* Of the two, those on line give their ids back, the agent's side first.
\* WRONG: the id of the partner is forgotten.
GivenBackOne(s) == OnLine(s)

GivenBack(s) ==
  IF Partner(s) = s THEN OnLine(s)
  ELSE IF slot[s].type = "client" THEN OnLine(Partner(s)) \o OnLine(s)
  ELSE OnLine(s) \o OnLine(Partner(s))

CloseSlots(q, S) ==
  /\ slot' = [s \in Slots |-> IF s \in S THEN Reset(slot[s]) ELSE slot[s]]
  /\ pre' = pre \o q
  /\ late' = late \cup {s \in S : slot[s].sock}

\* CFieldServer::CloseClient, under the server's lock: of a client slot the
\* agent slot linked to it will be closed, if there is one.
CloseClient(s) ==
  closing' = IF ~slot[s].online THEN None
             ELSE IF slot[s].type = "client" /\ slot[s].agent # None THEN slot[s].agent
             ELSE s

\* A worker sees a connection end or fail, or the heartbeat finds a client that
\* has no Gaea id.
Disconnect(s) ==
  /\ closing = None
  /\ slot[s].online /\ slot[s].sock
  /\ CloseClient(s)
  /\ UNCHANGED <<slot, ids, acc, late, work, queue, due>>

\* A completion of a connection that is gone reports an error.  There may always
\* be one more: sends and a receive are under way when a socket is closed.
LateCompletion(s) ==
  /\ closing = None
  /\ s \in late
  /\ CloseClient(s)
  /\ UNCHANGED <<slot, ids, acc, late, work, queue, due>>

\* CClientField::CloseClient, under the manager's lock, and both locks free again
CloseClientPair ==
  /\ closing # None /\ lock = None
  /\ IF slot[closing].online
     THEN CloseSlots(GivenBack(closing), Pair(closing))
     ELSE UNCHANGED <<slot, pre, late>>
  /\ closing' = None
  /\ UNCHANGED <<free, mapped, lock, acc, work, queue, due>>

\* SendClientFinal finds something to send to a slot without a socket, which
\* some handler sent to whoever had the slot before: the manager's own
\* CloseClient closes that slot alone.
SendClientFinal(s) ==
  /\ due = 0 /\ lock = None
  /\ s \in late
  /\ slot[s].online /\ ~slot[s].sock
  /\ CloseSlots(<<s>>, {s})
  /\ UNCHANGED <<free, mapped, lock, acc, work, closing, queue, due>>
-----------------------------------------------------------------------------
(* Receiving                                                                 *)

\* A worker takes data received on slot s from the completion port.
GetQueuedCompletionStatus(s) ==
  /\ work = None
  /\ slot[s].online /\ slot[s].sock
  /\ work' = [slot |-> s, at |-> "add"]
  /\ UNCHANGED <<slot, ids, acc, late, closing, queue, due>>

\* What comes from an agent is the join of a character; from a client, the
\* agent slot and the Gaea id that it was told.
Received(s) ==
  IF slot[s].type = "client"
  THEN {[kind |-> "IDENTITY", slot |-> s, gaea |-> slot[a].gaea, agent |-> a] :
          a \in {t \in Slots : slot[t].gaea # None}}
  ELSE {[kind |-> "JOIN", slot |-> s, gaea |-> g] : g \in Gaeas}

\* addRcvMsg and getRcvMsg on a slot that is on line: a message is queued, or
\* there is none yet.
AddRcvMsg ==
  /\ work # None /\ work.at = "add" /\ slot[work.slot].online
  /\ \/ UNCHANGED queue
     \/ /\ Len(queue) < MaxQueue
        /\ \E m \in Received(work.slot) : queue' = Append(queue, m)
  /\ work' = None
  /\ UNCHANGED <<slot, ids, acc, late, closing, due>>

\* getRcvMsg on a client whose first message is not complete or not known: the
\* slot is closed where it is, and the id is not given back.
CloseInvalid ==
  /\ work # None /\ work.at = "add"
  /\ LET s == work.slot IN
     /\ slot[s].online /\ slot[s].type = "client"
     /\ slot' = [slot EXCEPT ![s] = Reset(@)]
     /\ late' = IF slot[s].sock THEN late \cup {s} ELSE late
  /\ work' = None
  /\ UNCHANGED <<ids, acc, closing, queue, due>>

\* addRcvMsg finds the slot off line and resets it, without its lock.
FindOffline ==
  /\ work # None /\ work.at = "add" /\ ~slot[work.slot].online
  /\ work' = [work EXCEPT !.at = "reset"]
  /\ UNCHANGED <<slot, ids, acc, late, closing, queue, due>>

ResetOffline ==
  /\ work # None /\ work.at = "reset"
  /\ slot' = [slot EXCEPT ![work.slot] = Reset(@)]
  /\ work' = None
  /\ UNCHANGED <<ids, acc, late, closing, queue, due>>
-----------------------------------------------------------------------------
(* The messages of a frame                                                   *)

NextMsg(kind) == lock # "frame" /\ due > 0 /\ Head(queue).kind = kind

MsgDone ==
  /\ queue' = Tail(queue) /\ due' = due - 1
  /\ UNCHANGED <<ids, acc, late, work, closing>>

MsgGameJoinChar ==
  /\ NextMsg("JOIN")
  /\ LET m == Head(queue) IN
     slot' = [slot EXCEPT ![m.slot].gaea = m.gaea, ![m.slot].agent = m.slot]
  /\ MsgDone

\* The two slots are linked if the agent's has that Gaea id.
MsgJoinInfoFromClient ==
  /\ NextMsg("IDENTITY")
  /\ LET m == Head(queue) IN
     slot' = IF slot[m.agent].gaea # m.gaea THEN slot
             ELSE [[slot EXCEPT ![m.agent].client = m.slot]
                        EXCEPT ![m.slot].agent = m.agent, ![m.slot].gaea = m.gaea]
  /\ MsgDone
-----------------------------------------------------------------------------
Sweep == ResetPreSleepCID \/ ResetPreSleepCIDEnd

UpdateNext == FrameStart \/ MsgGameJoinChar \/ MsgJoinInfoFromClient

WorkerNext ==
  \/ \E s \in Slots : Disconnect(s) \/ LateCompletion(s) \/ GetQueuedCompletionStatus(s)
  \/ CloseClientPair \/ AddRcvMsg \/ CloseInvalid \/ FindOffline \/ ResetOffline

Next ==
  \/ GetFreeClientID \/ NoFreeClientID
  \/ \E type \in {"agent", "client"} : SetAcceptedClient(type)
  \/ Sweep \/ UpdateNext \/ WorkerNext
  \/ \E s \in Slots : SendClientFinal(s)

Spec == Init /\ [][Next]_vars
-----------------------------------------------------------------------------
SlotState == [online : BOOLEAN, sock : BOOLEAN, type : {"none", "agent", "client"},
              gaea : OrNone(Gaeas), agent : OrNone(Slots), client : OrNone(Slots)]

TypeOK ==
  /\ slot \in [Slots -> SlotState]
  /\ free \in Seq(Slots) /\ mapped \subseteq Slots /\ pre \in Seq(Slots)
  /\ lock \in {None, "frame", "listener"}
  /\ acc \in OrNone(Slots) /\ late \subseteq Slots /\ closing \in OrNone(Slots)
  /\ work \in OrNone([slot : Slots, at : {"add", "reset"}])
  /\ queue \in Seq(Message) /\ due \in 0..Len(queue)

\* The listener finds each id in the free list at most once, and the map that
\* guards it holds exactly the ids of the list: two accepted connections are
\* never given the same id out of one registration.
FreeIdsOnce == IsInjective(free) /\ mapped = ToSet(free)

Listed(s)  == s \in ToSet(free) \/ s \in ToSet(pre)
Crossed(s) == Listed(s) /\ slot[s].online
Lost(s)    == ~Listed(s) /\ acc # s /\ ~slot[s].online

\* A slot in use whose id is free or about to be becomes so in one way only:
\* its id was given back while the listener held it, before it put a connection
\* on it.
CrossedWhileAccepting == [][\A s \in Slots :
  ~Crossed(s) /\ Crossed(s)' => acc = s \/ acc' = s]_vars

\* An id is lost (nobody uses it, and it will never be free) only by the two
\* paths on which a worker empties a slot by itself; no close by the server, of
\* either side of a pair, forgets to give an id back.
LostOnlyByWorkers == [][
  (\E s \in Slots : ~Lost(s) /\ Lost(s)') => CloseInvalid \/ ResetOffline]_vars
=============================================================================
