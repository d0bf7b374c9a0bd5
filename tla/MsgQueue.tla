------------------------------ MODULE MsgQueue ------------------------------
(***************************************************************************)
(* CSMsgManager, the receive queue between the I/O worker threads of a     *)
(* server and its update thread: two lists of reusable nodes.  Any thread  *)
(* inserts at the front list, under the manager's lock; the update thread  *)
(* alone flips the lists, under the lock, and reads the back list without  *)
(* it.  A step below is a critical section, or a step of the update        *)
(* thread on what no other thread uses.                                    *)
(*                                                                         *)
(* A list never gives a node back, so its nodes are numbered in list       *)
(* order: node k + 1 follows node k, and NULL is 0.                        *)
(***************************************************************************)
EXTENDS Naturals, Sequences

CONSTANTS
  Msgs,       \* messages, each with the client it came from
  Nothing,    \* what a node holds before its first message
  StartSize,  \* nodes of a new list
  MaxNodes    \* nodes a list can have before HeapAlloc fails for sure

ASSUME SizeAssumption == StartSize \in Nat /\ MaxNodes \in Nat /\ StartSize <= MaxNodes
ASSUME NothingAssumption == Nothing \notin Msgs

NULL == 0
Nodes == 1..MaxNodes

VARIABLES
  list,   \* the two CSMsgList objects
  front,  \* m_pMsgFront; the other one is m_pMsgBack
  at,     \* where the update thread stands
  pMsg    \* the node whose message it processes

vars == <<list, front, at, pMsg>>

Back == 3 - front

MsgList == [size : 0..MaxNodes, current : 0..MaxNodes, read : 0..MaxNodes,
            node : [Nodes -> Msgs \cup {Nothing}]]

HeadNode(l) == IF l.size = 0 THEN NULL ELSE 1

\* WRONG: the last node has a next one.
NextNodeOnEnd(l, k) == k + 1

NextNode(l, k) == IF k = l.size THEN NULL ELSE k + 1

\* What CSMsgList's AddTail and AddMsg's assignment make of a full list
Grown(l) == [l EXCEPT !.size = @ + 1, !.current = l.size + 1,
                      !.read = IF l.size = 0 THEN 1 ELSE @]

Stored(l, m) == [l EXCEPT !.node[l.current] = m,
                          !.current = NextNode(l, l.current)]

\* WRONG: the insert position is not taken back.
ReadOnlyReset(l) == [l EXCEPT !.read = HeadNode(l)]

Reset(l) == [l EXCEPT !.current = HeadNode(l), !.read = HeadNode(l)]

\* WRONG: a full list looks read to its end.
NothingUnreadWhenFull(l) == l.read = l.current \/ l.read = NULL \/ l.current = NULL

NothingUnread(l) == l.read = l.current \/ l.read = NULL

-----------------------------------------------------------------------------
\* A message is dropped when the list is full and there is no memory.
MsgQueueInsert(m) ==
  LET l == list[front] IN
  /\ \/ l.current # NULL /\ list' = [list EXCEPT ![front] = Stored(l, m)]
     \/ l.current = NULL /\ l.size < MaxNodes
        /\ list' = [list EXCEPT ![front] = Stored(Grown(l), m)]
     \/ l.current = NULL /\ UNCHANGED list
  /\ UNCHANGED <<front, at, pMsg>>

\* RecvMsgProcess, once a frame: flip, then GetMsg and MsgProcess by turns.
MsgQueueFlip ==
  /\ at = "frame"
  /\ list' = [list EXCEPT ![Back] = Reset(@)]
  /\ front' = Back
  /\ at' = "get"
  /\ UNCHANGED pMsg

\* WRONG: GetMsg flips the lists itself rather than end the frame's reading.
GetMsgOrFlip ==
  LET l == list[Back] IN
  /\ at = "get"
  /\ IF ~NothingUnread(l)
     THEN /\ pMsg' = l.read /\ at' = "process"
          /\ list' = [list EXCEPT ![Back].read = NextNode(l, l.read)]
          /\ UNCHANGED front
     ELSE IF NothingUnread(list[front])
     THEN /\ pMsg' = NULL /\ at' = "frame"
          /\ UNCHANGED <<list, front>>
     ELSE /\ list' = [list EXCEPT ![Back] = Reset(@)]
          /\ front' = Back
          /\ UNCHANGED <<at, pMsg>>

GetMsg ==
  LET l == list[Back] IN
  /\ at = "get"
  /\ IF NothingUnread(l)
     THEN /\ pMsg' = NULL /\ at' = "frame"
          /\ UNCHANGED list
     ELSE /\ pMsg' = l.read /\ at' = "process"
          /\ list' = [list EXCEPT ![Back].read = NextNode(l, l.read)]
  /\ UNCHANGED front

\* The handler reads the node, and returns.
MsgProcess ==
  /\ at = "process"
  /\ at' = "get"
  /\ UNCHANGED <<list, front, pMsg>>

NewList == [size |-> StartSize, current |-> IF StartSize = 0 THEN NULL ELSE 1,
            read |-> IF StartSize = 0 THEN NULL ELSE 1,
            node |-> [k \in Nodes |-> Nothing]]

Init ==
  /\ list = [l \in {1, 2} |-> NewList]
  /\ front = 1
  /\ at = "frame" /\ pMsg = NULL

UpdateNext == MsgQueueFlip \/ GetMsg \/ MsgProcess

Next == UpdateNext \/ \E m \in Msgs : MsgQueueInsert(m)

Spec == Init /\ [][Next]_vars

\* The update thread runs as long as the server does.
FairSpec == Spec /\ WF_vars(UpdateNext)

-----------------------------------------------------------------------------
\* The numbers of messages written to a list and read from it since its Reset
Written(l) == IF l.current = NULL THEN l.size ELSE l.current - 1
Read(l) == IF l.read = NULL THEN l.size ELSE l.read - 1

Unread(l) == SubSeq(l.node, Read(l) + 1, Written(l))
InHand == IF at = "process" THEN list[Back].node[pMsg] ELSE Nothing

\* Every pointer of a list is NULL or a node of it, and the update thread
\* holds a node while it processes one.
TypeOK ==
  /\ list \in [{1, 2} -> MsgList]
  /\ front \in {1, 2}
  /\ at \in {"frame", "get", "process"}
  /\ pMsg \in 0..MaxNodes
  /\ at = "process" => pMsg # NULL

\* The two lists are a first-in first-out queue: whatever the workers insert
\* while the update thread flips, reads and processes, no message is lost,
\* read twice, reordered or overwritten before its handler has returned.
Fifo == INSTANCE Fifo WITH
  queue <- Unread(list[Back]) \o Unread(list[front]),
  hand  <- InHand

FifoSpec == Fifo!Spec

\* Every message is processed: the update thread comes to hold each message
\* that waits in a queue, however many are inserted meanwhile.
EveryMessageTaken ==
  \A m \in Msgs :
    (\E l \in {1, 2}, k \in Nodes : k > Read(list[l]) /\ k <= Written(list[l])
                                      /\ list[l].node[k] = m)
      ~> InHand = m

\* Message processing leaves room for the rest of the frame: messages that
\* keep coming while the back list is read do not hold the frame up.
FrameEnds == at # "frame" ~> at = "frame"
=============================================================================
