--------------------------- MODULE MsgQueueProofs ---------------------------
(***************************************************************************)
(* The receive queue implements the first-in first-out queue, for any      *)
(* messages, any initial size and any amount of memory.                    *)
(***************************************************************************)
EXTENDS MsgQueue, SequenceTheorems, TLAPS

Filled(l) == \A k \in 1..Written(l) : l.node[k] \in Msgs

ListOK(l) ==
  /\ l \in MsgList
  /\ l.current <= l.size /\ l.read <= l.size
  /\ Read(l) <= Written(l)
  /\ Filled(l)

\* The inductive invariant: reading never overtakes writing, the front list is
\* unread from its head, and the back list is read to its end between frames.
IInv ==
  /\ TypeOK
  /\ \A i \in {1, 2} : ListOK(list[i])
  /\ list[front].read = HeadNode(list[front])
  /\ at = "frame" => Read(list[Back]) = Written(list[Back])
  /\ at = "process" => pMsg \in 1..Read(list[Back])

-----------------------------------------------------------------------------
(* What the operations of one list do to the messages that wait in it *)

LEMMA Counts ==
  ASSUME NEW l \in MsgList, l.current <= l.size, l.read <= l.size
  PROVE  /\ Written(l) \in 0..l.size /\ Read(l) \in 0..l.size
         /\ l.size \in 0..MaxNodes
         /\ l.current # NULL => Written(l) + 1 = l.current
         /\ l.current = NULL => Written(l) = l.size
  BY SizeAssumption DEF MsgList, Written, Read, NULL

\* The unread messages of a list are a sequence of messages, one for every node the
\* reader has still to reach.
LEMMA UnreadIsSeq ==
  ASSUME NEW l, ListOK(l)
  PROVE  /\ l.node \in Seq(Msgs \cup {Nothing}) /\ Len(l.node) = MaxNodes
         /\ Unread(l) \in Seq(Msgs)
         /\ Len(Unread(l)) = Written(l) - Read(l)
         /\ \A i \in 1..(Written(l) - Read(l)) : Unread(l)[i] = l.node[Read(l) + i]
<1>1. l.node \in [1..MaxNodes -> Msgs \cup {Nothing}] /\ MaxNodes \in Nat
  BY SizeAssumption DEF ListOK, MsgList, Nodes
<1>2. Written(l) \in Nat /\ Read(l) \in Nat /\ Read(l) <= Written(l)
  BY Counts DEF ListOK
<1>3. \A i \in (Read(l) + 1)..Written(l) : l.node[i] \in Msgs
  BY <1>2 DEF ListOK, Filled
<1>4. /\ SubSeq(l.node, Read(l) + 1, Written(l)) \in Seq(Msgs)
      /\ Len(SubSeq(l.node, Read(l) + 1, Written(l)))
           = IF Read(l) + 1 <= Written(l) THEN Written(l) - (Read(l) + 1) + 1 ELSE 0
      /\ \A i \in 1..(Written(l) - (Read(l) + 1) + 1) :
           SubSeq(l.node, Read(l) + 1, Written(l))[i] = l.node[Read(l) + 1 + i - 1]
  BY <1>2, <1>3, SubSeqProperties
<1>5. l.node \in Seq(Msgs \cup {Nothing}) /\ Len(l.node) = MaxNodes
  BY <1>1
<1>6. Len(Unread(l)) = Written(l) - Read(l)
  BY <1>2, <1>4 DEF Unread
<1>7. \A i \in 1..(Written(l) - Read(l)) : Unread(l)[i] = l.node[Read(l) + i]
  <2> TAKE i \in 1..(Written(l) - Read(l))
  <2>1. i \in 1..(Written(l) - (Read(l) + 1) + 1) /\ Read(l) + 1 + i - 1 = Read(l) + i
    BY <1>2
  <2>2. Unread(l)[i] = l.node[Read(l) + 1 + i - 1]
    BY <1>4, <2>1 DEF Unread
  <2> QED  BY <2>1, <2>2
<1> QED  BY <1>4, <1>5, <1>6, <1>7 DEF Unread

\* AddMsg into a node that is there appends one message to the unread ones.
LEMMA StoredAppends ==
  ASSUME NEW l, ListOK(l), NEW m \in Msgs, l.current # NULL
  PROVE  /\ ListOK(Stored(l, m))
         /\ Stored(l, m).read = l.read /\ Stored(l, m).size = l.size
         /\ Unread(Stored(l, m)) = Append(Unread(l), m)
<1> DEFINE s == Stored(l, m)
<1>1. /\ l.current \in 1..l.size /\ l.read \in 0..l.size /\ l.size \in 0..MaxNodes
      /\ l.node \in [Nodes -> Msgs \cup {Nothing}] /\ MaxNodes \in Nat
      /\ Written(l) = l.current - 1
  BY SizeAssumption DEF ListOK, MsgList, NULL, Written
<1>2. /\ s.size = l.size /\ s.read = l.read
      /\ s.current = NextNode(l, l.current)
      /\ s.node = [l.node EXCEPT ![l.current] = m]
      /\ s \in MsgList /\ s.current <= s.size
  <2>1. NextNode(l, l.current) \in 0..MaxNodes /\ NextNode(l, l.current) <= l.size
    BY <1>1 DEF NextNode, NULL
  <2>2. s.size = l.size /\ s.read = l.read /\ s.current = NextNode(l, l.current)
    BY DEF Stored, ListOK, MsgList
  <2>3. s.node = [l.node EXCEPT ![l.current] = m]
    BY DEF Stored, ListOK, MsgList
  <2>4. s \in MsgList
    BY <2>1, <1>1 DEF Stored, ListOK, MsgList, Nodes
  <2> QED  BY <2>1, <2>2, <2>3, <2>4
<1>3. Read(s) = Read(l) /\ Written(s) = Written(l) + 1
  BY <1>1, <1>2 DEF Read, Written, NextNode, NULL
<1>4. Read(l) \in Nat /\ Written(l) \in Nat /\ Read(l) <= Written(l)
  BY <1>1, Counts DEF ListOK
<1>5. Filled(s)
  BY <1>1, <1>2, <1>3 DEF Filled, ListOK, Nodes
<1>6. ListOK(s)
  BY <1>1, <1>2, <1>3, <1>4, <1>5 DEF ListOK
<1>7. /\ Append(Unread(l), m) \in Seq(Msgs)
      /\ Len(Append(Unread(l), m)) = Len(Unread(l)) + 1
      /\ \A i \in 1..Len(Unread(l)) : Append(Unread(l), m)[i] = Unread(l)[i]
      /\ Append(Unread(l), m)[Len(Unread(l)) + 1] = m
  BY UnreadIsSeq, AppendProperties
<1>8. /\ Unread(s) \in Seq(Msgs) /\ Len(Unread(s)) = Written(l) + 1 - Read(l)
      /\ Len(Unread(l)) = Written(l) - Read(l)
  <2>1. Len(Unread(l)) = Written(l) - Read(l)
    BY UnreadIsSeq
  <2>2. Unread(s) \in Seq(Msgs) /\ Len(Unread(s)) = Written(s) - Read(s)
    BY <1>6, UnreadIsSeq
  <2> QED  BY <2>1, <2>2, <1>3, <1>4
<1>9. \A i \in 1..Len(Unread(s)) : Unread(s)[i] = Append(Unread(l), m)[i]
  <2> SUFFICES ASSUME NEW i \in 1..Len(Unread(s))
               PROVE  Unread(s)[i] = Append(Unread(l), m)[i]
    OBVIOUS
  <2>1. i \in 1..(Written(l) + 1 - Read(l)) /\ Written(l) \in Nat
    BY <1>1, <1>8
  <2>2. Unread(s)[i] = s.node[Read(l) + i]
    <3>1. \A j \in 1..(Written(s) - Read(s)) : Unread(s)[j] = s.node[Read(s) + j]
      BY <1>6, UnreadIsSeq
    <3>2. i \in 1..(Written(s) - Read(s))
      BY <2>1, <1>3, <1>4
    <3> QED  BY <3>1, <3>2, <1>3
  <2>3. CASE i = Len(Unread(l)) + 1
    <3>1. Read(l) + i = l.current
      <4>1. i = Written(l) - Read(l) + 1 /\ l.current = Written(l) + 1
        BY <1>8, <2>3, <1>1, <1>4
      <4> QED  BY <4>1, <1>4
    <3>2. s.node[l.current] = m
      BY <1>1, <1>2 DEF Nodes
    <3> QED  BY <2>2, <2>3, <3>1, <3>2, <1>7
  <2>4. CASE i # Len(Unread(l)) + 1
    <3>1. i \in 1..(Written(l) - Read(l))
      BY <1>8, <2>1, <2>4, <1>4
    <3>5. Read(l) + i \in Nodes /\ Read(l) + i # l.current
      <4>1. i \in Nat /\ i >= 1 /\ Read(l) + i <= l.current - 1
        BY <3>1, <1>1, <1>4
      <4>2. l.current \in Nat /\ l.current <= MaxNodes
        BY <1>1
      <4> QED  BY <4>1, <4>2, <1>1, <1>4 DEF Nodes
    <3>2. s.node[Read(l) + i] = l.node[Read(l) + i]
      BY <3>5, <1>1, <1>2
    <3>3. Unread(l)[i] = l.node[Read(l) + i]
      BY <3>1, UnreadIsSeq
    <3>4. Append(Unread(l), m)[i] = Unread(l)[i]
      BY <3>1, <1>7, <1>8
    <3> QED  BY <2>2, <3>2, <3>3, <3>4
  <2> QED  BY <2>3, <2>4
<1>10. Len(Unread(s)) = Len(Append(Unread(l), m))
  <2>1. Written(l) \in Nat /\ Read(l) \in Nat
    BY <1>4
  <2> QED  BY <2>1, <1>7, <1>8
<1>11. Unread(s) = Append(Unread(l), m)
  BY <1>7, <1>8, <1>9, <1>10, SeqEqual
<1> QED  BY <1>2, <1>6, <1>11

\* AddTail makes room and leaves the unread messages of an unread list as they were.
LEMMA GrownKeeps ==
  ASSUME NEW l, ListOK(l), l.current = NULL, l.size < MaxNodes, l.read = HeadNode(l)
  PROVE  /\ ListOK(Grown(l)) /\ Grown(l).current # NULL
         /\ Grown(l).read = HeadNode(Grown(l))
         /\ Unread(Grown(l)) = Unread(l)
<1>1. /\ l.size \in Nat /\ MaxNodes \in Nat /\ Written(l) = l.size /\ Read(l) = 0
      /\ l \in MsgList /\ Filled(l)
  BY SizeAssumption DEF ListOK, MsgList, NULL, Written, Read, HeadNode
<1>2. /\ Grown(l).size = l.size + 1 /\ Grown(l).current = l.size + 1
      /\ Grown(l).read = 1 /\ Grown(l).node = l.node
      /\ Grown(l) \in MsgList
  <2>1. l.size + 1 \in 0..MaxNodes
    BY <1>1
  <2>2. (IF l.size = 0 THEN 1 ELSE l.read) = 1 /\ 1 \in 0..MaxNodes
    BY <1>1 DEF HeadNode
  <2>3. Grown(l) = [l EXCEPT !.size = l.size + 1, !.current = l.size + 1, !.read = 1]
    BY <2>2, Zenon DEF Grown
  <2>4. /\ Grown(l).size = l.size + 1 /\ Grown(l).current = l.size + 1
        /\ Grown(l).read = 1 /\ Grown(l).node = l.node
    BY <1>1, <2>3 DEF MsgList
  <2>5. Grown(l) \in MsgList
    BY <1>1, <2>1, <2>2, <2>3 DEF MsgList
  <2> QED  BY <2>4, <2>5
<1>3. Written(Grown(l)) = Written(l) /\ Read(Grown(l)) = Read(l)
  BY <1>1, <1>2 DEF Written, Read, NULL
<1> QED  BY <1>1, <1>2, <1>3 DEF ListOK, Filled, Unread, HeadNode, NULL

\* After Reset a list is well formed, at its start, and has nothing unread.
LEMMA ResetEmpties ==
  ASSUME NEW l, ListOK(l)
  PROVE  /\ ListOK(Reset(l)) /\ Reset(l).read = HeadNode(Reset(l))
         /\ Unread(Reset(l)) = <<>>
<1>1. l.size \in 0..MaxNodes /\ MaxNodes \in Nat /\ l \in MsgList
  BY SizeAssumption DEF ListOK, MsgList
<1>2. /\ Reset(l).size = l.size /\ Reset(l).current = HeadNode(l)
      /\ Reset(l).read = HeadNode(l) /\ Reset(l).node = l.node
      /\ Reset(l) \in MsgList
  <2>1. HeadNode(l) \in 0..MaxNodes
    BY <1>1 DEF HeadNode, NULL
  <2> QED  BY <1>1, <2>1 DEF Reset, MsgList
<1>3. Written(Reset(l)) = 0 /\ Read(Reset(l)) = 0
  BY <1>1, <1>2 DEF Written, Read, HeadNode, NULL
<1>4. ListOK(Reset(l)) /\ Reset(l).read = HeadNode(Reset(l))
  BY <1>1, <1>2, <1>3 DEF ListOK, Filled, HeadNode, NULL
<1>5. Unread(Reset(l)) = <<>>
  BY <1>3, SubSeqEmpty DEF Unread
<1> QED  BY <1>4, <1>5

\* What the update thread sees at the end of a list, and what a read takes
LEMMA ReadTakes ==
  ASSUME NEW l, ListOK(l)
  PROVE  /\ NothingUnread(l) <=> Read(l) = Written(l)
         /\ NothingUnread(l) <=> Unread(l) = <<>>
         /\ ~NothingUnread(l) =>
              LET r == [l EXCEPT !.read = NextNode(l, l.read)]
              IN  /\ ListOK(r) /\ l.read = Read(r) /\ Read(r) \in Nodes
                  /\ r.node = l.node
                  /\ Unread(l) # <<>>
                  /\ Head(Unread(l)) = l.node[l.read]
                  /\ Unread(r) = Tail(Unread(l))
<1>1. /\ l.current \in 0..l.size /\ l.read \in 0..l.size /\ l.size \in 0..MaxNodes
      /\ l \in MsgList /\ MaxNodes \in Nat /\ Read(l) <= Written(l)
  BY SizeAssumption DEF ListOK, MsgList
<1>2. NothingUnread(l) <=> Read(l) = Written(l)
  BY <1>1 DEF NothingUnread, Read, Written, NULL
<1>3. NothingUnread(l) <=> Unread(l) = <<>>
  <2>1. Read(l) \in Nat /\ Written(l) \in Nat
    BY <1>1 DEF Read, Written, NULL
  <2>2. Unread(l) \in Seq(Msgs) /\ Len(Unread(l)) = Written(l) - Read(l)
    BY UnreadIsSeq
  <2>3. Unread(l) = <<>> <=> Len(Unread(l)) = 0
    BY <2>2, EmptySeq
  <2> QED  BY <1>2, <2>1, <2>2, <2>3
<1>4. ASSUME ~NothingUnread(l)
      PROVE  LET r == [l EXCEPT !.read = NextNode(l, l.read)]
             IN  /\ ListOK(r) /\ l.read = Read(r) /\ Read(r) \in Nodes
                 /\ r.node = l.node
                 /\ Unread(l) # <<>>
                 /\ Head(Unread(l)) = l.node[l.read]
                 /\ Unread(r) = Tail(Unread(l))
  <2> DEFINE r == [l EXCEPT !.read = NextNode(l, l.read)]
  <2>1. /\ r.read = NextNode(l, l.read) /\ r.size = l.size /\ r.current = l.current
        /\ r.node = l.node /\ l.read \in 1..l.size /\ r \in MsgList
        /\ r.read <= r.size
    BY <1>1, <1>4 DEF MsgList, NextNode, NothingUnread, NULL
  <2>2. Written(r) = Written(l) /\ Read(r) = l.read /\ Read(l) = l.read - 1
    BY <1>1, <2>1 DEF Written, Read, NextNode, NULL
  <2>3. Read(l) < Written(l) /\ Written(l) \in 0..l.size
    BY <1>1, <1>2, <1>4 DEF Written, Read, NULL
  <2>4. ListOK(r) /\ Read(r) \in Nodes
    BY <1>1, <2>1, <2>2, <2>3 DEF ListOK, Filled, Nodes
  <2>5. l.node \in Seq(Msgs \cup {Nothing}) /\ Len(l.node) = MaxNodes
    BY UnreadIsSeq
  <2>6. l.read \in 1..Len(l.node) /\ Written(l) \in l.read..Len(l.node)
    BY <1>1, <2>1, <2>2, <2>3, <2>5
  <2>7. /\ Head(SubSeq(l.node, l.read, Written(l))) = l.node[l.read]
        /\ Tail(SubSeq(l.node, l.read, Written(l))) = SubSeq(l.node, l.read + 1, Written(l))
    BY <2>5, <2>6, HeadTailOfSubSeq
  <2>8. Read(l) + 1 = l.read
    BY <2>1, <2>2
  <2> QED  BY <1>3, <1>4, <2>1, <2>2, <2>4, <2>7, <2>8 DEF Unread
<1> QED  BY <1>2, <1>3, <1>4

-----------------------------------------------------------------------------
(* The inductive invariant *)

LEMMA TwoLists ==
  ASSUME front \in {1, 2}
  PROVE  Back \in {1, 2} /\ Back # front /\ (\A i \in {1, 2} : i = front \/ i = Back)
  BY DEF Back

\* The lists the constructor makes are well formed and unread.
LEMMA InitIInv == Init => IInv
<1> SUFFICES ASSUME Init PROVE IInv
  OBVIOUS
<1>1. NewList \in MsgList /\ NewList.size = StartSize
      /\ NewList.current = HeadNode(NewList) /\ NewList.read = HeadNode(NewList)
  BY SizeAssumption DEF NewList, MsgList, HeadNode, NULL
<1>2. Written(NewList) = 0 /\ Read(NewList) = 0
  BY <1>1, SizeAssumption DEF Written, Read, HeadNode, NULL
<1>3. ListOK(NewList)
  BY <1>1, <1>2, SizeAssumption DEF ListOK, Filled, HeadNode, NULL
<1>4. list[1] = NewList /\ list[2] = NewList /\ front = 1 /\ Back = 2 /\ at = "frame"
  BY DEF Init, Back
<1>5. TypeOK
  BY <1>1, <1>4, SizeAssumption DEF Init, TypeOK, NULL
<1> QED  BY <1>1, <1>2, <1>3, <1>4, <1>5 DEF IInv

\* MsgQueueInsert, growing or not, leaves both lists well formed and the front one unread.
LEMMA InsertIInv ==
  ASSUME IInv, NEW m \in Msgs, MsgQueueInsert(m)
  PROVE  IInv'
<1> DEFINE l == list[front]
<1>1. l \in MsgList /\ ListOK(l) /\ l.read = HeadNode(l)
      /\ front \in {1, 2} /\ list \in [{1, 2} -> MsgList] /\ TypeOK
  BY DEF IInv, TypeOK
<1>2. Back' = Back /\ front' = front /\ at' = at /\ pMsg' = pMsg
  BY DEF MsgQueueInsert, Back
<1>3. CASE UNCHANGED list
  BY <1>2, <1>3 DEF IInv, TypeOK
<1>4. ASSUME NEW n \in MsgList, ListOK(n), n.read = HeadNode(n),
             list' = [list EXCEPT ![front] = n]
      PROVE  IInv'
  <2>1. list'[front] = n /\ list'[Back] = list[Back] /\ list' \in [{1, 2} -> MsgList]
    BY <1>1, <1>4, TwoLists
  <2>2. TypeOK'
    BY <1>2, <2>1 DEF IInv, TypeOK
  <2>3. \A i \in {1, 2} : ListOK(list'[i])
    BY <1>1, <1>4, <2>1, TwoLists DEF IInv
  <2>4. list'[front].read = HeadNode(list'[front])
    BY <1>4, <2>1
  <2> QED  BY <1>2, <2>1, <2>2, <2>3, <2>4 DEF IInv
<1>5. CASE l.current # NULL /\ list' = [list EXCEPT ![front] = Stored(l, m)]
  <2>1. ListOK(Stored(l, m)) /\ Stored(l, m).read = HeadNode(Stored(l, m))
    BY <1>1, <1>5, StoredAppends DEF HeadNode
  <2> QED  BY <1>4, <1>5, <2>1 DEF ListOK
<1>6. CASE l.current = NULL /\ l.size < MaxNodes
           /\ list' = [list EXCEPT ![front] = Stored(Grown(l), m)]
  <2>1. ListOK(Grown(l)) /\ Grown(l).current # NULL /\ Grown(l).read = HeadNode(Grown(l))
    BY <1>1, <1>6, GrownKeeps
  <2>2. /\ ListOK(Stored(Grown(l), m))
        /\ Stored(Grown(l), m).read = HeadNode(Stored(Grown(l), m))
    BY <2>1, StoredAppends DEF HeadNode
  <2> QED  BY <1>4, <1>6, <2>2 DEF ListOK
<1> QED  BY <1>3, <1>5, <1>6 DEF MsgQueueInsert

\* MsgQueueFlip hands a list the reader has finished with to the writers, reset.
LEMMA FlipIInv ==
  ASSUME IInv, MsgQueueFlip
  PROVE  IInv'
<1>1. /\ front \in {1, 2} /\ list \in [{1, 2} -> MsgList] /\ front' = Back
      /\ Back' = front /\ at' = "get" /\ pMsg' = pMsg
      /\ list' = [list EXCEPT ![Back] = Reset(list[Back])]
  BY DEF IInv, TypeOK, MsgQueueFlip, Back
<1>2. ListOK(Reset(list[Back])) /\ Reset(list[Back]).read = HeadNode(Reset(list[Back]))
  BY <1>1, TwoLists, ResetEmpties DEF IInv
<1>3. list'[Back] = Reset(list[Back]) /\ list'[front] = list[front]
      /\ list' \in [{1, 2} -> MsgList]
  BY <1>1, <1>2, TwoLists DEF ListOK
<1>4. \A i \in {1, 2} : ListOK(list'[i])
  BY <1>1, <1>2, <1>3, TwoLists DEF IInv
<1>5. TypeOK'
  BY <1>1, <1>3, TwoLists DEF IInv, TypeOK
<1> QED  BY <1>1, <1>2, <1>3, <1>4, <1>5 DEF IInv

\* GetMsg leaves the list well formed; at its end the frame is over and nothing is unread.
LEMMA GetIInv ==
  ASSUME IInv, GetMsg
  PROVE  IInv'
<1> DEFINE l == list[Back]
           r == [l EXCEPT !.read = NextNode(l, l.read)]
<1>1. /\ front \in {1, 2} /\ list \in [{1, 2} -> MsgList] /\ front' = front
      /\ Back' = Back /\ ListOK(l) /\ TypeOK
  BY TwoLists DEF IInv, TypeOK, GetMsg, Back
<1>2. CASE NothingUnread(l)
  <2>1. pMsg' = NULL /\ at' = "frame" /\ list' = list
    BY <1>2 DEF GetMsg
  <2>2. Read(l) = Written(l)
    BY <1>1, <1>2, ReadTakes
  <2>3. TypeOK'
    BY <1>1, <2>1, SizeAssumption DEF TypeOK, NULL
  <2> QED  BY <1>1, <2>1, <2>2, <2>3 DEF IInv
<1>3. CASE ~NothingUnread(l)
  <2>1. pMsg' = l.read /\ at' = "process" /\ list' = [list EXCEPT ![Back] = r]
    BY <1>3, <1>1 DEF GetMsg
  <2>2. ListOK(r) /\ l.read = Read(r) /\ Read(r) \in Nodes
    BY <1>1, <1>3, ReadTakes
  <2>3. list'[Back] = r /\ list'[front] = list[front] /\ list' \in [{1, 2} -> MsgList]
    BY <1>1, <2>1, <2>2, TwoLists DEF ListOK
  <2>4. TypeOK'
    BY <1>1, <2>1, <2>2, <2>3, SizeAssumption DEF TypeOK, NULL, Nodes
  <2>5. \A i \in {1, 2} : ListOK(list'[i])
    BY <1>1, <2>2, <2>3, TwoLists DEF IInv
  <2>6. pMsg' \in 1..Read(list'[Back])
    BY <2>1, <2>2, <2>3, SizeAssumption DEF Nodes
  <2> QED  BY <1>1, <2>1, <2>3, <2>4, <2>5, <2>6 DEF IInv
<1> QED  BY <1>2, <1>3

\* Every step of a worker or of the update thread preserves the invariant.
LEMMA NextIInv == IInv /\ [Next]_vars => IInv'
<1> SUFFICES ASSUME IInv, [Next]_vars PROVE IInv'
  OBVIOUS
<1>1. ASSUME NEW m \in Msgs, MsgQueueInsert(m) PROVE IInv'
  BY <1>1, InsertIInv
<1>2. CASE MsgQueueFlip
  BY <1>2, FlipIInv
<1>3. CASE GetMsg
  BY <1>3, GetIInv
<1>4. CASE MsgProcess
  BY <1>4 DEF IInv, TypeOK, MsgProcess, Back
<1>5. CASE UNCHANGED vars
  BY <1>5 DEF IInv, TypeOK, vars, Back
<1> QED  BY <1>1, <1>2, <1>3, <1>4, <1>5 DEF Next, UpdateNext

\* The lists stay well formed in every interleaving of the worker threads with the
\* update thread: the writers only ever see the front list, unread, and the list
\* that is flipped to the front has been read to its end.
THEOREM Invariance == Spec => []IInv
<1>1. Init => IInv
  BY InitIInv
<1>2. IInv /\ [Next]_vars => IInv'
  BY NextIInv
<1> QED  BY <1>1, <1>2, PTL DEF Spec

\* The pointers of the lists and of the update thread (CSMsgList's m_pCurrent
\* and m_pRead, and the pMsg of RecvMsgProcess) never leave the nodes.
THEOREM TypeCorrect == Spec => []TypeOK
<1>1. IInv => TypeOK
  BY DEF IInv
<1> QED  BY <1>1, Invariance, PTL

-----------------------------------------------------------------------------
(* The refinement: a step of the queue is a step of the abstract one *)

LEMMA ConcatAppend ==
  ASSUME NEW s \in Seq(Msgs), NEW t \in Seq(Msgs), NEW m \in Msgs
  PROVE  s \o Append(t, m) = Append(s \o t, m)
<1>1. <<m>> \in Seq(Msgs) /\ s \o t \in Seq(Msgs)
  BY ConcatProperties
<1>2. s \o Append(t, m) = s \o (t \o <<m>>)
  BY AppendIsConcat
<1>3. s \o (t \o <<m>>) = (s \o t) \o <<m>>
  BY <1>1, ConcatAssociative
<1> QED  BY <1>1, <1>2, <1>3, AppendIsConcat

\* The head of a concatenation comes from its first part, when that is not empty.
LEMMA ConcatHeadTail ==
  ASSUME NEW s \in Seq(Msgs), NEW t \in Seq(Msgs), s # <<>>
  PROVE  /\ s \o t # <<>> /\ Head(s \o t) = Head(s)
         /\ Tail(s \o t) = Tail(s) \o t
<1> DEFINE u == s \o t
<1>1. /\ u \in Seq(Msgs) /\ Len(u) = Len(s) + Len(t)
      /\ \A i \in 1..Len(s) + Len(t) : u[i] = IF i <= Len(s) THEN s[i] ELSE t[i - Len(s)]
  BY ConcatProperties
<1>2. Len(s) \in Nat \ {0} /\ Len(t) \in Nat
  BY EmptySeq, LenProperties
<1>3. u # <<>> /\ Head(u) = u[1] /\ Head(s) = s[1] /\ u[1] = s[1]
  BY <1>1, <1>2, EmptySeq
<1>4. /\ Tail(u) \in Seq(Msgs) /\ Len(Tail(u)) = Len(u) - 1
      /\ \A i \in 1..Len(Tail(u)) : Tail(u)[i] = u[i + 1]
  BY <1>1, <1>3, HeadTailProperties
<1>5. /\ Tail(s) \in Seq(Msgs) /\ Len(Tail(s)) = Len(s) - 1
      /\ \A i \in 1..Len(Tail(s)) : Tail(s)[i] = s[i + 1]
  BY HeadTailProperties
<1>6. /\ Tail(s) \o t \in Seq(Msgs) /\ Len(Tail(s) \o t) = Len(Tail(s)) + Len(t)
      /\ \A i \in 1..Len(Tail(s)) + Len(t) : (Tail(s) \o t)[i] =
           IF i <= Len(Tail(s)) THEN Tail(s)[i] ELSE t[i - Len(Tail(s))]
  BY <1>5, ConcatProperties
<1>7. Len(Tail(u)) = Len(Tail(s) \o t)
  BY <1>1, <1>2, <1>4, <1>5, <1>6
<1>8. ASSUME NEW i \in 1..Len(Tail(u)) PROVE Tail(u)[i] = (Tail(s) \o t)[i]
  <2>1. i \in 1..(Len(s) - 1 + Len(t)) /\ i \in 1..(Len(Tail(s)) + Len(t)) /\ i + 1 \in 1..(Len(s) + Len(t))
    BY <1>1, <1>2, <1>4, <1>5
  <2>2. Tail(u)[i] = IF i + 1 <= Len(s) THEN s[i + 1] ELSE t[i + 1 - Len(s)]
    BY <2>1, <1>1, <1>4
  <2>3. CASE i + 1 <= Len(s)
    <3>1. i \in 1..Len(Tail(s)) /\ i <= Len(Tail(s))
      BY <2>1, <2>3, <1>2, <1>5
    <3> QED  BY <2>1, <2>2, <2>3, <3>1, <1>5, <1>6
  <2>4. CASE ~(i + 1 <= Len(s))
    <3>1. ~(i <= Len(Tail(s))) /\ i + 1 - Len(s) = i - Len(Tail(s))
      BY <2>1, <2>4, <1>2, <1>5
    <3> QED  BY <2>1, <2>2, <2>4, <3>1, <1>6
  <2> QED  BY <2>3, <2>4
<1>9. Tail(u) = Tail(s) \o t
  BY <1>4, <1>6, <1>7, <1>8, SeqEqual
<1> QED  BY <1>3, <1>9

Waiting == Unread(list[Back]) \o Unread(list[front])

\* Two empty lists are an empty queue.
LEMMA InitRefines == Init => Fifo!Init
<1> SUFFICES ASSUME Init PROVE Fifo!Init
  OBVIOUS
<1>1. Written(NewList) = 0 /\ Read(NewList) = 0
  BY SizeAssumption DEF NewList, Written, Read, NULL
<1>2. Unread(NewList) = <<>>
  BY <1>1, SubSeqEmpty DEF Unread
<1>3. list[Back] = NewList /\ list[front] = NewList /\ InHand = Nothing
  BY DEF Init, Back, InHand
<1>4. <<>> \in Seq(Msgs) /\ <<>> \o <<>> = <<>>
  BY EmptySeq, ConcatEmptySeq
<1> QED  BY <1>2, <1>3, <1>4 DEF Fifo!Init

\* MsgQueueInsert puts its message last, or drops it when memory has run out.
LEMMA InsertRefines ==
  ASSUME IInv, NEW m \in Msgs, MsgQueueInsert(m)
  PROVE  Fifo!Put(m) \/ UNCHANGED Fifo!vars
<1> DEFINE l == list[front]
<1>1. /\ ListOK(l) /\ ListOK(list[Back]) /\ l.read = HeadNode(l)
      /\ front \in {1, 2} /\ list \in [{1, 2} -> MsgList]
      /\ Back' = Back /\ front' = front /\ at' = at /\ pMsg' = pMsg
  BY TwoLists DEF IInv, TypeOK, MsgQueueInsert, Back
<1>2. CASE UNCHANGED list
  BY <1>1, <1>2 DEF Fifo!vars, InHand
<1>3. ASSUME NEW n, Unread(n) = Append(Unread(l), m), list' = [list EXCEPT ![front] = n]
      PROVE  Fifo!Put(m)
  <2>1. list'[front] = n /\ list'[Back] = list[Back]
    BY <1>1, <1>3, TwoLists
  <2>2. Waiting' = Unread(list[Back]) \o Append(Unread(l), m)
    BY <1>1, <1>3, <2>1 DEF Waiting
  <2>3. Waiting' = Append(Waiting, m)
    BY <1>1, <2>2, UnreadIsSeq, ConcatAppend DEF Waiting
  <2>4. InHand' = InHand
    BY <1>1, <2>1 DEF InHand
  <2> QED  BY <2>3, <2>4 DEF Fifo!Put, Waiting
<1>4. CASE l.current # NULL /\ list' = [list EXCEPT ![front] = Stored(l, m)]
  BY <1>1, <1>3, <1>4, StoredAppends
<1>5. CASE l.current = NULL /\ l.size < MaxNodes
           /\ list' = [list EXCEPT ![front] = Stored(Grown(l), m)]
  <2>1. ListOK(Grown(l)) /\ Grown(l).current # NULL /\ Unread(Grown(l)) = Unread(l)
    BY <1>1, <1>5, GrownKeeps
  <2>2. Unread(Stored(Grown(l), m)) = Append(Unread(l), m)
    BY <2>1, StoredAppends
  <2> QED  BY <1>3, <1>5, <2>2
<1> QED  BY <1>2, <1>4, <1>5 DEF MsgQueueInsert

\* MsgQueueFlip neither loses nor reorders a message that waits.
LEMMA FlipRefines ==
  ASSUME IInv, MsgQueueFlip
  PROVE  UNCHANGED Fifo!vars
<1>1. /\ front \in {1, 2} /\ list \in [{1, 2} -> MsgList] /\ front' = Back
      /\ Back' = front /\ at = "frame" /\ at' = "get"
      /\ list' = [list EXCEPT ![Back] = Reset(list[Back])]
      /\ ListOK(list[front]) /\ ListOK(list[Back])
      /\ Read(list[Back]) = Written(list[Back])
  BY TwoLists DEF IInv, TypeOK, MsgQueueFlip, Back
<1>2. list'[Back'] = list[front] /\ list'[front'] = Reset(list[Back])
  BY <1>1, TwoLists
<1>3. Unread(list[Back]) = <<>> /\ Unread(Reset(list[Back])) = <<>>
  BY <1>1, ReadTakes, ResetEmpties
<1>4. Waiting = Unread(list[front]) /\ Waiting' = Unread(list[front])
  BY <1>1, <1>2, <1>3, UnreadIsSeq, ConcatEmptySeq DEF Waiting
<1>5. InHand = Nothing /\ InHand' = Nothing
  BY <1>1 DEF InHand
<1> QED  BY <1>4, <1>5 DEF Fifo!vars, Waiting

\* GetMsg takes the message that has waited longest, or none.
LEMMA GetRefines ==
  ASSUME IInv, GetMsg
  PROVE  Fifo!Take \/ UNCHANGED Fifo!vars
<1> DEFINE l == list[Back]
           r == [l EXCEPT !.read = NextNode(l, l.read)]
<1>1. /\ front \in {1, 2} /\ list \in [{1, 2} -> MsgList] /\ front' = front
      /\ Back' = Back /\ at = "get" /\ ListOK(l) /\ ListOK(list[front])
  BY TwoLists DEF IInv, TypeOK, GetMsg, Back
<1>2. CASE NothingUnread(l)
  <2>1. at' = "frame" /\ list' = list
    BY <1>2 DEF GetMsg
  <2> QED  BY <1>1, <2>1 DEF Fifo!vars, InHand
<1>3. CASE ~NothingUnread(l)
  <2>1. pMsg' = l.read /\ at' = "process" /\ list' = [list EXCEPT ![Back] = r]
    BY <1>3 DEF GetMsg
  <2>2. /\ r.node = l.node /\ Unread(l) # <<>>
        /\ Head(Unread(l)) = l.node[l.read] /\ Unread(r) = Tail(Unread(l))
    BY <1>1, <1>3, ReadTakes
  <2>3. list'[Back] = r /\ list'[front] = list[front]
    BY <1>1, <2>1, TwoLists
  <2>4. Waiting # <<>> /\ Head(Waiting) = Head(Unread(l))
        /\ Tail(Waiting) = Tail(Unread(l)) \o Unread(list[front])
    BY <1>1, <2>2, UnreadIsSeq, ConcatHeadTail DEF Waiting
  <2>5. Waiting' = Tail(Waiting)
    BY <1>1, <2>2, <2>3, <2>4 DEF Waiting
  <2>6. InHand = Nothing /\ InHand' = Head(Waiting)
    BY <1>1, <2>1, <2>2, <2>3, <2>4 DEF InHand
  <2> QED  BY <2>4, <2>5, <2>6 DEF Fifo!Take, Waiting
<1> QED  BY <1>2, <1>3

\* MsgProcess is done with the message in hand, which no writer has overwritten.
LEMMA ProcessRefines ==
  ASSUME IInv, MsgProcess
  PROVE  Fifo!Done
<1>1. /\ list' = list /\ front' = front /\ Back' = Back /\ at = "process" /\ at' = "get"
      /\ ListOK(list[Back]) /\ pMsg \in 1..Read(list[Back])
  BY TwoLists DEF IInv, TypeOK, MsgProcess, Back
<1>2. Read(list[Back]) <= Written(list[Back]) /\ Read(list[Back]) \in Nat /\ Written(list[Back]) \in Nat
  BY <1>1, Counts DEF ListOK
<1>3. list[Back].node[pMsg] \in Msgs
  BY <1>1, <1>2 DEF ListOK, Filled
<1> QED  BY <1>1, <1>3, NothingAssumption DEF Fifo!Done, InHand

\* CSMsgManager is a first-in first-out queue: no interleaving of the workers'
\* MsgQueueInsert with the update thread's MsgQueueFlip, GetMsg and MsgProcess
\* loses, repeats, reorders or overwrites a message.
THEOREM Implements == Spec => FifoSpec
<1>1. Init => Fifo!Init
  BY InitRefines
<1>2. IInv /\ [Next]_vars => [Fifo!Next]_(Fifo!vars)
  <2> SUFFICES ASSUME IInv, [Next]_vars PROVE Fifo!Next \/ UNCHANGED Fifo!vars
    OBVIOUS
  <2>1. ASSUME NEW m \in Msgs, MsgQueueInsert(m)
        PROVE  Fifo!Next \/ UNCHANGED Fifo!vars
    BY <2>1, InsertRefines DEF Fifo!Next
  <2>2. CASE MsgQueueFlip
    BY <2>2, FlipRefines
  <2>3. CASE GetMsg
    BY <2>3, GetRefines DEF Fifo!Next
  <2>4. CASE MsgProcess
    BY <2>4, ProcessRefines DEF Fifo!Next
  <2>5. CASE UNCHANGED vars
    BY <2>5 DEF vars, Fifo!vars, InHand, Back
  <2> QED  BY <2>1, <2>2, <2>3, <2>4, <2>5 DEF Next, UpdateNext
<1> QED  BY <1>1, <1>2, Invariance, PTL DEF Spec, FifoSpec, Fifo!Spec
=============================================================================
