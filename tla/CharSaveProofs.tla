--------------------------- MODULE CharSaveProofs ---------------------------
(* What holds of CharSave for any characters, connections, ids and fields:   *)
(* its types, that ids are kept, that a character lives once on a field, and *)
(* that it is saved as it left before another field may load it.             *)
EXTENDS CharSave, FoldLemmas, TLAPS

\* What is known of the characters in play: one record or None at every id.
LiveShape ==
  /\ live = [f \in Fields |-> [g \in Gaeas |-> live[f][g]]]
  /\ \A f \in Fields, g \in Gaeas : live[f][g] # None =>
       live[f][g] = [char |-> live[f][g].char, conn |-> live[f][g].conn,
                     ver |-> live[f][g].ver]

IInv == LiveShape /\ OnePerField

\* Who leaves cannot make two of one: a field that only drops characters keeps
\* the invariant.
LEMMA LeavingKeeps ==
  ASSUME IInv, NEW f \in Fields, NEW S,
         live' = [live EXCEPT ![f] = [g \in Gaeas |-> IF g \in S THEN None ELSE @[g]]]
  PROVE  IInv'
<1>1. \A h \in Fields, g \in Gaeas :
        live'[h][g] = IF h = f /\ g \in S THEN None ELSE live[h][g]
  BY DEF IInv, LiveShape
<1>2. live' = [h \in Fields |-> [g \in Gaeas |-> live'[h][g]]]
  BY DEF IInv, LiveShape
<1>3. LiveShape'
  BY <1>1, <1>2 DEF IInv, LiveShape
<1>4. OnePerField'
  BY <1>1 DEF IInv, OnePerField
<1>5. QED
  BY <1>3, <1>4 DEF IInv

\* A step that leaves the characters in play alone.
LEMMA StillKeeps == ASSUME IInv, UNCHANGED live PROVE IInv'
  BY DEF IInv, LiveShape, OnePerField

LEMMA JoinKeeps == ASSUME IInv, NEW f \in Fields, MsgFieldReqJoin(f) PROVE IInv'
<1> DEFINE m == Head(loaded[f])
           n == m.conn
           i == slot[f][n].gaea
           r == [char |-> m.char, conn |-> n, ver |-> m.ver]
<1>1. CASE UNCHANGED live
  BY <1>1, StillKeeps
<1>2. CASE MayCreate(f, m) /\ PlacesOf(f, n) = {} /\ live' = [live EXCEPT ![f][i] = r]
  <2>1. \A g \in Gaeas : live[f][g] # None => live[f][g].char # m.char
    BY <1>2 DEF MayCreate, Places
  <2>2. \A g \in Gaeas : live[f][g] # None => live[f][g].conn # n
    BY <1>2 DEF PlacesOf
  <2>3. r = [char |-> r.char, conn |-> r.conn, ver |-> r.ver] /\ r.char = m.char /\ r.conn = n
    OBVIOUS
  <2> HIDE DEF m, n, i, r
  <2>4. \A h \in Fields, g \in Gaeas :
          live'[h][g] = IF h = f /\ g = i THEN r ELSE live[h][g]
    BY <1>2 DEF IInv, LiveShape
  <2>5. live' = [h \in Fields |-> [g \in Gaeas |-> live'[h][g]]]
    BY <1>2 DEF IInv, LiveShape
  <2>6. LiveShape'
    BY <2>3, <2>4, <2>5 DEF IInv, LiveShape
  <2>7. OnePerField'
    BY <2>1, <2>2, <2>3, <2>4 DEF IInv, OnePerField
  <2>8. QED
    BY <2>6, <2>7 DEF IInv
<1>3. QED
  BY <1>1, <1>2 DEF MsgFieldReqJoin

LEMMA PlayKeeps ==
  ASSUME IInv, NEW f \in Fields, NEW i \in Gaeas, Play(f, i) PROVE IInv'
<1> DEFINE v == newest[live[f][i].char] + 1
           r == [live[f][i] EXCEPT !.ver = v]
<1>1. live[f][i] # None /\ live' = [live EXCEPT ![f][i] = r]
  BY DEF Play
<1>2. live[f][i] = [char |-> live[f][i].char, conn |-> live[f][i].conn,
                    ver |-> live[f][i].ver]
  BY <1>1 DEF IInv, LiveShape
<1> HIDE DEF v
<1>3. /\ r = [char |-> r.char, conn |-> r.conn, ver |-> r.ver]
      /\ r.char = live[f][i].char /\ r.conn = live[f][i].conn
  BY <1>2
<1> HIDE DEF r
<1>4. \A h \in Fields, g \in Gaeas :
        live'[h][g] = IF h = f /\ g = i THEN r ELSE live[h][g]
  <2>1. \A h \in Fields : live[h] = [g \in Gaeas |-> live[h][g]]
    BY DEF IInv, LiveShape
  <2>2. live = [h \in Fields |-> live[h]]
    BY DEF IInv, LiveShape
  <2>3. live' = [live EXCEPT ![f] = [live[f] EXCEPT ![i] = r]]
    BY <1>1
  <2>4. \A h \in Fields : live'[h] = IF h = f THEN [live[f] EXCEPT ![i] = r] ELSE live[h]
    BY <2>2, <2>3
  <2> QED  BY <2>1, <2>4
<1>5. live' = [h \in Fields |-> [g \in Gaeas |-> live'[h][g]]]
  <2>1. \A h \in Fields : live[h] = [g \in Gaeas |-> live[h][g]]
    BY DEF IInv, LiveShape
  <2>2. live = [h \in Fields |-> live[h]]
    BY DEF IInv, LiveShape
  <2>3. live' = [live EXCEPT ![f] = [live[f] EXCEPT ![i] = r]]
    BY <1>1
  <2>4. live' = [h \in Fields |-> live'[h]]
    BY <2>2, <2>3
  <2>5. \A h \in Fields : live'[h] = IF h = f THEN [live[f] EXCEPT ![i] = r] ELSE live[h]
    BY <2>2, <2>3
  <2>6. \A h \in Fields : live'[h] = [g \in Gaeas |-> live'[h][g]]
    BY <2>1, <2>5
  <2> QED  BY <2>4, <2>6
<1>6. LiveShape'
  BY <1>3, <1>4, <1>5 DEF IInv, LiveShape
<1>7. OnePerField'
  BY <1>1, <1>3, <1>4 DEF IInv, OnePerField
<1>8. QED
  BY <1>6, <1>7 DEF IInv

LEMMA StepKeeps == ASSUME IInv, [Next]_vars PROVE IInv'
<1>1. CASE UNCHANGED vars
  BY <1>1, StillKeeps DEF vars, fieldVars
<1>2. CASE AgentNext
  <2>1. UNCHANGED live
    BY <1>2 DEF AgentNext, MsgAgentReqJoin, MsgReqFieldSvrCharChkFb, MsgReqGateOut,
      MsgFieldSvrOutFb, CloseClient, AgentFrame, fieldVars
  <2>2. QED
    BY <2>1, StillKeeps
<1>3. ASSUME NEW f \in Fields, FieldServes(f) PROVE IInv'
  <2>1. CASE RequestFieldSvrCharChk(f)
    <3> DEFINE q == Head(toField[f])
               S == Places(f, q.char) \cup {g \in {q.gaea} : live[f][g] # None}
    <3>1. live' = [live EXCEPT ![f] = [g \in Gaeas |-> IF g \in S THEN None ELSE @[g]]]
      BY <2>1 DEF RequestFieldSvrCharChk
    <3>2. QED
      BY <3>1, LeavingKeeps
  <2>2. CASE MsgFieldReqJoin(f)
    BY <2>2, JoinKeeps
  <2>3. CASE \/ ServerCtrlCharDropOutForced(f)
             \/ \E n \in Conns : MsgGameJoinChar(f, n) \/ RequestFieldSvrOut(f, n)
    BY <2>3, StillKeeps DEF ServerCtrlCharDropOutForced, MsgGameJoinChar, RequestFieldSvrOut
  <2>4. QED
    BY <1>3, <2>1, <2>2, <2>3 DEF FieldServes
<1>4. ASSUME NEW f \in Fields, FrameMove(f) PROVE IInv'
  <2> DEFINE S == {g \in Gaeas : \E i \in DOMAIN drops[f] : drops[f][i].gaea = g}
  <2>1. live' = [live EXCEPT ![f] = [g \in Gaeas |-> IF g \in S THEN None ELSE @[g]]]
    BY <1>4 DEF FrameMove
  <2>2. QED
    BY <2>1, LeavingKeeps
<1>5. ASSUME NEW f \in Fields, DbNext(f) PROVE IInv'
  BY <1>5, StillKeeps DEF DbNext, ExecuteSave, ExecuteLoad, ExecuteToAgent
<1>6. ASSUME NEW f \in Fields, NEW n \in Conns, FieldCloseClient(f, n) PROVE IInv'
  BY <1>6, StillKeeps DEF FieldCloseClient
<1>7. ASSUME NEW f \in Fields, NEW g \in Gaeas, SaveCharDB(f, g) PROVE IInv'
  BY <1>7, StillKeeps DEF SaveCharDB
<1>8. QED
  BY <1>1, <1>2, <1>3, <1>4, <1>5, <1>6, <1>7, PlayKeeps DEF Next

\* On every field, with any number of characters, connections, ids and fields, a
\* character lives at most once and a connection plays at most one: the checks
\* of CreatePC are enough, whatever is loaded and however late.
THEOREM OneLife == Spec => []OnePerField
<1>1. Init => IInv
  BY DEF Init, IInv, LiveShape, OnePerField
<1>2. IInv /\ [Next]_vars => IInv'
  BY StepKeeps
<1>3. IInv => OnePerField
  BY DEF IInv
<1>4. QED
  BY <1>1, <1>2, <1>3, PTL DEF Spec
-----------------------------------------------------------------------------
(* The library's operators on sequences                                      *)

\* A set put in some order: all of it, and each element once.
LEMMA Listed ==
  ASSUME NEW E, NEW S \in SUBSET E, IsFiniteSet(S)
  PROVE  /\ SetToSeq(S) \in Seq(E) /\ Range(SetToSeq(S)) = S
         /\ Len(SetToSeq(S)) = Cardinality(S)
         /\ \A i, j \in DOMAIN SetToSeq(S) : SetToSeq(S)[i] = SetToSeq(S)[j] => i = j
<1> DEFINE n == Cardinality(S)
           q == SetToSeq(S)
<1>1. n \in Nat /\ ExistsBijection(1 .. n, S)
  BY FS_CardinalityType
<1>2. \E f \in [1 .. n -> S] : IsInjective(f)
  BY <1>1 DEF ExistsBijection, Bijection, Injection, IsInjective
<1>3. q \in [1 .. n -> S] /\ IsInjective(q)
  BY <1>2 DEF SetToSeq
<1>4. IsFiniteSet(1 .. n) /\ Cardinality(1 .. n) = n
  BY <1>1, FS_Interval
<1> HIDE DEF q, n
<1>5. q \in Injection(1 .. n, S) /\ q \in [1 .. n -> S]
  BY <1>3 DEF Injection, IsInjective
<1>6. q \in Surjection(1 .. n, S)
  BY <1>4, <1>5, FS_Injection DEF n
<1>7. Range(q) = S
  BY <1>5, <1>6 DEF Surjection, Range
<1>8. q \in Seq(E) /\ Len(q) = n
  BY <1>1, <1>5, SeqDef, LenProperties
<1> QED  BY <1>3, <1>7, <1>8 DEF q, n, IsInjective

\* A sequence of sequences made one: what holds of the empty one, and of what
\* was made before with the next one behind it, holds at the end.
Joined(X) == [c \in Seq(X) \X Seq(X) |-> c[1] \o c[2]]

LEMMA JoinedType ==
  ASSUME NEW X PROVE Folds(Joined(X), Seq(X), Seq(X))
<1>1. \A c \in Seq(X) \X Seq(X) : c[1] \o c[2] \in Seq(X)
  BY ConcatProperties
<1> QED  BY <1>1 DEF Joined, Folds

LEMMA JoinedIs ==
  ASSUME NEW X, NEW q \in Seq(X), NEW r \in Seq(X)
  PROVE  Joined(X)[<<q, r>>] = q \o r
  BY DEF Joined

LEMMA FlattenIs ==
  ASSUME NEW X, NEW q \in Seq(Seq(X))
  PROVE  FlattenSeq(q) = Outcome(Joined(X), <<>>, q)
<1> DEFINE n == Len(q)
           G == Joined(X)
           E(h) == h = [i \in 1 .. n |-> IF i = 1 THEN q[i] ELSE h[i - 1] \o q[i]]
           e == CHOOSE h : E(h)
<1>1. n \in Nat /\ <<>> \in Seq(X) /\ \A i \in 1 .. n : q[i] \in Seq(X)
  BY LenProperties, ElementOfSeq
<1>2. CASE n = 0
  <2>1. q = <<>>
    BY <1>2, EmptySeq
  <2> QED  BY <1>2, <2>1, OutcomeEmpty DEF FlattenSeq
<1>3. CASE n # 0
  <2>1. FlattenSeq(q) = e[n]
    BY <1>3 DEF FlattenSeq
  <2>2. PICK h \in [0 .. n -> Seq(X)] : IsRun(h, <<>>, q, G)
    BY <1>1, JoinedType, RunExists
  <2>3. ASSUME NEW i \in 1 .. n PROVE h[i] = IF i = 1 THEN q[i] ELSE h[i - 1] \o q[i]
    <3>a. i - 1 \in 0 .. n
      BY <1>1
    <3> HIDE DEF n
    <3>1. i - 1 \in 0 .. n /\ h[i - 1] \in Seq(X) /\ q[i] \in Seq(X)
      BY <1>1, <2>2, <3>a
    <3>2. h[i] = h[i - 1] \o q[i]
      <4>1. h[i] = G[<<h[i - 1], q[i]>>]
        BY <2>2 DEF IsRun, n
      <4> HIDE DEF G
      <4>2. G[<<h[i - 1], q[i]>>] = h[i - 1] \o q[i]
        BY <3>1, JoinedIs DEF G
      <4> QED  BY <4>1, <4>2
    <3>3. i = 1 => h[i - 1] = <<>>
      BY <2>2 DEF IsRun
    <3>4. <<>> \o q[i] = q[i]
      BY <3>1, ConcatEmptySeq
    <3> QED  BY <3>2, <3>3, <3>4
  <2> DEFINE k == [i \in 1 .. n |-> h[i]]
  <2>4. E(k)
    <3>1. ASSUME NEW i \in 1 .. n PROVE k[i] = IF i = 1 THEN q[i] ELSE k[i - 1] \o q[i]
      <4>1. k[i] = h[i]
        OBVIOUS
      <4>2. i # 1 => i - 1 \in 1 .. n /\ k[i - 1] = h[i - 1]
        BY <1>1
      <4> HIDE DEF k
      <4> QED  BY <2>3, <4>1, <4>2
    <3>2. k = [i \in 1 .. n |-> k[i]]
      OBVIOUS
    <3> HIDE DEF k
    <3> QED  BY <3>1, <3>2
  <2>5. E(e)
    BY <2>4
  <2> HIDE DEF e
  <2> DEFINE T == {m \in Nat : m + 1 <= n => e[m + 1] = h[m + 1]}
  <2>6. 0 \in T
    <3>1. 1 <= n => e[1] = q[1] /\ h[1] = q[1]
      BY <1>1, <2>3, <2>5
    <3> QED  BY <3>1
  <2>7. ASSUME NEW m \in Nat, m \in T PROVE m + 1 \in T
    <3> SUFFICES ASSUME (m + 1) + 1 <= n PROVE e[(m + 1) + 1] = h[(m + 1) + 1]
      OBVIOUS
    <3>1. e[m + 1] = h[m + 1]
      BY <1>1, <2>7
    <3>2. /\ (m + 1) + 1 \in 1 .. n /\ (m + 1) + 1 # 1 /\ ((m + 1) + 1) - 1 = m + 1
      BY <1>1
    <3>3. e[(m + 1) + 1] = e[m + 1] \o q[(m + 1) + 1]
      BY <2>5, <3>2
    <3>4. h[(m + 1) + 1] = h[m + 1] \o q[(m + 1) + 1]
      BY <2>3, <3>2
    <3> QED  BY <3>1, <3>3, <3>4
  <2> HIDE DEF T
  <2>8. Nat \subseteq T
    BY <2>6, <2>7, Induction
  <2>9. n - 1 \in T
    BY <1>1, <1>3, <2>8
  <2>10. e[n] = h[n]
    <3>1. (n - 1) + 1 = n /\ n <= n
      BY <1>1
    <3> QED  BY <2>9, <3>1 DEF T
  <2>11. Outcome(G, <<>>, q) = h[n]
    BY <1>1, <2>2, OutcomeIs
  <2> QED  BY <2>1, <2>10, <2>11
<1> QED  BY <1>2, <1>3

LEMMA FlattenIn ==
  ASSUME NEW X, NEW q \in Seq(Seq(X)), NEW T, <<>> \in T[0],
         \A i \in 1 .. Len(q) : \A d \in Seq(X) : d \in T[i - 1] => d \o q[i] \in T[i]
  PROVE  FlattenSeq(q) \in Seq(X) /\ FlattenSeq(q) \in T[Len(q)]
<1>1. FlattenSeq(q) = Outcome(Joined(X), <<>>, q)
  BY FlattenIs
<1>2. Folds(Joined(X), Seq(X), Seq(X)) /\ <<>> \in Seq(X)
  BY JoinedType
<1>3. \A i \in 1 .. Len(q) : \A d \in Seq(X) : d \in T[i - 1] => Joined(X)[<<d, q[i]>>] \in T[i]
  <2>1. ASSUME NEW i \in 1 .. Len(q), NEW d \in Seq(X), d \in T[i - 1]
        PROVE  Joined(X)[<<d, q[i]>>] \in T[i]
    <3>1. q[i] \in Seq(X)
      BY ElementOfSeq
    <3>2. Joined(X)[<<d, q[i]>>] = d \o q[i]
      BY <3>1, JoinedIs
    <3> QED  BY <2>1, <3>2
  <2> QED  BY <2>1
<1>4. Outcome(Joined(X), <<>>, q) \in Seq(X) /\ Outcome(Joined(X), <<>>, q) \in T[Len(q)]
  BY <1>2, <1>3, OutcomeIn
<1> QED  BY <1>1, <1>4

\* It holds what its parts hold.
LEMMA FlattenRange ==
  ASSUME NEW X, NEW q \in Seq(Seq(X))
  PROVE  /\ FlattenSeq(q) \in Seq(X)
         /\ Range(FlattenSeq(q)) = UNION {Range(q[i]) : i \in DOMAIN q}
<1> DEFINE n == Len(q)
           T == [m \in 0 .. n |-> {d \in Seq(X) : Range(d) = UNION {Range(q[i]) : i \in 1 .. m}}]
<1>1. n \in Nat /\ DOMAIN q = 1 .. n /\ \A i \in 1 .. n : q[i] \in Seq(X)
  BY LenProperties, ElementOfSeq
<1>2. <<>> \in T[0]
  <2>1. <<>> \in Seq(X) /\ 0 \in 0 .. n /\ 1 .. 0 = {}
    BY <1>1
  <2> QED  BY <2>1, RangeEmpty
<1>3. ASSUME NEW i \in 1 .. n, NEW d \in Seq(X), d \in T[i - 1] PROVE d \o q[i] \in T[i]
  <2>1. i - 1 \in 0 .. n /\ i \in 0 .. n /\ 1 .. i = (1 .. (i - 1)) \cup {i}
    BY <1>1
  <2>2. Range(d) = UNION {Range(q[x]) : x \in 1 .. (i - 1)}
    BY <1>3, <2>1
  <2>3. d \o q[i] \in Seq(X) /\ Range(d \o q[i]) = Range(d) \cup Range(q[i])
    BY <1>1, RangeConcat
  <2>4. Range(d) \cup Range(q[i]) = UNION {Range(q[x]) : x \in 1 .. i}
    BY <2>1, <2>2
  <2> QED  BY <2>1, <2>3, <2>4
<1> HIDE DEF T
<1>4. FlattenSeq(q) \in Seq(X) /\ FlattenSeq(q) \in T[n]
  BY <1>2, <1>3, FlattenIn
<1>5. n \in 0 .. n
  BY <1>1
<1> QED  BY <1>1, <1>4, <1>5 DEF T
-----------------------------------------------------------------------------
(* Types: of all that is under way as well                                   *)

Connections == [st : {"lobby", "refused", "in", "closed"}, gaea : Gaeas \cup {None},
                link : [field : Fields, gaea : Gaeas] \cup {None}]
Slots == [st : {"none", "open", "closing", "closed"}, char : Chars \cup {None},
          gaea : Gaeas \cup {None}]
Drops == [gaea : Gaeas, char : Chars, out : Conns \cup {None}]
Results == [char : Chars, ver : 0..MaxPlay, conn : Conns]
SaveJobs == [op : {"SAVE"}, char : Chars, ver : 0..MaxPlay, conn : Conns]
LoadJobs == [op : {"LOAD"}, char : Chars, conn : Conns]
Jobs == SaveJobs \cup LoadJobs \cup [op : {"ANSWER"}, gaea : Gaeas]
          \cup [op : {"OUT"}, conn : Conns]
FieldMsgs == [kind : {"FORCED"}, char : Chars]
               \cup [kind : {"CHARCHK"}, char : Chars, gaea : Gaeas]
SlotMsgs == [kind : {"JOIN"}, char : Chars, gaea : Gaeas] \cup [kind : {"OUT"}]

AgentTypes ==
  /\ pcs \in [Gaeas -> JoiningAt \cup {None}]
  /\ free \in Seq(Gaeas) /\ reserved \in Seq(Gaeas)
  /\ conns \in [Conns -> Connections]
  /\ \A n \in Conns : conns[n].st = "in" => conns[n].gaea # None

FieldTypes ==
  /\ live \in [Fields -> [Gaeas -> PlayedAt \cup {None}]]
  /\ slot \in [Fields -> [Conns -> Slots]]
  /\ saving \in [Fields -> SUBSET Chars]
  /\ drops \in [Fields -> Seq(Drops)]
  /\ jobs \in [Fields -> Seq(Jobs)]

WireTypes ==
  /\ toField \in [Fields -> Seq(FieldMsgs)]
  /\ toSlot \in [Fields -> [Conns -> Seq(SlotMsgs)]]
  /\ loaded \in [Fields -> Seq(Results)]
  /\ answers \in [Fields -> Seq(Gaeas)]
  /\ outs \subseteq Fields \X Conns

DbTypes == db \in [Chars -> 0..MaxPlay] /\ newest \in [Chars -> 0..MaxPlay]

Types == AgentTypes /\ FieldTypes /\ WireTypes /\ DbTypes

\* The ids nobody has at the agent are in the list, each once.
IdsInv == IsInjective(free) /\ \A g \in Gaeas : g \in Range(free) <=> pcs[g] = None

LEMMA JobsOK ==
  /\ \A j \in Jobs : /\ j.op \in {"SAVE", "LOAD", "ANSWER", "OUT"}
                     /\ j.op = "SAVE" <=> j \in SaveJobs
                     /\ j.op = "LOAD" <=> j \in LoadJobs
                     /\ j.op = "ANSWER" => j.gaea \in Gaeas
                     /\ j.op = "OUT" => j.conn \in Conns /\ j = Out(j.conn)
  /\ \A j \in SaveJobs : j.char \in Chars /\ j.ver \in 0..MaxPlay /\ j.conn \in Conns
  /\ \A j \in LoadJobs : j.char \in Chars /\ j.conn \in Conns
  /\ \A c \in Chars : \A n \in Conns : Load(c, n) \in LoadJobs
  /\ \A g \in Gaeas : Answer(g) \in Jobs /\ Answer(g).op = "ANSWER"
  /\ \A n \in Conns : Out(n) \in Jobs /\ Out(n).op = "OUT"
  BY DEF Jobs, SaveJobs, LoadJobs, Load, Answer, Out

LEMMA SaveOK ==
  ASSUME FieldTypes, NEW f \in Fields, NEW g \in Gaeas, live[f][g] # None
  PROVE  /\ live[f][g] \in PlayedAt /\ live[f][g].char \in Chars /\ live[f][g].conn \in Conns
         /\ live[f][g].ver \in 0..MaxPlay
         /\ Save(f, g) \in SaveJobs /\ Save(f, g) \in Jobs
         /\ Save(f, g).char = live[f][g].char /\ Save(f, g).conn = live[f][g].conn
         /\ Save(f, g).ver = live[f][g].ver
  BY DEF FieldTypes, PlayedAt, Save, SaveJobs, Jobs

LEMMA PcsOK ==
  ASSUME AgentTypes, NEW g \in Gaeas, pcs[g] # None
  PROVE  /\ pcs[g] \in JoiningAt /\ pcs[g].char \in Chars /\ pcs[g].conn \in Conns
         /\ pcs[g].checked \in SUBSET Fields
         /\ pcs[g].cur \in Fields \cup {None} /\ pcs[g].next \in Fields \cup {None}
         /\ \A f \in Fields \cup {None} : [pcs[g] EXCEPT !.next = f] \in JoiningAt
         /\ \A f \in Fields : [pcs[g] EXCEPT !.cur = f, !.next = None] \in JoiningAt
         /\ \A f \in Fields :
              /\ [pcs[g] EXCEPT !.checked = Answered(g, f)] \in JoiningAt
              /\ \A h \in Fields : [pcs[g] EXCEPT !.checked = Answered(g, f), !.cur = h] \in JoiningAt
  BY DEF AgentTypes, JoiningAt, Answered

LEMMA NotNone == \A r \in JoiningAt \cup PlayedAt : r # None
  BY NobodyAssumption

LEMMA NestedUpdate ==
  ASSUME NEW A, NEW B, NEW X, NEW h \in [A -> [B -> X]], NEW a \in A, NEW b \in B, NEW x \in X
  PROVE  /\ [h EXCEPT ![a][b] = x] \in [A -> [B -> X]]
         /\ \A c \in A : \A d \in B :
              [h EXCEPT ![a][b] = x][c][d] = IF c = a /\ d = b THEN x ELSE h[c][d]
  OBVIOUS

-----------------------------------------------------------------------------
(* The agent                                                                 *)

\* Who takes an id from the list, gives one back or keeps one.
LEMMA IdTaken ==
  ASSUME AgentTypes, IdsInv, free # <<>>, NEW r \in JoiningAt,
         pcs' = [pcs EXCEPT ![Head(free)] = r], free' = Tail(free)
  PROVE  /\ Head(free) \in Gaeas /\ pcs' \in [Gaeas -> JoiningAt \cup {None}]
         /\ free' \in Seq(Gaeas) /\ IdsInv'
<1>1. /\ Head(free) \in Gaeas /\ Tail(free) \in Seq(Gaeas)
      /\ Range(free) = {Head(free)} \cup Range(Tail(free))
  BY RangeTail DEF AgentTypes
<1>2. IsInjective(Tail(free)) /\ Head(free) \notin Range(Tail(free))
  BY InjectiveTail DEF AgentTypes, IdsInv
<1>3. r # None
  BY NotNone
<1> QED  BY <1>1, <1>2, <1>3 DEF AgentTypes, IdsInv

LEMMA IdsBack ==
  ASSUME AgentTypes, IdsInv, NEW q \in Seq(Gaeas), IsInjective(q), free' = free \o q,
         NEW S \in SUBSET Gaeas, \A g \in Gaeas : g \in Range(q) <=> g \in S /\ pcs[g] # None,
         pcs' = [g \in Gaeas |-> IF g \in S THEN None ELSE pcs[g]]
  PROVE  pcs' \in [Gaeas -> JoiningAt \cup {None}] /\ free' \in Seq(Gaeas) /\ IdsInv'
<1>1. free' \in Seq(Gaeas) /\ Range(free') = Range(free) \cup Range(q)
  BY RangeConcat DEF AgentTypes
<1>2. Range(q) \subseteq Gaeas
  BY RangeIn
<1>3. IsInjective(free')
  <2>1. Range(free) \cap Range(q) = {}
    BY <1>2 DEF IdsInv
  <2> QED  BY <2>1, InjectiveConcat DEF AgentTypes, IdsInv
<1> QED  BY <1>1, <1>3 DEF AgentTypes, IdsInv

LEMMA IdsStay ==
  ASSUME AgentTypes, IdsInv, free' = free,
         pcs' = pcs \/ \E g \in Gaeas : \E r \in JoiningAt :
                         pcs[g] # None /\ pcs' = [pcs EXCEPT ![g] = r]
  PROVE  pcs' \in [Gaeas -> JoiningAt \cup {None}] /\ IdsInv'
  BY NotNone DEF AgentTypes, IdsInv

\* What a frame gives back: of those reserved who are still there each once.
LEMMA ReturnedIs ==
  ASSUME AgentTypes
  PROVE  /\ Returned \in Seq(Gaeas) /\ IsInjective(Returned)
         /\ \A g \in Gaeas : g \in Range(Returned) <=> g \in ToSet(reserved) /\ pcs[g] # None
<1> DEFINE n == Len(reserved)
           First(i) == pcs[reserved[i]] # None /\ \A j \in 1..(i - 1) : reserved[j] # reserved[i]
           part == [i \in DOMAIN reserved |-> IF First(i) THEN <<reserved[i]>> ELSE <<>>]
           T == [m \in 0 .. n |-> {d \in Seq(Gaeas) :
                  /\ IsInjective(d)
                  /\ \A g \in Gaeas : g \in Range(d) <=>
                       pcs[g] # None /\ \E i \in 1 .. m : reserved[i] = g}]
<1>1. n \in Nat /\ DOMAIN reserved = 1 .. n /\ \A i \in 1 .. n : reserved[i] \in Gaeas
  BY LenProperties, ElementOfSeq DEF AgentTypes
<1>2. part \in Seq(Seq(Gaeas)) /\ Len(part) = n
      /\ \A i \in 1 .. n : part[i] = IF First(i) THEN <<reserved[i]>> ELSE <<>>
  <2>1. \A i \in 1 .. n : part[i] = IF First(i) THEN <<reserved[i]>> ELSE <<>>
    BY <1>1
  <2>2. \A i \in 1 .. n : <<reserved[i]>> \in Seq(Gaeas) /\ <<>> \in Seq(Gaeas)
    BY <1>1
  <2>3. part \in [1 .. n -> Seq(Gaeas)]
    BY <1>1, <2>1, <2>2
  <2> QED  BY <1>1, <2>1, <2>3, SeqDef, LenProperties
<1> HIDE DEF part
<1>3. <<>> \in T[0]
  <2>1. 0 \in 0 .. n /\ <<>> \in Seq(Gaeas) /\ IsInjective(<<>>) /\ 1 .. 0 = {}
    BY <1>1 DEF IsInjective
  <2> QED  BY <2>1, RangeEmpty
<1>4. ASSUME NEW i \in 1 .. n, NEW d \in Seq(Gaeas), d \in T[i - 1] PROVE d \o part[i] \in T[i]
  <2>1. i - 1 \in 0 .. n /\ i \in 0 .. n /\ 1 .. i = (1 .. (i - 1)) \cup {i} /\ reserved[i] \in Gaeas
    BY <1>1
  <2>2. /\ IsInjective(d)
        /\ \A g \in Gaeas : g \in Range(d) <=>
             pcs[g] # None /\ \E x \in 1 .. (i - 1) : reserved[x] = g
    BY <1>4, <2>1
  <2>3. CASE First(i)
    <3>1. part[i] = <<reserved[i]>> /\ reserved[i] \notin Range(d) /\ pcs[reserved[i]] # None
      BY <1>2, <2>1, <2>2, <2>3
    <3>2. d \o part[i] = Append(d, reserved[i])
      BY <2>1, <3>1
    <3>3. /\ Append(d, reserved[i]) \in Seq(Gaeas)
          /\ Range(Append(d, reserved[i])) = Range(d) \cup {reserved[i]}
      BY <2>1, RangeAppend
    <3>4. IsInjective(Append(d, reserved[i]))
      BY <2>1, <2>2, <3>1, InjectiveAppend
    <3>5. \A g \in Gaeas : g \in Range(Append(d, reserved[i])) <=>
             pcs[g] # None /\ \E x \in 1 .. i : reserved[x] = g
      BY <2>1, <2>2, <3>1, <3>3
    <3> QED  BY <2>1, <3>2, <3>3, <3>4, <3>5
  <2>4. CASE ~First(i)
    <3>1. d \o part[i] = d
      BY <1>2, <2>4, ConcatEmptySeq
    <3>2. \A g \in Gaeas : g \in Range(d) <=> pcs[g] # None /\ \E x \in 1 .. i : reserved[x] = g
      BY <2>1, <2>2, <2>4
    <3> QED  BY <2>1, <2>2, <3>1, <3>2
  <2> QED  BY <2>3, <2>4
<1>5. Returned = FlattenSeq(part)
  BY DEF Returned, part
<1> HIDE DEF T
<1>6. FlattenSeq(part) \in Seq(Gaeas) /\ FlattenSeq(part) \in T[n]
  BY <1>2, <1>3, <1>4, FlattenIn
<1>7. n \in 0 .. n /\ ToSet(reserved) = {reserved[i] : i \in 1 .. n}
  BY <1>1 DEF ToSet
<1> QED  BY <1>5, <1>6, <1>7 DEF T

LEMMA SendTypes ==
  ASSUME WireTypes, NEW m \in FieldMsgs, SendToAll(m)
  PROVE  toField' \in [Fields -> Seq(FieldMsgs)]
  BY AppendProperties DEF WireTypes, SendToAll

LEMMA ConnectionOK ==
  ASSUME AgentTypes, NEW n \in Conns
  PROVE  /\ conns[n] \in Connections
         /\ conns[n].gaea \in Gaeas \cup {None}
         /\ conns[n].link # None => conns[n].link.field \in Fields /\ conns[n].link.gaea \in Gaeas
  BY DEF AgentTypes, Connections

LEMMA JoinAgentTypes ==
  ASSUME Types, IdsInv, NEW n \in Conns, NEW c \in Chars, MsgAgentReqJoin(n, c)
  PROVE  Types' /\ IdsInv'
<1> USE DEF Types
<1> DEFINE here == {g \in Gaeas : pcs[g] # None /\ pcs[g].char = c}
<1>0. /\ conns[n].st = "lobby"
      /\ UNCHANGED <<reserved, fieldVars, toSlot, loaded, answers, outs, db, newest>>
      /\ FieldTypes' /\ DbTypes'
  BY DEF MsgAgentReqJoin, FieldTypes, DbTypes, fieldVars
<1>1. ASSUME NEW g \in here,
             pcs' = [pcs EXCEPT ![g] = None], free' = Append(free, g),
             SendToAll([kind |-> "FORCED", char |-> c]),
             conns' = [conns EXCEPT ![n].st = "refused"]
      PROVE  Types' /\ IdsInv'
  <2>1. [kind |-> "FORCED", char |-> c] \in FieldMsgs
    BY DEF FieldMsgs
  <2>2. WireTypes'
    BY <1>0, <1>1, <2>1, SendTypes DEF WireTypes
  <2>3. Append(free, g) \in Seq(Gaeas) /\ Range(Append(free, g)) = Range(free) \cup {g}
    BY RangeAppend DEF AgentTypes
  <2>4. IsInjective(Append(free, g))
    BY InjectiveAppend DEF AgentTypes, IdsInv
  <2>5. pcs' \in [Gaeas -> JoiningAt \cup {None}] /\ free' \in Seq(Gaeas) /\ IdsInv'
    BY <1>1, <2>3, <2>4 DEF AgentTypes, IdsInv
  <2>6. conns' \in [Conns -> Connections] /\ \A m \in Conns : conns'[m].st = "in" => conns'[m].gaea # None
    BY <1>1 DEF AgentTypes, Connections
  <2> QED  BY <1>0, <2>2, <2>5, <2>6 DEF AgentTypes
<1>2. ASSUME UNCHANGED <<pcs, free, toField>>, conns' = [conns EXCEPT ![n].st = "refused"]
      PROVE  Types' /\ IdsInv'
  <2>1. conns' \in [Conns -> Connections] /\ \A m \in Conns : conns'[m].st = "in" => conns'[m].gaea # None
    BY <1>2 DEF AgentTypes, Connections
  <2> QED  BY <1>0, <1>2, <2>1 DEF AgentTypes, WireTypes, IdsInv
<1>3. ASSUME free # <<>>,
             pcs' = [pcs EXCEPT ![Head(free)] =
               [char |-> c, conn |-> n, checked |-> {}, cur |-> None, next |-> None]],
             free' = Tail(free),
             SendToAll([kind |-> "CHARCHK", char |-> c, gaea |-> Head(free)]),
             \/ conns' = [conns EXCEPT ![n].st = "in", ![n].gaea = Head(free)]
             \/ conns' = [conns EXCEPT ![n].st = "closed"]
      PROVE  Types' /\ IdsInv'
  <2>1. [char |-> c, conn |-> n, checked |-> {}, cur |-> None, next |-> None] \in JoiningAt
    BY DEF JoiningAt
  <2>2. /\ Head(free) \in Gaeas /\ pcs' \in [Gaeas -> JoiningAt \cup {None}]
        /\ free' \in Seq(Gaeas) /\ IdsInv'
    BY <1>3, <2>1, IdTaken
  <2>3. [kind |-> "CHARCHK", char |-> c, gaea |-> Head(free)] \in FieldMsgs
    BY <2>2 DEF FieldMsgs
  <2>4. WireTypes'
    BY <1>0, <1>3, <2>3, SendTypes DEF WireTypes
  <2>5. Head(free) # None
    BY <2>2, NoneAssumption
  <2>6. PICK r \in Connections : /\ conns' = [conns EXCEPT ![n] = r]
                                 /\ r.st = "in" => r.gaea # None
    <3>1. conns[n] \in Connections /\ DOMAIN conns = Conns
      BY DEF AgentTypes
    <3>2. CASE conns' = [conns EXCEPT ![n].st = "in", ![n].gaea = Head(free)]
      <4>1. [conns[n] EXCEPT !.st = "in", !.gaea = Head(free)] \in Connections
        BY <2>2, <3>1 DEF Connections
      <4>2. conns' = [conns EXCEPT ![n] = [conns[n] EXCEPT !.st = "in", !.gaea = Head(free)]]
        BY <3>1, <3>2
      <4>3. [conns[n] EXCEPT !.st = "in", !.gaea = Head(free)].gaea = Head(free)
        BY <3>1 DEF Connections
      <4> QED  BY <2>5, <4>1, <4>2, <4>3
    <3>3. CASE conns' = [conns EXCEPT ![n].st = "closed"]
      <4>1. /\ [conns[n] EXCEPT !.st = "closed"] \in Connections
            /\ [conns[n] EXCEPT !.st = "closed"].st # "in"
        BY <3>1 DEF Connections
      <4> QED  BY <3>3, <4>1
    <3> QED  BY <1>3, <3>2, <3>3
  <2>7. conns' \in [Conns -> Connections] /\ \A m \in Conns : conns'[m].st = "in" => conns'[m].gaea # None
    <3>1. /\ conns' \in [Conns -> Connections]
          /\ \A m \in Conns : conns'[m] = IF m = n THEN r ELSE conns[m]
      BY <2>6 DEF AgentTypes
    <3> QED  BY <2>6, <3>1 DEF AgentTypes
  <2> QED  BY <1>0, <2>2, <2>4, <2>7 DEF AgentTypes
<1> QED  BY <1>1, <1>2, <1>3 DEF MsgAgentReqJoin

\* The link of n is renewed or closed.
LEMMA LinkTypes ==
  ASSUME Types, NEW n \in Conns
  PROVE  /\ Unlinked(n) \in [Fields -> [Conns -> Slots]]
         /\ ConnectFails(n) =>
              /\ conns' \in [Conns -> Connections]
              /\ \A m \in Conns : conns'[m].st = "in" => conns'[m].gaea # None
              /\ slot' \in [Fields -> [Conns -> Slots]]
              /\ toSlot' \in [Fields -> [Conns -> Seq(SlotMsgs)]]
         /\ \A h \in Fields : \A g \in Gaeas : pcs[g] # None /\ Connect(n, h, g) =>
              /\ conns' \in [Conns -> Connections]
              /\ \A m \in Conns : conns'[m].st = "in" => conns'[m].gaea # None
              /\ slot' \in [Fields -> [Conns -> Slots]]
              /\ toSlot' \in [Fields -> [Conns -> Seq(SlotMsgs)]]
<1> USE DEF Types
<1>1. Unlinked(n) \in [Fields -> [Conns -> Slots]]
  <2>1. ASSUME NEW f \in Fields
        PROVE  [slot[f] EXCEPT ![n].st = IF @ = "open" THEN "closing" ELSE @] \in [Conns -> Slots]
    <3>1. slot[f] \in [Conns -> Slots] /\ slot[f][n] \in Slots
      BY DEF FieldTypes
    <3>2. PICK r : r = [slot[f][n] EXCEPT !.st = IF @ = "open" THEN "closing" ELSE @]
      OBVIOUS
    <3>3. r \in Slots
      BY <3>1, <3>2 DEF Slots
    <3> QED  BY <3>1, <3>2, <3>3
  <2> QED  BY <2>1 DEF Unlinked
<1>2. ASSUME ConnectFails(n)
      PROVE  /\ conns' \in [Conns -> Connections]
             /\ \A m \in Conns : conns'[m].st = "in" => conns'[m].gaea # None
             /\ slot' \in [Fields -> [Conns -> Slots]]
             /\ toSlot' \in [Fields -> [Conns -> Seq(SlotMsgs)]]
  <2>1. slot' = Unlinked(n) /\ toSlot' = toSlot /\ toSlot \in [Fields -> [Conns -> Seq(SlotMsgs)]]
    BY <1>2 DEF ConnectFails, WireTypes
  <2>2. /\ conns \in [Conns -> Connections] /\ conns[n] \in Connections
        /\ \A m \in Conns : conns[m].st = "in" => conns[m].gaea # None
    BY DEF AgentTypes
  <2>3. PICK r : r = [conns[n] EXCEPT !.link = None]
    OBVIOUS
  <2>4. r \in Connections /\ r.st = conns[n].st /\ r.gaea = conns[n].gaea
    BY <2>2, <2>3 DEF Connections
  <2>5. conns' = [conns EXCEPT ![n] = r]
    BY <1>2, <2>3 DEF ConnectFails
  <2> QED  BY <1>1, <2>1, <2>2, <2>4, <2>5
<1>3. ASSUME NEW h \in Fields, NEW g \in Gaeas, pcs[g] # None, Connect(n, h, g)
      PROVE  /\ conns' \in [Conns -> Connections]
             /\ \A m \in Conns : conns'[m].st = "in" => conns'[m].gaea # None
             /\ slot' \in [Fields -> [Conns -> Slots]]
             /\ toSlot' \in [Fields -> [Conns -> Seq(SlotMsgs)]]
  <2>1. /\ conns' \in [Conns -> Connections]
        /\ \A m \in Conns : conns'[m].st = "in" => conns'[m].gaea # None
    BY <1>3 DEF Connect, AgentTypes, Connections
  <2>2. PICK u \in [Fields -> [Conns -> Slots]] : u = Unlinked(n)
    BY <1>1
  <2>3. [u[h][n] EXCEPT !.st = "open"] \in Slots
    <3>1. u[h][n] \in Slots
      BY <2>2
    <3> QED  BY <3>1 DEF Slots
  <2>4. slot' = [u EXCEPT ![h][n] = [u[h][n] EXCEPT !.st = "open"]]
    BY <1>3, <2>2 DEF Connect
  <2>5. slot' \in [Fields -> [Conns -> Slots]]
    BY <2>2, <2>3, <2>4, NestedUpdate
  <2>6. PICK m \in SlotMsgs : m = [kind |-> "JOIN", char |-> pcs[g].char, gaea |-> g]
    BY <1>3, PcsOK DEF SlotMsgs
  <2>7. toSlot[h][n] \in Seq(SlotMsgs) /\ Append(toSlot[h][n], m) \in Seq(SlotMsgs)
    BY <2>6, AppendProperties DEF WireTypes
  <2>8. toSlot' = [toSlot EXCEPT ![h][n] = Append(toSlot[h][n], m)]
    BY <1>3, <2>6 DEF Connect
  <2>9. toSlot' \in [Fields -> [Conns -> Seq(SlotMsgs)]]
    BY <2>7, <2>8, NestedUpdate DEF WireTypes
  <2> QED  BY <2>1, <2>5, <2>9
<1> QED  BY <1>1, <1>2, <1>3

LEMMA CheckedTypes ==
  ASSUME Types, IdsInv, NEW f \in Fields, MsgReqFieldSvrCharChkFb(f)
  PROVE  Types' /\ IdsInv'
<1> USE DEF Types
<1>0. /\ answers[f] # <<>> /\ answers' = [answers EXCEPT ![f] = Tail(@)]
      /\ UNCHANGED <<free, reserved, live, saving, drops, jobs, toField, loaded, outs, db, newest>>
  BY DEF MsgReqFieldSvrCharChkFb
<1>1. Head(answers[f]) \in Gaeas /\ Tail(answers[f]) \in Seq(Gaeas)
  BY <1>0, RangeTail DEF WireTypes
<1>2. answers' \in [Fields -> Seq(Gaeas)]
  BY <1>0, <1>1 DEF WireTypes
<1>3. PICK g \in Gaeas : g = Head(answers[f])
  BY <1>1
<1>4. CASE UNCHANGED <<pcs, conns, slot, toSlot>>
  BY <1>0, <1>2, <1>4 DEF AgentTypes, FieldTypes, WireTypes, DbTypes, IdsInv
<1>5. CASE /\ pcs[g] # None /\ pcs' = [pcs EXCEPT ![g].checked = Answered(g, f)]
           /\ UNCHANGED <<conns, slot, toSlot>>
  <2>1. [pcs[g] EXCEPT !.checked = Answered(g, f)] \in JoiningAt
    BY <1>5, PcsOK
  <2>2. pcs' \in [Gaeas -> JoiningAt \cup {None}] /\ IdsInv'
    BY <1>0, <1>5, <2>1, IdsStay
  <2> QED  BY <1>0, <1>2, <1>5, <2>2 DEF AgentTypes, FieldTypes, WireTypes, DbTypes
<1>6. ASSUME pcs[g] # None, NEW h \in Fields,
             pcs' = [pcs EXCEPT ![g].checked = Answered(g, f), ![g].cur = h],
             Connect(pcs[g].conn, h, g)
      PROVE  Types' /\ IdsInv'
  <2>1. [pcs[g] EXCEPT !.checked = Answered(g, f), !.cur = h] \in JoiningAt /\ pcs[g].conn \in Conns
    BY <1>6, PcsOK
  <2>2. pcs' = [pcs EXCEPT ![g] = [pcs[g] EXCEPT !.checked = Answered(g, f), !.cur = h]]
    BY <1>6 DEF AgentTypes
  <2>3. pcs' \in [Gaeas -> JoiningAt \cup {None}] /\ IdsInv'
    BY <1>0, <1>6, <2>1, <2>2, IdsStay
  <2> QED  BY <1>0, <1>2, <1>6, <2>1, <2>3, LinkTypes DEF AgentTypes, FieldTypes, WireTypes, DbTypes
<1>7. CASE /\ pcs[g] # None /\ pcs' = [pcs EXCEPT ![g].checked = Answered(g, f)]
           /\ ConnectFails(pcs[g].conn)
  <2>1. [pcs[g] EXCEPT !.checked = Answered(g, f)] \in JoiningAt /\ pcs[g].conn \in Conns
    BY <1>7, PcsOK
  <2>2. pcs' \in [Gaeas -> JoiningAt \cup {None}] /\ IdsInv'
    BY <1>0, <1>7, <2>1, IdsStay
  <2> QED  BY <1>0, <1>2, <1>7, <2>1, <2>2, LinkTypes DEF AgentTypes, FieldTypes, WireTypes, DbTypes
<1> QED  BY <1>3, <1>4, <1>5, <1>6, <1>7 DEF MsgReqFieldSvrCharChkFb

LEMMA GateTypes ==
  ASSUME Types, IdsInv, NEW n \in Conns, NEW f \in Fields, MsgReqGateOut(n, f)
  PROVE  Types' /\ IdsInv'
<1> USE DEF Types
<1>0. /\ conns[n].st = "in" /\ pcs[conns[n].gaea] # None
      /\ UNCHANGED <<free, reserved, conns, fieldVars, toField, loaded, answers, outs, db, newest>>
  BY DEF MsgReqGateOut
<1>1. PICK g \in Gaeas : g = conns[n].gaea
  BY <1>0, ConnectionOK DEF AgentTypes
<1>2. pcs[g].conn \in Conns /\ [pcs[g] EXCEPT !.next = f] \in JoiningAt /\ pcs[g] # None
  BY <1>0, <1>1, PcsOK
<1>3. PICK m \in Conns : m = pcs[g].conn
  BY <1>2
<1>4. pcs' = [pcs EXCEPT ![g].next = f]
  BY <1>1 DEF MsgReqGateOut
<1>5. pcs' \in [Gaeas -> JoiningAt \cup {None}] /\ IdsInv'
  BY <1>0, <1>2, <1>4, IdsStay
<1>6. \/ toSlot' = toSlot
      \/ /\ conns[m].link # None
         /\ toSlot' = [toSlot EXCEPT ![conns[m].link.field][m] = Append(@, [kind |-> "OUT"])]
  BY <1>1, <1>3 DEF MsgReqGateOut
<1>7. toSlot' \in [Fields -> [Conns -> Seq(SlotMsgs)]]
  <2>1. CASE toSlot' = toSlot
    BY <2>1 DEF WireTypes
  <2>2. CASE /\ conns[m].link # None
             /\ toSlot' = [toSlot EXCEPT ![conns[m].link.field][m] = Append(@, [kind |-> "OUT"])]
    <3>1. PICK h \in Fields : h = conns[m].link.field
      BY <2>2, ConnectionOK
    <3>2. [kind |-> "OUT"] \in SlotMsgs /\ toSlot[h][m] \in Seq(SlotMsgs)
      BY DEF SlotMsgs, WireTypes
    <3>3. Append(toSlot[h][m], [kind |-> "OUT"]) \in Seq(SlotMsgs)
      BY <3>2, AppendProperties
    <3>4. toSlot' = [toSlot EXCEPT ![h][m] = Append(toSlot[h][m], [kind |-> "OUT"])]
      BY <2>2, <3>1
    <3> QED  BY <3>3, <3>4, NestedUpdate DEF WireTypes
  <2> QED  BY <1>6, <2>1, <2>2
<1> QED  BY <1>0, <1>5, <1>7 DEF AgentTypes, FieldTypes, WireTypes, DbTypes, fieldVars

LEMMA OutFbTypes ==
  ASSUME Types, IdsInv, NEW n \in Conns, NEW f \in Fields, MsgFieldSvrOutFb(f, n)
  PROVE  Types' /\ IdsInv'
<1> USE DEF Types
<1> DEFINE l == conns[n].link
           next == IF l = None THEN None
                   ELSE IF pcs[l.gaea] = None THEN None ELSE pcs[l.gaea].next
<1>0. /\ outs' = outs \ {<<f, n>>}
      /\ UNCHANGED <<free, reserved, live, saving, drops, jobs, toField, loaded, answers, db, newest>>
  BY DEF MsgFieldSvrOutFb
<1>1. CASE UNCHANGED <<pcs, conns, slot, toSlot>>
  BY <1>0, <1>1 DEF AgentTypes, FieldTypes, WireTypes, DbTypes, IdsInv
<1>2. CASE /\ next # None /\ Connect(n, next, l.gaea)
           /\ pcs' = [pcs EXCEPT ![l.gaea].cur = next, ![l.gaea].next = None]
  <2>1. l # None /\ pcs[l.gaea] # None /\ next = pcs[l.gaea].next
    BY <1>2
  <2>2. PICK g \in Gaeas : g = l.gaea
    BY <2>1, ConnectionOK
  <2>3. PICK h \in Fields : h = next
    BY <1>2, <2>1, <2>2, PcsOK
  <2>4. [pcs[g] EXCEPT !.cur = h, !.next = None] \in JoiningAt /\ pcs[g] # None
    BY <2>1, <2>2, PcsOK
  <2>5. Connect(n, h, g) /\ pcs' = [pcs EXCEPT ![g].cur = h, ![g].next = None]
    BY <1>2, <2>2, <2>3
  <2> HIDE DEF next, l
  <2>6. pcs' = [pcs EXCEPT ![g] = [pcs[g] EXCEPT !.cur = h, !.next = None]]
    BY <2>5 DEF AgentTypes
  <2>7. pcs' \in [Gaeas -> JoiningAt \cup {None}] /\ IdsInv'
    BY <1>0, <2>4, <2>6, IdsStay
  <2> QED  BY <1>0, <2>4, <2>5, <2>7, LinkTypes DEF AgentTypes, FieldTypes, WireTypes, DbTypes
<1>3. CASE ConnectFails(n) /\ UNCHANGED pcs
  BY <1>0, <1>3, LinkTypes DEF AgentTypes, FieldTypes, WireTypes, DbTypes, IdsInv
<1> QED  BY <1>1, <1>2, <1>3 DEF MsgFieldSvrOutFb

LEMMA AgentStepTypes ==
  ASSUME Types, IdsInv, AgentNext
  PROVE  Types' /\ IdsInv'
<1> USE DEF Types
<1>1. ASSUME NEW n \in Conns, CloseClient(n) PROVE Types' /\ IdsInv'
  <2>1. /\ conns' = [conns EXCEPT ![n] = [st |-> "closed", gaea |-> None, link |-> None]]
        /\ reserved' = IF conns[n].gaea = None THEN reserved ELSE Append(reserved, conns[n].gaea)
        /\ slot' = Unlinked(n)
        /\ UNCHANGED <<pcs, free, live, saving, drops, jobs, wires, db, newest>>
    BY <1>1 DEF CloseClient
  <2>2. [st |-> "closed", gaea |-> None, link |-> None] \in Connections
    BY DEF Connections
  <2>3. conns' \in [Conns -> Connections] /\ \A m \in Conns : conns'[m].st = "in" => conns'[m].gaea # None
    BY <2>1, <2>2 DEF AgentTypes
  <2>4. reserved' \in Seq(Gaeas)
    BY <2>1, ConnectionOK, AppendProperties DEF AgentTypes
  <2> QED
    BY <2>1, <2>3, <2>4, LinkTypes DEF AgentTypes, FieldTypes, WireTypes, DbTypes, wires, IdsInv
<1>2. ASSUME AgentFrame PROVE Types' /\ IdsInv'
  <2>1. /\ reserved' = <<>> /\ free' = free \o Returned
        /\ pcs' = [g \in Gaeas |-> IF g \in ToSet(reserved) THEN None ELSE pcs[g]]
        /\ UNCHANGED <<conns, fieldVars, wires, db, newest>>
    BY <1>2 DEF AgentFrame
  <2>2. ToSet(reserved) \in SUBSET Gaeas
    BY RangeIn DEF ToSet, Range, AgentTypes
  <2>3. pcs' \in [Gaeas -> JoiningAt \cup {None}] /\ free' \in Seq(Gaeas) /\ IdsInv'
    BY <2>1, <2>2, ReturnedIs, IdsBack
  <2>4. <<>> \in Seq(Gaeas)
    OBVIOUS
  <2> QED  BY <2>1, <2>3, <2>4 DEF AgentTypes, FieldTypes, WireTypes, DbTypes, fieldVars, wires
<1> QED  BY <1>1, <1>2, JoinAgentTypes, CheckedTypes, GateTypes, OutFbTypes DEF AgentNext

-----------------------------------------------------------------------------
(* What a field adds to its jobs                                             *)

LEMMA EvictIs ==
  ASSUME FieldTypes, NEW f \in Fields, NEW s \in SUBSET {g \in Gaeas : live[f][g] # None}
  PROVE  /\ EvictSaves(f, s) \in Seq(SaveJobs)
         /\ Range(EvictSaves(f, s)) = {Save(f, g) : g \in s}
<1> DEFINE S == {Save(f, g) : g \in s}
           h == [g \in s |-> Save(f, g)]
<1>1. IsFiniteSet(s)
  BY GaeasAssumption, FS_Subset
<1>2. h \in Surjection(s, S)
  BY DEF Surjection
<1>3. IsFiniteSet(S)
  <2> HIDE DEF h, S
  <2> QED  BY <1>1, <1>2, FS_Surjection
<1>4. S \in SUBSET SaveJobs
  BY SaveOK
<1>5. EvictSaves(f, s) = SetToSeq(S)
  BY DEF EvictSaves
<1> HIDE DEF S
<1>6. SetToSeq(S) \in Seq(SaveJobs) /\ Range(SetToSeq(S)) = S
  BY <1>3, <1>4, Listed
<1> QED  BY <1>5, <1>6 DEF S

LEMMA SaveSeq == ASSUME NEW q \in Seq(SaveJobs) PROVE q \in Seq(Jobs)
<1>1. q = [i \in 1 .. Len(q) |-> q[i]] /\ Len(q) \in Nat /\ \A i \in 1 .. Len(q) : q[i] \in SaveJobs
  BY LenProperties, ElementOfSeq
<1>2. q \in [1 .. Len(q) -> Jobs]
  BY <1>1 DEF Jobs
<1> QED  BY <1>1, <1>2, SeqDef

LEMMA DropJobsIs ==
  ASSUME FieldTypes, NEW f \in Fields, NEW d \in Drops, live[f][d.gaea] # None
  PROVE  /\ d.gaea \in Gaeas /\ d.char \in Chars /\ d.out \in Conns \cup {None}
         /\ Save(f, d.gaea) \in SaveJobs
         /\ DropJobs(f, d) \in Seq(Jobs)
         /\ Range(DropJobs(f, d)) =
              {Save(f, d.gaea)} \cup (IF d.out = None THEN {} ELSE {Out(d.out)})
         /\ \A S \in SUBSET SaveJobs : \A x : x \notin SaveJobs => Behind(DropJobs(f, d), x, S)
<1>1. d.gaea \in Gaeas /\ d.char \in Chars /\ d.out \in Conns \cup {None}
  BY DEF Drops
<1>2. Save(f, d.gaea) \in Jobs /\ Save(f, d.gaea) \in SaveJobs
  BY <1>1, SaveOK
<1>a. PICK u : u = <<Save(f, d.gaea)>>
  OBVIOUS
<1>3. /\ u \in Seq(Jobs) /\ Range(u) = {Save(f, d.gaea)}
      /\ \A S : \A x : Behind(u, x, S)
  BY <1>2, <1>a, One
<1>4. PICK r : r = IF d.out = None THEN <<>> ELSE <<Out(d.out)>>
  OBVIOUS
<1>5. r \in Seq(Jobs) /\ Range(r) = IF d.out = None THEN {} ELSE {Out(d.out)}
  <2>1. CASE d.out = None
    <3>1. <<>> \in Seq(Jobs)
      OBVIOUS
    <3> QED  BY <1>4, <2>1, <3>1, RangeEmpty
  <2>2. CASE d.out # None
    BY <1>1, <1>4, <2>2, JobsOK, One
  <2> QED  BY <2>1, <2>2
<1>6. DropJobs(f, d) = u \o r
  BY <1>4, <1>a DEF DropJobs
<1>7. /\ DropJobs(f, d) \in Seq(Jobs)
      /\ Range(DropJobs(f, d)) =
              {Save(f, d.gaea)} \cup (IF d.out = None THEN {} ELSE {Out(d.out)})
  BY <1>3, <1>5, <1>6, RangeConcat
<1>8. ASSUME NEW S \in SUBSET SaveJobs, NEW x, x \notin SaveJobs
      PROVE  Behind(DropJobs(f, d), x, S)
  <2>1. Behind(u, x, S) /\ x \notin Range(u)
    BY <1>2, <1>3, <1>8
  <2>2. Range(r) \cap S = {}
    BY <1>1, <1>5, <1>8, JobsOK
  <2>3. Behind(r, x, S)
    BY <2>2 DEF Behind, Range
  <2> QED  BY <1>3, <1>5, <1>6, <2>1, <2>3, BehindConcat
<1> QED  BY <1>1, <1>2, <1>7, <1>8

\* A frame: who is there still, of those marked to leave, and the jobs of each.
Leaving(f) == {i \in DOMAIN drops[f] :
  live[f][drops[f][i].gaea] # None /\ \A j \in 1..(i - 1) : drops[f][j].gaea # drops[f][i].gaea}

FrameParts(f) == [i \in DOMAIN drops[f] |->
  IF i \in Leaving(f) THEN DropJobs(f, drops[f][i]) ELSE <<>>]

LEMMA FramePartsIs ==
  ASSUME FieldTypes, NEW f \in Fields
  PROVE  /\ FrameParts(f) \in Seq(Seq(Jobs)) /\ Len(FrameParts(f)) = Len(drops[f])
         /\ Len(drops[f]) \in Nat /\ DOMAIN drops[f] = 1 .. Len(drops[f])
         /\ \A i \in 1 .. Len(drops[f]) :
              /\ drops[f][i] \in Drops /\ FrameParts(f)[i] \in Seq(Jobs)
              /\ FrameParts(f)[i] =
                   IF i \in Leaving(f) THEN DropJobs(f, drops[f][i]) ELSE <<>>
<1> DEFINE n == Len(drops[f])
<1>1. /\ n \in Nat /\ DOMAIN drops[f] = 1 .. n
      /\ \A i \in 1 .. n : drops[f][i] \in Drops
  BY LenProperties, ElementOfSeq DEF FieldTypes
<1>2. \A i \in 1 .. n : FrameParts(f)[i] =
        IF i \in Leaving(f) THEN DropJobs(f, drops[f][i]) ELSE <<>>
  BY <1>1 DEF FrameParts
<1>3. \A i \in Leaving(f) : DropJobs(f, drops[f][i]) \in Seq(Jobs)
  BY <1>1, DropJobsIs DEF Leaving
<1>4. ASSUME NEW i \in 1 .. n PROVE FrameParts(f)[i] \in Seq(Jobs)
  <2>1. <<>> \in Seq(Jobs)
    OBVIOUS
  <2> HIDE DEF n
  <2> QED  BY <1>2, <1>3, <2>1
<1>5. FrameParts(f) \in [1 .. n -> Seq(Jobs)]
  BY <1>1, <1>4 DEF FrameParts
<1>6. FrameParts(f) \in Seq(Seq(Jobs)) /\ Len(FrameParts(f)) = n
  BY <1>1, <1>5, SeqDef, LenProperties
<1> QED  BY <1>1, <1>2, <1>4, <1>6

\* What a frame does, in these words.
LEMMA FrameIs ==
  ASSUME NEW f \in Fields, FrameMove(f)
  PROVE  /\ drops[f] # <<>> /\ drops' = [drops EXCEPT ![f] = <<>>]
         /\ live' = [live EXCEPT ![f] =
              [g \in Gaeas |-> IF \E i \in DOMAIN drops[f] : drops[f][i].gaea = g
                               THEN None ELSE @[g]]]
         /\ jobs' = [jobs EXCEPT ![f] = @ \o FlattenSeq(FrameParts(f))]
         /\ saving' = [saving EXCEPT ![f] =
              @ \ {drops[f][i].char : i \in DOMAIN drops[f] \ Leaving(f)}]
         /\ UNCHANGED <<agentVars, slot, wires, db, newest>>
  BY DEF FrameMove, FrameParts, Leaving

-----------------------------------------------------------------------------
(* Every other step keeps the types                                          *)

LEMMA ReserveTypes ==
  ASSUME FieldTypes, NEW f \in Fields, NEW g \in Gaeas \cup {None},
         NEW n \in Conns \cup {None}, ReserveDropOutPC(f, g, n)
  PROVE  /\ saving' \in [Fields -> SUBSET Chars] /\ drops' \in [Fields -> Seq(Drops)]
         /\ \A h \in Fields : drops'[h] = drops[h] \/
              /\ h = f /\ g # None /\ live[f][g] # None
              /\ drops'[f] = Append(drops[f], [gaea |-> g, char |-> live[f][g].char, out |-> n])
<1>1. CASE g = None \/ live[f][g] = None
  BY <1>1 DEF ReserveDropOutPC, FieldTypes
<1>2. CASE g # None /\ live[f][g] # None
  <2>1. PICK c \in Chars : c = live[f][g].char
    BY <1>2, SaveOK
  <2>2. PICK d \in Drops : d = [gaea |-> g, char |-> c, out |-> n]
    BY <1>2 DEF Drops
  <2>3. /\ saving' = [saving EXCEPT ![f] = @ \cup {c}]
        /\ drops' = [drops EXCEPT ![f] = Append(@, d)]
    BY <1>2, <2>1, <2>2 DEF ReserveDropOutPC
  <2>4. saving' \in [Fields -> SUBSET Chars]
    BY <2>3 DEF FieldTypes
  <2>5. Append(drops[f], d) \in Seq(Drops)
    BY AppendProperties DEF FieldTypes
  <2>6. drops' \in [Fields -> Seq(Drops)] /\ \A h \in Fields :
          drops'[h] = IF h = f THEN Append(drops[f], d) ELSE drops[h]
    BY <2>3, <2>5 DEF FieldTypes
  <2> QED  BY <1>2, <2>1, <2>2, <2>4, <2>6
<1> QED  BY <1>1, <1>2

\* A field forgets who is in S.
LEMMA LeaveTypes ==
  ASSUME FieldTypes, NEW f \in Fields, NEW S,
         live' = [live EXCEPT ![f] = [g \in Gaeas |-> IF g \in S THEN None ELSE @[g]]]
  PROVE  /\ live' \in [Fields -> [Gaeas -> PlayedAt \cup {None}]]
         /\ \A h \in Fields : \A g \in Gaeas :
              live'[h][g] = IF h = f /\ g \in S THEN None ELSE live[h][g]
<1>1. [g \in Gaeas |-> IF g \in S THEN None ELSE live[f][g]] \in [Gaeas -> PlayedAt \cup {None}]
  BY DEF FieldTypes
<1> QED  BY <1>1 DEF FieldTypes

\* Jobs are put behind those that wait.
LEMMA MoreJobs ==
  ASSUME FieldTypes, NEW f \in Fields, NEW q \in Seq(Jobs),
         jobs' = [jobs EXCEPT ![f] = @ \o q]
  PROVE  /\ jobs' \in [Fields -> Seq(Jobs)]
         /\ \A h \in Fields : jobs'[h] = IF h = f THEN jobs[f] \o q ELSE jobs[h]
<1>1. jobs[f] \o q \in Seq(Jobs)
  BY ConcatProperties DEF FieldTypes
<1> QED  BY <1>1 DEF FieldTypes

LEMMA OneJob ==
  ASSUME FieldTypes, NEW f \in Fields, NEW j \in Jobs,
         jobs' = [jobs EXCEPT ![f] = Append(@, j)]
  PROVE  /\ jobs' \in [Fields -> Seq(Jobs)]
         /\ \A h \in Fields : jobs'[h] = IF h = f THEN Append(jobs[f], j) ELSE jobs[h]
<1>1. Append(jobs[f], j) \in Seq(Jobs)
  BY AppendProperties DEF FieldTypes
<1> QED  BY <1>1 DEF FieldTypes

\* A character the agent asks about: who is saved for it, and leaves.
Named(f) == Places(f, Head(toField[f]).char)
There(f) == Named(f) \cup {g \in {Head(toField[f]).gaea} : live[f][g] # None}
LetGoJobs(f) ==
  Append(EvictSaves(f, Named(f)) \o EvictSaves(f, There(f) \ Named(f)),
         Answer(Head(toField[f]).gaea))

LEMMA FieldMsgOK ==
  ASSUME WireTypes, NEW f \in Fields, toField[f] # <<>>
  PROVE  /\ Head(toField[f]).char \in Chars
         /\ Head(toField[f]).kind = "CHARCHK" => Head(toField[f]).gaea \in Gaeas
         /\ [toField EXCEPT ![f] = Tail(@)] \in [Fields -> Seq(FieldMsgs)]
<1>1. Head(toField[f]) \in FieldMsgs /\ Tail(toField[f]) \in Seq(FieldMsgs)
  BY RangeTail DEF WireTypes
<1>2. PICK m \in FieldMsgs : m = Head(toField[f])
  BY <1>1
<1>3. m.char \in Chars /\ (m.kind = "CHARCHK" => m.gaea \in Gaeas)
  BY DEF FieldMsgs
<1> QED  BY <1>1, <1>2, <1>3 DEF WireTypes

LEMMA LetGoIs ==
  ASSUME Types, NEW f \in Fields, RequestFieldSvrCharChk(f)
  PROVE  /\ Head(toField[f]).gaea \in Gaeas /\ Head(toField[f]).char \in Chars
         /\ There(f) \in SUBSET {g \in Gaeas : live[f][g] # None}
         /\ live' = [live EXCEPT ![f] = [g \in Gaeas |-> IF g \in There(f) THEN None ELSE @[g]]]
         /\ LetGoJobs(f) \in Seq(Jobs)
         /\ Range(LetGoJobs(f)) =
              {Save(f, g) : g \in There(f)} \cup {Answer(Head(toField[f]).gaea)}
         /\ \/ /\ jobs' = [jobs EXCEPT ![f] = @ \o LetGoJobs(f)]
               /\ UNCHANGED answers
            \/ /\ There(f) = {} /\ jobs' = jobs
               /\ answers' = [answers EXCEPT ![f] = Append(@, Head(toField[f]).gaea)]
<1> USE DEF Types
<1>1. toField[f] # <<>> /\ Head(toField[f]).kind = "CHARCHK"
  BY DEF RequestFieldSvrCharChk
<1>2. PICK g0 \in Gaeas : g0 = Head(toField[f]).gaea
  BY <1>1, FieldMsgOK
<1>3. Head(toField[f]).char \in Chars
  BY <1>1, FieldMsgOK
<1>4. There(f) \in SUBSET {g \in Gaeas : live[f][g] # None}
  BY <1>2 DEF There, Named, Places
<1> DEFINE a == EvictSaves(f, Named(f))
           b == EvictSaves(f, There(f) \ Named(f))
<1>5. a \in Seq(Jobs) /\ Range(a) = {Save(f, g) : g \in Named(f)}
  <2>1. Named(f) \in SUBSET {g \in Gaeas : live[f][g] # None}
    BY <1>4 DEF There
  <2> QED  BY <2>1, EvictIs, SaveSeq
<1>6. b \in Seq(Jobs) /\ Range(b) = {Save(f, g) : g \in There(f) \ Named(f)}
  <2>1. There(f) \ Named(f) \in SUBSET {g \in Gaeas : live[f][g] # None}
    BY <1>4
  <2> QED  BY <2>1, EvictIs, SaveSeq
<1>7. LetGoJobs(f) = Append(a \o b, Answer(g0))
  BY <1>2 DEF LetGoJobs
<1> HIDE DEF a, b
<1>8. a \o b \in Seq(Jobs) /\ Range(a \o b) = {Save(f, g) : g \in There(f)}
  <2>1. a \o b \in Seq(Jobs) /\ Range(a \o b) = Range(a) \cup Range(b)
    BY <1>5, <1>6, RangeConcat
  <2>2. There(f) = Named(f) \cup (There(f) \ Named(f))
    BY DEF There
  <2> QED  BY <1>5, <1>6, <2>1, <2>2
<1>9. /\ LetGoJobs(f) \in Seq(Jobs)
      /\ Range(LetGoJobs(f)) = {Save(f, g) : g \in There(f)} \cup {Answer(g0)}
  <2>1. PICK w \in Jobs : w = Answer(g0)
    BY JobsOK
  <2>2. PICK q \in Seq(Jobs) : q = a \o b
    BY <1>8
  <2>3. Append(q, w) \in Seq(Jobs) /\ Range(Append(q, w)) = Range(q) \cup {w}
    BY RangeAppend
  <2> QED  BY <1>7, <1>8, <2>1, <2>2, <2>3
<1>10. /\ live' = [live EXCEPT ![f] = [g \in Gaeas |-> IF g \in There(f) THEN None ELSE @[g]]]
       /\ \/ /\ jobs' = [jobs EXCEPT ![f] = @ \o LetGoJobs(f)]
             /\ UNCHANGED answers
          \/ /\ There(f) = {} /\ jobs' = jobs
             /\ answers' = [answers EXCEPT ![f] = Append(@, Head(toField[f]).gaea)]
  BY DEF RequestFieldSvrCharChk, There, Named, LetGoJobs
<1> QED  BY <1>2, <1>3, <1>4, <1>9, <1>10

LEMMA LetGoTypes ==
  ASSUME Types, NEW f \in Fields, RequestFieldSvrCharChk(f)
  PROVE  Types' /\ UNCHANGED <<pcs, free>>
<1> USE DEF Types
<1>0. /\ toField[f] # <<>> /\ toField' = [toField EXCEPT ![f] = Tail(@)]
      /\ UNCHANGED <<agentVars, slot, drops, toSlot, loaded, outs, db, newest>>
  BY DEF RequestFieldSvrCharChk
<1>1. live' \in [Fields -> [Gaeas -> PlayedAt \cup {None}]]
  BY LetGoIs, LeaveTypes
<1>2. saving' \in [Fields -> SUBSET Chars]
  <2>1. saving' = [saving EXCEPT ![f] = @ \cup {live[f][g].char : g \in There(f)}]
    BY DEF RequestFieldSvrCharChk, There, Named
  <2>2. {live[f][g].char : g \in There(f)} \in SUBSET Chars
    BY LetGoIs, SaveOK
  <2> QED  BY <2>1, <2>2 DEF FieldTypes
<1>3. jobs' \in [Fields -> Seq(Jobs)]
  BY LetGoIs, MoreJobs DEF FieldTypes
<1>4. answers' \in [Fields -> Seq(Gaeas)]
  <2>1. PICK g \in Gaeas : g = Head(toField[f]).gaea
    BY LetGoIs
  <2>2. Append(answers[f], g) \in Seq(Gaeas)
    BY AppendProperties DEF WireTypes
  <2>3. answers' = answers \/ answers' = [answers EXCEPT ![f] = Append(answers[f], g)]
    BY <2>1, LetGoIs
  <2> QED  BY <2>2, <2>3 DEF WireTypes
<1>5. toField' \in [Fields -> Seq(FieldMsgs)]
  BY <1>0, FieldMsgOK
<1> QED  BY <1>0, <1>1, <1>2, <1>3, <1>4, <1>5 DEF AgentTypes, FieldTypes, WireTypes, DbTypes, agentVars

LEMMA SlotMsgOK ==
  ASSUME WireTypes, NEW f \in Fields, NEW n \in Conns, toSlot[f][n] # <<>>
  PROVE  /\ Head(toSlot[f][n]).kind = "JOIN" =>
              Head(toSlot[f][n]).char \in Chars /\ Head(toSlot[f][n]).gaea \in Gaeas
         /\ [toSlot EXCEPT ![f][n] = Tail(@)] \in [Fields -> [Conns -> Seq(SlotMsgs)]]
         /\ \A h \in Fields : \A m \in Conns : [toSlot EXCEPT ![f][n] = Tail(@)][h][m] =
              IF h = f /\ m = n THEN Tail(toSlot[f][n]) ELSE toSlot[h][m]
<1>1. toSlot[f][n] \in Seq(SlotMsgs)
  BY DEF WireTypes
<1>2. Head(toSlot[f][n]) \in SlotMsgs /\ Tail(toSlot[f][n]) \in Seq(SlotMsgs)
  BY <1>1, RangeTail
<1>3. PICK m \in SlotMsgs : m = Head(toSlot[f][n])
  BY <1>2
<1>4. m.kind = "JOIN" => m.char \in Chars /\ m.gaea \in Gaeas
  BY DEF SlotMsgs
<1> QED  BY <1>2, <1>3, <1>4, NestedUpdate DEF WireTypes

\* The connection of a slot is sent its character, loses it, or is closed.
LEMMA SlotTypes ==
  ASSUME FieldTypes, NEW f \in Fields, NEW n \in Conns
  PROVE  /\ slot[f][n] \in Slots
         /\ \A c \in Chars : \A g \in Gaeas :
              [slot EXCEPT ![f][n].char = c, ![f][n].gaea = g] \in [Fields -> [Conns -> Slots]]
         /\ [slot EXCEPT ![f][n].gaea = None] \in [Fields -> [Conns -> Slots]]
         /\ [slot EXCEPT ![f][n] = [st |-> "closed", char |-> None, gaea |-> None]]
              \in [Fields -> [Conns -> Slots]]
<1>1. slot[f][n] \in Slots /\ slot \in [Fields -> [Conns -> Slots]]
  BY DEF FieldTypes
<1>2. ASSUME NEW c \in Chars, NEW g \in Gaeas
      PROVE  [slot EXCEPT ![f][n].char = c, ![f][n].gaea = g] \in [Fields -> [Conns -> Slots]]
  <2>1. PICK r \in Slots : r = [slot[f][n] EXCEPT !.char = c, !.gaea = g]
    BY <1>1 DEF Slots
  <2>2. [slot EXCEPT ![f][n].char = c, ![f][n].gaea = g] = [slot EXCEPT ![f][n] = r]
    BY <1>1, <2>1
  <2>3. [slot EXCEPT ![f][n] = r] \in [Fields -> [Conns -> Slots]]
    BY <1>1, NestedUpdate
  <2> QED  BY <2>2, <2>3
<1>3. [slot EXCEPT ![f][n].gaea = None] \in [Fields -> [Conns -> Slots]]
  <2>1. PICK r \in Slots : r = [slot[f][n] EXCEPT !.gaea = None]
    BY <1>1 DEF Slots
  <2>2. [slot EXCEPT ![f][n].gaea = None] = [slot EXCEPT ![f][n] = r]
    BY <1>1, <2>1
  <2>3. [slot EXCEPT ![f][n] = r] \in [Fields -> [Conns -> Slots]]
    BY <1>1, NestedUpdate
  <2> QED  BY <2>2, <2>3
<1>4. [st |-> "closed", char |-> None, gaea |-> None] \in Slots
  BY DEF Slots
<1> QED  BY <1>1, <1>2, <1>3, <1>4, NestedUpdate

LEMMA ServeTypes ==
  ASSUME Types, NEW f \in Fields, FieldServes(f)
  PROVE  Types' /\ UNCHANGED <<pcs, free>>
<1> USE DEF Types
<1>1. CASE RequestFieldSvrCharChk(f)
  BY <1>1, LetGoTypes
<1>2. CASE ServerCtrlCharDropOutForced(f)
  <2>0. /\ toField[f] # <<>> /\ toField' = [toField EXCEPT ![f] = Tail(@)]
        /\ UNCHANGED <<agentVars, live, slot, jobs, toSlot, loaded, answers, outs, db, newest>>
    BY <1>2 DEF ServerCtrlCharDropOutForced
  <2>1. saving' \in [Fields -> SUBSET Chars] /\ drops' \in [Fields -> Seq(Drops)]
    <3>1. \/ \E g \in Gaeas : ReserveDropOutPC(f, g, None)
          \/ UNCHANGED <<saving, drops>>
      BY <1>2 DEF ServerCtrlCharDropOutForced, Places
    <3> QED  BY <3>1, ReserveTypes DEF FieldTypes
  <2>2. toField' \in [Fields -> Seq(FieldMsgs)]
    BY <2>0, FieldMsgOK
  <2> QED  BY <2>0, <2>1, <2>2 DEF AgentTypes, FieldTypes, WireTypes, DbTypes, agentVars
<1>3. ASSUME NEW n \in Conns, MsgGameJoinChar(f, n) PROVE Types' /\ UNCHANGED <<pcs, free>>
  <2>0. /\ toSlot[f][n] # <<>> /\ Head(toSlot[f][n]).kind = "JOIN"
        /\ toSlot' = [toSlot EXCEPT ![f][n] = Tail(@)]
        /\ UNCHANGED <<agentVars, live, saving, drops, toField, loaded, answers, outs, db, newest>>
    BY <1>3 DEF MsgGameJoinChar
  <2>1. PICK c \in Chars, g \in Gaeas : c = Head(toSlot[f][n]).char /\ g = Head(toSlot[f][n]).gaea
    BY <2>0, SlotMsgOK
  <2>2. /\ slot' = [slot EXCEPT ![f][n].char = c, ![f][n].gaea = g]
        /\ jobs' = [jobs EXCEPT ![f] = Append(@, Load(c, n))]
    BY <1>3, <2>1 DEF MsgGameJoinChar
  <2>3. Load(c, n) \in Jobs
    BY JobsOK DEF Jobs
  <2>4. jobs' \in [Fields -> Seq(Jobs)]
    BY <2>2, <2>3, OneJob
  <2>5. slot' \in [Fields -> [Conns -> Slots]]
    BY <2>2, SlotTypes
  <2>6. toSlot' \in [Fields -> [Conns -> Seq(SlotMsgs)]]
    BY <2>0, SlotMsgOK
  <2> QED  BY <2>0, <2>4, <2>5, <2>6 DEF AgentTypes, FieldTypes, WireTypes, DbTypes, agentVars
<1>4. ASSUME NEW n \in Conns, RequestFieldSvrOut(f, n) PROVE Types' /\ UNCHANGED <<pcs, free>>
  <2>0. /\ toSlot[f][n] # <<>> /\ toSlot' = [toSlot EXCEPT ![f][n] = Tail(@)]
        /\ UNCHANGED <<agentVars, live, jobs, toField, loaded, answers, outs, db, newest>>
    BY <1>4 DEF RequestFieldSvrOut
  <2>1. \/ UNCHANGED <<slot, saving, drops>>
        \/ \E g \in Gaeas : ReserveDropOutPC(f, g, n) /\ slot' = [slot EXCEPT ![f][n].gaea = None]
    BY <1>4 DEF RequestFieldSvrOut, PlacesOf
  <2>2. /\ slot' \in [Fields -> [Conns -> Slots]]
        /\ saving' \in [Fields -> SUBSET Chars] /\ drops' \in [Fields -> Seq(Drops)]
    <3>1. ASSUME NEW g \in Gaeas, ReserveDropOutPC(f, g, n), slot' = [slot EXCEPT ![f][n].gaea = None]
          PROVE  /\ slot' \in [Fields -> [Conns -> Slots]]
                 /\ saving' \in [Fields -> SUBSET Chars] /\ drops' \in [Fields -> Seq(Drops)]
      BY <3>1, SlotTypes, ReserveTypes
    <3> QED  BY <2>1, <3>1 DEF FieldTypes
  <2>6. toSlot' \in [Fields -> [Conns -> Seq(SlotMsgs)]]
    BY <2>0, SlotMsgOK
  <2> QED  BY <2>0, <2>2, <2>6 DEF AgentTypes, FieldTypes, WireTypes, DbTypes, agentVars
<1>5. CASE MsgFieldReqJoin(f)
  <2>0. /\ loaded[f] # <<>> /\ loaded' = [loaded EXCEPT ![f] = Tail(@)]
        /\ UNCHANGED <<agentVars, slot, jobs, toField, toSlot, answers, outs, db, newest>>
    BY <1>5 DEF MsgFieldReqJoin
  <2>1. Head(loaded[f]) \in Results /\ Tail(loaded[f]) \in Seq(Results)
    BY <2>0, RangeTail DEF WireTypes
  <2>2. loaded' \in [Fields -> Seq(Results)]
    BY <2>0, <2>1 DEF WireTypes
  <2>3. PICK m \in Results : m = Head(loaded[f])
    BY <2>1
  <2>4. PICK r \in PlayedAt : r = [char |-> m.char, conn |-> m.conn, ver |-> m.ver]
    BY DEF Results, PlayedAt
  <2>5. PICK k : k = slot[f][m.conn].gaea
    OBVIOUS
  <2>6. \/ UNCHANGED <<live, saving, drops>>
        \/ /\ k \in Gaeas /\ live' = [live EXCEPT ![f][k] = r] /\ UNCHANGED <<saving, drops>>
        \/ /\ UNCHANGED live /\ \E h \in Gaeas : ReserveDropOutPC(f, h, None)
    <3>1. m.conn \in Conns
      BY DEF Results
    <3>2. k \in Gaeas \cup {None}
      BY <2>5, <3>1, SlotTypes DEF Slots
    <3> QED  BY <1>5, <2>3, <2>4, <2>5, <3>2 DEF MsgFieldReqJoin, MayCreate, PlacesOf
  <2>7. live' \in [Fields -> [Gaeas -> PlayedAt \cup {None}]]
    <3>1. CASE k \in Gaeas /\ live' = [live EXCEPT ![f][k] = r]
      <4>1. live \in [Fields -> [Gaeas -> PlayedAt \cup {None}]]
        BY DEF FieldTypes
      <4>2. [live EXCEPT ![f][k] = r] \in [Fields -> [Gaeas -> PlayedAt \cup {None}]]
        BY <3>1, <4>1, NestedUpdate
      <4> QED  BY <3>1, <4>2
    <3> QED  BY <2>6, <3>1 DEF FieldTypes
  <2>8. saving' \in [Fields -> SUBSET Chars] /\ drops' \in [Fields -> Seq(Drops)]
    BY <2>6, ReserveTypes DEF FieldTypes
  <2> QED  BY <2>0, <2>2, <2>7, <2>8 DEF AgentTypes, FieldTypes, WireTypes, DbTypes, agentVars
<1> QED  BY <1>1, <1>2, <1>3, <1>4, <1>5 DEF FieldServes

LEMMA FrameTypes ==
  ASSUME Types, NEW f \in Fields, FrameMove(f)
  PROVE  Types' /\ UNCHANGED <<pcs, free>>
<1> USE DEF Types
<1>1. live' \in [Fields -> [Gaeas -> PlayedAt \cup {None}]]
  <2> DEFINE S == {g \in Gaeas : \E i \in DOMAIN drops[f] : drops[f][i].gaea = g}
  <2>1. live' = [live EXCEPT ![f] = [g \in Gaeas |-> IF g \in S THEN None ELSE @[g]]]
    BY FrameIs
  <2> HIDE DEF S
  <2> QED  BY <2>1, LeaveTypes
<1>2. jobs' \in [Fields -> Seq(Jobs)]
  <2>1. FlattenSeq(FrameParts(f)) \in Seq(Jobs)
    BY FramePartsIs, FlattenRange
  <2> QED  BY <2>1, FrameIs, MoreJobs
<1>3. saving' \in [Fields -> SUBSET Chars]
  <2>1. PICK S : saving' = [saving EXCEPT ![f] = @ \ S]
    BY FrameIs
  <2> QED  BY <2>1 DEF FieldTypes
<1>4. drops' \in [Fields -> Seq(Drops)]
  <2>1. <<>> \in Seq(Drops)
    OBVIOUS
  <2> QED  BY <2>1, FrameIs DEF FieldTypes
<1>5. UNCHANGED <<agentVars, slot, wires, db, newest>>
  BY FrameIs
<1> QED  BY <1>1, <1>2, <1>3, <1>4, <1>5 DEF AgentTypes, FieldTypes, WireTypes, DbTypes, agentVars, wires

LEMMA PlayTypes ==
  ASSUME Types, NEW f \in Fields, NEW g \in Gaeas, Play(f, g)
  PROVE  Types' /\ UNCHANGED <<pcs, free>>
<1> USE DEF Types
<1>0. /\ live[f][g] # None /\ UNCHANGED <<agentVars, slot, saving, drops, jobs, wires, db>>
  BY DEF Play
<1>1. PICK c \in Chars : c = live[f][g].char
  BY <1>0, SaveOK
<1>2. newest[c] \in 0 .. MaxPlay /\ newest[c] < MaxPlay
  BY <1>1 DEF Play, DbTypes
<1>3. PICK v \in 0 .. MaxPlay : v = newest[c] + 1
  BY <1>2, BoundAssumption
<1>4. live' = [live EXCEPT ![f][g].ver = v] /\ newest' = [newest EXCEPT ![c] = v]
  BY <1>1, <1>3 DEF Play
<1>5. [live[f][g] EXCEPT !.ver = v] \in PlayedAt
  <2>1. live[f][g] \in PlayedAt
    BY <1>0, SaveOK
  <2> QED  BY <2>1 DEF PlayedAt
<1>6. live' \in [Fields -> [Gaeas -> PlayedAt \cup {None}]]
  <2>1. PICK r \in PlayedAt : r = [live[f][g] EXCEPT !.ver = v]
    BY <1>5
  <2>2. live' = [live EXCEPT ![f][g] = r]
    BY <1>4, <2>1
  <2>3. live \in [Fields -> [Gaeas -> PlayedAt \cup {None}]]
    BY DEF FieldTypes
  <2>4. [live EXCEPT ![f][g] = r] \in [Fields -> [Gaeas -> PlayedAt \cup {None}]]
    BY <2>3, NestedUpdate
  <2> QED  BY <2>2, <2>4
<1>7. newest' \in [Chars -> 0 .. MaxPlay]
  BY <1>4 DEF DbTypes
<1> QED  BY <1>0, <1>6, <1>7 DEF AgentTypes, FieldTypes, WireTypes, DbTypes, agentVars, wires

LEMMA PeriodicTypes ==
  ASSUME Types, NEW f \in Fields, NEW g \in Gaeas, SaveCharDB(f, g)
  PROVE  Types' /\ UNCHANGED <<pcs, free>>
<1> USE DEF Types
<1>0. /\ live[f][g] # None /\ UNCHANGED <<agentVars, live, slot, drops, wires, db, newest>>
      /\ saving' = [saving EXCEPT ![f] = @ \cup {live[f][g].char}]
      /\ jobs' = [jobs EXCEPT ![f] = Append(@, Save(f, g))]
  BY DEF SaveCharDB
<1>1. Save(f, g) \in Jobs /\ live[f][g].char \in Chars
  BY <1>0, SaveOK
<1>2. jobs' \in [Fields -> Seq(Jobs)]
  BY <1>0, <1>1, OneJob
<1>3. saving' \in [Fields -> SUBSET Chars]
  BY <1>0, <1>1 DEF FieldTypes
<1> QED  BY <1>0, <1>2, <1>3 DEF AgentTypes, FieldTypes, WireTypes, DbTypes, agentVars, wires

LEMMA CloseTypes ==
  ASSUME Types, NEW f \in Fields, NEW n \in Conns, FieldCloseClient(f, n)
  PROVE  Types' /\ UNCHANGED <<pcs, free>>
<1> USE DEF Types
<1>0. /\ ReserveDropOutPC(f, slot[f][n].gaea, None)
      /\ slot' = [slot EXCEPT ![f][n] = [st |-> "closed", char |-> None, gaea |-> None]]
      /\ UNCHANGED <<agentVars, live, jobs, wires, db, newest>>
  BY DEF FieldCloseClient
<1>1. slot[f][n].gaea \in Gaeas \cup {None}
  BY SlotTypes DEF Slots
<1>2. saving' \in [Fields -> SUBSET Chars] /\ drops' \in [Fields -> Seq(Drops)]
  BY <1>0, <1>1, ReserveTypes
<1>3. slot' \in [Fields -> [Conns -> Slots]]
  BY <1>0, SlotTypes
<1> QED  BY <1>0, <1>2, <1>3 DEF AgentTypes, FieldTypes, WireTypes, DbTypes, agentVars, wires

LEMMA JobTypes ==
  ASSUME Types, NEW f \in Fields, jobs[f] # <<>>, Done(f)
  PROVE  /\ Head(jobs[f]) \in Jobs /\ Tail(jobs[f]) \in Seq(Jobs)
         /\ jobs' \in [Fields -> Seq(Jobs)]
         /\ \A h \in Fields : jobs'[h] = IF h = f THEN Tail(jobs[f]) ELSE jobs[h]
<1>1. Head(jobs[f]) \in Jobs /\ Tail(jobs[f]) \in Seq(Jobs)
  BY RangeTail DEF Types, FieldTypes
<1> QED  BY <1>1 DEF Types, FieldTypes, Done

LEMMA DbStepTypes ==
  ASSUME Types, NEW f \in Fields, DbNext(f)
  PROVE  Types' /\ UNCHANGED <<pcs, free>>
<1> USE DEF Types
<1>0. jobs[f] # <<>> /\ Done(f) /\ UNCHANGED <<agentVars, live, slot, drops, toField, toSlot, newest>>
  BY DEF DbNext, ExecuteSave, ExecuteLoad, ExecuteToAgent, Job, wires
<1>1. PICK j \in Jobs : j = Head(jobs[f])
  BY <1>0, JobTypes
<1>2. jobs' \in [Fields -> Seq(Jobs)]
  BY <1>0, JobTypes
<1>3. CASE ExecuteSave(f)
  <2>1. j \in SaveJobs
    BY <1>1, <1>3, JobsOK DEF ExecuteSave, Job
  <2>2. PICK c \in Chars, v \in 0 .. MaxPlay : c = j.char /\ v = j.ver
    BY <2>1, JobsOK
  <2>3. /\ db' \in {[db EXCEPT ![c] = v], db}
        /\ saving' = [saving EXCEPT ![f] = @ \ {c}]
        /\ UNCHANGED wires
    BY <1>1, <1>3, <2>2 DEF ExecuteSave
  <2>4. db' \in [Chars -> 0 .. MaxPlay] /\ saving' \in [Fields -> SUBSET Chars]
    BY <2>3 DEF DbTypes, FieldTypes
  <2> QED  BY <1>0, <1>2, <2>3, <2>4 DEF AgentTypes, FieldTypes, WireTypes, DbTypes, agentVars, wires
<1>4. CASE ExecuteLoad(f)
  <2>1. j \in LoadJobs
    BY <1>1, <1>4, JobsOK DEF ExecuteLoad, Job
  <2>2. j.char \in Chars /\ j.conn \in Conns
    BY <2>1, JobsOK
  <2>3. PICK r \in Results : r = [char |-> j.char, ver |-> db[j.char], conn |-> j.conn]
    BY <2>2 DEF Results, DbTypes
  <2>4. loaded' = [loaded EXCEPT ![f] = Append(@, r)] \/ UNCHANGED loaded
    BY <1>1, <1>4, <2>3 DEF ExecuteLoad
  <2>5. Append(loaded[f], r) \in Seq(Results)
    BY AppendProperties DEF WireTypes
  <2>6. loaded' \in [Fields -> Seq(Results)]
    BY <2>4, <2>5 DEF WireTypes
  <2>7. UNCHANGED <<saving, answers, outs, db>>
    BY <1>4 DEF ExecuteLoad
  <2> QED  BY <1>0, <1>2, <2>6, <2>7 DEF AgentTypes, FieldTypes, WireTypes, DbTypes, agentVars
<1>5. CASE ExecuteToAgent(f)
  <2>1. UNCHANGED <<saving, loaded, db>>
    BY <1>5 DEF ExecuteToAgent
  <2>2. answers' \in [Fields -> Seq(Gaeas)] /\ outs' \subseteq Fields \X Conns
    <3>1. CASE j.op = "ANSWER" /\ answers' = [answers EXCEPT ![f] = Append(@, j.gaea)] /\ UNCHANGED outs
      <4>1. j.gaea \in Gaeas
        BY <3>1, JobsOK
      <4>2. Append(answers[f], j.gaea) \in Seq(Gaeas)
        BY <4>1, AppendProperties DEF WireTypes
      <4> QED  BY <3>1, <4>2 DEF WireTypes
    <3>2. CASE /\ j.op = "OUT" /\ UNCHANGED answers
               /\ outs' = IF Open(slot[f][j.conn]) THEN outs \cup {<<f, j.conn>>} ELSE outs
      <4>1. j.conn \in Conns
        BY <3>2, JobsOK
      <4> QED  BY <3>2, <4>1 DEF WireTypes
    <3> QED  BY <1>1, <1>5, <3>1, <3>2 DEF ExecuteToAgent, Job
  <2> QED  BY <1>0, <1>2, <2>1, <2>2 DEF AgentTypes, FieldTypes, WireTypes, DbTypes, agentVars
<1> QED  BY <1>3, <1>4, <1>5 DEF DbNext

LEMMA StepTypes ==
  ASSUME Types, IdsInv, [Next]_vars
  PROVE  Types' /\ IdsInv'
<1>1. CASE AgentNext
  BY <1>1, AgentStepTypes
<1>2. CASE UNCHANGED vars
  BY <1>2 DEF vars, agentVars, fieldVars, wires, Types, AgentTypes, FieldTypes, WireTypes, DbTypes, IdsInv
<1>3. Types' /\ UNCHANGED <<pcs, free>> => Types' /\ IdsInv'
  BY DEF IdsInv
<1> QED
  BY <1>1, <1>2, <1>3, ServeTypes, FrameTypes, DbStepTypes, CloseTypes, PlayTypes, PeriodicTypes DEF Next

LEMMA InitTypes == Init => Types /\ IdsInv
<1> SUFFICES ASSUME Init PROVE Types /\ IdsInv
  OBVIOUS
<1>1. AgentTypes /\ IdsInv
  <2>1. free \in Seq(Gaeas) /\ Range(free) = Gaeas /\ IsInjective(free)
    BY GaeasAssumption, Listed DEF Init, IsInjective
  <2>2. conns \in [Conns -> Connections] /\ \A n \in Conns : conns[n].st = "in" => conns[n].gaea # None
    BY DEF Init, Connections
  <2>3. reserved \in Seq(Gaeas)
    BY DEF Init
  <2>4. pcs \in [Gaeas -> JoiningAt \cup {None}] /\ \A g \in Gaeas : pcs[g] = None
    BY DEF Init
  <2> QED  BY <2>1, <2>2, <2>3, <2>4 DEF AgentTypes, IdsInv
<1>2. FieldTypes
  BY DEF Init, FieldTypes, NoSlot, Slots
<1>3. WireTypes
  BY DEF Init, WireTypes
<1>4. DbTypes
  BY BoundAssumption DEF Init, DbTypes
<1> QED  BY <1>1, <1>2, <1>3, <1>4 DEF Types

THEOREM TypesHold == Spec => [](Types /\ IdsInv)
<1>1. Init => Types /\ IdsInv
  BY InitTypes
<1>2. (Types /\ IdsInv) /\ [Next]_vars => (Types /\ IdsInv)'
  BY StepTypes
<1> QED  BY <1>1, <1>2, PTL DEF Spec

\* No more ids in the list than there are.
LEMMA FewFree ==
  ASSUME Types, IdsInv
  PROVE  free \in SeqOf(Gaeas, Cardinality(Gaeas))
<1>1. free \in Seq(Gaeas) /\ Len(free) \in Nat /\ free \in [1 .. Len(free) -> Gaeas]
  BY LenProperties DEF Types, AgentTypes
<1>2. free \in Injection(1 .. Len(free), Gaeas)
  BY <1>1 DEF IdsInv, IsInjective, Injection
<1>3. IsFiniteSet(1 .. Len(free)) /\ Cardinality(1 .. Len(free)) = Len(free)
  BY <1>1, FS_Interval
<1>4. Len(free) <= Cardinality(Gaeas) /\ Cardinality(Gaeas) \in Nat
  BY <1>2, <1>3, GaeasAssumption, FS_Injection, FS_CardinalityType
<1>5. Len(free) \in 0 .. Cardinality(Gaeas)
  BY <1>1, <1>4
<1> QED  BY <1>1, <1>5 DEF SeqOf

\* Whatever the numbers of characters, connections, ids and fields, every
\* variable stays within its type, and the agent's list of free ids never
\* grows longer than the ids there are.
THEOREM TypesOK == Spec => []TypeOK
<1>1. Types /\ IdsInv => TypeOK
  BY FewFree DEF TypeOK, Types, AgentTypes, FieldTypes, WireTypes, DbTypes, Connections, Slots,
    Drops, Results
<1> QED  BY <1>1, TypesHold, PTL

\* An id is in the agent's list once when nobody has it and not at all when
\* somebody does: a close, a second login and the reserved drop-outs together
\* give each back exactly once.
THEOREM IdsStayKept == Spec => []IdsKept
<1>1. ASSUME Types, IdsInv PROVE IdsKept
  <2> SUFFICES ASSUME NEW g \in Gaeas
               PROVE  Cardinality({i \in DOMAIN free : free[i] = g}) = IF pcs[g] = None THEN 1 ELSE 0
    BY DEF IdsKept
  <2> DEFINE I == {i \in DOMAIN free : free[i] = g}
  <2>1. CASE pcs[g] = None
    <3>1. PICK i \in DOMAIN free : free[i] = g
      BY <1>1, <2>1 DEF IdsInv, Range
    <3>2. I = {i}
      BY <1>1, <3>1 DEF IdsInv, IsInjective
    <3> HIDE DEF I
    <3>3. Cardinality(I) = 1
      BY <3>2, FS_Singleton
    <3> QED  BY <2>1, <3>3 DEF I
  <2>2. CASE pcs[g] # None
    <3>1. I = {}
      BY <1>1, <2>2 DEF IdsInv, Range
    <3> HIDE DEF I
    <3>2. Cardinality(I) = 0
      BY <3>1, FS_EmptySet
    <3> QED  BY <2>2, <3>2 DEF I
  <2> QED  BY <2>1, <2>2
<1> QED  BY <1>1, TypesHold, PTL

-----------------------------------------------------------------------------
(* The last save of who leaves                                               *)

\* The last of the jobs added decides what the last save is.
LEMMA LastSave ==
  ASSUME NEW q \in Seq(Jobs), NEW r \in Seq(Jobs), NEW c, NEW v,
         \E x \in Range(r) : x.op = "SAVE" /\ x.char = c,
         \A x \in Range(r) : x.op = "SAVE" /\ x.char = c => x.ver = v
  PROVE  SavesLast(q \o r, c, v)
<1> DEFINE n == Len(q)
           k == Len(r)
<1>1. PICK s \in Seq(Jobs) : s = q \o r
  BY ConcatProperties
<1>2. /\ n \in Nat /\ k \in Nat /\ Len(s) = n + k /\ DOMAIN s = 1 .. (n + k) /\ DOMAIN r = 1 .. k
      /\ \A i \in 1 .. (n + k) : s[i] = IF i <= n THEN q[i] ELSE r[i - n]
  BY <1>1, ConcatProperties, LenProperties
<1> DEFINE I == {i \in 1 .. (n + k) : s[i].op = "SAVE" /\ s[i].char = c}
           i == Greatest(I)
<1>3. PICK y \in I : y > n
  <2>1. PICK z \in 1 .. k : r[z].op = "SAVE" /\ r[z].char = c
    BY <1>2 DEF Range
  <2> HIDE DEF n, k
  <2>2. n + z \in 1 .. (n + k) /\ (n + z) - n = z /\ ~(n + z <= n)
    BY <1>2
  <2>3. s[n + z] = r[z]
    BY <1>2, <2>2
  <2> QED  BY <1>2, <2>1, <2>2, <2>3
<1>4. i \in I /\ \A z \in I : z <= i
  <2>1. I \subseteq 1 .. (n + k) /\ I # {}
    BY <1>3
  <2>2. PICK m \in Nat : m = n + k
    BY <1>2
  <2> HIDE DEF I, n, k
  <2>3. Greatest(I) \in I /\ \A z \in I : Greatest(I) >= z
    BY <2>1, <2>2, GreatestOf
  <2> QED  BY <2>1, <2>2, <2>3
<1> HIDE DEF i
<1>5. i \in 1 .. (n + k) /\ s[i].op = "SAVE" /\ s[i].char = c
  BY <1>4
<1>6. s[i].ver = v
  <2>1. i - n \in 1 .. k /\ s[i] = r[i - n]
    <3>1. i > n
      BY <1>2, <1>3, <1>4
    <3> HIDE DEF n, k
    <3> QED  BY <1>2, <1>5, <3>1
  <2>2. s[i] \in Range(r)
    BY <1>2, <2>1 DEF Range
  <2> QED  BY <1>5, <2>2
<1>7. \A j \in (i + 1)..Len(s) : s[j].op = "SAVE" => s[j].char # c
  <2> SUFFICES ASSUME NEW j \in (i + 1)..Len(s), s[j].op = "SAVE", s[j].char = c PROVE FALSE
    OBVIOUS
  <2>1. j \in 1 .. (n + k) /\ j > i
    BY <1>2, <1>5
  <2>2. j \in I
    BY <2>1
  <2> HIDE DEF I
  <2> QED  BY <1>2, <1>4, <1>5, <2>1, <2>2
<1>8. i \in DOMAIN s
  BY <1>2, <1>5
<1> HIDE DEF I
<1>9. SavesLast(s, c, v)
  BY <1>5, <1>6, <1>7, <1>8 DEF SavesLast
<1> QED  BY <1>1, <1>9

\* Saves of characters of f, at least one of them of the one at g, and other jobs.
LEMMA SavedHere ==
  ASSUME Types, OnePerField, NEW f \in Fields, NEW g \in Gaeas, live[f][g] # None,
         NEW r \in Seq(Jobs), jobs'[f] = jobs[f] \o r, Save(f, g) \in Range(r),
         \A x \in Range(r) : x.op = "SAVE" =>
           \E h \in Gaeas : live[f][h] # None /\ x = Save(f, h)
  PROVE  SavesLast(jobs'[f], live[f][g].char, live[f][g].ver)
<1>1. jobs[f] \in Seq(Jobs)
  BY DEF Types, FieldTypes
<1>2. Save(f, g).op = "SAVE" /\ Save(f, g).char = live[f][g].char
  BY DEF Save
<1>3. ASSUME NEW x \in Range(r), x.op = "SAVE", x.char = live[f][g].char
      PROVE  x.ver = live[f][g].ver
  <2>1. PICK h \in Gaeas : live[f][h] # None /\ x = Save(f, h)
    BY <1>3
  <2>2. x.char = live[f][h].char /\ x.ver = live[f][h].ver
    BY <2>1 DEF Save
  <2>3. h = g
    BY <1>3, <2>1, <2>2 DEF OnePerField
  <2> QED  BY <2>2, <2>3
<1> QED  BY <1>1, <1>2, <1>3, LastSave

LEMMA LeaversSaved ==
  ASSUME Types, OnePerField, [Next]_vars, NEW f \in Fields, NEW g \in Gaeas,
         live[f][g] # None, live'[f][g] = None
  PROVE  SavesLast(jobs'[f], live[f][g].char, live[f][g].ver)
<1> USE DEF Types
<1>1. \/ \E h \in Fields : RequestFieldSvrCharChk(h) \/ MsgFieldReqJoin(h) \/ FrameMove(h)
      \/ \E h \in Fields : \E x \in Gaeas : Play(h, x)
  <2>1. ~UNCHANGED live
    OBVIOUS
  <2>2. AgentNext => UNCHANGED live
    <3>1. \A x, y : MsgAgentReqJoin(x, y) => UNCHANGED live
      BY DEF MsgAgentReqJoin, fieldVars
    <3>2. \A x : MsgReqFieldSvrCharChkFb(x) => UNCHANGED live
      BY DEF MsgReqFieldSvrCharChkFb
    <3>3. \A x, y : MsgReqGateOut(x, y) => UNCHANGED live
      BY DEF MsgReqGateOut, fieldVars
    <3>4. \A x, y : MsgFieldSvrOutFb(x, y) \/ CloseClient(x) => UNCHANGED live
      BY DEF MsgFieldSvrOutFb, CloseClient, fieldVars
    <3>5. AgentFrame => UNCHANGED live
      BY DEF AgentFrame, fieldVars
    <3> QED  BY <3>1, <3>2, <3>3, <3>4, <3>5, Zenon DEF AgentNext
  <2>3. \A h \in Fields : FieldServes(h) =>
           RequestFieldSvrCharChk(h) \/ MsgFieldReqJoin(h) \/ UNCHANGED live
    <3>1. \A h : ServerCtrlCharDropOutForced(h) => UNCHANGED live
      BY DEF ServerCtrlCharDropOutForced
    <3>2. \A h, x : MsgGameJoinChar(h, x) => UNCHANGED live
      BY DEF MsgGameJoinChar
    <3>3. \A h, x : RequestFieldSvrOut(h, x) => UNCHANGED live
      BY DEF RequestFieldSvrOut
    <3> QED  BY <3>1, <3>2, <3>3, Zenon DEF FieldServes
  <2>4. \A h \in Fields : DbNext(h) => UNCHANGED live
    BY DEF DbNext, ExecuteSave, ExecuteLoad, ExecuteToAgent
  <2>5. \A h, x : FieldCloseClient(h, x) \/ SaveCharDB(h, x) => UNCHANGED live
    BY DEF FieldCloseClient, SaveCharDB
  <2>6. UNCHANGED vars => UNCHANGED live
    BY DEF vars, fieldVars
  <2> QED
    BY <2>1, <2>2, <2>3, <2>4, <2>5, <2>6, Zenon DEF Next
<1>2. ASSUME NEW h \in Fields, RequestFieldSvrCharChk(h)
      PROVE  SavesLast(jobs'[f], live[f][g].char, live[f][g].ver)
  <2>1. h = f /\ g \in There(f)
    BY <1>2, LetGoIs, LeaveTypes
  <2>2. jobs' = [jobs EXCEPT ![f] = @ \o LetGoJobs(f)]
    BY <1>2, <2>1, LetGoIs
  <2>3. /\ LetGoJobs(f) \in Seq(Jobs) /\ Head(toField[f]).gaea \in Gaeas
        /\ Range(LetGoJobs(f)) =
             {Save(f, x) : x \in There(f)} \cup {Answer(Head(toField[f]).gaea)}
        /\ There(f) \in SUBSET {x \in Gaeas : live[f][x] # None}
    BY <1>2, <2>1, LetGoIs
  <2>4. jobs'[f] = jobs[f] \o LetGoJobs(f)
    BY <2>2, <2>3, MoreJobs
  <2>5. \A x \in Range(LetGoJobs(f)) : x.op = "SAVE" =>
           \E y \in Gaeas : live[f][y] # None /\ x = Save(f, y)
    BY <2>3, JobsOK
  <2>6. Save(f, g) \in Range(LetGoJobs(f))
    BY <2>1, <2>3
  <2> QED  BY <2>3, <2>4, <2>5, <2>6, SavedHere
<1>3. ASSUME NEW h \in Fields, FrameMove(h)
      PROVE  SavesLast(jobs'[f], live[f][g].char, live[f][g].ver)
  <2> DEFINE n == Len(drops[f])
             P == FrameParts(f)
  <2>1. h = f /\ \E i \in DOMAIN drops[f] : drops[f][i].gaea = g
    <3> DEFINE S == {x \in Gaeas : \E i \in DOMAIN drops[h] : drops[h][i].gaea = x}
    <3>1. live' = [live EXCEPT ![h] = [x \in Gaeas |-> IF x \in S THEN None ELSE @[x]]]
      BY <1>3, FrameIs
    <3> HIDE DEF S
    <3>2. h = f /\ g \in S
      BY <3>1, LeaveTypes
    <3> QED  BY <3>2 DEF S
  <2>2. /\ P \in Seq(Seq(Jobs)) /\ Len(P) = n /\ n \in Nat /\ DOMAIN drops[f] = 1 .. n
        /\ \A i \in 1 .. n : /\ drops[f][i] \in Drops
                             /\ P[i] = IF i \in Leaving(f) THEN DropJobs(f, drops[f][i]) ELSE <<>>
    BY FramePartsIs
  <2>3. /\ FlattenSeq(P) \in Seq(Jobs) /\ DOMAIN P = 1 .. n
        /\ Range(FlattenSeq(P)) = UNION {Range(P[i]) : i \in 1 .. n}
    <3>1. DOMAIN P = 1 .. n
      BY <2>2, LenProperties
    <3> HIDE DEF P
    <3> QED  BY <2>2, <3>1, FlattenRange
  <2>4. jobs'[f] = jobs[f] \o FlattenSeq(P)
    BY <1>3, <2>1, <2>3, FrameIs, MoreJobs
  <2>5. PICK i \in 1 .. n : /\ drops[f][i].gaea = g
                            /\ \A j \in 1 .. (i - 1) : drops[f][j].gaea # g
    <3> DEFINE I == {i \in 1 .. n : drops[f][i].gaea = g}
    <3>1. I # {} /\ I \subseteq Nat
      BY <2>1, <2>2
    <3>2. PICK i \in I : \A j \in I : i <= j
      <4> HIDE DEF I
      <4> QED  BY <3>1, LeastNumber
    <3>3. \A j \in 1 .. (i - 1) : j \in 1 .. n /\ ~(i <= j)
      BY <2>2, <3>2
    <3> QED  BY <3>2, <3>3
  <2>6. i \in Leaving(f)
    BY <2>2, <2>5 DEF Leaving
  <2>7. Save(f, g) \in Range(P[i])
    BY <2>2, <2>5, <2>6, DropJobsIs
  <2>8. ASSUME NEW x \in Range(FlattenSeq(P)), x.op = "SAVE"
        PROVE  \E y \in Gaeas : live[f][y] # None /\ x = Save(f, y)
    <3>1. PICK j \in 1 .. n : x \in Range(P[j])
      BY <2>3, <2>8
    <3>2. j \in Leaving(f) /\ P[j] = DropJobs(f, drops[f][j]) /\ drops[f][j] \in Drops
      BY <2>2, <3>1, RangeEmpty
    <3>3. live[f][drops[f][j].gaea] # None
      BY <3>2 DEF Leaving
    <3>4. /\ drops[f][j].gaea \in Gaeas
          /\ \/ x = Save(f, drops[f][j].gaea)
             \/ drops[f][j].out \in Conns /\ x = Out(drops[f][j].out)
      BY <3>1, <3>2, <3>3, DropJobsIs
    <3> QED  BY <2>8, <3>3, <3>4, JobsOK
  <2> HIDE DEF P
  <2> QED  BY <2>3, <2>4, <2>7, <2>8, SavedHere
<1>4. ASSUME NEW h \in Fields, MsgFieldReqJoin(h) PROVE FALSE
  <2>1. Head(loaded[h]) \in Results
    BY <1>4, RangeTail DEF MsgFieldReqJoin, WireTypes
  <2>2. PICK r \in PlayedAt : r = [char |-> Head(loaded[h]).char, conn |-> Head(loaded[h]).conn,
                                   ver |-> Head(loaded[h]).ver]
    BY <2>1 DEF Results, PlayedAt
  <2>3. PICK k : live' = live \/ live' = [live EXCEPT ![h][k] = r]
    BY <1>4, <2>2 DEF MsgFieldReqJoin
  <2>4. r # None
    BY NotNone
  <2>5. live[f] \in [Gaeas -> PlayedAt \cup {None}] /\ live' # live
    BY DEF FieldTypes
  <2>6. live'[f] = live[f] \/ live'[f] = [live[f] EXCEPT ![k] = r]
    BY <2>3, <2>5 DEF FieldTypes
  <2> QED  BY <2>4, <2>5, <2>6
<1>5. ASSUME NEW h \in Fields, NEW k \in Gaeas, Play(h, k) PROVE FALSE
  <2>1. live[h][k] \in PlayedAt
    BY <1>5, SaveOK DEF Play
  <2>2. PICK v : live' = [live EXCEPT ![h][k].ver = v] /\ v = newest[live[h][k].char] + 1
    BY <1>5 DEF Play
  <2>3. v \in 0 .. MaxPlay
    <3>1. live[h][k].char \in Chars
      BY <2>1 DEF PlayedAt
    <3>2. newest[live[h][k].char] \in 0 .. MaxPlay /\ newest[live[h][k].char] < MaxPlay
      BY <1>5, <3>1 DEF Play, DbTypes
    <3> QED  BY <2>2, <3>2, BoundAssumption
  <2>4. PICK r \in PlayedAt : r = [live[h][k] EXCEPT !.ver = v]
    BY <2>1, <2>3 DEF PlayedAt
  <2>5. live' = [live EXCEPT ![h][k] = r]
    BY <2>2, <2>4
  <2>6. r # None
    BY NotNone
  <2> QED  BY <2>5, <2>6 DEF FieldTypes
<1> QED  BY <1>1, <1>2, <1>3, <1>4, <1>5

\* Whoever leaves a field, by whichever of the ways there are, in every order of
\* messages, frames and jobs, the last save of its character that waits there is
\* of the state it left in.
THEOREM LeaversAreSaved == Spec => LeavesSaved
<1>1. Types /\ OnePerField /\ [Next]_vars =>
        [\A f \in Fields, g \in Gaeas :
          live[f][g] # None /\ live'[f][g] = None =>
            SavesLast(jobs'[f], live[f][g].char, live[f][g].ver)]_vars
  BY LeaversSaved
<1> QED  BY <1>1, TypesHold, OneLife, PTL DEF Spec, LeavesSaved

-----------------------------------------------------------------------------
(* The way of a connection through a field                                   *)

JoinMsgs     == {m \in SlotMsgs : m.kind = "JOIN"}
LoadsOf(n)   == {j \in LoadJobs : j.conn = n}
SavesOf(n)   == {j \in SaveJobs : j.conn = n}
ResultsOf(n) == {r \in Results : r.conn = n}

\* Connection n at field f: its character is on the way there, is being loaded,
\* has been loaded, is there, is to leave for another field, and has left.
Joining(f, n)  == Range(toSlot[f][n]) \cap JoinMsgs # {}
Loading(f, n)  == Range(jobs[f]) \cap LoadsOf(n) # {}
Entering(f, n) == Range(loaded[f]) \cap ResultsOf(n) # {}
Here(f, n)     == PlacesOf(f, n) # {}
Leaves(f, n)   == \E d \in Range(drops[f]) : d.out = n
Told(f, n)     == Out(n) \in Range(jobs[f]) \/ <<f, n>> \in outs

OnceEach(f, n) ==
  /\ Once(toSlot[f][n], JoinMsgs) /\ Once(jobs[f], LoadsOf(n))
  /\ Once(loaded[f], ResultsOf(n))

\* It is so in this order, and never goes back: what comes later has not begun.
InOrder(f, n) ==
  /\ slot[f][n].st = "none" => ~(Joining(f, n) \/ Loading(f, n) \/ Entering(f, n)
                                  \/ Here(f, n) \/ Leaves(f, n) \/ Told(f, n))
  /\ Joining(f, n) => ~(Loading(f, n) \/ Entering(f, n) \/ Here(f, n) \/ Leaves(f, n)
                         \/ Told(f, n))
  /\ Loading(f, n) => ~(Entering(f, n) \/ Here(f, n) \/ Leaves(f, n) \/ Told(f, n))
  /\ Entering(f, n) => ~(Here(f, n) \/ Leaves(f, n) \/ Told(f, n))
  /\ Told(f, n) => ~Here(f, n)

\* Who is to leave for another field is at the id it was marked at.
MarkedWhereItIs(f, n) ==
  \A d \in Range(drops[f]) : d.out = n => PlacesOf(f, n) \subseteq {d.gaea}

\* The agent hears of it after the last save.
SavedBefore(f, n) ==
  /\ Behind(jobs[f], Out(n), SavesOf(n))
  /\ <<f, n>> \in outs => Range(jobs[f]) \cap SavesOf(n) = {}

Stages(f, n) ==
  OnceEach(f, n) /\ InOrder(f, n) /\ MarkedWhereItIs(f, n) /\ SavedBefore(f, n)

\* A step that brings nothing new for connection n at field f.
CalmSlot(f, n)   == slot'[f][n].st = "none" => slot[f][n].st = "none"
CalmTo(f, n)     == /\ Once(toSlot'[f][n], JoinMsgs)
                    /\ Range(toSlot'[f][n]) \cap JoinMsgs \subseteq Range(toSlot[f][n])
CalmJobs(f, n)   == /\ Once(jobs'[f], LoadsOf(n))
                    /\ Behind(jobs'[f], Out(n), SavesOf(n))
                    /\ Range(jobs'[f]) \cap (LoadsOf(n) \cup SavesOf(n) \cup {Out(n)})
                         \subseteq Range(jobs[f])
CalmLoaded(f, n) == /\ Once(loaded'[f], ResultsOf(n))
                    /\ Range(loaded'[f]) \cap ResultsOf(n) \subseteq Range(loaded[f])
CalmLive(f, n)   == PlacesOf(f, n)' \subseteq PlacesOf(f, n)
CalmDrops(f, n)  == \A d \in Range(drops'[f]) : d.out = n => d \in Range(drops[f])
CalmOuts(f, n)   == <<f, n>> \in outs' => <<f, n>> \in outs

LEMMA CalmKeeps ==
  ASSUME NEW f, NEW n, Stages(f, n), CalmSlot(f, n), CalmTo(f, n), CalmJobs(f, n),
         CalmLoaded(f, n), CalmLive(f, n), CalmDrops(f, n), CalmOuts(f, n)
  PROVE  Stages(f, n)'
<1>1. OnceEach(f, n)'
  BY DEF OnceEach, CalmTo, CalmJobs, CalmLoaded
<1>2. /\ Joining(f, n)' => Joining(f, n)
      /\ Loading(f, n)' => Loading(f, n)
      /\ Entering(f, n)' => Entering(f, n)
      /\ Here(f, n)' => Here(f, n)
      /\ Leaves(f, n)' => Leaves(f, n)
      /\ Told(f, n)' => Told(f, n)
      /\ slot'[f][n].st = "none" => slot[f][n].st = "none"
  <2>1. Joining(f, n)' => Joining(f, n)
    BY DEF CalmTo, Joining
  <2>2. Loading(f, n)' => Loading(f, n)
    BY DEF CalmJobs, Loading
  <2>3. Entering(f, n)' => Entering(f, n)
    BY DEF CalmLoaded, Entering
  <2>4. Here(f, n)' => Here(f, n)
    BY DEF CalmLive, Here
  <2>5. Leaves(f, n)' => Leaves(f, n)
    BY DEF CalmDrops, Leaves
  <2>6. Told(f, n)' => Told(f, n)
    BY DEF CalmJobs, CalmOuts, Told, Out
  <2> QED  BY <2>1, <2>2, <2>3, <2>4, <2>5, <2>6 DEF CalmSlot
<1>3. InOrder(f, n)'
  BY <1>2 DEF Stages, InOrder
<1>4. MarkedWhereItIs(f, n)'
  BY DEF Stages, MarkedWhereItIs, CalmLive, CalmDrops
<1>5. SavedBefore(f, n)'
  BY DEF Stages, SavedBefore, CalmJobs, CalmOuts, Out
<1> QED  BY <1>1, <1>3, <1>4, <1>5 DEF Stages

\* What is left alone is calm.
LEMMA StillCalm ==
  ASSUME NEW f, NEW n, Stages(f, n)
  PROVE  /\ slot'[f][n] = slot[f][n] => CalmSlot(f, n)
         /\ toSlot'[f][n] = toSlot[f][n] => CalmTo(f, n)
         /\ jobs'[f] = jobs[f] => CalmJobs(f, n)
         /\ loaded'[f] = loaded[f] => CalmLoaded(f, n)
         /\ live'[f] = live[f] => CalmLive(f, n)
         /\ drops'[f] = drops[f] => CalmDrops(f, n)
         /\ outs' = outs => CalmOuts(f, n)
  BY DEF CalmSlot, CalmTo, CalmJobs, CalmLoaded, CalmLive, CalmDrops, CalmOuts, Stages, OnceEach,
    SavedBefore, PlacesOf, Out

\* Nothing of another field's matters.
LEMMA ElsewhereCalm ==
  ASSUME NEW f, NEW n, Stages(f, n), slot'[f][n] = slot[f][n], toSlot'[f][n] = toSlot[f][n],
         jobs'[f] = jobs[f], loaded'[f] = loaded[f], live'[f] = live[f], drops'[f] = drops[f],
         <<f, n>> \in outs' => <<f, n>> \in outs
  PROVE  Stages(f, n)'
<1>1. CalmOuts(f, n)
  BY DEF CalmOuts
<1> QED  BY <1>1, StillCalm, CalmKeeps
\* Jobs put behind those that wait: saves of n only while n is there, and the
\* message that n has left only when it was to leave and is no longer there.
LEMMA JobsAdded ==
  ASSUME Types, NEW f \in Fields, NEW n \in Conns, Stages(f, n), NEW r \in Seq(Jobs),
         jobs'[f] = jobs[f] \o r, Range(r) \cap LoadsOf(n) = {},
         Behind(r, Out(n), SavesOf(n)),
         Range(r) \cap SavesOf(n) # {} => Here(f, n),
         Out(n) \in Range(r) => Leaves(f, n) /\ ~Here(f, n)',
         CalmSlot(f, n), CalmTo(f, n), CalmLoaded(f, n), CalmLive(f, n), CalmDrops(f, n),
         CalmOuts(f, n)
  PROVE  Stages(f, n)'
<1>1. PICK q \in Seq(Jobs) : q = jobs[f]
  BY DEF Types, FieldTypes
<1>2. Range(jobs'[f]) = Range(q) \cup Range(r)
  BY <1>1, RangeConcat
<1>3. Once(jobs'[f], LoadsOf(n))
  <2>1. Once(q, LoadsOf(n)) /\ Once(r, LoadsOf(n))
    BY <1>1 DEF Stages, OnceEach, Once, Range
  <2> QED  BY <1>1, <2>1, OnceConcat
<1>4. Range(r) \cap SavesOf(n) # {} => Out(n) \notin Range(q) /\ <<f, n>> \notin outs
  BY <1>1 DEF Stages, InOrder, Told
<1>5. Behind(jobs'[f], Out(n), SavesOf(n))
  <2>1. Behind(q, Out(n), SavesOf(n))
    BY <1>1 DEF Stages, SavedBefore
  <2> QED  BY <1>1, <1>4, <2>1, BehindConcat
<1>6. SavedBefore(f, n)'
  <2>1. <<f, n>> \in outs' => Range(jobs'[f]) \cap SavesOf(n) = {}
    BY <1>1, <1>2, <1>4 DEF Stages, SavedBefore, CalmOuts
  <2> QED  BY <1>5, <2>1 DEF SavedBefore, Out
<1>7. OnceEach(f, n)'
  BY <1>3 DEF OnceEach, CalmTo, CalmLoaded
<1>8. MarkedWhereItIs(f, n)'
  BY DEF Stages, MarkedWhereItIs, CalmLive, CalmDrops
<1>9. InOrder(f, n)'
  <2>1. Joining(f, n)' => Joining(f, n)
    BY DEF CalmTo, Joining
  <2>2. Loading(f, n)' => Loading(f, n)
    BY <1>1, <1>2 DEF Loading
  <2>3. Entering(f, n)' => Entering(f, n)
    BY DEF CalmLoaded, Entering
  <2>4. Here(f, n)' => Here(f, n)
    BY DEF CalmLive, Here
  <2>5. Leaves(f, n)' => Leaves(f, n)
    BY DEF CalmDrops, Leaves
  <2>6. Told(f, n)' => Told(f, n) \/ (Leaves(f, n) /\ ~Here(f, n)')
    BY <1>1, <1>2 DEF CalmOuts, Told, Out
  <2>7. slot'[f][n].st = "none" => slot[f][n].st = "none"
    BY DEF CalmSlot
  <2> QED  BY <2>1, <2>2, <2>3, <2>4, <2>5, <2>6, <2>7 DEF Stages, InOrder
<1> QED  BY <1>6, <1>7, <1>8, <1>9 DEF Stages

\* Calm steps of each kind.
LEMMA ToTail ==
  ASSUME Types, NEW f \in Fields, NEW n \in Conns, Stages(f, n), toSlot[f][n] # <<>>,
         toSlot'[f][n] = Tail(toSlot[f][n])
  PROVE  CalmTo(f, n)
<1>1. PICK q \in Seq(SlotMsgs) : q = toSlot[f][n]
  BY DEF Types, WireTypes
<1>2. Once(Tail(q), JoinMsgs)
  BY <1>1, OnceTail DEF Stages, OnceEach
<1>3. Range(Tail(q)) \subseteq Range(q)
  BY <1>1, RangeTail
<1> QED  BY <1>1, <1>2, <1>3 DEF CalmTo

LEMMA JobTail ==
  ASSUME Types, NEW f \in Fields, NEW n \in Conns, Stages(f, n), jobs[f] # <<>>,
         jobs'[f] = Tail(jobs[f])
  PROVE  CalmJobs(f, n)
<1>1. PICK q \in Seq(Jobs) : q = jobs[f]
  BY DEF Types, FieldTypes
<1>2. Once(Tail(q), LoadsOf(n)) /\ Behind(Tail(q), Out(n), SavesOf(n))
  BY <1>1, OnceTail, BehindTail DEF Stages, OnceEach, SavedBefore
<1>3. Range(Tail(q)) \subseteq Range(q)
  BY <1>1, RangeTail
<1> QED  BY <1>1, <1>2, <1>3 DEF CalmJobs

LEMMA LoadedTail ==
  ASSUME Types, NEW f \in Fields, NEW n \in Conns, Stages(f, n), loaded[f] # <<>>,
         loaded'[f] = Tail(loaded[f])
  PROVE  CalmLoaded(f, n)
<1>1. PICK q \in Seq(Results) : q = loaded[f]
  BY DEF Types, WireTypes
<1>2. Once(Tail(q), ResultsOf(n))
  BY <1>1, OnceTail DEF Stages, OnceEach
<1>3. Range(Tail(q)) \subseteq Range(q)
  BY <1>1, RangeTail
<1> QED  BY <1>1, <1>2, <1>3 DEF CalmLoaded

\* Somebody is marked to leave for good.
LEMMA ReserveCalm ==
  ASSUME Types, NEW f \in Fields, NEW g \in Gaeas \cup {None}, NEW m \in Conns \cup {None},
         ReserveDropOutPC(f, g, m), NEW h \in Fields, NEW n \in Conns, m # n \/ h # f,
         Stages(h, n)
  PROVE  CalmDrops(h, n)
<1>1. CASE drops'[h] = drops[h]
  BY <1>1, StillCalm
<1>2. CASE /\ h = f /\ g # None /\ live[f][g] # None
           /\ drops'[f] = Append(drops[f], [gaea |-> g, char |-> live[f][g].char, out |-> m])
  <2>1. live[f][g].char \in Chars
    BY <1>2, SaveOK DEF Types
  <2>2. PICK d \in Drops : d = [gaea |-> g, char |-> live[f][g].char, out |-> m]
    BY <1>2, <2>1 DEF Drops
  <2>3. Range(drops'[f]) = Range(drops[f]) \cup {d}
    BY <1>2, <2>2, RangeAppend DEF Types, FieldTypes
  <2>4. d.out # n
    BY <1>2, <2>2
  <2> QED  BY <1>2, <2>3, <2>4 DEF CalmDrops
<1> QED  BY <1>1, <1>2, ReserveTypes DEF Types

LEMMA LeaveCalm ==
  ASSUME Types, NEW f \in Fields, NEW S,
         live' = [live EXCEPT ![f] = [g \in Gaeas |-> IF g \in S THEN None ELSE @[g]]],
         NEW h \in Fields, NEW n \in Conns
  PROVE  CalmLive(h, n) /\ (h = f => PlacesOf(f, n)' = PlacesOf(f, n) \ S)
  BY LeaveTypes DEF CalmLive, PlacesOf, Types

-----------------------------------------------------------------------------
(* Each step keeps a connection on its way: those of the agent               *)

LEMMA UnlinkedCalm ==
  ASSUME Types, NEW m \in Conns, NEW f \in Fields, NEW n \in Conns
  PROVE  Unlinked(m)[f][n].st = "none" => slot[f][n].st = "none"
<1>1. slot[f] \in [Conns -> Slots] /\ slot[f][n] \in Slots /\ slot[f][m] \in Slots
  BY DEF Types, FieldTypes
<1>2. Unlinked(m)[f] = [slot[f] EXCEPT ![m].st = IF @ = "open" THEN "closing" ELSE @]
  BY DEF Unlinked
<1>3. PICK r : r = [slot[f][m] EXCEPT !.st = IF @ = "open" THEN "closing" ELSE @]
  OBVIOUS
<1>4. r.st = "none" => slot[f][m].st = "none"
  BY <1>1, <1>3 DEF Slots
<1>5. Unlinked(m)[f][n] = IF n = m THEN r ELSE slot[f][n]
  BY <1>1, <1>2, <1>3
<1> QED  BY <1>4, <1>5

\* What only the link and the messages of a connection change.
LEMMA LinkStages ==
  ASSUME Types, NEW m \in Conns, UNCHANGED <<jobs, loaded, live, drops>>,
         NEW f \in Fields, NEW n \in Conns, Stages(f, n), <<f, n>> \in outs' => <<f, n>> \in outs
  PROVE  /\ ConnectFails(m) => Stages(f, n)'
         /\ \A h \in Fields : \A g \in Gaeas : Connect(m, h, g) /\ pcs[g] # None => Stages(f, n)'
<1>0. CalmJobs(f, n) /\ CalmLoaded(f, n) /\ CalmLive(f, n) /\ CalmDrops(f, n) /\ CalmOuts(f, n)
  BY StillCalm DEF CalmOuts
<1>1. ASSUME ConnectFails(m) PROVE Stages(f, n)'
  <2>1. slot' = Unlinked(m) /\ toSlot' = toSlot
    BY <1>1 DEF ConnectFails
  <2>2. CalmSlot(f, n) /\ CalmTo(f, n)
    BY <2>1, UnlinkedCalm, StillCalm DEF CalmSlot
  <2> QED  BY <1>0, <2>2, CalmKeeps
<1>2. ASSUME NEW h \in Fields, NEW g \in Gaeas, Connect(m, h, g), pcs[g] # None
      PROVE  Stages(f, n)'
  <2>0. /\ slot[h][m] = NoSlot
        /\ slot' = [Unlinked(m) EXCEPT ![h][m].st = "open"]
        /\ toSlot' = [toSlot EXCEPT ![h][m] =
             Append(@, [kind |-> "JOIN", char |-> pcs[g].char, gaea |-> g])]
    BY <1>2 DEF Connect
  <2>1. PICK u \in [Fields -> [Conns -> Slots]] : u = Unlinked(m)
    BY LinkTypes
  <2>2. PICK w \in SlotMsgs : w = [kind |-> "JOIN", char |-> pcs[g].char, gaea |-> g]
    BY <1>2, PcsOK DEF SlotMsgs, Types
  <2>3. toSlot' = [toSlot EXCEPT ![h][m] = Append(toSlot[h][m], w)]
    BY <2>0, <2>2
  <2>4. toSlot'[f][n] = IF f = h /\ n = m THEN Append(toSlot[h][m], w) ELSE toSlot[f][n]
    <3>1. toSlot[h][m] \in Seq(SlotMsgs)
      BY DEF Types, WireTypes
    <3>2. Append(toSlot[h][m], w) \in Seq(SlotMsgs)
      BY <3>1, AppendProperties
    <3> QED  BY <2>3, <3>2, NestedUpdate DEF Types, WireTypes
  <2>5. slot'[f][n].st = IF f = h /\ n = m THEN "open" ELSE u[f][n].st
    <3>1. PICK r \in Slots : r = [u[h][m] EXCEPT !.st = "open"]
      <4>1. u[h][m] \in Slots
        BY <2>1
      <4> QED  BY <4>1 DEF Slots
    <3>2. slot' = [u EXCEPT ![h][m] = r]
      BY <2>0, <2>1, <3>1
    <3>3. r.st = "open"
      BY <3>1 DEF Slots
    <3> QED  BY <3>2, <3>3, NestedUpdate
  <2>6. CASE f = h /\ n = m
    <3>1. ~(Joining(f, n) \/ Loading(f, n) \/ Entering(f, n) \/ Here(f, n) \/ Leaves(f, n) \/ Told(f, n))
      BY <2>0, <2>6 DEF NoSlot, Stages, InOrder
    <3>2. ~(Loading(f, n)' \/ Entering(f, n)' \/ Here(f, n)' \/ Leaves(f, n)' \/ Told(f, n)')
      BY <1>0, <3>1 DEF CalmJobs, CalmLoaded, CalmLive, CalmDrops, CalmOuts, Loading, Entering, Here,
        Leaves, Told, Out
    <3>3. slot'[f][n].st # "none"
      BY <2>5, <2>6
    <3>4. InOrder(f, n)'
      BY <3>2, <3>3 DEF InOrder
    <3>5. Once(toSlot'[f][n], JoinMsgs)
      <4>1. PICK q \in Seq(SlotMsgs) : q = toSlot[h][m]
        BY DEF Types, WireTypes
      <4>2. Once(q, JoinMsgs) /\ Range(q) \cap JoinMsgs = {}
        BY <2>6, <3>1, <4>1 DEF Stages, OnceEach, Joining
      <4> QED  BY <2>4, <2>6, <4>1, <4>2, OnceAppend
    <3>6. OnceEach(f, n)'
      BY <1>0, <3>5 DEF OnceEach, CalmJobs, CalmLoaded
    <3>7. MarkedWhereItIs(f, n)' /\ SavedBefore(f, n)'
      BY <1>0 DEF Stages, MarkedWhereItIs, SavedBefore, CalmJobs, CalmLive, CalmDrops, CalmOuts, Out
    <3> QED  BY <3>4, <3>6, <3>7 DEF Stages
  <2>7. CASE ~(f = h /\ n = m)
    <3>1. CalmSlot(f, n) /\ CalmTo(f, n)
      BY <2>1, <2>4, <2>5, <2>7, UnlinkedCalm, StillCalm DEF CalmSlot
    <3> QED  BY <1>0, <3>1, CalmKeeps
  <2> QED  BY <2>6, <2>7
<1> QED  BY <1>1, <1>2

LEMMA AgentStages ==
  ASSUME Types, AgentNext, NEW f \in Fields, NEW n \in Conns, Stages(f, n)
  PROVE  Stages(f, n)'
<1> USE DEF Types
<1>1. ASSUME NEW m \in Conns, NEW c \in Chars, MsgAgentReqJoin(m, c) PROVE Stages(f, n)'
  BY <1>1, ElsewhereCalm DEF MsgAgentReqJoin, fieldVars
<1>2. ASSUME NEW h \in Fields, MsgReqFieldSvrCharChkFb(h) PROVE Stages(f, n)'
  <2>0. answers[h] # <<>> /\ UNCHANGED <<jobs, loaded, live, drops, outs>>
    BY <1>2 DEF MsgReqFieldSvrCharChkFb
  <2>1. PICK g \in Gaeas : g = Head(answers[h])
    BY <2>0, RangeTail DEF WireTypes
  <2>2. CASE UNCHANGED <<slot, toSlot>>
    BY <2>0, <2>2, ElsewhereCalm
  <2>3. ASSUME pcs[g] # None,
               ConnectFails(pcs[g].conn) \/ \E x \in Fields : Connect(pcs[g].conn, x, g)
        PROVE  Stages(f, n)'
    BY <2>0, <2>3, PcsOK, LinkStages
  <2> QED  BY <1>2, <2>1, <2>2, <2>3 DEF MsgReqFieldSvrCharChkFb
<1>3. ASSUME NEW m \in Conns, NEW h \in Fields, MsgReqGateOut(m, h) PROVE Stages(f, n)'
  <2>0. /\ conns[m].st = "in" /\ pcs[conns[m].gaea] # None
        /\ UNCHANGED <<fieldVars, loaded, outs>>
    BY <1>3 DEF MsgReqGateOut
  <2>1. PICK g \in Gaeas : g = conns[m].gaea
    BY <2>0, ConnectionOK DEF AgentTypes
  <2>2. PICK k \in Conns : k = pcs[g].conn
    BY <2>0, <2>1, PcsOK
  <2>3. PICK w \in SlotMsgs : w = [kind |-> "OUT"] /\ w \notin JoinMsgs
    <3>1. [kind |-> "OUT"] \in SlotMsgs /\ [kind |-> "OUT"].kind # "JOIN"
      BY DEF SlotMsgs
    <3> QED  BY <3>1 DEF JoinMsgs
  <2>4. \/ toSlot' = toSlot
        \/ \E x \in Fields : toSlot' = [toSlot EXCEPT ![x][k] = Append(@, w)]
    <3>1. \/ toSlot' = toSlot
          \/ /\ conns[k].link # None
             /\ toSlot' = [toSlot EXCEPT ![conns[k].link.field][k] = Append(@, w)]
      BY <1>3, <2>1, <2>2, <2>3 DEF MsgReqGateOut
    <3> QED  BY <3>1, ConnectionOK
  <2>5. CalmTo(f, n)
    <3>1. ASSUME NEW x \in Fields, toSlot' = [toSlot EXCEPT ![x][k] = Append(@, w)]
          PROVE  CalmTo(f, n)
      <4>1. PICK q \in Seq(SlotMsgs) : q = toSlot[x][k]
        BY DEF WireTypes
      <4>2. Append(q, w) \in Seq(SlotMsgs) /\ Range(Append(q, w)) = Range(q) \cup {w}
        BY RangeAppend
      <4>3. toSlot' = [toSlot EXCEPT ![x][k] = Append(q, w)]
        BY <3>1, <4>1
      <4>4. toSlot'[f][n] = IF f = x /\ n = k THEN Append(q, w) ELSE toSlot[f][n]
        <5>1. PICK t \in [Fields -> [Conns -> Seq(SlotMsgs)]] : t = toSlot
          BY DEF WireTypes
        <5>2. PICK v \in Seq(SlotMsgs) : v = Append(q, w)
          BY <4>2
        <5>3. toSlot' = [t EXCEPT ![x][k] = v]
          BY <4>3, <5>1, <5>2
        <5>4. x \in Fields /\ k \in Conns /\ t[x] \in [Conns -> Seq(SlotMsgs)]
          BY <2>2, <3>1, <5>1
        <5>5. toSlot'[f] = IF f = x THEN [t[x] EXCEPT ![k] = v] ELSE t[f]
          BY <5>1, <5>3, <5>4
        <5>6. [t[x] EXCEPT ![k] = v][n] = IF n = k THEN v ELSE t[x][n]
          BY <5>4
        <5> QED  BY <5>1, <5>2, <5>5, <5>6
      <4>5. CASE f = x /\ n = k
        <5>1. Once(Append(q, w), JoinMsgs)
          BY <2>3, <4>1, <4>5, OnceAppend DEF Stages, OnceEach
        <5> QED  BY <2>3, <4>1, <4>2, <4>4, <4>5, <5>1 DEF CalmTo
      <4> QED  BY <4>4, <4>5, StillCalm
    <3> QED  BY <2>4, <3>1, StillCalm
  <2> QED  BY <2>0, <2>5, StillCalm, CalmKeeps DEF fieldVars
<1>4. ASSUME NEW m \in Conns, NEW h \in Fields, MsgFieldSvrOutFb(h, m) PROVE Stages(f, n)'
  <2> DEFINE l == conns[m].link
             next == IF l = None THEN None
                     ELSE IF pcs[l.gaea] = None THEN None ELSE pcs[l.gaea].next
  <2>0. UNCHANGED <<jobs, loaded, live, drops>> /\ (<<f, n>> \in outs' => <<f, n>> \in outs)
    BY <1>4 DEF MsgFieldSvrOutFb
  <2>1. CASE UNCHANGED <<slot, toSlot>>
    BY <2>0, <2>1, ElsewhereCalm
  <2>2. CASE next # None /\ Connect(m, next, l.gaea)
    <3>1. PICK g \in Gaeas : g = l.gaea /\ pcs[g] # None /\ next = pcs[g].next
      BY <2>2, ConnectionOK
    <3>2. next \in Fields
      BY <2>2, <3>1, PcsOK
    <3> HIDE DEF next, l
    <3> QED  BY <2>0, <2>2, <3>1, <3>2, LinkStages
  <2>3. CASE ConnectFails(m)
    BY <2>0, <2>3, LinkStages
  <2> QED  BY <1>4, <2>1, <2>2, <2>3 DEF MsgFieldSvrOutFb
<1>5. ASSUME NEW m \in Conns, CloseClient(m) PROVE Stages(f, n)'
  <2>1. slot' = Unlinked(m) /\ UNCHANGED <<live, drops, jobs, wires>>
    BY <1>5 DEF CloseClient
  <2>2. CalmSlot(f, n)
    BY <2>1, UnlinkedCalm DEF CalmSlot
  <2> QED  BY <2>1, <2>2, StillCalm, CalmKeeps DEF wires
<1>6. CASE AgentFrame
  BY <1>6, ElsewhereCalm DEF AgentFrame, fieldVars, wires
<1> QED  BY <1>1, <1>2, <1>3, <1>4, <1>5, <1>6 DEF AgentNext

-----------------------------------------------------------------------------
(* ... and those of the fields                                               *)

LEMMA LetGoStages ==
  ASSUME Types, NEW h \in Fields, RequestFieldSvrCharChk(h),
         NEW f \in Fields, NEW n \in Conns, Stages(f, n)
  PROVE  Stages(f, n)'
<1>0. UNCHANGED <<slot, drops, toSlot, loaded, outs>>
  BY DEF RequestFieldSvrCharChk
<1>1. live' = [live EXCEPT ![h] = [g \in Gaeas |-> IF g \in There(h) THEN None ELSE @[g]]]
  BY LetGoIs
<1>2. CalmLive(f, n)
  BY <1>1, LeaveCalm
<1>3. /\ CalmSlot(f, n) /\ CalmTo(f, n) /\ CalmLoaded(f, n) /\ CalmDrops(f, n) /\ CalmOuts(f, n)
  BY <1>0, StillCalm
<1>4. CASE jobs'[f] = jobs[f]
  BY <1>2, <1>3, <1>4, StillCalm, CalmKeeps
<1>5. CASE f = h /\ jobs' = [jobs EXCEPT ![h] = @ \o LetGoJobs(h)]
  <2>1. PICK r \in Seq(Jobs) : r = LetGoJobs(h)
    BY LetGoIs
  <2>2. jobs'[f] = jobs[f] \o r
    BY <1>5, <2>1, MoreJobs DEF Types
  <2>3. /\ Head(toField[h]).gaea \in Gaeas
        /\ There(h) \in SUBSET {g \in Gaeas : live[h][g] # None}
        /\ Range(r) = {Save(h, g) : g \in There(h)} \cup {Answer(Head(toField[h]).gaea)}
    BY <2>1, LetGoIs
  <2>4. Range(r) \cap LoadsOf(n) = {} /\ Out(n) \notin Range(r)
    <3>1. \A x \in Range(r) : x.op # "LOAD" /\ x.op # "OUT"
      BY <2>3 DEF Save, Answer
    <3>2. Out(n).op = "OUT" /\ \A x \in LoadsOf(n) : x.op = "LOAD"
      BY DEF Out, LoadsOf, LoadJobs
    <3> QED  BY <3>1, <3>2
  <2>5. Range(r) \cap SavesOf(n) # {} => Here(f, n)
    BY <1>5, <2>3 DEF SavesOf, SaveJobs, Save, Answer, Here, PlacesOf
  <2>6. Behind(r, Out(n), SavesOf(n))
    BY <2>4 DEF Behind, Range
  <2> QED  BY <1>2, <1>3, <2>2, <2>4, <2>5, <2>6, JobsAdded
<1>6. \/ jobs'[f] = jobs[f]
      \/ f = h /\ jobs' = [jobs EXCEPT ![h] = @ \o LetGoJobs(h)]
  BY LetGoIs DEF Types, FieldTypes
<1> QED  BY <1>4, <1>5, <1>6

LEMMA LoadStages ==
  ASSUME Types, NEW h \in Fields, NEW m \in Conns, MsgGameJoinChar(h, m),
         NEW f \in Fields, NEW n \in Conns, Stages(f, n)
  PROVE  Stages(f, n)'
<1> USE DEF Types
<1>0. /\ toSlot[h][m] # <<>> /\ Head(toSlot[h][m]).kind = "JOIN"
      /\ toSlot' = [toSlot EXCEPT ![h][m] = Tail(@)]
      /\ UNCHANGED <<live, saving, drops, loaded, outs>>
  BY DEF MsgGameJoinChar
<1>1. PICK c \in Chars, g \in Gaeas : c = Head(toSlot[h][m]).char /\ g = Head(toSlot[h][m]).gaea
  BY <1>0, SlotMsgOK
<1>2. /\ slot' = [slot EXCEPT ![h][m].char = c, ![h][m].gaea = g]
      /\ jobs' = [jobs EXCEPT ![h] = Append(@, Load(c, m))]
  BY <1>1 DEF MsgGameJoinChar
<1>3. CalmLive(f, n) /\ CalmDrops(f, n) /\ CalmLoaded(f, n) /\ CalmOuts(f, n)
  BY <1>0, StillCalm
<1>4. CalmSlot(f, n)
  <2>1. slot \in [Fields -> [Conns -> Slots]] /\ slot[h][m] \in Slots
    BY DEF FieldTypes
  <2>2. PICK r : r = [slot[h][m] EXCEPT !.char = c, !.gaea = g]
    OBVIOUS
  <2>3. r.st = slot[h][m].st
    BY <2>1, <2>2 DEF Slots
  <2>4. slot' = [slot EXCEPT ![h][m] = r]
    BY <1>2, <2>1, <2>2
  <2>5. slot'[f] = IF f = h THEN [slot[h] EXCEPT ![m] = r] ELSE slot[f]
    BY <2>1, <2>4
  <2>6. slot'[f][n] = IF f = h /\ n = m THEN r ELSE slot[f][n]
    BY <2>1, <2>5
  <2> QED  BY <2>3, <2>6 DEF CalmSlot
<1>5. toSlot'[f][n] = IF f = h /\ n = m THEN Tail(toSlot[h][m]) ELSE toSlot[f][n]
  BY <1>0, SlotMsgOK
<1>6. PICK j \in Jobs : j = Load(c, m) /\ j \in LoadJobs /\ j.conn = m
  <2>1. Load(c, m) \in LoadJobs
    BY <1>1, JobsOK
  <2>2. Load(c, m).conn = m
    BY DEF Load
  <2> QED  BY <2>1, <2>2 DEF Jobs
<1>7. j \notin SavesOf(n) /\ j # Out(n) /\ (j \in LoadsOf(n) <=> m = n)
  BY <1>6, JobsOK DEF SavesOf, SaveJobs, LoadJobs, LoadsOf, Out
<1>8. PICK q \in Seq(Jobs) : q = jobs[f]
  BY DEF FieldTypes
<1>9. jobs'[f] = IF f = h THEN Append(q, j) ELSE q
  BY <1>2, <1>6, <1>8, OneJob
<1>10. Append(q, j) \in Seq(Jobs) /\ Range(Append(q, j)) = Range(q) \cup {j}
  BY RangeAppend
<1>11. Behind(Append(q, j), Out(n), SavesOf(n))
  BY <1>7, <1>8, BehindAppend DEF Stages, SavedBefore
<1>12. CASE f = h /\ n = m
  <2>1. Head(toSlot[f][n]) \in JoinMsgs
    <3>1. Head(toSlot[f][n]) \in SlotMsgs
      <4>1. toSlot[f][n] \in Seq(SlotMsgs)
        BY DEF WireTypes
      <4> QED  BY <1>0, <1>12, <4>1, RangeTail
    <3> QED  BY <1>0, <1>12, <3>1 DEF JoinMsgs
  <2>2. Joining(f, n)
    <3>1. toSlot[f][n] \in Seq(SlotMsgs)
      BY DEF WireTypes
    <3>2. Head(toSlot[f][n]) \in Range(toSlot[f][n])
      BY <1>0, <1>12, <3>1, RangeTail
    <3> QED  BY <2>1, <3>2 DEF Joining
  <2>3. ~(Loading(f, n) \/ Entering(f, n) \/ Here(f, n) \/ Leaves(f, n) \/ Told(f, n))
        /\ slot[f][n].st # "none"
    BY <2>2 DEF Stages, InOrder
  <2>4. Once(toSlot'[f][n], JoinMsgs) /\ ~Joining(f, n)'
    <3>1. PICK p \in Seq(SlotMsgs) : p = toSlot[f][n]
      BY DEF WireTypes
    <3>2. Once(Tail(p), JoinMsgs) /\ Range(Tail(p)) \cap JoinMsgs = {}
      BY <1>0, <1>12, <2>1, <3>1, OnceTail DEF Stages, OnceEach
    <3> QED  BY <1>5, <1>12, <3>1, <3>2 DEF Joining
  <2>5. ~(Entering(f, n)' \/ Here(f, n)' \/ Leaves(f, n)') /\ slot'[f][n].st # "none"
    BY <1>3, <1>4, <2>3 DEF CalmLoaded, CalmLive, CalmDrops, CalmSlot, Entering, Here, Leaves
  <2>6. ~Told(f, n)'
    BY <1>0, <1>7, <1>8, <1>9, <1>10, <1>12, <2>3 DEF Told, Out
  <2>7. Once(jobs'[f], LoadsOf(n))
    <3>1. Once(q, LoadsOf(n)) /\ Range(q) \cap LoadsOf(n) = {}
      BY <1>8, <2>3 DEF Loading, Stages, OnceEach
    <3> QED  BY <1>9, <1>12, <3>1, OnceAppend
  <2>8. InOrder(f, n)'
    BY <2>4, <2>5, <2>6 DEF InOrder
  <2>9. OnceEach(f, n)'
    BY <1>3, <2>4, <2>7 DEF OnceEach, CalmLoaded
  <2>10. MarkedWhereItIs(f, n)' /\ SavedBefore(f, n)'
    BY <1>0, <1>9, <1>11, <1>12, <2>5, <2>6 DEF MarkedWhereItIs, SavedBefore, Leaves, Told, Out
  <2> QED  BY <2>8, <2>9, <2>10 DEF Stages
<1>13. CASE ~(f = h /\ n = m)
  <2>1. CalmTo(f, n)
    BY <1>5, <1>13, StillCalm
  <2>2. CalmJobs(f, n)
    <3>1. CASE f = h
      <4>1. Once(Append(q, j), LoadsOf(n))
        BY <1>7, <1>8, <1>13, <3>1, OnceAppend DEF Stages, OnceEach
      <4> QED  BY <1>7, <1>8, <1>9, <1>10, <1>11, <1>13, <3>1, <4>1 DEF CalmJobs
    <3>2. CASE f # h
      BY <1>8, <1>9, <3>2, StillCalm
    <3> QED  BY <3>1, <3>2
  <2> QED  BY <1>3, <1>4, <2>1, <2>2, CalmKeeps
<1> QED  BY <1>12, <1>13

LEMMA OutStages ==
  ASSUME Types, OnePerField, NEW h \in Fields, NEW m \in Conns, RequestFieldSvrOut(h, m),
         NEW f \in Fields, NEW n \in Conns, Stages(f, n)
  PROVE  Stages(f, n)'
<1> USE DEF Types
<1>0. /\ toSlot[h][m] # <<>> /\ toSlot' = [toSlot EXCEPT ![h][m] = Tail(@)]
      /\ UNCHANGED <<live, jobs, loaded, outs>>
  BY DEF RequestFieldSvrOut
<1>1. CalmTo(f, n)
  <2>1. toSlot'[f][n] = IF f = h /\ n = m THEN Tail(toSlot[h][m]) ELSE toSlot[f][n]
    BY <1>0, SlotMsgOK
  <2> QED  BY <1>0, <2>1, ToTail, StillCalm
<1>2. CalmLive(f, n) /\ CalmJobs(f, n) /\ CalmLoaded(f, n) /\ CalmOuts(f, n)
  BY <1>0, StillCalm
<1>3. CASE UNCHANGED <<slot, drops>>
  BY <1>1, <1>2, <1>3, StillCalm, CalmKeeps
<1>4. ASSUME NEW g \in PlacesOf(h, m), ReserveDropOutPC(h, g, m),
             slot' = [slot EXCEPT ![h][m].gaea = None]
      PROVE  Stages(f, n)'
  <2>0. g \in Gaeas /\ live[h][g] # None /\ live[h][g].conn = m
    BY <1>4 DEF PlacesOf
  <2>1. CalmSlot(f, n)
    <3>1. slot \in [Fields -> [Conns -> Slots]] /\ slot[h][m] \in Slots
      BY DEF FieldTypes
    <3>2. PICK r : r = [slot[h][m] EXCEPT !.gaea = None]
      OBVIOUS
    <3>3. r.st = slot[h][m].st
      BY <3>1, <3>2 DEF Slots
    <3>4. slot' = [slot EXCEPT ![h][m] = r]
      BY <1>4, <3>1, <3>2
    <3>5. slot'[f] = IF f = h THEN [slot[h] EXCEPT ![m] = r] ELSE slot[f]
      BY <3>1, <3>4
    <3>6. slot'[f][n] = IF f = h /\ n = m THEN r ELSE slot[f][n]
      BY <3>1, <3>5
    <3> QED  BY <3>3, <3>6 DEF CalmSlot
  <2>2. CASE ~(f = h /\ n = m)
    <3>1. CalmDrops(f, n)
      BY <1>4, <2>0, <2>2, ReserveCalm
    <3> QED  BY <1>1, <1>2, <2>1, <3>1, CalmKeeps
  <2>3. CASE f = h /\ n = m
    <3>1. PICK c \in Chars : c = live[f][g].char
      BY <2>0, <2>3, SaveOK
    <3>2. PICK d \in Drops : d = [gaea |-> g, char |-> c, out |-> n]
      BY <2>0 DEF Drops
    <3>3. drops' = [drops EXCEPT ![f] = Append(@, d)]
      <4>1. g # None
        BY <2>0, NoneAssumption
      <4> QED  BY <1>4, <2>0, <2>3, <3>1, <3>2, <4>1 DEF ReserveDropOutPC
    <3>4. Range(drops'[f]) = Range(drops[f]) \cup {d}
      BY <3>3, RangeAppend DEF FieldTypes
    <3>5. PlacesOf(f, n) = {g}
      BY <2>0, <2>3 DEF PlacesOf, OnePerField
    <3>6. Here(f, n)
      BY <3>5 DEF Here
    <3>7. ~(Joining(f, n) \/ Loading(f, n) \/ Entering(f, n) \/ Told(f, n)) /\ slot[f][n].st # "none"
      BY <3>6 DEF Stages, InOrder
    <3>8. ~(Joining(f, n)' \/ Loading(f, n)' \/ Entering(f, n)' \/ Told(f, n)') /\ slot'[f][n].st # "none"
      BY <1>1, <1>2, <2>1, <3>7 DEF CalmTo, CalmJobs, CalmLoaded, CalmOuts, CalmSlot, Joining, Loading,
        Entering, Told, Out
    <3>9. InOrder(f, n)'
      BY <3>8 DEF InOrder
    <3>10. PlacesOf(f, n)' = {g} /\ d.gaea = g
      BY <1>0, <3>2, <3>5 DEF PlacesOf
    <3>11. MarkedWhereItIs(f, n)'
      BY <3>4, <3>5, <3>10 DEF MarkedWhereItIs, Stages
    <3>12. OnceEach(f, n)'
      BY <1>1, <1>2 DEF OnceEach, CalmTo, CalmJobs, CalmLoaded
    <3>13. SavedBefore(f, n)'
      BY <1>0 DEF SavedBefore, Stages, Out
    <3> QED  BY <3>9, <3>11, <3>12, <3>13 DEF Stages
  <2> QED  BY <2>2, <2>3
<1> QED  BY <1>3, <1>4 DEF RequestFieldSvrOut

LEMMA EnterStages ==
  ASSUME Types, NEW h \in Fields, MsgFieldReqJoin(h),
         NEW f \in Fields, NEW n \in Conns, Stages(f, n)
  PROVE  Stages(f, n)'
<1> USE DEF Types
<1>0. /\ loaded[h] # <<>> /\ loaded' = [loaded EXCEPT ![h] = Tail(@)]
      /\ UNCHANGED <<slot, jobs, toSlot, outs>>
  BY DEF MsgFieldReqJoin
<1>1. loaded'[f] = IF f = h THEN Tail(loaded[h]) ELSE loaded[f]
  BY <1>0 DEF WireTypes
<1>2. CalmLoaded(f, n)
  BY <1>0, <1>1, LoadedTail, StillCalm
<1>3. CalmSlot(f, n) /\ CalmTo(f, n) /\ CalmJobs(f, n) /\ CalmOuts(f, n)
  BY <1>0, StillCalm
<1>4. PICK m \in Results : m = Head(loaded[h]) /\ m.conn \in Conns /\ m \in Range(loaded[h])
  <2>1. Head(loaded[h]) \in Results /\ Head(loaded[h]) \in Range(loaded[h])
    BY <1>0, RangeTail DEF WireTypes
  <2> QED  BY <2>1 DEF Results
<1>5. PICK k \in Gaeas \cup {None} : k = slot[h][m.conn].gaea
  BY <1>4, SlotTypes DEF Slots
<1>6. PICK r \in PlayedAt : /\ r = [char |-> m.char, conn |-> m.conn, ver |-> m.ver]
                            /\ r.conn = m.conn
  BY DEF Results, PlayedAt
<1>7. CASE UNCHANGED live
  <2>1. drops' = drops \/ \E g \in Gaeas : ReserveDropOutPC(h, g, None)
    BY <1>0, <1>4, <1>5, <1>6 DEF MsgFieldReqJoin, PlacesOf
  <2>2. None # n
    BY NoneAssumption
  <2>3. CalmDrops(f, n) /\ CalmLive(f, n)
    BY <1>7, <2>1, <2>2, ReserveCalm, StillCalm
  <2> QED  BY <1>2, <1>3, <2>3, CalmKeeps
<1>8. CASE k \in Gaeas /\ live[h][k] = None /\ live' = [live EXCEPT ![h][k] = r] /\ drops' = drops
  <2>1. \A g \in Gaeas : live'[f][g] = IF f = h /\ g = k THEN r ELSE live[f][g]
    <3>1. live[h] \in [Gaeas -> PlayedAt \cup {None}]
      BY DEF FieldTypes
    <3>2. live'[f] = IF f = h THEN [live[h] EXCEPT ![k] = r] ELSE live[f]
      BY <1>8 DEF FieldTypes
    <3> QED  BY <1>8, <3>1, <3>2
  <2>2. CalmDrops(f, n)
    BY <1>8, StillCalm
  <2>3. CASE ~(f = h /\ n = m.conn)
    <3>1. CalmLive(f, n)
      BY <1>6, <2>1, <2>3 DEF CalmLive, PlacesOf
    <3> QED  BY <1>2, <1>3, <2>2, <3>1, CalmKeeps
  <2>4. CASE f = h /\ n = m.conn
    <3>1. m \in ResultsOf(n)
      BY <2>4 DEF ResultsOf
    <3>2. Entering(f, n)
      BY <1>4, <2>4, <3>1 DEF Entering
    <3>3. ~(Joining(f, n) \/ Loading(f, n) \/ Leaves(f, n) \/ Told(f, n)) /\ slot[f][n].st # "none"
      BY <3>2 DEF Stages, InOrder
    <3>4. ~Entering(f, n)'
      <4>1. Range(Tail(loaded[f])) \cap ResultsOf(n) = {}
        BY <1>0, <1>4, <2>4, <3>1, OnceTail DEF Stages, OnceEach, WireTypes
      <4> QED  BY <1>1, <2>4, <4>1 DEF Entering
    <3>5. ~(Joining(f, n)' \/ Loading(f, n)' \/ Leaves(f, n)' \/ Told(f, n)') /\ slot'[f][n].st # "none"
      BY <1>3, <2>2, <3>3 DEF CalmTo, CalmJobs, CalmDrops, CalmOuts, CalmSlot, Joining, Loading,
        Leaves, Told, Out
    <3>6. InOrder(f, n)'
      BY <3>4, <3>5 DEF InOrder
    <3>7. OnceEach(f, n)'
      BY <1>2, <1>3 DEF OnceEach, CalmTo, CalmJobs, CalmLoaded
    <3>8. MarkedWhereItIs(f, n)'
      BY <3>5 DEF MarkedWhereItIs, Leaves
    <3>9. SavedBefore(f, n)'
      BY <1>0 DEF SavedBefore, Stages, Out
    <3> QED  BY <3>6, <3>7, <3>8, <3>9 DEF Stages
  <2> QED  BY <2>3, <2>4
<1> QED  BY <1>4, <1>5, <1>6, <1>7, <1>8 DEF MsgFieldReqJoin, MayCreate

LEMMA ServeStages ==
  ASSUME Types, OnePerField, NEW h \in Fields, FieldServes(h),
         NEW f \in Fields, NEW n \in Conns, Stages(f, n)
  PROVE  Stages(f, n)'
<1>1. CASE ServerCtrlCharDropOutForced(h)
  <2>1. UNCHANGED <<live, slot, jobs, toSlot, loaded, outs>>
    BY <1>1 DEF ServerCtrlCharDropOutForced
  <2>2. drops' = drops \/ \E g \in Gaeas : ReserveDropOutPC(h, g, None)
    BY <1>1 DEF ServerCtrlCharDropOutForced, Places
  <2>3. None # n
    BY NoneAssumption
  <2>4. CalmDrops(f, n)
    BY <2>2, <2>3, ReserveCalm, StillCalm
  <2> QED  BY <2>1, <2>4, StillCalm, CalmKeeps
<1> QED  BY <1>1, LetGoStages, LoadStages, OutStages, EnterStages DEF FieldServes

LEMMA CloseStages ==
  ASSUME Types, NEW h \in Fields, NEW m \in Conns, FieldCloseClient(h, m),
         NEW f \in Fields, NEW n \in Conns, Stages(f, n)
  PROVE  Stages(f, n)'
<1>0. /\ ReserveDropOutPC(h, slot[h][m].gaea, None)
      /\ slot' = [slot EXCEPT ![h][m] = [st |-> "closed", char |-> None, gaea |-> None]]
      /\ UNCHANGED <<live, jobs, toSlot, loaded, outs>>
  BY DEF FieldCloseClient, wires
<1>1. slot[h][m].gaea \in Gaeas \cup {None}
  BY SlotTypes DEF Types, Slots
<1>2. None # n
  BY NoneAssumption
<1>3. CalmDrops(f, n)
  BY <1>0, <1>1, <1>2, ReserveCalm
<1>4. CalmSlot(f, n)
  <2>0. PICK r : r = [st |-> "closed", char |-> None, gaea |-> None]
    OBVIOUS
  <2>1. r = [st |-> "closed", char |-> None, gaea |-> None] /\ r.st = "closed"
    BY <2>0
  <2>2. slot \in [Fields -> [Conns -> Slots]]
    BY DEF Types, FieldTypes
  <2>3. slot'[f] = IF f = h THEN [slot[h] EXCEPT ![m] = r] ELSE slot[f]
    BY <1>0, <2>1, <2>2
  <2>4. slot'[f][n] = IF f = h /\ n = m THEN r ELSE slot[f][n]
    BY <2>2, <2>3
  <2> QED  BY <2>1, <2>4 DEF CalmSlot
<1> QED  BY <1>0, <1>3, <1>4, StillCalm, CalmKeeps

LEMMA PlayStages ==
  ASSUME Types, NEW h \in Fields, NEW k \in Gaeas, Play(h, k),
         NEW f \in Fields, NEW n \in Conns, Stages(f, n)
  PROVE  Stages(f, n)'
<1>0. live[h][k] # None /\ UNCHANGED <<slot, drops, jobs, wires>>
  BY DEF Play
<1>1. PICK v : live' = [live EXCEPT ![h][k].ver = v]
  BY DEF Play
<1>2. CalmLive(f, n)
  <2>1. PICK r : r = [live[h][k] EXCEPT !.ver = v]
    OBVIOUS
  <2>2. r.conn = live[h][k].conn
    BY <1>0, <2>1, SaveOK DEF PlayedAt, Types
  <2>3. live[h] \in [Gaeas -> PlayedAt \cup {None}] /\ live \in [Fields -> [Gaeas -> PlayedAt \cup {None}]]
    BY DEF Types, FieldTypes
  <2>4. live'[f] = IF f = h THEN [live[h] EXCEPT ![k] = r] ELSE live[f]
    BY <1>1, <2>1, <2>3
  <2>5. \A g \in Gaeas : live'[f][g] = IF f = h /\ g = k THEN r ELSE live[f][g]
    BY <2>3, <2>4
  <2> QED  BY <1>0, <2>2, <2>5 DEF CalmLive, PlacesOf
<1> QED  BY <1>0, <1>2, StillCalm, CalmKeeps DEF wires

LEMMA PeriodicStages ==
  ASSUME Types, NEW h \in Fields, NEW g \in Gaeas, SaveCharDB(h, g),
         NEW f \in Fields, NEW n \in Conns, Stages(f, n)
  PROVE  Stages(f, n)'
<1>0. /\ live[h][g] # None /\ UNCHANGED <<live, slot, drops, wires>>
      /\ jobs' = [jobs EXCEPT ![h] = Append(@, Save(h, g))]
  BY DEF SaveCharDB
<1>1. /\ CalmSlot(f, n) /\ CalmTo(f, n) /\ CalmLoaded(f, n) /\ CalmDrops(f, n) /\ CalmOuts(f, n)
      /\ CalmLive(f, n)
  BY <1>0, StillCalm DEF wires
<1>2. PICK j \in Jobs : j = Save(h, g)
  BY <1>0, SaveOK DEF Types
<1>3. jobs'[f] = IF f = h THEN Append(jobs[h], j) ELSE jobs[f]
  BY <1>0, <1>2, OneJob DEF Types
<1>4. CASE f = h
  <2>1. PICK r \in Seq(Jobs) : r = <<j>> /\ Range(r) = {j}
    BY One
  <2>2. jobs'[f] = jobs[f] \o r
    BY <1>3, <1>4, <2>1, AppendIsConcat DEF Types, FieldTypes
  <2>3. j.op = "SAVE" /\ j.conn = live[h][g].conn
    BY <1>2 DEF Save
  <2>4. Range(r) \cap LoadsOf(n) = {} /\ Out(n) \notin Range(r)
    BY <2>1, <2>3 DEF LoadsOf, LoadJobs, Out
  <2>5. Range(r) \cap SavesOf(n) # {} => Here(f, n)
    BY <1>0, <1>4, <2>1, <2>3 DEF SavesOf, Here, PlacesOf
  <2>6. Behind(r, Out(n), SavesOf(n))
    BY <2>4 DEF Behind, Range
  <2> QED  BY <1>1, <2>2, <2>4, <2>5, <2>6, JobsAdded
<1>5. CASE f # h
  BY <1>1, <1>3, <1>5, StillCalm, CalmKeeps
<1> QED  BY <1>4, <1>5
\* The jobs of a frame: each is the save of somebody who leaves, or says so.
LEMMA FrameJob ==
  ASSUME Types, NEW f \in Fields, NEW i \in 1 .. Len(drops[f]), NEW x \in Range(FrameParts(f)[i])
  PROVE  /\ i \in Leaving(f) /\ drops[f][i] \in Drops /\ drops[f][i] \in Range(drops[f])
         /\ drops[f][i].gaea \in Gaeas /\ live[f][drops[f][i].gaea] # None
         /\ \/ x \in SaveJobs /\ x.conn = live[f][drops[f][i].gaea].conn
            \/ drops[f][i].out \in Conns /\ x = Out(drops[f][i].out)
<1>1. /\ drops[f][i] \in Drops /\ DOMAIN drops[f] = 1 .. Len(drops[f])
      /\ FrameParts(f)[i] = IF i \in Leaving(f) THEN DropJobs(f, drops[f][i]) ELSE <<>>
  BY FramePartsIs DEF Types
<1>2. i \in Leaving(f) /\ FrameParts(f)[i] = DropJobs(f, drops[f][i])
  BY <1>1, RangeEmpty
<1>3. live[f][drops[f][i].gaea] # None
  BY <1>2 DEF Leaving
<1>4. /\ drops[f][i].gaea \in Gaeas /\ Save(f, drops[f][i].gaea) \in SaveJobs
      /\ \/ x = Save(f, drops[f][i].gaea)
         \/ drops[f][i].out \in Conns /\ x = Out(drops[f][i].out)
  BY <1>1, <1>2, <1>3, DropJobsIs DEF Types
<1>5. Save(f, drops[f][i].gaea).conn = live[f][drops[f][i].gaea].conn
  BY DEF Save
<1>6. drops[f][i] \in Range(drops[f])
  BY <1>1 DEF Range
<1> QED  BY <1>1, <1>2, <1>3, <1>4, <1>5, <1>6

LEMMA FrameOrder ==
  ASSUME Types, NEW f \in Fields, NEW n \in Conns, Stages(f, n)
  PROVE  Behind(FlattenSeq(FrameParts(f)), Out(n), SavesOf(n))
<1> DEFINE k == Len(drops[f])
           P == FrameParts(f)
           d(i) == drops[f][i]
           T == [m \in 0 .. k |-> {q \in Seq(Jobs) :
                  /\ Behind(q, Out(n), SavesOf(n))
                  /\ Out(n) \in Range(q) => \E i \in Leaving(f) : i <= m /\ d(i).out = n}]
<1>1. /\ P \in Seq(Seq(Jobs)) /\ Len(P) = k /\ k \in Nat /\ DOMAIN drops[f] = 1 .. k
      /\ \A i \in 1 .. k : /\ d(i) \in Drops /\ P[i] \in Seq(Jobs)
                           /\ P[i] = IF i \in Leaving(f) THEN DropJobs(f, d(i)) ELSE <<>>
  BY FramePartsIs DEF Types
<1>2. <<>> \in T[0]
  <2>1. <<>> \in Seq(Jobs) /\ 0 \in 0 .. k /\ Behind(<<>>, Out(n), SavesOf(n))
    BY <1>1 DEF Behind
  <2> QED  BY <2>1, RangeEmpty
<1>3. ASSUME NEW i \in 1 .. k, NEW q \in Seq(Jobs), q \in T[i - 1] PROVE q \o P[i] \in T[i]
  <2>1. i - 1 \in 0 .. k /\ i \in 0 .. k
    BY <1>1
  <2>2. /\ Behind(q, Out(n), SavesOf(n))
        /\ Out(n) \in Range(q) => \E x \in Leaving(f) : x <= i - 1 /\ d(x).out = n
    BY <1>3, <2>1
  <2>3. P[i] \in Seq(Jobs) /\ q \o P[i] \in Seq(Jobs) /\ Range(q \o P[i]) = Range(q) \cup Range(P[i])
    BY <1>1, RangeConcat
  <2>4. \A x \in Leaving(f) : x \in 1 .. k
    BY <1>1 DEF Leaving
  <2>5. Out(n) \in Range(P[i]) => i \in Leaving(f) /\ d(i).out = n
    <3> SUFFICES ASSUME Out(n) \in Range(P[i]) PROVE i \in Leaving(f) /\ d(i).out = n
      OBVIOUS
    <3>1. /\ i \in Leaving(f)
          /\ Out(n) \in SaveJobs \/ Out(n) = Out(d(i).out)
      BY FrameJob
    <3>2. Out(n).op = "OUT" /\ \A j \in SaveJobs : j.op = "SAVE"
      BY DEF Out, SaveJobs
    <3>3. Out(n).conn = n /\ Out(d(i).out).conn = d(i).out
      BY DEF Out
    <3> QED  BY <3>1, <3>2, <3>3
  <2>6. Out(n) \in Range(q \o P[i]) => \E x \in Leaving(f) : x <= i /\ d(x).out = n
    <3>1. \A x \in Leaving(f) : x <= i - 1 => x <= i
      BY <2>4
    <3>2. i <= i
      OBVIOUS
    <3> HIDE DEF d
    <3> QED  BY <2>2, <2>3, <2>5, <3>1, <3>2
  <2>7. Out(n) \notin Range(q) \/ Range(P[i]) \cap SavesOf(n) = {}
    <3> SUFFICES ASSUME Out(n) \in Range(q), NEW j \in Range(P[i]), j \in SavesOf(n) PROVE FALSE
      OBVIOUS
    <3>1. PICK x \in Leaving(f) : x <= i - 1 /\ d(x).out = n
      BY <2>2
    <3>2. /\ i \in Leaving(f) /\ d(i).gaea \in Gaeas /\ live[f][d(i).gaea] # None
          /\ \/ j.conn = live[f][d(i).gaea].conn
             \/ j = Out(d(i).out)
      BY FrameJob
    <3>3. j.conn = n /\ j # Out(d(i).out)
      BY DEF SavesOf, SaveJobs, Out
    <3>4. d(i).gaea \in PlacesOf(f, n)
      BY <3>2, <3>3 DEF PlacesOf
    <3>5. x \in 1 .. k /\ d(x) \in Range(drops[f])
      BY <1>1, <2>4, <3>1 DEF Range
    <3>6. d(i).gaea = d(x).gaea
      BY <3>1, <3>4, <3>5 DEF Stages, MarkedWhereItIs
    <3>7. x \in 1 .. (i - 1)
      BY <3>1, <3>5
    <3> QED  BY <3>2, <3>6, <3>7 DEF Leaving
  <2>8. Behind(P[i], Out(n), SavesOf(n))
    <3>1. CASE i \in Leaving(f)
      <4>1. SavesOf(n) \in SUBSET SaveJobs /\ Out(n) \notin SaveJobs
        BY DEF SavesOf, SaveJobs, Out
      <4>2. live[f][d(i).gaea] # None
        BY <3>1 DEF Leaving
      <4>3. PICK e \in Drops : e = d(i)
        BY <1>1
      <4>4. Behind(DropJobs(f, e), Out(n), SavesOf(n))
        <5>1. FieldTypes /\ live[f][e.gaea] # None
          BY <4>2, <4>3 DEF Types
        <5> HIDE DEF d, P, T
        <5> QED  BY <4>1, <4>3, <5>1, DropJobsIs
      <4> QED  BY <1>1, <3>1, <4>3, <4>4
    <3>2. CASE i \notin Leaving(f)
      BY <1>1, <3>2 DEF Behind
    <3> QED  BY <3>1, <3>2
  <2>9. Behind(q \o P[i], Out(n), SavesOf(n))
    BY <2>2, <2>3, <2>7, <2>8, BehindConcat
  <2> QED  BY <2>1, <2>3, <2>6, <2>9
<1> HIDE DEF T
<1>4. FlattenSeq(P) \in Seq(Jobs) /\ FlattenSeq(P) \in T[k]
  BY <1>1, <1>2, <1>3, FlattenIn
<1>5. k \in 0 .. k
  BY <1>1
<1> QED  BY <1>4, <1>5 DEF T

LEMMA FrameStages ==
  ASSUME Types, NEW h \in Fields, FrameMove(h),
         NEW f \in Fields, NEW n \in Conns, Stages(f, n)
  PROVE  Stages(f, n)'
<1> DEFINE S == {g \in Gaeas : \E i \in DOMAIN drops[h] : drops[h][i].gaea = g}
           r == FlattenSeq(FrameParts(h))
           k == Len(drops[h])
<1>0. UNCHANGED <<slot, wires>> /\ drops' = [drops EXCEPT ![h] = <<>>]
  BY FrameIs
<1>1. CalmLive(f, n) /\ (f = h => PlacesOf(f, n)' = PlacesOf(f, n) \ S)
  <2>1. live' = [live EXCEPT ![h] = [g \in Gaeas |-> IF g \in S THEN None ELSE @[g]]]
    BY FrameIs
  <2> HIDE DEF S
  <2> QED  BY <2>1, LeaveCalm
<1>2. CalmDrops(f, n)
  <2>1. drops'[f] = IF f = h THEN <<>> ELSE drops[f]
    BY <1>0 DEF Types, FieldTypes
  <2> QED  BY <2>1, RangeEmpty DEF CalmDrops
<1>3. CalmSlot(f, n) /\ CalmTo(f, n) /\ CalmLoaded(f, n) /\ CalmOuts(f, n)
  BY <1>0, StillCalm DEF wires
<1>4. r \in Seq(Jobs) /\ Range(r) = UNION {Range(FrameParts(h)[i]) : i \in 1 .. k}
  <2>1. FrameParts(h) \in Seq(Seq(Jobs)) /\ DOMAIN FrameParts(h) = 1 .. k
    BY FramePartsIs, LenProperties DEF Types
  <2> QED  BY <2>1, FlattenRange
<1>5. jobs'[f] = IF f = h THEN jobs[h] \o r ELSE jobs[f]
  <2>1. jobs' = [jobs EXCEPT ![h] = @ \o r]
    BY FrameIs
  <2> HIDE DEF r
  <2> QED  BY <1>4, <2>1, MoreJobs DEF Types
<1>6. CASE f # h
  BY <1>1, <1>2, <1>3, <1>5, <1>6, StillCalm, CalmKeeps
<1>7. CASE f = h
  <2>1. \A x \in Range(r) : \E i \in 1 .. k :
          /\ drops[f][i] \in Drops /\ drops[f][i] \in Range(drops[f]) /\ i \in DOMAIN drops[f]
          /\ drops[f][i].gaea \in Gaeas /\ live[f][drops[f][i].gaea] # None
          /\ \/ x \in SaveJobs /\ x.conn = live[f][drops[f][i].gaea].conn
             \/ drops[f][i].out \in Conns /\ x = Out(drops[f][i].out)
    <3> SUFFICES ASSUME NEW x \in Range(r)
                 PROVE \E i \in 1 .. k :
          /\ drops[f][i] \in Drops /\ drops[f][i] \in Range(drops[f]) /\ i \in DOMAIN drops[f]
          /\ drops[f][i].gaea \in Gaeas /\ live[f][drops[f][i].gaea] # None
          /\ \/ x \in SaveJobs /\ x.conn = live[f][drops[f][i].gaea].conn
             \/ drops[f][i].out \in Conns /\ x = Out(drops[f][i].out)
      OBVIOUS
    <3>1. PICK i \in 1 .. k : x \in Range(FrameParts(h)[i])
      BY <1>4
    <3>2. DOMAIN drops[f] = 1 .. k
      BY <1>7, FramePartsIs DEF Types
    <3> QED  BY <1>7, <3>1, <3>2, FrameJob
  <2> HIDE DEF r
  <2>2. \A x \in SaveJobs : x.op = "SAVE"
    BY DEF SaveJobs
  <2>3. \A m \in Conns : Out(m).op = "OUT" /\ Out(m).conn = m
    BY DEF Out
  <2>4. Range(r) \cap LoadsOf(n) = {}
    <3>1. \A x \in LoadsOf(n) : x.op = "LOAD"
      BY DEF LoadsOf, LoadJobs
    <3>2. \A x \in Range(r) : x.op # "LOAD"
      BY <2>1, <2>2, <2>3
    <3> QED  BY <3>1, <3>2
  <2>5. Range(r) \cap SavesOf(n) # {} => Here(f, n)
    <3> SUFFICES ASSUME NEW x \in Range(r), x \in SavesOf(n) PROVE Here(f, n)
      OBVIOUS
    <3>1. x \in SaveJobs /\ x.conn = n
      BY DEF SavesOf
    <3>2. \E g \in Gaeas : live[f][g] # None /\ live[f][g].conn = n
      BY <2>1, <2>2, <2>3, <3>1
    <3> QED  BY <3>2 DEF Here, PlacesOf
  <2>6. Out(n) \in Range(r) => Leaves(f, n) /\ ~Here(f, n)'
    <3> SUFFICES ASSUME Out(n) \in Range(r) PROVE Leaves(f, n) /\ ~Here(f, n)'
      OBVIOUS
    <3>1. PICK i \in DOMAIN drops[f] : /\ drops[f][i] \in Range(drops[f]) /\ drops[f][i].gaea \in Gaeas
                                       /\ drops[f][i].out = n
      BY <2>1, <2>2, <2>3
    <3>2. PlacesOf(f, n) \subseteq {drops[f][i].gaea}
      BY <3>1 DEF Stages, MarkedWhereItIs
    <3>3. drops[f][i].gaea \in S
      BY <1>7, <3>1
    <3> HIDE DEF S
    <3>4. PlacesOf(f, n)' = {}
      BY <1>1, <1>7, <3>2, <3>3
    <3> QED  BY <3>1, <3>4 DEF Leaves, Here
  <2>7. Behind(r, Out(n), SavesOf(n))
    BY <1>7, FrameOrder DEF r
  <2> QED  BY <1>1, <1>2, <1>3, <1>4, <1>5, <1>7, <2>4, <2>5, <2>6, <2>7, JobsAdded
<1> QED  BY <1>6, <1>7

LEMMA DbStages ==
  ASSUME Types, NEW h \in Fields, DbNext(h),
         NEW f \in Fields, NEW n \in Conns, Stages(f, n)
  PROVE  Stages(f, n)'
<1> USE DEF Types
<1>0. jobs[h] # <<>> /\ Done(h) /\ UNCHANGED <<live, slot, drops, toSlot>>
  BY DEF DbNext, ExecuteSave, ExecuteLoad, ExecuteToAgent, Job, wires
<1>1. PICK j \in Jobs : j = Head(jobs[h]) /\ j \in Range(jobs[h])
  BY <1>0, RangeTail DEF FieldTypes
<1>2. jobs'[f] = IF f = h THEN Tail(jobs[h]) ELSE jobs[f]
  BY <1>0, JobTypes
<1>3. CalmJobs(f, n)
  BY <1>0, <1>2, JobTail, StillCalm
<1>4. CalmLive(f, n) /\ CalmSlot(f, n) /\ CalmDrops(f, n) /\ CalmTo(f, n)
  BY <1>0, StillCalm
<1>5. CASE ExecuteSave(h)
  <2>1. UNCHANGED <<loaded, outs>>
    BY <1>5 DEF ExecuteSave, wires
  <2> QED  BY <1>3, <1>4, <2>1, StillCalm, CalmKeeps
<1>6. CASE ExecuteLoad(h)
  <2>0. j \in LoadJobs /\ j.char \in Chars /\ j.conn \in Conns /\ UNCHANGED outs
    <3>1. j.op = "LOAD" /\ UNCHANGED outs
      BY <1>1, <1>6 DEF ExecuteLoad, Job
    <3> QED  BY <3>1, JobsOK
  <2>1. PICK r \in Results : r = [char |-> j.char, ver |-> db[j.char], conn |-> j.conn]
    BY <2>0 DEF Results, DbTypes
  <2>2. loaded' = [loaded EXCEPT ![h] = Append(@, r)] \/ UNCHANGED loaded
    BY <1>1, <1>6, <2>1 DEF ExecuteLoad
  <2>3. PICK q \in Seq(Results) : q = loaded[f]
    BY DEF WireTypes
  <2>4. \/ loaded'[f] = q
        \/ f = h /\ loaded'[f] = Append(q, r)
    BY <2>2, <2>3 DEF WireTypes
  <2>5. Append(q, r) \in Seq(Results) /\ Range(Append(q, r)) = Range(q) \cup {r}
    BY RangeAppend
  <2>6. r.conn = j.conn
    BY <2>1
  <2>7. CASE loaded'[f] = q
    BY <1>3, <1>4, <2>0, <2>3, <2>7, StillCalm, CalmKeeps
  <2>8. CASE f = h /\ loaded'[f] = Append(q, r) /\ j.conn # n
    <3>1. r \notin ResultsOf(n)
      BY <2>6, <2>8 DEF ResultsOf
    <3>2. Once(Append(q, r), ResultsOf(n))
      BY <2>3, <3>1, OnceAppend DEF Stages, OnceEach
    <3>3. CalmLoaded(f, n)
      BY <2>3, <2>5, <2>8, <3>1, <3>2 DEF CalmLoaded
    <3> QED  BY <1>3, <1>4, <2>0, <3>3, StillCalm, CalmKeeps
  <2>9. CASE f = h /\ loaded'[f] = Append(q, r) /\ j.conn = n
    <3>1. j \in LoadsOf(n)
      BY <2>0, <2>9 DEF LoadsOf
    <3>2. Loading(f, n)
      BY <1>1, <2>9, <3>1 DEF Loading
    <3>3. ~(Joining(f, n) \/ Entering(f, n) \/ Here(f, n) \/ Leaves(f, n) \/ Told(f, n))
          /\ slot[f][n].st # "none"
      BY <3>2 DEF Stages, InOrder
    <3>4. ~Loading(f, n)'
      <4>1. Range(Tail(jobs[f])) \cap LoadsOf(n) = {}
        BY <1>0, <1>1, <2>9, <3>1, OnceTail DEF Stages, OnceEach, FieldTypes
      <4> QED  BY <1>2, <2>9, <4>1 DEF Loading
    <3>5. ~(Joining(f, n)' \/ Here(f, n)' \/ Leaves(f, n)') /\ slot'[f][n].st # "none"
      BY <1>4, <3>3 DEF CalmTo, CalmLive, CalmDrops, CalmSlot, Joining, Here, Leaves
    <3>6. ~Told(f, n)'
      BY <1>3, <2>0, <3>3 DEF CalmJobs, Told, Out
    <3>7. InOrder(f, n)'
      BY <3>4, <3>5, <3>6 DEF InOrder
    <3>8. Once(loaded'[f], ResultsOf(n))
      <4>1. Once(q, ResultsOf(n)) /\ Range(q) \cap ResultsOf(n) = {}
        BY <2>3, <3>3 DEF Entering, Stages, OnceEach
      <4> QED  BY <2>9, <4>1, OnceAppend
    <3>9. OnceEach(f, n)'
      BY <1>3, <1>4, <3>8 DEF OnceEach, CalmTo, CalmJobs
    <3>10. MarkedWhereItIs(f, n)'
      BY <3>5 DEF MarkedWhereItIs, Leaves
    <3>11. SavedBefore(f, n)'
      BY <1>3, <3>6 DEF SavedBefore, CalmJobs, Told, Out
    <3> QED  BY <3>7, <3>9, <3>10, <3>11 DEF Stages
  <2> QED  BY <2>4, <2>7, <2>8, <2>9
<1>7. CASE ExecuteToAgent(h)
  <2>0. UNCHANGED loaded
    BY <1>7 DEF ExecuteToAgent
  <2>1. CalmLoaded(f, n)
    BY <2>0, StillCalm
  <2>2. \/ <<f, n>> \in outs' => <<f, n>> \in outs
        \/ f = h /\ j.op = "OUT" /\ j.conn = n
    <3>1. \/ outs' = outs
          \/ j.op = "OUT" /\ (outs' = outs \cup {<<h, j.conn>>} \/ outs' = outs)
      BY <1>1, <1>7 DEF ExecuteToAgent, Job
    <3> QED  BY <3>1
  <2>3. CASE <<f, n>> \in outs' => <<f, n>> \in outs
    BY <1>3, <1>4, <2>1, <2>3, CalmKeeps DEF CalmOuts
  <2>4. CASE f = h /\ j.op = "OUT" /\ j.conn = n
    <3>1. j = Out(n)
      BY <2>4, JobsOK
    <3>2. Told(f, n)
      BY <1>1, <2>4, <3>1 DEF Told
    <3>3. Range(Tail(jobs[f])) \cap SavesOf(n) = {}
      BY <1>0, <1>1, <2>4, <3>1, BehindTail DEF Stages, SavedBefore, FieldTypes
    <3>4. SavedBefore(f, n)'
      BY <1>2, <1>3, <2>4, <3>3 DEF SavedBefore, CalmJobs, Out
    <3>5. ~Joining(f, n) /\ ~Loading(f, n) /\ ~Entering(f, n) /\ ~Here(f, n) /\ slot[f][n].st # "none"
      BY <3>2 DEF Stages, InOrder
    <3>6. ~Joining(f, n)' /\ ~Loading(f, n)' /\ ~Entering(f, n)' /\ ~Here(f, n)' /\ slot'[f][n].st # "none"
      BY <1>3, <1>4, <2>1, <3>5 DEF CalmTo, CalmJobs, CalmLoaded, CalmLive, CalmSlot, Joining, Loading,
        Entering, Here
    <3>7. InOrder(f, n)'
      BY <3>6 DEF InOrder
    <3>8. OnceEach(f, n)'
      BY <1>3, <1>4, <2>1 DEF OnceEach, CalmTo, CalmJobs, CalmLoaded
    <3>9. MarkedWhereItIs(f, n)'
      BY <1>4 DEF Stages, MarkedWhereItIs, CalmLive, CalmDrops
    <3> QED  BY <3>4, <3>7, <3>8, <3>9 DEF Stages
  <2> QED  BY <2>2, <2>3, <2>4
<1> QED  BY <1>5, <1>6, <1>7 DEF DbNext

StagesInv == \A f \in Fields : \A n \in Conns : Stages(f, n)

LEMMA StepStages ==
  ASSUME Types, OnePerField, StagesInv, [Next]_vars
  PROVE  StagesInv'
<1> SUFFICES ASSUME NEW f \in Fields, NEW n \in Conns PROVE Stages(f, n)'
  BY DEF StagesInv
<1>1. Stages(f, n)
  BY DEF StagesInv
<1>2. CASE UNCHANGED vars
  BY <1>1, <1>2, ElsewhereCalm DEF vars, fieldVars, wires
<1> QED
  BY <1>1, <1>2, AgentStages, ServeStages, FrameStages, DbStages, CloseStages, PlayStages,
    PeriodicStages DEF Next

LEMMA InitStages == Init => StagesInv
<1> SUFFICES ASSUME Init, NEW f \in Fields, NEW n \in Conns PROVE Stages(f, n)
  BY DEF StagesInv
<1>1. /\ toSlot[f][n] = <<>> /\ jobs[f] = <<>> /\ loaded[f] = <<>> /\ drops[f] = <<>> /\ outs = {}
      /\ PlacesOf(f, n) = {}
  BY DEF Init, PlacesOf
<1>2. OnceEach(f, n)
  BY <1>1 DEF OnceEach, Once
<1>3. InOrder(f, n)
  BY <1>1, RangeEmpty DEF InOrder, Joining, Loading, Entering, Here, Leaves, Told
<1>4. MarkedWhereItIs(f, n)
  BY <1>1, RangeEmpty DEF MarkedWhereItIs
<1>5. SavedBefore(f, n)
  BY <1>1 DEF SavedBefore, Behind
<1> QED  BY <1>2, <1>3, <1>4, <1>5 DEF Stages

\* A connection goes through a field in one order and once: its character is on
\* the way there, is loaded, enters, is there, leaves, and the agent hears of it;
\* and no save of it waits behind the message that it has left.
THEOREM StagesHold == Spec => []StagesInv
<1>1. Types /\ OnePerField /\ StagesInv /\ [Next]_vars => StagesInv'
  BY StepStages
<1> QED  BY <1>1, InitStages, TypesHold, OneLife, PTL DEF Spec

\* When the agent hears that a character has left a field and lets the next one
\* load it, the first has neither the character nor a save of it left: however
\* many connections, fields and ids there are, and however their messages, frames
\* and database jobs interleave.
THEOREM HandOversAreSaved == Spec => []HandOverSaved
<1>1. ASSUME Types, StagesInv PROVE HandOverSaved
  <2> SUFFICES ASSUME NEW f \in Fields, NEW n \in Conns, <<f, n>> \in outs
               PROVE  /\ PlacesOf(f, n) = {}
                      /\ \A i \in DOMAIN jobs[f] : jobs[f][i].op = "SAVE" => jobs[f][i].conn # n
    BY DEF HandOverSaved
  <2>1. Stages(f, n)
    BY <1>1 DEF StagesInv
  <2>2. PlacesOf(f, n) = {}
    BY <2>1 DEF Stages, InOrder, Told, Here
  <2>3. Range(jobs[f]) \cap SavesOf(n) = {}
    BY <2>1 DEF Stages, SavedBefore
  <2>4. \A i \in DOMAIN jobs[f] : jobs[f][i] \in Jobs /\ jobs[f][i] \in Range(jobs[f])
    BY <1>1, RangeIn DEF Types, FieldTypes, Range
  <2>5. \A i \in DOMAIN jobs[f] : jobs[f][i].op = "SAVE" => jobs[f][i].conn # n
    BY <2>3, <2>4, JobsOK DEF SavesOf
  <2> QED  BY <2>2, <2>5
<1> QED  BY <1>1, TypesHold, StagesHold, PTL
=============================================================================
