---------------------------- MODULE PartyProofs ----------------------------
(* What holds of the parties for any number of characters and                *)
(* parties, whatever the clients ask and whenever characters and servers go: *)
(* the types, that a character is in the one party it carries the id of, and *)
(* that no party id is lost or given out twice; what a frame leaves behind;  *)
(* and that the field's records follow the agent's.                          *)
EXTENDS PartyNet, FoldLemmas, TLAPS

\* Who is not on line carries no party id, and a record that is no party has
\* no members: what makes a free Gaea id and a free party id fit for use.
OffLine == \A g \in Ids : ~On(g) => pid[g] = NoParty
NoMembers == \A p \in Parties : ~Valid(p) => party[p].member = {}

\* The inductive invariant.
IInv == AgentTypeOK /\ OneParty /\ IdsOnce /\ OffLine /\ NoMembers

\* The agent's state but for what it has sent.
coreVars == <<who, pid, asked, party, free, turn>>

-----------------------------------------------------------------------------
(* The list of free ids *)

Distinct(q) == \A i, j \in DOMAIN q : i # j => q[i] # q[j]

LEMMA FreeTail ==
  ASSUME NEW q \in Seq(Parties), q # <<>>, Distinct(q)
  PROVE  /\ Head(q) \in Parties /\ Tail(q) \in Seq(Parties)
         /\ Range(q) = {Head(q)} \cup Range(Tail(q))
         /\ Distinct(Tail(q)) /\ Head(q) \notin Range(Tail(q))
<1>1. /\ Tail(q) \in Seq(Parties) /\ Len(Tail(q)) = Len(q) - 1 /\ Len(q) \in Nat \ {0}
      /\ \A i \in 1..Len(Tail(q)) : Tail(q)[i] = q[i + 1]
      /\ Head(q) = q[1] /\ Head(q) \in Parties
  BY HeadTailProperties, EmptySeq
<1>2. DOMAIN q = 1..Len(q) /\ DOMAIN Tail(q) = 1..(Len(q) - 1)
  BY <1>1, LenProperties
<1>3. ASSUME NEW i \in DOMAIN q PROVE q[i] = Head(q) \/ q[i] \in Range(Tail(q))
  <2>1. CASE i = 1
    BY <2>1, <1>1
  <2>2. CASE i # 1
    <3>1. i - 1 \in DOMAIN Tail(q) /\ Tail(q)[i - 1] = q[i]
      BY <2>2, <1>1, <1>2
    <3> QED  BY <3>1 DEF Range
  <2> QED  BY <2>1, <2>2
<1>4. ASSUME NEW i \in DOMAIN Tail(q) PROVE i + 1 \in DOMAIN q /\ Tail(q)[i] = q[i + 1]
  BY <1>1, <1>2
<1>5. 1 \in DOMAIN q
  BY <1>1, <1>2
<1>6. Range(q) = {Head(q)} \cup Range(Tail(q))
  BY <1>1, <1>3, <1>4, <1>5 DEF Range
<1>7. ASSUME NEW i \in DOMAIN Tail(q), NEW j \in DOMAIN Tail(q), i # j
      PROVE  Tail(q)[i] # Tail(q)[j]
  <2>1. i + 1 # j + 1
    BY <1>7, <1>1, <1>2
  <2> QED  BY <2>1, <1>4 DEF Distinct
<1>8. ASSUME NEW i \in DOMAIN Tail(q) PROVE Tail(q)[i] # Head(q)
  <2>1. i + 1 # 1
    BY <1>1, <1>2
  <2> QED  BY <2>1, <1>1, <1>4, <1>5 DEF Distinct
<1> QED  BY <1>1, <1>6, <1>7, <1>8 DEF Distinct, Range

LEMMA FreeAppend ==
  ASSUME NEW q \in Seq(Parties), NEW p \in Parties, Distinct(q), p \notin Range(q)
  PROVE  /\ Append(q, p) \in Seq(Parties)
         /\ Range(Append(q, p)) = Range(q) \cup {p}
         /\ Distinct(Append(q, p))
<1>1. /\ Append(q, p) \in Seq(Parties) /\ Len(q) \in Nat
      /\ DOMAIN q = 1..Len(q) /\ DOMAIN Append(q, p) = 1..(Len(q) + 1)
      /\ Append(q, p)[Len(q) + 1] = p
      /\ \A i \in 1..Len(q) : Append(q, p)[i] = q[i]
  BY LenProperties
<1>2. \A i \in 1..(Len(q) + 1) : i \in 1..Len(q) \/ i = Len(q) + 1
  BY <1>1
<1>3. 1..Len(q) \subseteq 1..(Len(q) + 1) /\ Len(q) + 1 \in 1..(Len(q) + 1)
  BY <1>1
<1>4. Range(Append(q, p)) = Range(q) \cup {p}
  BY <1>1, <1>2, <1>3 DEF Range
<1>5. Distinct(Append(q, p))
  BY <1>1, <1>2 DEF Distinct, Range
<1> QED  BY <1>1, <1>4, <1>5

LEMMA FreeConcat ==
  ASSUME NEW q \in Seq(Parties), NEW r \in Seq(Parties), Distinct(q), Distinct(r),
         Range(q) \cap Range(r) = {}
  PROVE  /\ q \o r \in Seq(Parties) /\ Range(q \o r) = Range(q) \cup Range(r)
         /\ Distinct(q \o r)
<1>1. /\ q \o r \in Seq(Parties) /\ Len(q) \in Nat /\ Len(r) \in Nat
      /\ DOMAIN q = 1..Len(q) /\ DOMAIN r = 1..Len(r)
      /\ DOMAIN (q \o r) = 1..(Len(q) + Len(r))
      /\ \A i \in 1..(Len(q) + Len(r)) :
           (q \o r)[i] = IF i <= Len(q) THEN q[i] ELSE r[i - Len(q)]
  BY ConcatProperties, LenProperties
<1>2. ASSUME NEW i \in DOMAIN (q \o r)
      PROVE  \/ i \in DOMAIN q /\ (q \o r)[i] = q[i]
             \/ i \notin DOMAIN q /\ i - Len(q) \in DOMAIN r /\ (q \o r)[i] = r[i - Len(q)]
  BY <1>1
<1>3. ASSUME NEW i \in DOMAIN q PROVE i \in DOMAIN (q \o r) /\ (q \o r)[i] = q[i]
  BY <1>1
<1>4. ASSUME NEW i \in DOMAIN r
      PROVE  i + Len(q) \in DOMAIN (q \o r) /\ (q \o r)[i + Len(q)] = r[i]
  BY <1>1
<1>5. Range(q \o r) = Range(q) \cup Range(r)
  <2>1. ASSUME NEW i \in DOMAIN (q \o r) PROVE (q \o r)[i] \in Range(q) \cup Range(r)
    BY <1>2 DEF Range
  <2>2. ASSUME NEW i \in DOMAIN q PROVE q[i] \in Range(q \o r)
    <3>1. i \in DOMAIN (q \o r) /\ (q \o r)[i] = q[i]
      BY <1>3
    <3> QED  BY <3>1 DEF Range
  <2>3. ASSUME NEW i \in DOMAIN r PROVE r[i] \in Range(q \o r)
    <3>1. i + Len(q) \in DOMAIN (q \o r) /\ (q \o r)[i + Len(q)] = r[i]
      BY <1>4
    <3> QED  BY <3>1 DEF Range
  <2> QED  BY <2>1, <2>2, <2>3 DEF Range
<1>6. ASSUME NEW i \in DOMAIN (q \o r), NEW j \in DOMAIN (q \o r), i # j
      PROVE  (q \o r)[i] # (q \o r)[j]
  <2>1. CASE i \in DOMAIN q /\ j \in DOMAIN q
    BY <2>1, <1>3, <1>6 DEF Distinct
  <2>2. CASE i \notin DOMAIN q /\ j \notin DOMAIN q
    <3>1. i - Len(q) # j - Len(q)
      BY <1>1, <1>6
    <3> QED  BY <2>2, <3>1, <1>2 DEF Distinct
  <2>3. ASSUME NEW x \in DOMAIN q, NEW y \in DOMAIN r PROVE q[x] # r[y]
    BY <2>3 DEF Range
  <2>4. CASE i \in DOMAIN q /\ j \notin DOMAIN q
    <3>1. (q \o r)[i] = q[i] /\ j - Len(q) \in DOMAIN r /\ (q \o r)[j] = r[j - Len(q)]
      BY <2>4, <1>2
    <3> QED  BY <3>1, <2>3, <2>4
  <2>5. CASE i \notin DOMAIN q /\ j \in DOMAIN q
    <3>1. (q \o r)[j] = q[j] /\ i - Len(q) \in DOMAIN r /\ (q \o r)[i] = r[i - Len(q)]
      BY <2>5, <1>2
    <3> QED  BY <3>1, <2>3, <2>5
  <2> QED  BY <2>1, <2>2, <2>4, <2>5
<1> QED  BY <1>1, <1>5, <1>6 DEF Distinct

\* Every id is free at the start.
LEMMA FreeAtStart ==
  ASSUME NEW q, q = [i \in 1 .. MaxParty |-> i - 1]
  PROVE  q \in Seq(Parties) /\ Range(q) = Parties /\ Distinct(q)
<1>1. MaxParty \in Nat /\ DOMAIN q = 1..MaxParty /\ \A i \in 1..MaxParty : q[i] = i - 1
  BY NumberAssumption
<1>2. \A i \in 1..MaxParty : i - 1 \in Parties
  BY <1>1 DEF Parties
<1>3. q \in [1..MaxParty -> Parties]
  BY <1>2
<1>4. q \in Seq(Parties)
  BY <1>1, <1>3, SeqDef
<1>5. ASSUME NEW p \in Parties PROVE p \in Range(q)
  <2>1. p + 1 \in 1..MaxParty /\ (p + 1) - 1 = p
    BY <1>1 DEF Parties
  <2>2. q[p + 1] = p
    BY <2>1, <1>1
  <2> QED  BY <2>1, <2>2, <1>1 DEF Range
<1>6. Range(q) = Parties
  BY <1>1, <1>2, <1>5 DEF Range
<1>7. Distinct(q)
  BY <1>1 DEF Distinct
<1> QED  BY <1>4, <1>6, <1>7

-----------------------------------------------------------------------------
(* Records *)

LEMMA FewerMembers ==
  ASSUME NEW S \in SUBSET Ids, NEW T, T \subseteq S, Cardinality(S) <= MAXPARTY
  PROVE  Cardinality(T) <= MAXPARTY /\ T \in SUBSET Ids
<1>1. IsFiniteSet(S)
  BY FS_Subset, IdsAssumption
<1>2. Cardinality(T) <= Cardinality(S) /\ IsFiniteSet(T)
  BY <1>1, FS_Subset
<1>3. Cardinality(T) \in Nat /\ Cardinality(S) \in Nat
  BY <1>1, <1>2, FS_CardinalityType
<1> QED  BY <1>2, <1>3, NumberAssumption

LEMMA OneMore ==
  ASSUME NEW S \in SUBSET Ids, NEW g \in Ids, Cardinality(S) <= MAXPARTY,
         Cardinality(S) # MAXPARTY
  PROVE  Cardinality(S \cup {g}) <= MAXPARTY
<1>1. IsFiniteSet(S)
  BY FS_Subset, IdsAssumption
<1>2. Cardinality(S) \in Nat
  BY <1>1, FS_CardinalityType
<1>3. \/ Cardinality(S \cup {g}) = Cardinality(S) + 1
      \/ Cardinality(S \cup {g}) = Cardinality(S)
  BY <1>1, FS_AddElement
<1> QED  BY <1>2, <1>3, NumberAssumption

LEMMA TwoMembers ==
  ASSUME NEW a \in Ids, NEW t \in Ids
  PROVE  Cardinality({a, t}) <= MAXPARTY
<1>1. Cardinality({a}) = 1 /\ IsFiniteSet({a})
  BY FS_Singleton
<1>2. \/ Cardinality({a} \cup {t}) = 2
      \/ Cardinality({a} \cup {t}) = 1
  BY <1>1, FS_AddElement
<1>3. {a} \cup {t} = {a, t}
  OBVIOUS
<1> QED  BY <1>2, <1>3, NumberAssumption

LEMMA NoOneOK ==
  NoOne \in Party /\ NoOne.master = NoId /\ NoOne.member = {}
  /\ Cardinality(NoOne.member) <= MAXPARTY
<1>1. Cardinality({}) = 0
  BY FS_EmptySet
<1> QED  BY <1>1, NumberAssumption DEF NoOne, Party

LEMMA KeepOK ==
  ASSUME NEW r \in Party, NEW S
  PROVE  /\ Keep(r, S) \in Party
         /\ Keep(r, S).master = r.master /\ Keep(r, S).member = r.member \cap S
  BY DEF Keep, Party

LEMMA AddMemberOK ==
  ASSUME NEW r \in Party, NEW g \in Ids
  PROVE  /\ AddMember(r, g) \in Party
         /\ AddMember(r, g).master = r.master
         /\ AddMember(r, g).member = r.member \cup {g}
  BY DEF AddMember, Party

-----------------------------------------------------------------------------
(* A step that gives the record of one party a new value r *)

FreedOrUsed(p, r) ==
  \/ Valid(p) /\ r.master # NoId /\ free' = free
  \/ /\ free # <<>> /\ p = Head(free) /\ r.master # NoId
     /\ free' = Tail(free)
  \/ Valid(p) /\ r = NoOne /\ free' = Append(free, p)

\* The characters on line carry p afterwards who are members of r, and only
\* those who were in p or in no party may be.
Follows(p, r) ==
  \A g \in Ids : On(g) =>
    /\ g \in r.member => pid[g] \in {p, NoParty}
    /\ pid'[g] = IF g \in r.member THEN p ELSE IF pid[g] = p THEN NoParty ELSE pid[g]

LEMMA OneRecord ==
  ASSUME IInv, NEW p \in Parties, NEW r \in Party,
         Cardinality(r.member) <= MAXPARTY,
         party' = [party EXCEPT ![p] = r], who' = who,
         turn' \in 0 .. MaxParty,
         asked' \in [Ids -> SUBSET Chars],
         pid' \in [Ids -> Parties \cup {NoParty}],
         \A g \in Ids : ~On(g) => pid'[g] = NoParty,
         Follows(p, r), FreedOrUsed(p, r)
  PROVE  IInv'
<1> USE DEF IInv
<1>1. party \in [Parties -> Party] /\ free \in Seq(Parties) /\ Distinct(free)
  BY DEF AgentTypeOK, IdsOnce, Distinct
<1>2. party'[p] = r /\ \A o \in Parties \ {p} : party'[o] = party[o]
  BY <1>1
<1>3. party' \in [Parties -> Party]
  BY <1>1
<1>4. \A o \in Parties : Cardinality(party'[o].member) <= MAXPARTY
  BY <1>2 DEF AgentTypeOK
<1>5. free' \in Seq(Parties) /\ IdsOnce'
  <2>1. CASE Valid(p) /\ r.master # NoId /\ free' = free
    BY <2>1, <1>1, <1>2 DEF IdsOnce, Valid
  <2>2. CASE free # <<>> /\ p = Head(free) /\ r.master # NoId /\ free' = Tail(free)
    <3>1. /\ free' \in Seq(Parties) /\ Range(free) = {p} \cup Range(free')
          /\ Distinct(free') /\ p \notin Range(free')
      BY <2>2, <1>1, FreeTail
    <3>2. \A o \in Parties : Valid(o)' <=> o \notin Range(free')
      BY <3>1, <2>2, <1>2 DEF IdsOnce, Valid
    <3> QED  BY <3>1, <3>2 DEF IdsOnce, Distinct
  <2>3. CASE Valid(p) /\ r = NoOne /\ free' = Append(free, p)
    <3>1. p \notin Range(free)
      BY <2>3 DEF IdsOnce
    <3>2. /\ free' \in Seq(Parties) /\ Range(free') = Range(free) \cup {p}
          /\ Distinct(free')
      BY <2>3, <3>1, <1>1, FreeAppend
    <3>3. \A o \in Parties : Valid(o)' <=> o \notin Range(free')
      BY <3>2, <2>3, <1>2, NoOneOK DEF IdsOnce, Valid
    <3> QED  BY <3>2, <3>3 DEF IdsOnce, Distinct
  <2> QED  BY <2>1, <2>2, <2>3 DEF FreedOrUsed
<1>6. AgentTypeOK'
  BY <1>3, <1>4, <1>5 DEF AgentTypeOK
<1>7. OneParty'
  <2>1. ASSUME NEW g \in Ids, On(g), NEW o \in Parties
        PROVE  g \in party'[o].member <=> pid'[g] = o
    <3>1. /\ g \in r.member => pid[g] \in {p, NoParty}
          /\ pid'[g] = IF g \in r.member THEN p ELSE IF pid[g] = p THEN NoParty ELSE pid[g]
      BY <2>1 DEF Follows
    <3>2. g \in party[o].member <=> pid[g] = o
      BY <2>1 DEF OneParty
    <3>3. NoParty # o /\ NoParty # p
      BY NullAssumption
    <3>4. CASE o = p
      BY <3>1, <3>3, <3>4, <1>2
    <3>5. CASE o # p
      <4>1. party'[o] = party[o]
        BY <3>5, <1>2
      <4> QED  BY <4>1, <3>1, <3>2, <3>3, <3>5
    <3> QED  BY <3>4, <3>5
  <2> QED  BY <2>1 DEF OneParty, On
<1>8. OffLine'
  BY DEF OffLine, On
<1>9. NoMembers'
  <2>1. ~Valid(p)' => r.member = {}
    BY <1>2, NoOneOK DEF Valid, FreedOrUsed
  <2> QED  BY <2>1, <1>2 DEF NoMembers, Valid
<1> QED  BY <1>5, <1>6, <1>7, <1>8, <1>9

-----------------------------------------------------------------------------
(* The handlers *)

\* An invitation changes whom a character may take in, and nothing else.
LEMMA AskedOnly ==
  ASSUME IInv, asked' \in [Ids -> SUBSET Chars],
         UNCHANGED <<who, pid, party, free, turn>>
  PROVE  IInv'
  BY DEF IInv, AgentTypeOK, OneParty, IdsOnce, OffLine, NoMembers, On, Valid

LEMMA LureStep ==
  ASSUME IInv, NEW a, NEW t, MsgPartyLure(a, t) \/ MsgPartySearchLure(t, a)
  PROVE  IInv'
<1>1. a \in Ids /\ t \in Ids /\ who[t] \in Chars
  BY DEF MsgPartyLure, MsgPartySearchLure, MayTakeIn, On, IInv, AgentTypeOK
<1>2. asked \in [Ids -> SUBSET Chars] /\ asked' = [asked EXCEPT ![a] = @ \cup {who[t]}]
  BY DEF MsgPartyLure, MsgPartySearchLure, IInv, AgentTypeOK
<1>3. asked' \in [Ids -> SUBSET Chars]
  BY <1>1, <1>2
<1>4. UNCHANGED <<who, pid, party, free, turn>>
  BY DEF MsgPartyLure, MsgPartySearchLure, keepPC
<1> QED  BY <1>3, <1>4, AskedOnly

LEMMA UnaskedOK ==
  ASSUME IInv, NEW a, NEW t
  PROVE  Unasked(a, t) \in [Ids -> SUBSET Chars]
  BY DEF Unasked, IInv, AgentTypeOK

LEMMA RefuseStep ==
  ASSUME IInv, NEW a, NEW t, NEW q,
         MsgPartyLureTarRefuse(a, t, q) \/ MsgPartyLureSearchTarRefuse(a, t)
  PROVE  IInv'
<1>1. asked' = Unasked(a, t) \/ asked' = asked
  BY DEF MsgPartyLureTarRefuse, MsgPartyLureSearchTarRefuse
<1>2. asked' \in [Ids -> SUBSET Chars]
  BY <1>1, UnaskedOK DEF IInv, AgentTypeOK
<1>3. UNCHANGED <<who, pid, party, free, turn>>
  BY DEF MsgPartyLureTarRefuse, MsgPartyLureSearchTarRefuse, keepPC
<1> QED  BY <1>2, <1>3, AskedOnly

\* A character without a party joins the party of a, which has room.
LEMMA JoinStep ==
  ASSUME IInv, NEW a, NEW t, On(a), On(t), pid[t] = NoParty,
         Valid(pid[a]), ~IsFull(pid[a]), Join(a, t),
         asked' = Unasked(a, t), keepPC
  PROVE  IInv'
<1> DEFINE p == pid[a]
           r == AddMember(party[p], t)
<1> USE DEF IInv
<1>1. a \in Ids /\ t \in Ids /\ p \in Parties
  BY DEF On, Valid
<1>2. party[p] \in Party /\ party[p].member \in SUBSET Ids
  BY <1>1 DEF AgentTypeOK, Party
<1>3. r \in Party /\ r.master = party[p].master /\ r.member = party[p].member \cup {t}
  BY <1>1, <1>2, AddMemberOK
<1>4. Cardinality(r.member) <= MAXPARTY
  BY <1>1, <1>2, <1>3, OneMore DEF IsFull, AgentTypeOK
<1>5. party' = [party EXCEPT ![p] = r] /\ pid' = [pid EXCEPT ![t] = p] /\ free' = free
  BY DEF Join
<1>6. pid \in [Ids -> Parties \cup {NoParty}]
  BY DEF AgentTypeOK
<1>7. pid' \in [Ids -> Parties \cup {NoParty}]
  BY <1>1, <1>5, <1>6
<1>8. \A g \in Ids : ~On(g) => pid'[g] = NoParty
  BY <1>1, <1>5, <1>6 DEF OffLine
<1>9. Follows(p, r)
  <2>1. ASSUME NEW g \in Ids, On(g) PROVE g \in party[p].member <=> pid[g] = p
    BY <1>1, <2>1 DEF OneParty
  <2> HIDE DEF p, r
  <2> QED  BY <2>1, <1>1, <1>3, <1>5, <1>6 DEF Follows
<1>10. FreedOrUsed(p, r)
  BY <1>3, <1>5 DEF FreedOrUsed, Valid
<1>11. /\ who' = who /\ turn' \in 0 .. MaxParty /\ asked' \in [Ids -> SUBSET Chars]
  BY UnaskedOK DEF keepPC, AgentTypeOK
<1> HIDE DEF p, r, IInv
<1> QED  BY <1>1, <1>3, <1>4, <1>5, <1>7, <1>8, <1>9, <1>10, <1>11, OneRecord

\* Two characters without a party found one.
LEMMA NewPartyStep ==
  ASSUME IInv, NEW a, NEW t, On(a), On(t), pid[a] = NoParty, pid[t] = NoParty,
         NewParty(a, t), asked' = Unasked(a, t), keepPC
  PROVE  IInv'
<1> DEFINE p == Head(free)
           r == [master |-> a, member |-> {a, t}, before |-> {<<a, t>>}]
<1> USE DEF IInv
<1>1. a \in Ids /\ t \in Ids /\ a # NoId
  BY NullAssumption DEF On
<1>2. free \in Seq(Parties) /\ free # <<>> /\ Distinct(free)
  BY DEF AgentTypeOK, NewParty, IdsOnce, Distinct
<1>3. p \in Parties /\ p \in Range(free)
  BY <1>2, FreeTail
<1>4. party[p].member = {}
  BY <1>3 DEF IdsOnce, NoMembers
<1>5. r \in Party /\ r.master # NoId /\ r.member = {a, t}
  BY <1>1 DEF Party
<1>6. Cardinality(r.member) <= MAXPARTY
  BY <1>1, <1>5, TwoMembers
<1>7. /\ party' = [party EXCEPT ![p] = r] /\ pid' = [pid EXCEPT ![a] = p, ![t] = p]
      /\ free' = Tail(free)
  BY DEF NewParty
<1>8. pid \in [Ids -> Parties \cup {NoParty}]
  BY DEF AgentTypeOK
<1>9. pid' \in [Ids -> Parties \cup {NoParty}]
  BY <1>1, <1>3, <1>7, <1>8
<1>10. \A g \in Ids : ~On(g) => pid'[g] = NoParty
  BY <1>1, <1>7, <1>8 DEF OffLine
<1>11. Follows(p, r)
  <2>1. ASSUME NEW g \in Ids, On(g) PROVE pid[g] # p
    BY <1>3, <1>4, <2>1 DEF OneParty
  <2> HIDE DEF p, r
  <2> QED  BY <2>1, <1>1, <1>5, <1>7, <1>8 DEF Follows
<1>12. FreedOrUsed(p, r)
  BY <1>2, <1>5, <1>7 DEF FreedOrUsed
<1>13. /\ who' = who /\ turn' \in 0 .. MaxParty /\ asked' \in [Ids -> SUBSET Chars]
  BY UnaskedOK DEF keepPC, AgentTypeOK
<1> HIDE DEF p, r, IInv
<1> QED  BY <1>3, <1>5, <1>6, <1>7, <1>9, <1>10, <1>11, <1>12, <1>13, OneRecord

LEMMA AcceptStep ==
  ASSUME IInv, NEW a, NEW t, NEW q, MsgPartyLureTarOk(a, t, q)
  PROVE  IInv'
<1>1. /\ Accepts(a, t, q) /\ asked' = Unasked(a, t) /\ keepPC
      /\ On(a) /\ On(t) /\ pid[t] = NoParty
  BY DEF MsgPartyLureTarOk, Accepts, MayAnswer
<1>2. CASE First(a, q) /\ NewParty(a, t)
  BY <1>1, <1>2, NewPartyStep DEF First
<1>3. CASE First(a, q) /\ NoNewParty
  <2>1. asked' \in [Ids -> SUBSET Chars]
    BY <1>1, UnaskedOK
  <2> QED  BY <1>1, <1>3, <2>1, AskedOnly DEF NoNewParty, keepPC
<1>4. CASE ~First(a, q)
  <2>1. Valid(pid[a]) /\ ~IsFull(pid[a]) /\ Join(a, t)
    BY <1>1, <1>4 DEF Accepts, MayAnswer, MsgPartyLureTarOk
  <2> QED  BY <1>1, <2>1, JoinStep
<1> QED  BY <1>2, <1>3, <1>4 DEF MsgPartyLureTarOk

LEMMA AdmitStep ==
  ASSUME IInv, NEW a, NEW t, MsgPartyLureSearchTarOk(a, t)
  PROVE  IInv'
  BY JoinStep DEF MsgPartyLureSearchTarOk, Admits, MayAnswerSearch

LEMMA SecedeStep ==
  ASSUME IInv, NEW g, NEW p, NEW t, MsgPartySecede(g, p, t)
  PROVE  IInv'
<1> DEFINE r == Keep(party[p], Ids \ {t})
<1> USE DEF IInv
<1>1. p \in Parties /\ Valid(p) /\ t \in Ids /\ On(t) /\ t \in party[p].member
  BY DEF MsgPartySecede, MayCommand, Valid, On
<1>2. party[p] \in Party /\ party[p].member \in SUBSET Ids
      /\ Cardinality(party[p].member) <= MAXPARTY
  BY <1>1 DEF AgentTypeOK, Party
<1>3. r \in Party /\ r.master = party[p].master /\ r.member = party[p].member \cap (Ids \ {t})
  BY <1>2, KeepOK
<1>4. Cardinality(r.member) <= MAXPARTY
  BY <1>2, <1>3, FewerMembers
<1>5. /\ party' = [party EXCEPT ![p] = r] /\ pid' = [pid EXCEPT ![t] = NoParty]
      /\ free' = free
  BY DEF MsgPartySecede
<1>6. pid \in [Ids -> Parties \cup {NoParty}]
  BY DEF AgentTypeOK
<1>7. pid' \in [Ids -> Parties \cup {NoParty}]
  BY <1>1, <1>5, <1>6
<1>8. \A h \in Ids : ~On(h) => pid'[h] = NoParty
  BY <1>1, <1>5, <1>6 DEF OffLine
<1>9. Follows(p, r)
  <2>1. ASSUME NEW h \in Ids, On(h) PROVE h \in party[p].member <=> pid[h] = p
    BY <1>1, <2>1 DEF OneParty
  <2> HIDE DEF r
  <2> QED  BY <2>1, <1>1, <1>3, <1>5, <1>6 DEF Follows
<1>10. FreedOrUsed(p, r)
  BY <1>1, <1>3, <1>5 DEF FreedOrUsed, Valid
<1>11. /\ who' = who /\ turn' \in 0 .. MaxParty /\ asked' \in [Ids -> SUBSET Chars]
  BY DEF keepPC, MsgPartySecede, AgentTypeOK
<1> HIDE DEF r, IInv
<1> QED  BY <1>1, <1>3, <1>4, <1>5, <1>7, <1>8, <1>9, <1>10, <1>11, OneRecord

LEMMA AuthorityStep ==
  ASSUME IInv, NEW g, NEW p, NEW t, MsgPartyAuthority(g, p, t)
  PROVE  IInv'
<1> DEFINE r == [party[p] EXCEPT !.master = t]
<1> USE DEF IInv
<1>1. p \in Parties /\ Valid(p) /\ t \in Ids /\ t # NoId
  BY NullAssumption DEF MsgPartyAuthority, MayCommand, Valid, On
<1>2. party[p] \in Party /\ Cardinality(party[p].member) <= MAXPARTY
  BY <1>1 DEF AgentTypeOK
<1>3. r \in Party /\ r.master = t /\ r.member = party[p].member
  BY <1>1, <1>2 DEF Party
<1>4. party' = [party EXCEPT ![p] = r] /\ pid' = pid /\ free' = free
  BY DEF MsgPartyAuthority
<1>5. pid' \in [Ids -> Parties \cup {NoParty}] /\ \A h \in Ids : ~On(h) => pid'[h] = NoParty
  BY <1>4 DEF AgentTypeOK, OffLine
<1>6. Follows(p, r)
  <2>1. ASSUME NEW h \in Ids, On(h) PROVE h \in party[p].member <=> pid[h] = p
    BY <1>1, <2>1 DEF OneParty
  <2> HIDE DEF r
  <2> QED  BY <2>1, <1>3, <1>4 DEF Follows
<1>7. FreedOrUsed(p, r)
  BY <1>1, <1>3, <1>4 DEF FreedOrUsed
<1>8. /\ who' = who /\ turn' \in 0 .. MaxParty /\ asked' \in [Ids -> SUBSET Chars]
  BY DEF keepPC, MsgPartyAuthority, AgentTypeOK
<1> HIDE DEF r, IInv
<1> QED  BY <1>1, <1>2, <1>3, <1>4, <1>5, <1>6, <1>7, <1>8, OneRecord

\* A party is dissolved whose members on line are those of S.
LEMMA DelPartyStep ==
  ASSUME IInv, NEW p \in Parties, Valid(p), NEW S \in SUBSET Ids,
         OnLine(S) = OnLine(party[p].member),
         NEW field, NEW client, DelParty(p, S, field, client),
         who' = who, asked' = asked, turn' \in 0 .. MaxParty
  PROVE  IInv'
<1> USE DEF IInv
<1>1. /\ party' = [party EXCEPT ![p] = NoOne] /\ free' = Append(free, p)
      /\ pid' = [g \in Ids |-> IF g \in OnLine(S) THEN NoParty ELSE pid[g]]
  BY DEF DelParty
<1>2. pid \in [Ids -> Parties \cup {NoParty}] /\ asked' \in [Ids -> SUBSET Chars]
  BY DEF AgentTypeOK
<1>3. pid' \in [Ids -> Parties \cup {NoParty}] /\ \A g \in Ids : ~On(g) => pid'[g] = NoParty
  BY <1>1, <1>2 DEF OffLine
<1>4. Follows(p, NoOne)
  <2>1. ASSUME NEW g \in Ids, On(g)
        PROVE  pid'[g] = IF pid[g] = p THEN NoParty ELSE pid[g]
    <3>1. g \in party[p].member <=> pid[g] = p
      BY <2>1 DEF OneParty
    <3>2. g \in OnLine(S) <=> g \in party[p].member
      BY <2>1 DEF OnLine
    <3> QED  BY <3>1, <3>2, <1>1
  <2> QED  BY <2>1, NoOneOK DEF Follows
<1>5. FreedOrUsed(p, NoOne)
  BY <1>1 DEF FreedOrUsed
<1> HIDE DEF IInv
<1> QED  BY <1>1, <1>2, <1>3, <1>4, <1>5, NoOneOK, OneRecord

LEMMA MembersOK ==
  ASSUME IInv, NEW p \in Parties
  PROVE  /\ party[p] \in Party /\ party[p].member \in SUBSET Ids
         /\ Cardinality(party[p].member) <= MAXPARTY
  BY DEF IInv, AgentTypeOK, Party

LEMMA DissolveStep ==
  ASSUME IInv, NEW g, NEW p, MsgPartyDissolve(g, p)
  PROVE  IInv'
<1>1. p \in Parties /\ Valid(p) /\ DelParty(p, party[p].member, toField, toClient)
  BY DEF MsgPartyDissolve, MayDissolve, Valid
<1>2. party[p].member \in SUBSET Ids
  BY <1>1, MembersOK
<1>3. who' = who /\ asked' = asked /\ turn' \in 0 .. MaxParty
  BY DEF MsgPartyDissolve, keepPC, IInv, AgentTypeOK
<1> QED  BY <1>1, <1>2, <1>3, DelPartyStep

\* All parties are dissolved, in the order s.
LEMMA DelPartyAllStep ==
  ASSUME IInv, NEW s \in Orders({p \in Parties : Valid(p)}), NEW field,
         DelPartyAll(s, field)
  PROVE  IInv'
<1> DEFINE S == {p \in Parties : Valid(p)}
           M == UNION {party[p].member : p \in S}
<1> USE DEF IInv
<1>1. /\ \A p \in S : \E i \in DOMAIN s : s[i] = p
      /\ \A i, j \in DOMAIN s : i < j => s[i] < s[j]
      /\ free' = free \o s
      /\ pid' = [g \in Ids |-> IF g \in OnLine(M) THEN NoParty ELSE pid[g]]
      /\ party' = [p \in Parties |-> NoOne]
      /\ who' = who /\ turn' = turn /\ asked' = asked
  BY DEF DelPartyAll, keepPC
<1>2. free \in Seq(Parties) /\ Distinct(free)
  BY DEF AgentTypeOK, IdsOnce, Distinct
<1>3. Cardinality(S) \in Nat
  <2>1. IsFiniteSet(Parties)
    BY FS_Interval, NumberAssumption DEF Parties
  <2>2. IsFiniteSet(S)
    BY <2>1, FS_Subset
  <2> QED  BY <2>2, FS_CardinalityType
<1>4. /\ s \in [1 .. Cardinality(S) -> S] /\ DOMAIN s = 1 .. Cardinality(S)
      /\ s \in [1 .. Cardinality(S) -> Parties]
  BY DEF Orders
<1>5. s \in Seq(Parties)
  BY <1>3, <1>4, SeqDef
<1>6. Range(s) = S
  BY <1>1, <1>4 DEF Range
<1>7. Distinct(s)
  <2>1. ASSUME NEW i \in DOMAIN s, NEW j \in DOMAIN s, i # j PROVE s[i] # s[j]
    <3>1. i \in Nat /\ j \in Nat /\ s[i] \in Int /\ s[j] \in Int
      BY <1>3, <1>4, NumberAssumption DEF Parties
    <3>2. s[i] < s[j] \/ s[j] < s[i]
      BY <3>1, <2>1, <1>1
    <3> QED  BY <3>1, <3>2
  <2> QED  BY <2>1 DEF Distinct
<1>8. Range(free) \cap Range(s) = {} /\ Range(free) \cup Range(s) = Parties
  <2>1. Range(free) \subseteq Parties
    <3>1. DOMAIN free = 1..Len(free) /\ \A i \in 1..Len(free) : free[i] \in Parties
      BY <1>2, LenProperties, ElementOfSeq
    <3> QED  BY <3>1 DEF Range
  <2> QED  BY <2>1, <1>6 DEF IdsOnce
<1>9. free' \in Seq(Parties) /\ Range(free') = Parties /\ Distinct(free')
  BY <1>1, <1>2, <1>5, <1>7, <1>8, FreeConcat
<1>10. \A p \in Parties : party'[p] = NoOne
  BY <1>1
<1>11. pid \in [Ids -> Parties \cup {NoParty}] /\ who \in [Ids -> Chars \cup {Nobody}]
  BY DEF AgentTypeOK
<1>12. \A g \in Ids : pid'[g] = NoParty
  <2>1. ASSUME NEW g \in Ids PROVE pid'[g] = NoParty
    <3>1. CASE ~On(g)
      BY <3>1, <1>1 DEF OffLine
    <3>2. CASE On(g) /\ pid[g] # NoParty
      <4>1. pid[g] \in Parties
        BY <3>2, <1>11
      <4>2. g \in party[pid[g]].member
        BY <3>2, <4>1 DEF OneParty
      <4>3. pid[g] \in S
        BY <4>1, <4>2 DEF NoMembers
      <4>4. g \in OnLine(M)
        BY <3>2, <4>2, <4>3 DEF OnLine
      <4> QED  BY <4>4, <1>1
    <3>3. CASE On(g) /\ pid[g] = NoParty
      BY <3>3, <1>1
    <3> QED  BY <3>1, <3>2, <3>3
  <2> QED  BY <2>1
<1>13. pid' \in [Ids -> Parties \cup {NoParty}]
  BY <1>1, <1>11
<1>14. AgentTypeOK'
  BY <1>1, <1>9, <1>10, <1>13, NoOneOK DEF AgentTypeOK
<1>15. IdsOnce'
  BY <1>9, <1>10, NoOneOK DEF IdsOnce, Distinct, Valid
<1>16. OneParty'
  BY <1>10, <1>12, NoOneOK, NullAssumption DEF OneParty
<1>17. OffLine' /\ NoMembers'
  BY <1>10, <1>12, NoOneOK DEF OffLine, NoMembers
<1> QED  BY <1>14, <1>15, <1>16, <1>17

-----------------------------------------------------------------------------
(* Characters come and go *)

\* A character gets an id no party lists: it is in no party.
LEMMA CreateStep ==
  ASSUME IInv, NEW g \in Ids, NEW c \in Chars, CreatePC(g, c)
  PROVE  IInv'
<1> USE DEF IInv
<1>1. /\ who' = [who EXCEPT ![g] = c] /\ pid' = pid /\ asked' = asked
      /\ party' = party /\ free' = free /\ turn' = turn
      /\ ~On(g) /\ \A p \in Parties : g \notin party[p].member
  BY DEF CreatePC, Listed, On
<1>2. who \in [Ids -> Chars \cup {Nobody}]
  BY DEF AgentTypeOK
<1>3. AgentTypeOK'
  BY <1>1, <1>2 DEF AgentTypeOK
<1>4. \A h \in Ids \ {g} : On(h)' <=> On(h)
  BY <1>1, <1>2 DEF On
<1>5. pid[g] = NoParty
  BY <1>1 DEF OffLine
<1>6. OneParty'
  <2>1. ASSUME NEW h \in Ids, On(h)', NEW p \in Parties
        PROVE  h \in party[p].member <=> pid[h] = p
    <3>1. CASE h = g
      BY <3>1, <1>1, <1>5, NullAssumption
    <3>2. CASE h # g
      BY <3>2, <2>1, <1>4 DEF OneParty
    <3> QED  BY <3>1, <3>2
  <2> QED  BY <2>1, <1>1 DEF OneParty
<1>7. OffLine'
  BY <1>1, <1>4, <1>5 DEF OffLine
<1>8. IdsOnce' /\ NoMembers'
  BY <1>1 DEF IdsOnce, NoMembers, Valid
<1> QED  BY <1>3, <1>6, <1>7, <1>8

\* The parties are not told: they list who has gone until the frame.
LEMMA DropStep ==
  ASSUME IInv, NEW S, DropOutPC(S), turn' \in 0 .. MaxParty
  PROVE  IInv'
<1> USE DEF IInv
<1>1. /\ who' = [g \in Ids |-> IF g \in S THEN Nobody ELSE who[g]]
      /\ pid' = [g \in Ids |-> IF g \in S THEN NoParty ELSE pid[g]]
      /\ asked' = [g \in Ids |-> IF g \in S THEN {} ELSE asked[g]]
      /\ party' = party /\ free' = free
  BY DEF DropOutPC
<1>2. AgentTypeOK'
  BY <1>1 DEF AgentTypeOK
<1>3. \A g \in Ids : On(g)' => On(g) /\ g \notin S
  BY <1>1 DEF On
<1>4. OneParty'
  BY <1>1, <1>3 DEF OneParty
<1>5. OffLine'
  BY <1>1 DEF OffLine, On
<1>6. IdsOnce' /\ NoMembers'
  BY <1>1 DEF IdsOnce, NoMembers, Valid
<1> QED  BY <1>2, <1>4, <1>5, <1>6

-----------------------------------------------------------------------------
(* The frame *)

LEMMA RestOK ==
  ASSUME IInv, NEW p \in Parties
  PROVE  /\ Rest(p) \in SUBSET Ids
         /\ OnLine(Rest(p)) = OnLine(party[p].member)
  BY MembersOK DEF Rest, OnLine

LEMMA TurnOK ==
  ASSUME IInv, NextTurn
  PROVE  turn \in Parties /\ who' = who /\ asked' = asked /\ turn' \in 0 .. MaxParty
<1>1. turn \in Parties /\ turn' = turn + 1 /\ who' = who /\ asked' = asked
  BY DEF NextTurn
<1>2. turn + 1 \in 0 .. MaxParty
  BY <1>1, NumberAssumption DEF Parties
<1> QED  BY <1>1, <1>2

LEMMA NoPartyStep ==
  ASSUME IInv, FrameNoParty
  PROVE  IInv'
<1>1. who' = who /\ asked' = asked /\ turn' \in 0 .. MaxParty
  BY TurnOK DEF FrameNoParty
<1>2. UNCHANGED <<pid, party, free>>
  BY DEF FrameNoParty
<1> QED
  BY <1>1, <1>2 DEF IInv, AgentTypeOK, OneParty, IdsOnce, OffLine, NoMembers, On, Valid

LEMMA LeaderlessStep ==
  ASSUME IInv, FrameLeaderless
  PROVE  IInv'
<1>1. /\ turn \in Parties /\ Valid(turn) /\ who' = who /\ asked' = asked
      /\ turn' \in 0 .. MaxParty /\ DelParty(turn, Rest(turn), toField, toClient)
  BY TurnOK DEF FrameLeaderless
<1> QED  BY <1>1, RestOK, DelPartyStep

\* Who is left in the party are its members on line, and one of the ids leads.
LEMMA FramePartyStep ==
  ASSUME IInv, NEW a, NEW s, FrameParty(a, s)
  PROVE  IInv'
<1> DEFINE p == turn
           left == OnLine(Rest(p))
           r == [Keep(party[p], left) EXCEPT !.master = a]
<1>1. p \in Parties /\ who' = who /\ asked' = asked /\ turn' \in 0 .. MaxParty
  BY TurnOK DEF FrameParty
<1>2. Valid(p) /\ Leads(p, a)
  BY DEF FrameParty
<1>3. Rest(p) \in SUBSET Ids /\ left = OnLine(party[p].member)
  BY <1>1, RestOK
<1>4. CASE Alone(left)
  <2>1. PICK field, client : DelParty(p, left, field, client)
    BY <1>4 DEF FrameParty
  <2>2. left \in SUBSET Ids /\ OnLine(left) = OnLine(party[p].member)
    BY <1>3 DEF OnLine
  <2> HIDE DEF left
  <2> QED  BY <1>1, <1>2, <2>1, <2>2, DelPartyStep
<1>5. CASE ~Alone(left)
  <2>1. party' = [party EXCEPT ![p] = r] /\ pid' = pid /\ free' = free
    BY <1>5 DEF FrameParty
  <2>2. a \in Ids /\ a # NoId
    BY <1>2, <1>3, NullAssumption DEF Leads, On
  <2>3. party[p] \in Party /\ party[p].member \in SUBSET Ids
        /\ Cardinality(party[p].member) <= MAXPARTY
    BY <1>1, MembersOK
  <2>4. /\ Keep(party[p], left) \in Party
        /\ Keep(party[p], left).member = party[p].member \cap left
    BY <2>3, KeepOK
  <2>5. r \in Party /\ r.master = a /\ r.member = party[p].member \cap left
    BY <2>2, <2>4 DEF Party
  <2>6. Cardinality(r.member) <= MAXPARTY
    BY <2>3, <2>5, FewerMembers
  <2>7. pid' \in [Ids -> Parties \cup {NoParty}] /\ \A g \in Ids : ~On(g) => pid'[g] = NoParty
    BY <2>1 DEF IInv, AgentTypeOK, OffLine
  <2>8. Follows(p, r)
    <3>1. ASSUME NEW g \in Ids, On(g) PROVE g \in r.member <=> pid[g] = p
      <4>1. g \in party[p].member <=> pid[g] = p
        BY <1>1, <3>1 DEF IInv, OneParty
      <4>2. g \in left <=> g \in party[p].member
        BY <1>3, <3>1 DEF OnLine
      <4> HIDE DEF left, r
      <4> QED  BY <4>1, <4>2, <2>5
    <3> HIDE DEF left, r
    <3> QED  BY <3>1, <2>1 DEF Follows
  <2>9. FreedOrUsed(p, r)
    BY <1>2, <2>1, <2>2, <2>5 DEF FreedOrUsed
  <2>10. asked' \in [Ids -> SUBSET Chars]
    BY <1>1 DEF IInv, AgentTypeOK
  <2> HIDE DEF left, r
  <2> QED  BY <1>1, <2>1, <2>5, <2>6, <2>7, <2>8, <2>9, <2>10, OneRecord
<1> QED  BY <1>4, <1>5

-----------------------------------------------------------------------------
(* The agent starts *)

StartValues ==
  /\ who = [g \in Ids |-> Nobody] /\ pid = [g \in Ids |-> NoParty]
  /\ asked = [g \in Ids |-> {}] /\ party = [p \in Parties |-> NoOne]
  /\ free = [i \in 1 .. MaxParty |-> i - 1] /\ turn = MaxParty

LEMMA Start == StartValues => IInv
<1> SUFFICES ASSUME StartValues PROVE IInv
  OBVIOUS
<1>1. /\ who = [g \in Ids |-> Nobody] /\ pid = [g \in Ids |-> NoParty]
      /\ asked = [g \in Ids |-> {}] /\ party = [p \in Parties |-> NoOne]
      /\ turn = MaxParty
  BY DEF StartValues
<1>2. free \in Seq(Parties) /\ Range(free) = Parties /\ Distinct(free)
  BY FreeAtStart DEF StartValues
<1>3. turn \in 0 .. MaxParty
  BY <1>1, NumberAssumption
<1>4. \A p \in Parties : party[p] = NoOne /\ ~Valid(p)
  BY <1>1, NoOneOK DEF Valid
<1>5. AgentTypeOK
  BY <1>1, <1>2, <1>3, NoOneOK DEF AgentTypeOK
<1>6. OneParty
  BY <1>1 DEF OneParty, On
<1>7. IdsOnce
  BY <1>2, <1>4 DEF IdsOnce, Distinct
<1>8. OffLine /\ NoMembers
  BY <1>1, <1>4, NoOneOK DEF OffLine, NoMembers
<1> QED  BY <1>5, <1>6, <1>7, <1>8 DEF IInv

LEMMA InitStep == NetInit => IInv
  BY Start DEF NetInit, AgentInit, StartValues, Idle

LEMMA RestartStep ==
  ASSUME Restart
  PROVE  IInv'
<1>1. StartValues'
  BY DEF Restart, StartValues, Idle
<1>2. (StartValues => IInv)'
  BY Start, PTL
<1> QED  BY <1>1, <1>2

-----------------------------------------------------------------------------
(* The agent with the field server and the clients *)

LEMMA CoreUnchanged ==
  ASSUME IInv, UNCHANGED coreVars
  PROVE  IInv'
  BY DEF coreVars, IInv, AgentTypeOK, OneParty, IdsOnce, OffLine, NoMembers, On, Valid

LEMMA ObeyStep ==
  ASSUME IInv, NEW g \in Ids, NEW m, Obey(g, m)
  PROVE  IInv'
<1>1. CASE UNCHANGED agentVars
  BY <1>1, CoreUnchanged DEF agentVars, coreVars
<1>2. CASE MsgPartyLure(g, m.who) \/ MsgPartySearchLure(g, m.who)
  BY <1>2, LureStep
<1>3. CASE MsgPartyLureTarOk(m.who, g, m.party)
  BY <1>3, AcceptStep
<1>4. CASE \/ MsgPartyLureTarRefuse(m.who, g, m.party)
           \/ MsgPartyLureSearchTarRefuse(g, m.who)
  BY <1>4, RefuseStep
<1>5. CASE MsgPartyLureSearchTarOk(g, m.who)
  BY <1>5, AdmitStep
<1>6. CASE MsgPartySecede(g, m.party, m.who)
  BY <1>6, SecedeStep
<1>7. CASE MsgPartyAuthority(g, m.party, m.who)
  BY <1>7, AuthorityStep
<1>8. CASE MsgPartyDissolve(g, m.party)
  BY <1>8, DissolveStep
<1> QED
  BY <1>1, <1>2, <1>3, <1>4, <1>5, <1>6, <1>7, <1>8 DEF Obey, Unless

LEMMA FrameStep ==
  ASSUME IInv, FrameMoveParty
  PROVE  IInv'
  BY NoPartyStep, LeaderlessStep, FramePartyStep DEF FrameMoveParty

\* What a client asks, and what is read elsewhere, leaves the agent alone.
LEMMA RequestStep ==
  ASSUME IInv, NEW g \in Ids, Request(g)
  PROVE  IInv'
<1>1. UNCHANGED agentVars
  BY DEF Request, Lure, ReqPartySearchJoin, Secede, Authority, Dissolve,
         AnswerLure, AnswerSearch, Ask
<1> QED  BY <1>1, CoreUnchanged DEF agentVars, coreVars

LEMMA ReadStep ==
  ASSUME IInv, NEW g \in Ids,
         FieldReads \/ ClientReadsAgent(g) \/ ClientReadsField(g)
           \/ EnterField(g) \/ LeaveField(g)
  PROVE  IInv'
<1>1. UNCHANGED coreVars
  BY DEF FieldReads, ClientReadsAgent, ClientReadsField, EnterField, LeaveField,
         agentVars, coreVars
<1> QED  BY <1>1, CoreUnchanged

LEMMA NetStep == IInv /\ [NetNext]_netVars => IInv'
<1> SUFFICES ASSUME IInv, [NetNext]_netVars PROVE IInv'
  OBVIOUS
<1>1. CASE \E g \in Ids : Request(g)
  BY <1>1, RequestStep
<1>2. CASE \E g \in Ids : Serve(g)
  BY <1>2, ObeyStep DEF Serve
<1>3. CASE \E g \in Ids : \/ ClientReadsAgent(g) \/ ClientReadsField(g)
                          \/ EnterField(g) \/ LeaveField(g)
  BY <1>3, ReadStep
<1>4. CASE FieldReads
  <2>1. UNCHANGED coreVars
    BY <1>4 DEF FieldReads, coreVars
  <2> QED  BY <2>1, CoreUnchanged
<1>5. CASE \E g \in Ids : LoginTwice(g)
  <2>1. PICK g \in Ids : DropOutPC({g}) /\ turn' = turn
    BY <1>5 DEF LoginTwice, DropTwice
  <2>2. turn' \in 0 .. MaxParty
    BY <2>1 DEF IInv, AgentTypeOK
  <2> QED  BY <2>1, <2>2, DropStep
<1>6. CASE \E g \in Ids : \E c \in Chars : Login(g, c)
  BY <1>6, CreateStep DEF Login
<1>7. CASE \E S \in SUBSET Ids : Frame(S)
  <2>1. PICK S \in SUBSET Ids : DropOutPC(S) /\ turn' = 0
    BY <1>7 DEF Frame, FrameMove
  <2>2. turn' \in 0 .. MaxParty
    BY <2>1, NumberAssumption
  <2> QED  BY <2>1, <2>2, DropStep
<1>8. CASE FrameGoesOn
  BY <1>8, FrameStep DEF FrameGoesOn
<1>9. CASE FieldRestart
  BY <1>9, DelPartyAllStep DEF FieldRestart
<1>10. CASE FieldReconnect
  <2>1. PICK k \in 0 .. Len(toField), s \in Orders({p \in Parties : Valid(p)}) :
             DelPartyAll(s, SubSeq(toField, 1, k))
    BY <1>10 DEF FieldReconnect
  <2> QED  BY <2>1, DelPartyAllStep
<1>11. CASE AgentRestart
  BY <1>11, RestartStep DEF AgentRestart
<1>12. CASE UNCHANGED netVars
  BY <1>12, CoreUnchanged DEF netVars, agentVars, coreVars
<1> QED
  BY <1>1, <1>2, <1>3, <1>4, <1>5, <1>6, <1>7, <1>8, <1>9, <1>10, <1>11, <1>12 DEF NetNext

\* The strengthened invariant: while a party may list who has gone and a
\* leader who has left, an id that is given out again, of a character or of a
\* party, is clean.
THEOREM InvHolds == NetSpec => []IInv
  BY InitStep, NetStep, PTL DEF NetSpec

\* Parties, party ids and the list of free ids keep their types, and no party
\* grows beyond MAXPARTY, however late an invitation is answered.
THEOREM AgentTypes == NetSpec => []AgentTypeOK
<1>1. IInv => AgentTypeOK
  BY DEF IInv
<1> QED  BY <1>1, InvHolds, PTL

\* A character on line is a member of the party whose id it carries and of no
\* other: m_dwPartyID and m_cMEMBER agree, whatever is asked, answered late,
\* dropped or restarted, and though the frame tidies up a party at a time.
THEOREM InOneParty == NetSpec => []OneParty
<1>1. IInv => OneParty
  BY DEF IInv
<1> QED  BY <1>1, InvHolds, PTL

\* No party id is lost, and none is given out twice: m_FreePartyID holds every
\* id that is no valid party, once.
THEOREM NoIdLost == NetSpec => []IdsOnce
<1>1. IInv => IdsOnce
  BY DEF IInv
<1> QED  BY <1>1, InvHolds, PTL
-----------------------------------------------------------------------------
(* What is under way between the agent, the field server and the clients *)

FieldNotices ==
  [type : {"FNEW"}, party : Parties, master : Ids, member : SUBSET Ids]
    \cup [type : {"ADD", "DEL", "AUTHORITY"}, party : Parties, who : Ids]
    \cup [type : {"DISSOLVE"}, party : Parties]
    \cup [type : {"RENEW"}, party : Parties, old : Ids, new : Ids]
ClientNotices ==
  [type : {"LURE_TAR"}, master : Ids, party : Parties \cup {NoParty}]
    \cup [type : {"SEARCH_FB"}, who : Ids]
    \cup [type : {"DEL", "AUTHORITY"}, party : Parties, who : Ids]
    \cup [type : {"DISSOLVE"}, party : Parties]
FieldStates == [copy : [Parties -> Copies], gaeaTo : [Ids -> Parties \cup {NoParty}]]
Views == [party : Parties \cup {NoParty}, master : Ids \cup {NoId}, others : SUBSET Ids]
Dialogs ==
  [lure : {<<>>} \cup (Ids \X (Parties \cup {NoParty})), search : Ids \cup {NoId}]
BoundNames == {"requests", "logins", "drops", "moves", "crashes", "losses", "restarts"}

\* Who shows no party, shows no leader and no members.
Blank(v) == v.party = NoParty => v.master = NoId /\ v.others = {}

Posted == toField \in Seq(FieldNotices) /\ toClient \in [Ids -> Seq(ClientNotices)]
FieldTypes ==
  /\ copy \in [Parties -> Copies] /\ gaeaTo \in [Ids -> Parties \cup {NoParty}]
  /\ apart \in BOOLEAN
  /\ here \subseteq Ids /\ fromField \in [Ids -> Seq(FieldNotices)]
ClientTypes ==
  /\ view \in [Ids -> Views] /\ \A g \in Ids : Blank(view[g])
  /\ dialog \in [Ids -> Dialogs] /\ sent \in [Ids -> Seq(SentTypes)]
SpentTypes == spent \in [BoundNames -> Nat]

NetTypes == Posted /\ FieldTypes /\ ClientTypes /\ SpentTypes

LEMMA NoticesOK ==
  ASSUME NEW p \in Parties, NEW g \in Ids, NEW h \in Ids
  PROVE  /\ Add(p, g) \in FieldNotices /\ Renew(p, g, h) \in FieldNotices
         /\ Del(p, g) \in FieldNotices \cap ClientNotices
         /\ AuthorityTo(p, g) \in FieldNotices \cap ClientNotices
         /\ Dissolved(p) \in FieldNotices \cap ClientNotices
         /\ \A S \in SUBSET Ids : FNew(p, g, S) \in FieldNotices
         /\ SearchFB(g) \in ClientNotices
         /\ \A q \in Parties \cup {NoParty} : LureTar(g, q) \in ClientNotices
  BY DEF FieldNotices, ClientNotices, Add, Renew, Del, AuthorityTo, Dissolved, FNew,
         SearchFB, LureTar

LEMMA DissolvedOK ==
  ASSUME NEW p \in Parties
  PROVE  Dissolved(p) \in FieldNotices \cap ClientNotices
  BY DEF FieldNotices, ClientNotices, Dissolved

LEMMA FieldNoticeIs ==
  ASSUME NEW m \in FieldNotices
  PROVE  /\ m.party \in Parties
         /\ \/ m.type = "FNEW" /\ m.master \in Ids /\ m.member \in SUBSET Ids
            \/ m.type \in {"ADD", "DEL", "AUTHORITY"} /\ m.who \in Ids
            \/ m.type = "DISSOLVE"
            \/ m.type = "RENEW" /\ m.old \in Ids /\ m.new \in Ids
  BY DEF FieldNotices

LEMMA ClientNoticeIs ==
  ASSUME NEW m \in ClientNotices
  PROVE  \/ m.type = "LURE_TAR" /\ m.master \in Ids /\ m.party \in Parties \cup {NoParty}
         \/ m.type = "SEARCH_FB" /\ m.who \in Ids
         \/ m.type \in {"DEL", "AUTHORITY"} /\ m.who \in Ids /\ m.party \in Parties
         \/ m.type = "DISSOLVE" /\ m.party \in Parties
  BY DEF ClientNotices

LEMMA FollowIs ==
  ASSUME NEW m \in FieldNotices, NEW f
  PROVE  /\ m.type = "FNEW" => Follow(f, m) = MsgPartyFNew(f, m)
         /\ m.type # "FNEW" /\ ~Valued(f, m.party) => Follow(f, m) = f
         /\ Valued(f, m.party) =>
              /\ m.type = "ADD" => Follow(f, m) = MsgPartyAdd(f, m)
              /\ m.type = "DEL" => Follow(f, m) = MsgPartyDel(f, m)
              /\ m.type = "DISSOLVE" => Follow(f, m) = MsgPartyDissolved(f, m)
              /\ m.type = "AUTHORITY" => Follow(f, m) = MsgPartyNewLeader(f, m)
              /\ m.type = "RENEW" => Follow(f, m) = MsgPartyMasterRenew(f, m)
  BY FieldNoticeIs DEF Follow

LEMMA FieldStateOK ==
  ASSUME NEW f \in FieldStates, NEW p \in Parties, NEW c \in Copies,
         NEW t \in [Ids -> Parties \cup {NoParty}]
  PROVE  [copy |-> [f.copy EXCEPT ![p] = c], gaeaTo |-> t] \in FieldStates
<1>1. [f.copy EXCEPT ![p] = c] \in [Parties -> Copies]
  BY DEF FieldStates
<1> QED  BY <1>1 DEF FieldStates

LEMMA FollowType ==
  ASSUME NEW m \in FieldNotices, NEW f \in FieldStates
  PROVE  Follow(f, m) \in FieldStates
<1> DEFINE p == m.party
           c == f.copy[p]
<1>1. /\ p \in Parties /\ c \in Copies /\ c.member \in SUBSET Ids
      /\ f.copy \in [Parties -> Copies] /\ f.gaeaTo \in [Ids -> Parties \cup {NoParty}]
  BY FieldNoticeIs DEF FieldStates, Copies
<1>2. CASE m.type = "FNEW"
  <2> DEFINE d == [master |-> m.master, member |-> m.member]
             t == [g \in Ids |-> IF g \in m.member \cup {m.master} THEN p ELSE f.gaeaTo[g]]
  <2>1. Follow(f, m) = [copy |-> [f.copy EXCEPT ![p] = d], gaeaTo |-> t]
    BY <1>2, FollowIs DEF MsgPartyFNew
  <2>2. d \in Copies /\ t \in [Ids -> Parties \cup {NoParty}]
    BY <1>1, <1>2, FieldNoticeIs DEF Copies
  <2> HIDE DEF d, t
  <2> QED  BY <1>1, <2>1, <2>2, FieldStateOK
<1>3. CASE m.type # "FNEW" /\ ~Valued(f, p)
  BY <1>3, FollowIs
<1>4. CASE m.type = "ADD" /\ Valued(f, p)
  <2> DEFINE d == Enlist(c, m.who)
             t == [f.gaeaTo EXCEPT ![m.who] = p]
  <2>1. Follow(f, m) = [copy |-> [f.copy EXCEPT ![p] = d], gaeaTo |-> t]
    BY <1>4, FollowIs DEF MsgPartyAdd
  <2>2. d \in Copies /\ t \in [Ids -> Parties \cup {NoParty}]
    BY <1>1, <1>4, FieldNoticeIs DEF Enlist, Copies
  <2> HIDE DEF d, t
  <2> QED  BY <1>1, <2>1, <2>2, FieldStateOK
<1>5. CASE m.type = "DEL" /\ Valued(f, p)
  <2> DEFINE d == [c EXCEPT !.member = @ \ {m.who}]
             t == [f.gaeaTo EXCEPT ![m.who] = NoParty]
  <2>1. Follow(f, m) = [copy |-> [f.copy EXCEPT ![p] = d], gaeaTo |-> t]
    BY <1>5, FollowIs DEF MsgPartyDel
  <2>2. d \in Copies /\ t \in [Ids -> Parties \cup {NoParty}]
    BY <1>1, <1>5, FieldNoticeIs DEF Copies
  <2> HIDE DEF d, t
  <2> QED  BY <1>1, <2>1, <2>2, FieldStateOK
<1>6. CASE m.type = "DISSOLVE" /\ Valued(f, p)
  <2> DEFINE t == [g \in Ids |-> IF g \in c.member THEN NoParty ELSE f.gaeaTo[g]]
  <2>1. Follow(f, m) = [copy |-> [f.copy EXCEPT ![p] = NoCopy], gaeaTo |-> t]
    BY <1>6, FollowIs DEF MsgPartyDissolved
  <2>2. NoCopy \in Copies /\ t \in [Ids -> Parties \cup {NoParty}]
    BY <1>1 DEF NoCopy, Copies
  <2> HIDE DEF t
  <2> QED  BY <1>1, <2>1, <2>2, FieldStateOK
<1>7. CASE m.type = "AUTHORITY" /\ Valued(f, p)
  <2> DEFINE d == [c EXCEPT !.master = m.who]
  <2>1. Follow(f, m) = [copy |-> [f.copy EXCEPT ![p] = d], gaeaTo |-> f.gaeaTo]
    BY <1>7, FollowIs DEF MsgPartyNewLeader, FieldStates
  <2>2. d \in Copies
    BY <1>1, <1>7, FieldNoticeIs DEF Copies
  <2> HIDE DEF d
  <2> QED  BY <1>1, <2>1, <2>2, FieldStateOK
<1>8. CASE m.type = "RENEW" /\ Valued(f, p)
  <2> DEFINE d == [master |-> m.new, member |-> c.member \ {m.old}]
             t == [f.gaeaTo EXCEPT ![m.old] = NoParty]
  <2>1. Follow(f, m) = [copy |-> [f.copy EXCEPT ![p] = d], gaeaTo |-> t]
    BY <1>8, FollowIs DEF MsgPartyMasterRenew
  <2>2. d \in Copies /\ t \in [Ids -> Parties \cup {NoParty}]
    BY <1>1, <1>8, FieldNoticeIs DEF Copies
  <2> HIDE DEF d, t
  <2> QED  BY <1>1, <2>1, <2>2, FieldStateOK
<1> QED  BY <1>2, <1>3, <1>4, <1>5, <1>6, <1>7, <1>8, FieldNoticeIs

LEMMA PassOnType ==
  ASSUME NEW m \in FieldNotices, NEW f \in FieldStates, NEW g \in Ids,
         m.type = "FNEW" \/ Valued(f, m.party)
  PROVE  PassOn(Follow(f, m), m, g) \in Seq(FieldNotices)
<1> DEFINE k == Follow(f, m)
           c == k.copy[m.party]
<1>1. m.party \in Parties /\ k \in FieldStates
  BY FieldNoticeIs, FollowType
<1>2. <<m>> \in Seq(FieldNotices) /\ <<>> \in Seq(FieldNotices)
  OBVIOUS
<1>3. CASE m.type = "ADD"
  <2>1. k = MsgPartyAdd(f, m) /\ f.copy[m.party] \in Copies /\ f.copy[m.party].master # NoId
    BY <1>1, <1>3, FollowIs DEF Valued, FieldStates
  <2>2. c = Enlist(f.copy[m.party], m.who)
    BY <1>1, <2>1 DEF MsgPartyAdd, FieldStates
  <2>3. c.master \in Ids /\ c.member \in SUBSET Ids
    BY <1>3, <2>1, <2>2, FieldNoticeIs DEF Enlist, Copies
  <2> HIDE DEF c, k
  <2>4. FNew(m.party, c.master, c.member) \in FieldNotices
    BY <1>1, <2>3, NoticesOK
  <2>5. <<FNew(m.party, c.master, c.member)>> \in Seq(FieldNotices)
    BY <2>4
  <2>6. PassOn(k, m, g) = (IF g = m.who THEN <<FNew(m.party, c.master, c.member)>> ELSE <<>>)
                          \o (IF g \in c.member THEN <<m>> ELSE <<>>)
    BY <1>3 DEF PassOn, c
  <2>7. ASSUME NEW q \in Seq(FieldNotices), NEW r \in Seq(FieldNotices)
        PROVE  q \o r \in Seq(FieldNotices)
    BY ConcatProperties
  <2> QED  BY <1>2, <2>5, <2>6, <2>7 DEF k
<1>4. CASE m.type # "ADD"
  BY <1>2, <1>4, FieldNoticeIs DEF PassOn
<1> QED  BY <1>3, <1>4
\* What the agent's handlers put on the way.
LEMMA TellOK ==
  ASSUME NEW f \in [Ids -> Seq(ClientNotices)], NEW S, NEW m \in ClientNotices
  PROVE  Tell(f, S, m) \in [Ids -> Seq(ClientNotices)]
<1>1. \A g \in Ids : Append(f[g], m) \in Seq(ClientNotices)
  BY AppendProperties
<1> QED  BY <1>1 DEF Tell

LEMMA SayOK ==
  ASSUME NEW q \in Seq(FieldNotices), NEW m \in FieldNotices
  PROVE  Append(q, m) \in Seq(FieldNotices)
  BY AppendProperties

LEMMA AskPosted ==
  ASSUME IInv, Posted, NEW a, NEW t, MsgPartyLure(a, t) \/ MsgPartySearchLure(t, a)
  PROVE  Posted'
<1>1. a \in Ids /\ t \in Ids /\ pid[a] \in Parties \cup {NoParty}
  BY DEF MsgPartyLure, MsgPartySearchLure, MayTakeIn, On, IInv, AgentTypeOK
<1>2. LureTar(a, pid[a]) \in ClientNotices /\ SearchFB(t) \in ClientNotices
  BY <1>1 DEF LureTar, SearchFB, ClientNotices
<1>3. /\ Tell(toClient, {t}, LureTar(a, pid[a])) \in [Ids -> Seq(ClientNotices)]
      /\ Tell(toClient, {a}, SearchFB(t)) \in [Ids -> Seq(ClientNotices)]
  BY <1>2, TellOK DEF Posted
<1> QED  BY <1>3 DEF Posted, MsgPartyLure, MsgPartySearchLure

LEMMA JoinPosted ==
  ASSUME IInv, Posted, NEW a, NEW t, On(t), Valid(pid[a]), Join(a, t), UNCHANGED toClient
  PROVE  Posted'
<1>1. Add(pid[a], t) \in FieldNotices
  BY NoticesOK DEF On, Valid
<1> QED  BY <1>1, SayOK DEF Posted, Join

LEMMA AcceptPosted ==
  ASSUME IInv, Posted, NEW a, NEW t, NEW q, MsgPartyLureTarOk(a, t, q)
  PROVE  Posted'
<1>1. On(a) /\ On(t) /\ UNCHANGED toClient
  BY DEF MsgPartyLureTarOk, Accepts, MayAnswer
<1>2. CASE NewParty(a, t)
  <2>1. free \in Seq(Parties) /\ free # <<>> /\ Distinct(free)
    BY <1>2 DEF IInv, AgentTypeOK, NewParty, IdsOnce, Distinct
  <2>2. Head(free) \in Parties
    BY <2>1, FreeTail
  <2>3. FNew(Head(free), a, {a, t}) \in FieldNotices
    BY <1>1, <2>2, NoticesOK DEF On
  <2> QED  BY <1>1, <1>2, <2>3, SayOK DEF Posted, NewParty
<1>3. CASE NoNewParty
  BY <1>1, <1>3 DEF NoNewParty, Posted
<1>4. CASE ~First(a, q)
  BY <1>1, <1>4, JoinPosted DEF MsgPartyLureTarOk, Accepts, MayAnswer
<1> QED  BY <1>2, <1>3, <1>4 DEF MsgPartyLureTarOk

LEMMA CommandPosted ==
  ASSUME IInv, Posted, NEW g, NEW p, NEW t, MsgPartySecede(g, p, t) \/ MsgPartyAuthority(g, p, t)
  PROVE  Posted'
<1>1. p \in Parties /\ t \in Ids
  BY DEF MsgPartySecede, MsgPartyAuthority, MayCommand, Valid, On
<1>2. /\ Del(p, t) \in FieldNotices /\ Del(p, t) \in ClientNotices
      /\ AuthorityTo(p, t) \in FieldNotices /\ AuthorityTo(p, t) \in ClientNotices
  BY <1>1, NoticesOK
<1>3. CASE MsgPartySecede(g, p, t)
  BY <1>2, <1>3, TellOK, SayOK DEF Posted, MsgPartySecede
<1>4. CASE MsgPartyAuthority(g, p, t)
  BY <1>2, <1>4, TellOK, SayOK DEF Posted, MsgPartyAuthority
<1> QED  BY <1>3, <1>4

LEMMA DelPartyPosted ==
  ASSUME NEW p \in Parties, NEW S, NEW field \in Seq(FieldNotices),
         NEW client \in [Ids -> Seq(ClientNotices)], DelParty(p, S, field, client)
  PROVE  Posted'
<1>1. Dissolved(p) \in FieldNotices /\ Dissolved(p) \in ClientNotices
  BY DissolvedOK
<1> QED  BY <1>1, TellOK, SayOK DEF Posted, DelParty

LEMMA GoneFinite ==
  ASSUME IInv, NEW p \in Parties
  PROVE  Gone(p) \in SUBSET Ids /\ IsFiniteSet(Gone(p))
<1>1. Gone(p) \in SUBSET Ids
  BY RestOK DEF Gone
<1> QED  BY <1>1, FS_Subset, IdsAssumption

LEMMA DelsOK ==
  ASSUME IInv, NEW p \in Parties, NEW s \in Orders(Gone(p))
  PROVE  [i \in DOMAIN s |-> Del(p, s[i])] \in Seq(FieldNotices) \cap Seq(ClientNotices)
<1>1. IsFiniteSet(Gone(p)) /\ \A g \in Gone(p) : Del(p, g) \in FieldNotices \cap ClientNotices
  BY GoneFinite, NoticesOK
<1>2. DOMAIN s = 1 .. Cardinality(Gone(p)) /\ Cardinality(Gone(p)) \in Nat
      /\ \A i \in DOMAIN s : s[i] \in Gone(p)
  BY <1>1, FS_CardinalityType DEF Orders
<1>3. /\ [i \in DOMAIN s |-> Del(p, s[i])] \in [1 .. Cardinality(Gone(p)) -> FieldNotices]
      /\ [i \in DOMAIN s |-> Del(p, s[i])] \in [1 .. Cardinality(Gone(p)) -> ClientNotices]
  BY <1>1, <1>2
<1> QED  BY <1>2, <1>3, SeqDef

LEMMA FramePosted ==
  ASSUME IInv, Posted, FrameMoveParty
  PROVE  Posted'
<1>1. CASE FrameNoParty
  BY <1>1 DEF FrameNoParty, Posted
<1>2. CASE FrameLeaderless
  <2>1. turn \in Parties /\ DelParty(turn, Rest(turn), toField, toClient)
    BY <1>2, TurnOK DEF FrameLeaderless
  <2> QED  BY <2>1, DelPartyPosted DEF Posted
<1>3. ASSUME turn \in Parties, NEW a \in Ids, NEW s \in Orders(Gone(turn)), FrameParty(a, s)
      PROVE  Posted'
  <2> DEFINE p == turn
             left == OnLine(Rest(p))
             dels == [i \in DOMAIN s |-> Del(p, s[i])]
             renewed == IF On(party[p].master) THEN toField
                        ELSE Append(toField, Renew(p, party[p].master, a))
             field == renewed \o dels
             client == [g \in Ids |-> IF g \in left THEN toClient[g] \o dels ELSE toClient[g]]
  <2>1. party[p].master \in Ids
    <3>1. Valid(p) /\ party[p] \in Party
      BY <1>3, MembersOK DEF FrameParty
    <3> QED  BY <3>1 DEF Valid, Party
  <2>2. renewed \in Seq(FieldNotices)
    BY <1>3, <2>1, NoticesOK, SayOK DEF Posted
  <2>3. dels \in Seq(FieldNotices) /\ dels \in Seq(ClientNotices)
    BY <1>3, DelsOK
  <2>4. /\ Alone(left) => DelParty(p, left, field, client)
        /\ ~Alone(left) => toField' = field /\ toClient' = client
    BY <1>3 DEF FrameParty
  <2> HIDE DEF dels, renewed, left
  <2>5. field \in Seq(FieldNotices)
    BY <2>2, <2>3, ConcatProperties
  <2>6. \A g \in Ids : toClient[g] \o dels \in Seq(ClientNotices)
    BY <2>3, ConcatProperties DEF Posted
  <2>7. client \in [Ids -> Seq(ClientNotices)]
    BY <2>6 DEF Posted
  <2> HIDE DEF field, client
  <2> QED  BY <1>3, <2>4, <2>5, <2>7, DelPartyPosted DEF Posted
<1> QED  BY <1>1, <1>2, <1>3 DEF FrameMoveParty

LEMMA DelPartyAllPosted ==
  ASSUME IInv, Posted, NEW field \in Seq(FieldNotices),
         NEW s \in Orders({p \in Parties : Valid(p)}), DelPartyAll(s, field)
  PROVE  Posted' /\ toField' = field \o [i \in DOMAIN s |-> Dissolved(s[i])]
<1> DEFINE S == {p \in Parties : Valid(p)}
           M == UNION {party[p].member : p \in S}
           d == [i \in DOMAIN s |-> Dissolved(s[i])]
           client == [g \in Ids |-> IF On(g) /\ pid[g] # NoParty /\ g \in M
                                   THEN Append(toClient[g], Dissolved(pid[g])) ELSE toClient[g]]
<1>1. toField' = field \o d /\ toClient' = client
  BY DEF DelPartyAll
<1>2. Cardinality(S) \in Nat
  <2>1. IsFiniteSet(Parties)
    BY FS_Interval, NumberAssumption DEF Parties
  <2> QED  BY <2>1, FS_Subset, FS_CardinalityType
<1>3. DOMAIN s = 1 .. Cardinality(S) /\ \A i \in DOMAIN s : s[i] \in Parties
  BY DEF Orders
<1>4. d \in [1 .. Cardinality(S) -> FieldNotices]
  <2>1. \A i \in DOMAIN s : Dissolved(s[i]) \in FieldNotices
    BY <1>3, DissolvedOK
  <2>2. PICK n : n = Cardinality(S)
    OBVIOUS
  <2>3. DOMAIN s = 1 .. n
    BY <1>3, <2>2
  <2> HIDE DEF S
  <2> QED  BY <2>1, <2>2, <2>3
<1>5. d \in Seq(FieldNotices)
  <2>1. PICK n \in Nat : n = Cardinality(S)
    BY <1>2
  <2>2. d \in [1 .. n -> FieldNotices]
    BY <1>4, <2>1
  <2> HIDE DEF d
  <2> QED  BY <2>1, <2>2, SeqDef
<1>6. ASSUME NEW g \in Ids PROVE client[g] \in Seq(ClientNotices)
  <2>1. pid[g] # NoParty => Dissolved(pid[g]) \in ClientNotices
    BY DissolvedOK DEF IInv, AgentTypeOK
  <2> QED  BY <2>1, AppendProperties DEF Posted
<1>7. client \in [Ids -> Seq(ClientNotices)]
  BY <1>6
<1> HIDE DEF d, client
<1>8. field \o d \in Seq(FieldNotices)
  BY <1>5, ConcatProperties
<1> QED  BY <1>1, <1>7, <1>8 DEF Posted, d

\* What a client may ask.
LEMMA SentIs ==
  ASSUME NEW m \in SentTypes
  PROVE  /\ m.type \in {"LURE", "SEARCH_LURE", "SECEDE", "AUTHORITY", "DISSOLVE",
                        "LURE_TAR_ANS", "SEARCH_LURE_TAR_ANS"}
         /\ m.type # "DISSOLVE" => m.who \in Ids
  BY DEF SentTypes

LEMMA ObeyPosted ==
  ASSUME IInv, Posted, NEW g \in Ids, NEW m, Obey(g, m)
  PROVE  Posted'
<1>1. CASE UNCHANGED agentVars
  BY <1>1 DEF agentVars, Posted
<1>2. CASE MsgPartyLure(g, m.who) \/ MsgPartySearchLure(g, m.who)
  BY <1>2, AskPosted
<1>3. CASE MsgPartyLureTarOk(m.who, g, m.party)
  BY <1>3, AcceptPosted
<1>4. CASE \/ MsgPartyLureTarRefuse(m.who, g, m.party)
           \/ MsgPartyLureSearchTarRefuse(g, m.who)
  BY <1>4 DEF MsgPartyLureTarRefuse, MsgPartyLureSearchTarRefuse, Posted
<1>5. CASE MsgPartyLureSearchTarOk(g, m.who)
  BY <1>5, JoinPosted DEF MsgPartyLureSearchTarOk, Admits, MayAnswerSearch
<1>6. CASE MsgPartySecede(g, m.party, m.who) \/ MsgPartyAuthority(g, m.party, m.who)
  BY <1>6, CommandPosted
<1>7. CASE MsgPartyDissolve(g, m.party)
  BY <1>7, DelPartyPosted DEF MsgPartyDissolve, MayDissolve, Valid, Posted
<1> QED
  BY <1>1, <1>2, <1>3, <1>4, <1>5, <1>6, <1>7 DEF Obey, Unless
\* What the clients show, ask and answer.
LEMMA AskTypes ==
  ASSUME ClientTypes, SpentTypes, NEW g \in Ids, NEW m \in SentTypes, Ask(g, m)
  PROVE  view' = view /\ sent' \in [Ids -> Seq(SentTypes)] /\ SpentTypes'
<1>1. \A h \in Ids : Append(sent[h], m) \in Seq(SentTypes)
  BY AppendProperties DEF ClientTypes
<1>2. sent' = [sent EXCEPT ![g] = Append(@, m)] /\ spent' = [spent EXCEPT !["requests"] = @ + 1]
  BY DEF Ask, Spend
<1> QED  BY <1>1, <1>2 DEF Ask, ClientTypes, SpentTypes, BoundNames

LEMMA RequestTypes ==
  ASSUME NetTypes, NEW g \in Ids, Request(g)
  PROVE  NetTypes'
<1> USE DEF NetTypes
<1>1. view[g] \in Views /\ Blank(view[g]) /\ dialog[g] \in Dialogs
  BY DEF ClientTypes
<1>2. UNCHANGED <<toField, toClient, fieldVars>>
  BY DEF Request, Lure, ReqPartySearchJoin, Secede, Authority, Dissolve, AnswerLure,
         AnswerSearch, Ask, agentVars
<1>3. /\ \E m \in SentTypes : Ask(g, m)
      /\ dialog' \in [Ids -> Dialogs]
  <2>1. ASSUME NEW t \in Ids, Lure(g, t) \/ ReqPartySearchJoin(g, t) PROVE <1>3!:
    <3>1. [type |-> "LURE", who |-> t] \in SentTypes /\ [type |-> "SEARCH_LURE", who |-> t] \in SentTypes
      BY DEF SentTypes
    <3> QED  BY <2>1, <3>1 DEF Lure, ReqPartySearchJoin, ClientTypes
  <2>2. ASSUME NEW t \in Ids, Secede(g, t) \/ Authority(g, t) PROVE <1>3!:
    <3>1. view[g].party \in Parties
      BY <1>1, <2>2 DEF Secede, Authority, Blank, Views
    <3>2. /\ [type |-> "SECEDE", who |-> t, party |-> view[g].party] \in SentTypes
          /\ [type |-> "AUTHORITY", who |-> t, party |-> view[g].party] \in SentTypes
      BY <3>1 DEF SentTypes
    <3> QED  BY <2>2, <3>2 DEF Secede, Authority, ClientTypes
  <2>3. CASE Dissolve(g)
    <3>1. view[g].party \in Parties
      BY <1>1, <2>3, NullAssumption DEF Dissolve, Blank, Views
    <3>2. [type |-> "DISSOLVE", party |-> view[g].party] \in SentTypes
      BY <3>1 DEF SentTypes
    <3> QED  BY <2>3, <3>2 DEF Dissolve, ClientTypes
  <2>4. ASSUME NEW ok \in BOOLEAN, AnswerLure(g, ok) PROVE <1>3!:
    <3>1. dialog[g].lure # <<>> /\ dialog' = [dialog EXCEPT ![g].lure = <<>>]
      BY <2>4 DEF AnswerLure
    <3>2. dialog[g].lure[1] \in Ids /\ dialog[g].lure[2] \in Parties \cup {NoParty}
      BY <1>1, <3>1 DEF Dialogs
    <3>3. LureAnswer(dialog[g].lure[1], dialog[g].lure[2], ok) \in SentTypes
      BY <3>2 DEF LureAnswer, SentTypes
    <3>4. dialog \in [Ids -> Dialogs] /\ [dialog[g] EXCEPT !.lure = <<>>] \in Dialogs
      <4>1. dialog \in [Ids -> Dialogs] /\ dialog[g] \in Dialogs
        BY DEF ClientTypes
      <4>2. \A d \in Dialogs : [d EXCEPT !.lure = <<>>] \in Dialogs
        BY DEF Dialogs
      <4> QED  BY <4>1, <4>2
    <3>5. dialog' \in [Ids -> Dialogs]
      BY <3>1, <3>4
    <3> QED  BY <2>4, <3>3, <3>5 DEF AnswerLure
  <2>5. ASSUME NEW ok \in BOOLEAN, AnswerSearch(g, ok) PROVE <1>3!:
    <3>1. dialog[g].search # NoId /\ dialog' = [dialog EXCEPT ![g].search = NoId]
      BY <2>5 DEF AnswerSearch
    <3>2. SearchAnswer(dialog[g].search, ok) \in SentTypes
      BY <1>1, <3>1 DEF SearchAnswer, SentTypes, Dialogs
    <3>3. dialog \in [Ids -> Dialogs] /\ [dialog[g] EXCEPT !.search = NoId] \in Dialogs
      <4>1. dialog \in [Ids -> Dialogs] /\ dialog[g] \in Dialogs
        BY DEF ClientTypes
      <4>2. \A d \in Dialogs : [d EXCEPT !.search = NoId] \in Dialogs
        BY DEF Dialogs
      <4> QED  BY <4>1, <4>2
    <3>4. dialog' \in [Ids -> Dialogs]
      BY <3>1, <3>3
    <3> QED  BY <2>5, <3>2, <3>4 DEF AnswerSearch
  <2> QED  BY <2>1, <2>2, <2>3, <2>4, <2>5 DEF Request
<1>4. PICK m \in SentTypes : Ask(g, m)
  BY <1>3
<1>5. view' = view /\ sent' \in [Ids -> Seq(SentTypes)] /\ SpentTypes'
  BY <1>4, AskTypes
<1> QED  BY <1>2, <1>3, <1>5 DEF Posted, FieldTypes, ClientTypes, fieldVars

LEMMA NextViewOK ==
  ASSUME NEW g \in Ids, NEW v \in Views, Blank(v), NEW m \in FieldNotices \cup ClientNotices
  PROVE  NextView(g, v, m) \in Views /\ Blank(NextView(g, v, m))
<1>0. v.party \in Parties \cup {NoParty} /\ v.master \in Ids \cup {NoId} /\ v.others \in SUBSET Ids
      /\ v = [party |-> v.party, master |-> v.master, others |-> v.others]
  BY DEF Views
<1>1. CASE m.type = "FNEW"
  BY <1>0, <1>1, FieldNoticeIs, ClientNoticeIs, NullAssumption DEF NextView, Views, Blank
<1>2. CASE m.type = "ADD"
  BY <1>0, <1>2, FieldNoticeIs, ClientNoticeIs, NullAssumption DEF NextView, Views, Blank
<1>3. CASE m.type = "DEL"
  BY <1>0, <1>3, FieldNoticeIs, ClientNoticeIs, NullAssumption DEF NextView, Views, Blank, NoView
<1>4. CASE m.type = "DISSOLVE"
  BY <1>0, <1>4, FieldNoticeIs, ClientNoticeIs, NullAssumption DEF NextView, Views, Blank, NoView
<1>5. CASE m.type = "AUTHORITY"
  <2>1. m.who \in Ids /\ m.party \in Parties
    BY <1>5, FieldNoticeIs, ClientNoticeIs
  <2>2. CASE v.party # m.party \/ v.master = m.who
    BY <1>5, <2>2 DEF NextView
  <2>3. CASE ~(v.party # m.party \/ v.master = m.who)
    <3> DEFINE a == IF m.who \in v.others THEN m.who ELSE NoId
               S == (v.others \cup ({v.master} \ {NoId})) \ {m.who}
    <3>1. NextView(g, v, m) = [v EXCEPT !.master = a, !.others = S]
      BY <1>5, <2>3 DEF NextView
    <3>2. a \in Ids \cup {NoId} /\ S \in SUBSET Ids
      BY <1>0, <2>1
    <3> HIDE DEF a, S
    <3> DEFINE w == [v EXCEPT !.master = a]
    <3>3. w \in Views /\ w.party = v.party /\ w.master = a
      BY <3>2 DEF Views
    <3>4. [v EXCEPT !.master = a, !.others = S] = [w EXCEPT !.others = S]
      OBVIOUS
    <3> HIDE DEF w
    <3>5. [w EXCEPT !.others = S] \in Views /\ [w EXCEPT !.others = S].party = w.party
      BY <3>2, <3>3 DEF Views
    <3> QED  BY <2>1, <2>3, <3>1, <3>3, <3>4, <3>5, NullAssumption DEF Blank
  <2> QED  BY <2>2, <2>3
<1>6. CASE m.type = "RENEW"
  BY <1>0, <1>6, FieldNoticeIs, ClientNoticeIs, NullAssumption DEF NextView, Views, Blank
<1>7. CASE m.type \notin {"FNEW", "ADD", "DEL", "DISSOLVE", "AUTHORITY", "RENEW"}
  BY <1>7 DEF NextView
<1> QED  BY <1>1, <1>2, <1>3, <1>4, <1>5, <1>6, <1>7

LEMMA OneOK ==
  ASSUME NEW M, NEW x \in M
  PROVE  <<x>> \in Seq(M) /\ <<>> \in Seq(M)
  OBVIOUS

LEMMA NextDialogOK ==
  ASSUME NEW d \in Dialogs, NEW m \in ClientNotices
  PROVE  NextDialog(d, m) \in Dialogs /\ Refusal(d, m) \in Seq(SentTypes)
<1>1. CASE m.type = "LURE_TAR"
  <2>1. m.master \in Ids /\ m.party \in Parties \cup {NoParty}
    BY <1>1, ClientNoticeIs
  <2>2. NextDialog(d, m) \in Dialogs
    BY <1>1, <2>1 DEF NextDialog, Dialogs
  <2>3. LureAnswer(m.master, m.party, FALSE) \in SentTypes
    BY <2>1 DEF LureAnswer, SentTypes
  <2>4. <<LureAnswer(m.master, m.party, FALSE)>> \in Seq(SentTypes) /\ <<>> \in Seq(SentTypes)
    BY <2>3, OneOK
  <2>5. Refusal(d, m) = IF d.lure # <<>> THEN <<LureAnswer(m.master, m.party, FALSE)>> ELSE <<>>
    BY <1>1 DEF Refusal
  <2> QED  BY <2>2, <2>4, <2>5
<1>2. CASE m.type = "SEARCH_FB"
  <2>1. m.who \in Ids
    BY <1>2, ClientNoticeIs
  <2>2. NextDialog(d, m) \in Dialogs
    BY <1>2, <2>1 DEF NextDialog, Dialogs
  <2>3. SearchAnswer(m.who, FALSE) \in SentTypes
    BY <2>1 DEF SearchAnswer, SentTypes
  <2>4. <<SearchAnswer(m.who, FALSE)>> \in Seq(SentTypes) /\ <<>> \in Seq(SentTypes)
    BY <2>3, OneOK
  <2>5. Refusal(d, m) = IF d.search # NoId THEN <<SearchAnswer(m.who, FALSE)>> ELSE <<>>
    BY <1>2 DEF Refusal
  <2> QED  BY <2>2, <2>4, <2>5
<1>3. CASE m.type # "LURE_TAR" /\ m.type # "SEARCH_FB"
  <2>1. NextDialog(d, m) = d
    BY <1>3, Zenon DEF NextDialog
  <2>2. Refusal(d, m) = <<>>
    BY <1>3, Zenon DEF Refusal
  <2> QED  BY <2>1, <2>2
<1> QED  BY <1>1, <1>2, <1>3

LEMMA TailOK ==
  ASSUME NEW M, NEW q \in Seq(M), q # <<>>
  PROVE  Head(q) \in M /\ Tail(q) \in Seq(M)
  BY HeadTailProperties

LEMMA ReadTypes ==
  ASSUME NetTypes, NEW g \in Ids, ClientReadsAgent(g) \/ ClientReadsField(g)
  PROVE  NetTypes'
<1> USE DEF NetTypes
<1>1. CASE ClientReadsAgent(g)
  <2> DEFINE m == Head(toClient[g])
  <2>1. m \in ClientNotices /\ Tail(toClient[g]) \in Seq(ClientNotices)
    BY <1>1, TailOK DEF ClientReadsAgent, Posted
  <2>2. Posted' /\ FieldTypes' /\ SpentTypes'
    BY <1>1, <2>1 DEF ClientReadsAgent, Posted, FieldTypes, SpentTypes, fieldVars
  <2>3. /\ view' = [view EXCEPT ![g] = NextView(g, view[g], m)]
        /\ \/ /\ dialog' = [dialog EXCEPT ![g] = NextDialog(dialog[g], m)]
              /\ sent' = [sent EXCEPT ![g] = sent[g] \o Refusal(dialog[g], m)]
           \/ dialog' = dialog /\ sent' = sent
    BY <1>1 DEF ClientReadsAgent
  <2> HIDE DEF m
  <2>4. view' \in [Ids -> Views] /\ \A h \in Ids : Blank(view'[h])
    BY <2>1, <2>3, NextViewOK DEF ClientTypes
  <2>5. NextDialog(dialog[g], m) \in Dialogs /\ Refusal(dialog[g], m) \in Seq(SentTypes)
    BY <2>1, NextDialogOK DEF ClientTypes
  <2>6. sent[g] \o Refusal(dialog[g], m) \in Seq(SentTypes)
    BY <2>5, ConcatProperties DEF ClientTypes
  <2>7. dialog' \in [Ids -> Dialogs] /\ sent' \in [Ids -> Seq(SentTypes)]
    BY <2>3, <2>5, <2>6 DEF ClientTypes
  <2>8. ClientTypes'
    BY <2>4, <2>7 DEF ClientTypes
  <2> QED  BY <2>2, <2>8
<1>2. CASE ClientReadsField(g)
  <2>1. Head(fromField[g]) \in FieldNotices /\ Tail(fromField[g]) \in Seq(FieldNotices)
    BY <1>2, TailOK DEF ClientReadsField, FieldTypes
  <2>2. Posted' /\ FieldTypes' /\ SpentTypes'
    BY <1>2, <2>1 DEF ClientReadsField, Posted, FieldTypes, SpentTypes, agentVars
  <2>3. view' = [view EXCEPT ![g] = NextView(g, view[g], Head(fromField[g]))]
        /\ dialog' = dialog /\ sent' = sent
    BY <1>2 DEF ClientReadsField
  <2>4. view' \in [Ids -> Views] /\ \A h \in Ids : Blank(view'[h])
    BY <2>1, <2>3, NextViewOK DEF ClientTypes
  <2> QED  BY <2>2, <2>3, <2>4 DEF ClientTypes
<1> QED  BY <1>1, <1>2

LEMMA FieldTyped ==
  ASSUME FieldTypes
  PROVE  Field \in FieldStates /\ Field.copy = copy /\ Field.gaeaTo = gaeaTo
  BY DEF FieldTypes, Field, FieldStates

LEMMA FieldReadsTypes ==
  ASSUME NetTypes, FieldReads
  PROVE  NetTypes' /\ Field' = Follow(Field, Head(toField))
<1> USE DEF NetTypes
<1> DEFINE m == Head(toField)
           f == Follow(Field, m)
<1>1. m \in FieldNotices /\ Tail(toField) \in Seq(FieldNotices)
  BY TailOK DEF FieldReads, Posted
<1>2. f \in FieldStates
  BY <1>1, FieldTyped, FollowType
<1>3. /\ copy' = f.copy /\ gaeaTo' = f.gaeaTo
      /\ fromField' = [g \in Ids |-> IF g \in here /\ Hears(m)
                                     THEN fromField[g] \o PassOn(f, m, g) ELSE fromField[g]]
      /\ toField' = Tail(toField)
      /\ UNCHANGED <<toClient, here, apart, clientVars, spent>>
  BY DEF FieldReads
<1>4. ASSUME NEW g \in Ids, Hears(m) PROVE fromField[g] \o PassOn(f, m, g) \in Seq(FieldNotices)
  <2>1. PassOn(f, m, g) \in Seq(FieldNotices)
    BY <1>1, <1>4, FieldTyped, PassOnType DEF Hears
  <2> QED  BY <2>1, ConcatProperties DEF FieldTypes
<1> HIDE DEF m, f
<1>5. fromField' \in [Ids -> Seq(FieldNotices)]
  BY <1>3, <1>4 DEF FieldTypes
<1>6. FieldTypes'
  BY <1>2, <1>3, <1>5 DEF FieldTypes, FieldStates
<1>7. Posted' /\ ClientTypes' /\ SpentTypes'
  BY <1>1, <1>3 DEF Posted, ClientTypes, SpentTypes, clientVars
<1>8. Field' = f
  BY <1>2, <1>3 DEF Field, FieldStates
<1> QED  BY <1>6, <1>7, <1>8 DEF f, m

LEMMA SpendTypes ==
  ASSUME SpentTypes, NEW b \in BoundNames, NEW n \in Nat, Spend(b, n)
  PROVE  SpentTypes'
  BY DEF SpentTypes, Spend

LEMMA EndTypes ==
  ASSUME FieldTypes, ClientTypes, NEW S, ClientsEnd(S), apart' \in BOOLEAN
  PROVE  FieldTypes' /\ ClientTypes'
<1>1. NoView \in Views /\ Blank(NoView) /\ NoDialog \in Dialogs
  BY DEF NoView, Views, Blank, NoDialog, Dialogs
<1>2. <<>> \in Seq(SentTypes) /\ <<>> \in Seq(FieldNotices)
  OBVIOUS
<1>3. FieldTypes'
  BY <1>2 DEF ClientsEnd, FieldTypes
<1>4. view' \in [Ids -> Views] /\ \A g \in Ids : Blank(view'[g])
  BY <1>1 DEF ClientsEnd, ClientTypes
<1>5. dialog' \in [Ids -> Dialogs] /\ sent' \in [Ids -> Seq(SentTypes)]
  BY <1>1, <1>2 DEF ClientsEnd, ClientTypes
<1> QED  BY <1>3, <1>4, <1>5 DEF ClientTypes

LEMMA DropPosted ==
  ASSUME Posted, NEW S, DropOutPC(S)
  PROVE  Posted'
  BY DEF Posted, DropOutPC

LEMMA NetTypesStep == IInv /\ NetTypes /\ [NetNext]_netVars => NetTypes'
<1> SUFFICES ASSUME IInv, NetTypes, [NetNext]_netVars PROVE NetTypes'
  OBVIOUS
<1> USE DEF NetTypes
<1>1. CASE \E g \in Ids : Request(g)
  BY <1>1, RequestTypes
<1>2. CASE \E g \in Ids : Serve(g)
  <2>1. PICK g \in Ids : Serve(g)
    BY <1>2
  <2>2. Posted'
    BY <2>1, ObeyPosted DEF Serve
  <2>3. Tail(sent[g]) \in Seq(SentTypes)
    BY <2>1, TailOK DEF Serve, ClientTypes
  <2> QED  BY <2>1, <2>2, <2>3 DEF Serve, FieldTypes, ClientTypes, SpentTypes, fieldVars
<1>3. CASE \E g \in Ids : ClientReadsAgent(g) \/ ClientReadsField(g)
  BY <1>3, ReadTypes
<1>4. CASE \E g \in Ids : EnterField(g) \/ LeaveField(g)
  <2>1. PICK g \in Ids : EnterField(g) \/ LeaveField(g)
    BY <1>4
  <2>2. Posted' /\ ClientTypes' /\ FieldTypes'
    <3>1. <<>> \in Seq(FieldNotices)
      OBVIOUS
    <3> QED
      BY <2>1, <3>1 DEF EnterField, LeaveField, Posted, FieldTypes, ClientTypes, agentVars, clientVars
  <2>3. SpentTypes'
    BY <2>1, SpendTypes DEF EnterField, LeaveField, SpentTypes, BoundNames
  <2> QED  BY <2>2, <2>3
<1>5. CASE FieldReads
  BY <1>5, FieldReadsTypes
<1>6. CASE \E g \in Ids : LoginTwice(g)
  <2>1. PICK g \in Ids : DropOutPC({g}) /\ Spend("drops", 1) /\ ClientsEnd({g}) /\ apart' = apart
    BY <1>6 DEF LoginTwice, DropTwice
  <2>2. SpentTypes'
    BY <2>1, SpendTypes DEF BoundNames
  <2>3. apart' \in BOOLEAN
    BY <2>1 DEF FieldTypes
  <2> QED  BY <2>1, <2>2, <2>3, DropPosted, EndTypes
<1>7. CASE \E g \in Ids : \E c \in Chars : Login(g, c)
  <2>1. PICK g \in Ids, c \in Chars : Login(g, c)
    BY <1>7
  <2>2. SpentTypes'
    BY <2>1, SpendTypes DEF Login, BoundNames
  <2> QED  BY <2>1, <2>2 DEF Login, CreatePC, Posted, FieldTypes, ClientTypes, clientVars
<1>8. CASE \E S \in SUBSET Ids : Frame(S)
  <2>1. PICK S \in SUBSET Ids :
             DropOutPC(S) /\ Spend("drops", Cardinality(S)) /\ ClientsEnd(S) /\ apart' = apart
    BY <1>8 DEF Frame, FrameMove
  <2>2. Cardinality(S) \in Nat
    BY FS_Subset, FS_CardinalityType, IdsAssumption
  <2>3. SpentTypes'
    BY <2>1, <2>2, SpendTypes DEF BoundNames
  <2>4. apart' \in BOOLEAN
    BY <2>1 DEF FieldTypes
  <2> QED  BY <2>1, <2>3, <2>4, DropPosted, EndTypes
<1>9. CASE FrameGoesOn
  BY <1>9, FramePosted DEF FrameGoesOn, FieldTypes, ClientTypes, SpentTypes, fieldVars, clientVars
<1>10. CASE FieldRestart
  <2>1. Posted'
    <3>1. <<>> \in Seq(FieldNotices)
      OBVIOUS
    <3> QED  BY <1>10, <3>1, DelPartyAllPosted DEF FieldRestart
  <2>2. SpentTypes'
    BY <1>10, SpendTypes DEF FieldRestart, BoundNames
  <2>3. NoCopy \in Copies /\ <<>> \in Seq(FieldNotices)
    BY DEF NoCopy, Copies
  <2>4. FieldTypes' /\ ClientTypes'
    BY <1>10, <2>3 DEF FieldRestart, FieldTypes, ClientTypes, clientVars
  <2> QED  BY <2>1, <2>2, <2>4
<1>11. CASE FieldReconnect
  <2>1. PICK k \in 0 .. Len(toField), s \in Orders({p \in Parties : Valid(p)}) :
             DelPartyAll(s, SubSeq(toField, 1, k))
    BY <1>11 DEF FieldReconnect
  <2>2. SubSeq(toField, 1, k) \in Seq(FieldNotices)
    BY <2>1, SubSeqProperties DEF Posted
  <2>3. Posted'
    BY <2>1, <2>2, DelPartyAllPosted
  <2>4. SpentTypes'
    BY <1>11, SpendTypes DEF FieldReconnect, BoundNames
  <2>5. FieldTypes' /\ ClientTypes'
    BY <1>11 DEF FieldReconnect, FieldTypes, ClientTypes, fieldVars, clientVars
  <2> QED  BY <2>3, <2>4, <2>5
<1>12. CASE AgentRestart
  <2>1. <<>> \in Seq(ClientNotices)
    OBVIOUS
  <2>2. Posted'
    BY <1>12, <2>1 DEF AgentRestart, Restart, Posted
  <2>3. SpentTypes'
    BY <1>12, SpendTypes DEF AgentRestart, BoundNames
  <2> QED  BY <1>12, <2>2, <2>3, EndTypes DEF AgentRestart
<1>13. CASE UNCHANGED netVars
  BY <1>13 DEF netVars, agentVars, fieldVars, clientVars, Posted, FieldTypes, ClientTypes, SpentTypes
<1> QED
  BY <1>1, <1>2, <1>3, <1>4, <1>5, <1>6, <1>7, <1>8, <1>9, <1>10, <1>11, <1>12, <1>13 DEF NetNext

LEMMA NetTypesInit == NetInit => NetTypes
<1> SUFFICES ASSUME NetInit PROVE NetTypes
  OBVIOUS
<1>1. NoView \in Views /\ Blank(NoView) /\ NoDialog \in Dialogs /\ NoCopy \in Copies
  BY DEF NoView, Views, Blank, NoDialog, Dialogs, NoCopy, Copies
<1>2. <<>> \in Seq(SentTypes) /\ <<>> \in Seq(FieldNotices) /\ <<>> \in Seq(ClientNotices)
  OBVIOUS
<1>3. Posted
  BY <1>2 DEF NetInit, AgentInit, Posted
<1>4. FieldTypes
  BY <1>1, <1>2 DEF NetInit, FieldTypes
<1>5. ClientTypes
  BY <1>1, <1>2 DEF NetInit, ClientTypes
<1>6. SpentTypes
  BY DEF NetInit, SpentTypes, Bounds, BoundNames
<1> QED  BY <1>3, <1>4, <1>5, <1>6 DEF NetTypes

\* Of what is under way, the strengthened types: a notice names parties and
\* ids there are, and a client that shows no party shows nobody in it.
THEOREM NetTypesHold == NetSpec => []NetTypes
  BY NetTypesInit, NetTypesStep, InvHolds, PTL DEF NetSpec

\* The agent, the field's records, and all that the clients show, ask and are
\* asked keep their types: a client asks nothing of a party it does not know
\* (GLPartyClient), however its two connections are interleaved.
THEOREM NetTypesOK == NetSpec => []NetTypeOK
<1>1. IInv /\ NetTypes => NetTypeOK
  <2> SUFFICES ASSUME IInv, NetTypes PROVE NetTypeOK
    OBVIOUS
  <2>1. \A g \in Ids : dialog[g].search \in Ids \cup {NoId}
    BY DEF NetTypes, ClientTypes, Dialogs
  <2>2. \A g \in Ids : Range(sent[g]) \subseteq SentTypes
    <3>1. ASSUME NEW g \in Ids, NEW x \in Range(sent[g]) PROVE x \in SentTypes
      <4>1. sent[g] \in Seq(SentTypes)
        BY DEF NetTypes, ClientTypes
      <4>2. PICK i \in DOMAIN sent[g] : x = sent[g][i]
        BY <3>1 DEF Range
      <4> QED  BY <4>1, <4>2, LenProperties, ElementOfSeq
    <3> QED  BY <3>1
  <2> QED  BY <2>1, <2>2 DEF IInv, NetTypes, FieldTypes, ClientTypes, Views, NetTypeOK
<1> QED  BY <1>1, InvHolds, NetTypesHold, PTL
-----------------------------------------------------------------------------
(* What a frame leaves behind *)

Clear(p) == party[p].member \subseteq OnLine(Ids) /\ Cardinality(party[p].member) # 1
Swept == turn # Idle => \A p \in Parties : p < turn => Clear(p)

ClearNow(p) == party'[p].member \subseteq OnLine(Ids) /\ Cardinality(party'[p].member) # 1

LEMMA EmptyClearNext ==
  ASSUME NEW p, party'[p].member = {}
  PROVE  Clear(p)' /\ ClearNow(p)
  BY FS_EmptySet DEF Clear, ClearNow

\* The party whose turn it was is clear, and the others are as they were.
LEMMA TurnClears ==
  ASSUME IInv, FrameMoveParty, NEW q \in Parties, q = turn
  PROVE  /\ turn' = q + 1 /\ who' = who /\ Clear(q)'
         /\ \A p \in Parties \ {q} : party'[p] = party[p]
<1>1. turn' = q + 1 /\ who' = who
  BY DEF FrameMoveParty, FrameNoParty, FrameLeaderless, FrameParty, NextTurn
<1>2. party \in [Parties -> Party]
  BY DEF IInv, AgentTypeOK
<1>3. CASE FrameNoParty
  <2>1. party' = party /\ party'[q].member = {}
    BY <1>3 DEF FrameNoParty, IInv, NoMembers
  <2> QED  BY <1>1, <2>1, EmptyClearNext
<1>4. CASE party' = [party EXCEPT ![q] = NoOne]
  <2>1. party'[q].member = {} /\ \A p \in Parties \ {q} : party'[p] = party[p]
    BY <1>2, <1>4, NoOneOK
  <2> QED  BY <1>1, <2>1, EmptyClearNext
<1>5. CASE FrameLeaderless
  BY <1>4, <1>5 DEF FrameLeaderless, DelParty
<1>6. ASSUME NEW a \in Ids, NEW s \in Orders(Gone(turn)), FrameParty(a, s),
             ~Alone(OnLine(Rest(q)))
      PROVE  Clear(q)' /\ \A p \in Parties \ {q} : party'[p] = party[p]
  <2> DEFINE left == OnLine(Rest(q))
             r == [Keep(party[q], left) EXCEPT !.master = a]
  <2>1. left = OnLine(party[q].member) /\ party[q] \in Party
    BY RestOK, MembersOK
  <2>2. party' = [party EXCEPT ![q] = r]
    BY <1>6 DEF FrameParty
  <2>3. Keep(party[q], left) \in Party /\ Keep(party[q], left).member = party[q].member \cap left
    BY <2>1, KeepOK
  <2>4. r.member = party[q].member \cap left
    BY <2>3 DEF Party
  <2>5. party[q].member \cap left = left
    BY <2>1 DEF OnLine
  <2>6. left \subseteq OnLine(Ids) /\ OnLine(Ids)' = OnLine(Ids)
    BY <1>1 DEF OnLine, On
  <2>7. Cardinality(left) # 1
    BY <1>6 DEF Alone
  <2> HIDE DEF r
  <2>8. party'[q].member = left /\ \A p \in Parties \ {q} : party'[p] = party[p]
    BY <1>2, <2>2, <2>4, <2>5
  <2> HIDE DEF left
  <2> QED  BY <2>6, <2>7, <2>8 DEF Clear
<1>7. ASSUME NEW a \in Ids, NEW s \in Orders(Gone(turn)), FrameParty(a, s),
             Alone(OnLine(Rest(q)))
      PROVE  party' = [party EXCEPT ![q] = NoOne]
  BY <1>7 DEF FrameParty, DelParty
<1> QED  BY <1>1, <1>3, <1>4, <1>5, <1>6, <1>7 DEF FrameMoveParty, FrameNoParty

LEMMA FrameSweeps ==
  ASSUME IInv, Swept, FrameMoveParty
  PROVE  \A p \in Parties : p < turn' => Clear(p)'
<1>0. PICK q \in Parties : q = turn
  BY TurnOK DEF FrameMoveParty, FrameNoParty, FrameLeaderless
<1>1. turn' = q + 1 /\ who' = who /\ Clear(q)' /\ \A p \in Parties \ {q} : party'[p] = party[p]
  BY <1>0, TurnClears
<1>2. turn # Idle
  BY <1>0, NumberAssumption DEF Parties, Idle
<1>3. ASSUME NEW p \in Parties, p < turn', p # q PROVE Clear(p)'
  <2>1. p < turn
    BY <1>0, <1>1, <1>3, NumberAssumption DEF Parties
  <2>2. Clear(p) /\ party'[p] = party[p]
    BY <1>1, <1>2, <1>3, <2>1 DEF Swept
  <2> QED  BY <1>1, <2>2 DEF Clear, OnLine, On
<1> QED  BY <1>1, <1>3

\* The steps that are not the frame's leave a frame under way alone.
LEMMA BetweenFrames ==
  ASSUME NetNext
  PROVE  \/ UNCHANGED <<who, party, turn>>
         \/ turn' = 0
         \/ turn = Idle /\ turn' = Idle
         \/ FrameMoveParty
         \/ turn' = Idle /\ party' = [p \in Parties |-> NoOne]
<1>1. CASE \E g \in Ids : Serve(g)
  <2>1. PICK g \in Ids : Obey(g, Head(sent[g])) /\ turn = Idle
    BY <1>1 DEF Serve
  <2>2. \A x, y : MsgPartyLure(x, y) \/ MsgPartySearchLure(x, y) => turn' = turn
    BY DEF MsgPartyLure, MsgPartySearchLure, keepPC
  <2>3. \A x, y : MsgPartyLureSearchTarOk(x, y) \/ MsgPartyLureSearchTarRefuse(x, y) => turn' = turn
    BY DEF MsgPartyLureSearchTarOk, MsgPartyLureSearchTarRefuse, keepPC
  <2>4. \A x, y, p : MsgPartyLureTarOk(x, y, p) \/ MsgPartyLureTarRefuse(x, y, p) => turn' = turn
    BY DEF MsgPartyLureTarOk, MsgPartyLureTarRefuse, keepPC
  <2>5. \A x, y, p : MsgPartySecede(x, p, y) \/ MsgPartyAuthority(x, p, y)
                      \/ MsgPartyDissolve(x, p) => turn' = turn
    BY DEF MsgPartySecede, MsgPartyAuthority, MsgPartyDissolve, keepPC
  <2>6. turn' = turn
    BY <2>1, <2>2, <2>3, <2>4, <2>5, Zenon DEF Obey, Unless, agentVars
  <2> QED  BY <2>1, <2>6
<1>2. CASE \E g \in Ids : Request(g)
  <2>1. PICK g \in Ids : Request(g)
    BY <1>2
  <2>2. \E m : Ask(g, m)
    <3>1. /\ \A t : Lure(g, t) => \E m : Ask(g, m)
          /\ \A t : ReqPartySearchJoin(g, t) => \E m : Ask(g, m)
      BY DEF Lure, ReqPartySearchJoin
    <3>2. /\ \A t : Secede(g, t) => \E m : Ask(g, m)
          /\ \A t : Authority(g, t) => \E m : Ask(g, m)
      BY DEF Secede, Authority
    <3>3. Dissolve(g) => \E m : Ask(g, m)
      BY DEF Dissolve
    <3>4. /\ \A ok : AnswerLure(g, ok) => \E m : Ask(g, m)
          /\ \A ok : AnswerSearch(g, ok) => \E m : Ask(g, m)
      BY DEF AnswerLure, AnswerSearch
    <3> QED  BY <2>1, <3>1, <3>2, <3>3, <3>4, Zenon DEF Request
  <2> QED  BY <2>2 DEF Ask, agentVars
<1>3. CASE \E g \in Ids : \/ ClientReadsAgent(g) \/ ClientReadsField(g)
                          \/ EnterField(g) \/ LeaveField(g)
  BY <1>3 DEF ClientReadsAgent, ClientReadsField, EnterField, LeaveField, agentVars
<1>4. CASE \E g \in Ids : LoginTwice(g) \/ \E c \in Chars : Login(g, c)
  BY <1>4 DEF LoginTwice, DropTwice, Login, CreatePC
<1>5. CASE FieldReads
  BY <1>5 DEF FieldReads
<1>6. CASE \E S \in SUBSET Ids : Frame(S)
  BY <1>6 DEF Frame, FrameMove
<1>7. CASE FrameGoesOn
  BY <1>7 DEF FrameGoesOn
<1>8. CASE FieldRestart \/ FieldReconnect
  BY <1>8 DEF FieldRestart, FieldReconnect, DelPartyAll, keepPC
<1>9. CASE AgentRestart
  BY <1>9 DEF AgentRestart, Restart
<1> QED  BY <1>1, <1>2, <1>3, <1>4, <1>5, <1>6, <1>7, <1>8, <1>9 DEF NetNext

LEMMA SweptStep == IInv /\ Swept /\ [NetNext]_netVars =>
                     Swept' /\ (FrameEnds => \A p \in Parties : ClearNow(p))
<1> SUFFICES ASSUME IInv, Swept, [NetNext]_netVars
             PROVE  Swept' /\ (FrameEnds => \A p \in Parties : ClearNow(p))
  OBVIOUS
<1>1. Parties \subseteq Int /\ Idle \in Int /\ \A p \in Parties : p >= 0 /\ p < Idle
  BY NumberAssumption DEF Parties, Idle
<1>2. CASE UNCHANGED <<who, party, turn>>
  BY <1>2 DEF Swept, Clear, OnLine, On, FrameEnds
<1>3. CASE turn' = 0
  <2>1. Swept'
    BY <1>1, <1>3 DEF Swept
  <2>2. FrameEnds => Parties = {}
    BY <1>3, NumberAssumption DEF FrameEnds, Idle, Parties
  <2> QED  BY <2>1, <2>2
<1>4. CASE turn = Idle /\ turn' = Idle
  BY <1>4 DEF Swept, FrameEnds, Idle
<1>5. CASE FrameMoveParty
  <2>1. \A p \in Parties : p < turn' => Clear(p)'
    BY <1>5, FrameSweeps
  <2>2. who' = who
    BY <1>5, TurnOK DEF FrameMoveParty, FrameNoParty, FrameLeaderless, FrameParty
  <2>3. ASSUME NEW p \in Parties, Clear(p)' PROVE ClearNow(p)
    BY <2>2, <2>3 DEF Clear, ClearNow, OnLine, On
  <2> QED  BY <1>1, <2>1, <2>3 DEF Swept, FrameEnds, Idle
<1>6. CASE turn' = Idle /\ party' = [p \in Parties |-> NoOne]
  <2>1. \A p \in Parties : Clear(p)' /\ ClearNow(p)
    BY <1>6, NoOneOK, EmptyClearNext
  <2> QED  BY <1>6, <2>1 DEF Swept, Idle
<1>7. CASE UNCHANGED netVars
  BY <1>2, <1>7 DEF netVars, agentVars
<1> QED  BY <1>2, <1>3, <1>4, <1>5, <1>6, <1>7, BetweenFrames

\* While a frame goes through the parties, those behind it have only members
\* on line and are not down to one: nothing comes between its steps.
THEOREM SweptHolds == NetSpec => []Swept
<1>1. NetInit => Swept
  BY DEF NetInit, AgentInit, Swept, Idle
<1> QED  BY <1>1, SweptStep, InvHolds, PTL DEF NetSpec

\* A frame (GLPartyMan::FrameMove) leaves no party with members who have gone,
\* and none with a single member, whoever went, led and was led.
THEOREM FrameClearsAll == NetSpec => FrameClears
<1>1. IInv /\ Swept /\ [NetNext]_netVars =>
        [FrameEnds => \A p \in Parties : /\ party'[p].member \subseteq OnLine(Ids)
                                         /\ Cardinality(party'[p].member) # 1]_netVars
  BY SweptStep DEF ClearNow
<1> QED  BY <1>1, InvHolds, SweptHolds, PTL DEF NetSpec, FrameClears
-----------------------------------------------------------------------------
(* What the field's records become when all that is under way is read *)

Move == [x \in FieldStates \X FieldNotices |-> Follow(x[1], x[2])]

LEMMA MoveType == Folds(Move, FieldStates, FieldNotices)
  BY FollowType DEF Move, Folds

LEMMA MoveIs ==
  ASSUME NEW f \in FieldStates, NEW m \in FieldNotices
  PROVE  Move[<<f, m>>] = Follow(f, m)
  BY DEF Move

\* The library's fold of Follow is what Follow makes of the notices one by one.
LEMMA ReplayIs ==
  ASSUME NEW f \in FieldStates, NEW q \in Seq(FieldNotices)
  PROVE  FoldLeft(Follow, f, q) = Outcome(Move, f, q)
<1> DEFINE E(it) == it = [s \in SUBSET (1 .. Len(q)) |->
                            IF s = {} THEN f
                            ELSE Follow(it[s \ {Greatest(s)}], q[Greatest(s)])]
           it == CHOOSE it : E(it)
<1>1. FoldLeft(Follow, f, q) = it[1 .. Len(q)]
  <2>1. DOMAIN q = 1 .. Len(q)
    BY LenProperties
  <2> QED  BY <2>1 DEF FoldLeft, MapThenFoldSet, Max, Greatest
<1>2. ASSUME NEW s \in SUBSET (1 .. Len(q)), s # {}
      PROVE  q[Greatest(s)] \in FieldNotices /\ s \ {Greatest(s)} \in SUBSET (1 .. Len(q))
  <2>1. Greatest(s) \in 1 .. Len(q)
    BY <1>2, GreatestOf, LenProperties
  <2> QED  BY <2>1, ElementOfSeq
<1>0. PICK r : IsSetFold(r, FieldStates, Move, f, q)
  BY MoveType, SetFoldExists
<1>3. /\ r \in [SUBSET (1 .. Len(q)) -> FieldStates]
      /\ \A s \in SUBSET (1 .. Len(q)) :
           r[s] = IF s = {} THEN f ELSE Move[<<r[s \ {Greatest(s)}], q[Greatest(s)]>>]
  BY <1>0 DEF IsSetFold
<1>4. ASSUME NEW s \in SUBSET (1 .. Len(q)), s # {}
      PROVE  r[s] = Follow(r[s \ {Greatest(s)}], q[Greatest(s)])
  <2>1. r[s \ {Greatest(s)}] \in FieldStates
    BY <1>2, <1>3, <1>4
  <2> QED  BY <1>2, <1>3, <1>4, <2>1, MoveIs
<1>5. E(r)
  <2>1. r = [s \in SUBSET (1 .. Len(q)) |-> r[s]]
    BY <1>3
  <2>2. \A s \in SUBSET (1 .. Len(q)) :
          r[s] = IF s = {} THEN f ELSE Follow(r[s \ {Greatest(s)}], q[Greatest(s)])
    BY <1>3, <1>4
  <2> QED  BY <2>1, <2>2
<1>6. E(it)
  BY <1>5
<1> HIDE DEF it
<1>7. it[{}] = f
  BY <1>6
<1>8. ASSUME NEW s \in SUBSET (1 .. Len(q)), s # {}, it[s \ {Greatest(s)}] \in FieldStates
      PROVE  it[s] = Move[<<it[s \ {Greatest(s)}], q[Greatest(s)]>>]
  <2>1. it[s] = Follow(it[s \ {Greatest(s)}], q[Greatest(s)])
    BY <1>6, <1>8
  <2> QED  BY <1>2, <1>8, <2>1, MoveIs
<1>9. it[1 .. Len(q)] = Outcome(Move, f, q)
  <2>1. ActsAsFold(it, FieldStates, Move, f, q)
    BY <1>7, <1>8 DEF ActsAsFold
  <2> QED  BY <2>1, MoveType, SetFoldIsOutcome
<1> QED  BY <1>1, <1>9

Caught == Outcome(Move, Field, toField)

LEMMA CaughtType ==
  ASSUME NetTypes
  PROVE  Caught \in FieldStates
  BY FieldTyped, MoveType, OutcomeType DEF NetTypes, Posted, Caught

\* A notice is put behind the others.
LEMMA CaughtSays ==
  ASSUME NetTypes, NEW m \in FieldNotices, toField' = Append(toField, m), Field' = Field
  PROVE  Caught' = Follow(Caught, m)
<1>1. Field \in FieldStates /\ toField \in Seq(FieldNotices)
  BY FieldTyped DEF NetTypes, Posted
<1>2. Outcome(Move, Field, Append(toField, m)) = Move[<<Outcome(Move, Field, toField), m>>]
  BY <1>1, MoveType, OutcomeAppend
<1> QED  BY <1>2, CaughtType, MoveIs DEF Caught

\* Reading changes nothing of what will be read.
LEMMA CaughtReads ==
  ASSUME NetTypes, FieldReads
  PROVE  Caught' = Caught
<1>1. Field \in FieldStates /\ toField \in Seq(FieldNotices) /\ toField # <<>>
      /\ toField' = Tail(toField) /\ Field' = Follow(Field, Head(toField))
  BY FieldTyped, FieldReadsTypes DEF NetTypes, Posted, FieldReads
<1>2. Head(toField) \in FieldNotices
  BY <1>1, TailOK
<1>3. Field' = Move[<<Field, Head(toField)>>]
  BY <1>1, <1>2, MoveIs
<1>4. Outcome(Move, Move[<<Field, Head(toField)>>], Tail(toField)) = Outcome(Move, Field, toField)
  BY <1>1, MoveType, OutcomeTail
<1> QED  BY <1>1, <1>3, <1>4 DEF Caught

\* What each notice does to records that hold its party.
LEMMA FollowNew ==
  ASSUME NEW f \in FieldStates, NEW p \in Parties, NEW a \in Ids, NEW S \in SUBSET Ids
  PROVE  /\ Follow(f, FNew(p, a, S)).copy[p] = [master |-> a, member |-> S]
         /\ \A o \in Parties \ {p} : Follow(f, FNew(p, a, S)).copy[o] = f.copy[o]
         /\ \A g \in Ids : Follow(f, FNew(p, a, S)).gaeaTo[g] =
                             IF g \in S \cup {a} THEN p ELSE f.gaeaTo[g]
<1> DEFINE m == FNew(p, a, S)
<1>1. m \in FieldNotices
  BY NoticesOK
<1>2. Follow(f, m) = MsgPartyFNew(f, m)
  BY <1>1, FollowIs DEF FNew
<1> QED  BY <1>2 DEF MsgPartyFNew, FNew, FieldStates

LEMMA FollowAdd ==
  ASSUME NEW f \in FieldStates, NEW p \in Parties, NEW g \in Ids, f.copy[p].master # NoId,
         Cardinality(f.copy[p].member) # MAXPARTY
  PROVE  /\ Follow(f, Add(p, g)).copy[p] =
              [master |-> f.copy[p].master, member |-> f.copy[p].member \cup {g}]
         /\ \A o \in Parties \ {p} : Follow(f, Add(p, g)).copy[o] = f.copy[o]
         /\ \A h \in Ids : Follow(f, Add(p, g)).gaeaTo[h] = IF h = g THEN p ELSE f.gaeaTo[h]
<1> DEFINE m == Add(p, g)
<1>1. m \in FieldNotices
  BY NoticesOK
<1>2. Follow(f, m) = MsgPartyAdd(f, m)
  BY <1>1, FollowIs DEF Add, Valued
<1>3. f.copy[p] \in Copies
  BY DEF FieldStates
<1>4. Enlist(f.copy[p], g) = [master |-> f.copy[p].master, member |-> f.copy[p].member \cup {g}]
  BY <1>3 DEF Enlist, Copies
<1> QED  BY <1>2, <1>4 DEF MsgPartyAdd, Add, FieldStates

LEMMA FollowDel ==
  ASSUME NEW f \in FieldStates, NEW p \in Parties, NEW g \in Ids, f.copy[p].master # NoId
  PROVE  /\ Follow(f, Del(p, g)).copy[p] =
              [master |-> f.copy[p].master, member |-> f.copy[p].member \ {g}]
         /\ \A o \in Parties \ {p} : Follow(f, Del(p, g)).copy[o] = f.copy[o]
         /\ \A h \in Ids : Follow(f, Del(p, g)).gaeaTo[h] = IF h = g THEN NoParty ELSE f.gaeaTo[h]
<1> DEFINE m == Del(p, g)
<1>1. m \in FieldNotices
  BY NoticesOK
<1>2. Follow(f, m) = MsgPartyDel(f, m)
  BY <1>1, FollowIs DEF Del, Valued
<1>3. f.copy[p] \in Copies
  BY DEF FieldStates
<1>4. [f.copy[p] EXCEPT !.member = @ \ {g}] = [master |-> f.copy[p].master, member |-> f.copy[p].member \ {g}]
  BY <1>3 DEF Copies
<1>5. /\ f.copy \in [Parties -> Copies] /\ f.gaeaTo \in [Ids -> Parties \cup {NoParty}]
      /\ m.party = p /\ m.who = g
  BY DEF FieldStates, Del
<1>6. /\ Follow(f, m).copy = [f.copy EXCEPT ![p] = [f.copy[p] EXCEPT !.member = @ \ {g}]]
      /\ Follow(f, m).gaeaTo = [f.gaeaTo EXCEPT ![g] = NoParty]
  BY <1>2, <1>5 DEF MsgPartyDel
<1> HIDE DEF m
<1>7. /\ Follow(f, m).copy[p] = [master |-> f.copy[p].master, member |-> f.copy[p].member \ {g}]
      /\ \A o \in Parties \ {p} : Follow(f, m).copy[o] = f.copy[o]
  BY <1>4, <1>5, <1>6
<1>8. \A h \in Ids : Follow(f, m).gaeaTo[h] = IF h = g THEN NoParty ELSE f.gaeaTo[h]
  BY <1>5, <1>6
<1> QED  BY <1>7, <1>8 DEF m

LEMMA FollowDissolved ==
  ASSUME NEW f \in FieldStates, NEW p \in Parties
  PROVE  /\ f.copy[p].master = NoId => Follow(f, Dissolved(p)) = f
         /\ f.copy[p].master # NoId =>
              /\ Follow(f, Dissolved(p)).copy[p] = NoCopy
              /\ \A o \in Parties \ {p} : Follow(f, Dissolved(p)).copy[o] = f.copy[o]
              /\ \A h \in Ids : Follow(f, Dissolved(p)).gaeaTo[h] =
                                  IF h \in f.copy[p].member THEN NoParty ELSE f.gaeaTo[h]
<1> DEFINE m == Dissolved(p)
<1>1. m \in FieldNotices /\ m.party = p /\ m.type = "DISSOLVE"
  BY DissolvedOK DEF Dissolved
<1>2. CASE f.copy[p].master = NoId
  BY <1>1, <1>2, FollowIs DEF Valued
<1>3. CASE f.copy[p].master # NoId
  <2>1. Follow(f, m) = MsgPartyDissolved(f, m)
    BY <1>1, <1>3, FollowIs DEF Valued
  <2> QED  BY <2>1, <1>1, <1>3 DEF MsgPartyDissolved, FieldStates
<1> QED  BY <1>2, <1>3

LEMMA FollowAuthority ==
  ASSUME NEW f \in FieldStates, NEW p \in Parties, NEW g \in Ids, f.copy[p].master # NoId
  PROVE  /\ Follow(f, AuthorityTo(p, g)).copy[p] = [master |-> g, member |-> f.copy[p].member]
         /\ \A o \in Parties \ {p} : Follow(f, AuthorityTo(p, g)).copy[o] = f.copy[o]
         /\ \A h \in Ids : Follow(f, AuthorityTo(p, g)).gaeaTo[h] = f.gaeaTo[h]
<1> DEFINE m == AuthorityTo(p, g)
<1>1. m \in FieldNotices
  BY NoticesOK
<1>2. Follow(f, m) = MsgPartyNewLeader(f, m)
  BY <1>1, FollowIs DEF AuthorityTo, Valued
<1>3. f.copy[p] \in Copies
  BY DEF FieldStates
<1>4. [f.copy[p] EXCEPT !.master = g] = [master |-> g, member |-> f.copy[p].member]
  BY <1>3 DEF Copies
<1> QED  BY <1>2, <1>4 DEF MsgPartyNewLeader, AuthorityTo, FieldStates

LEMMA FollowRenew ==
  ASSUME NEW f \in FieldStates, NEW p \in Parties, NEW g \in Ids, NEW a \in Ids,
         f.copy[p].master # NoId
  PROVE  /\ Follow(f, Renew(p, g, a)).copy[p] = [master |-> a, member |-> f.copy[p].member \ {g}]
         /\ \A o \in Parties \ {p} : Follow(f, Renew(p, g, a)).copy[o] = f.copy[o]
         /\ \A h \in Ids : Follow(f, Renew(p, g, a)).gaeaTo[h] = IF h = g THEN NoParty ELSE f.gaeaTo[h]
<1> DEFINE m == Renew(p, g, a)
<1>1. m \in FieldNotices
  BY NoticesOK
<1>2. Follow(f, m) = MsgPartyMasterRenew(f, m)
  BY <1>1, FollowIs DEF Renew, Valued
<1>3. /\ f.copy \in [Parties -> Copies] /\ f.gaeaTo \in [Ids -> Parties \cup {NoParty}]
      /\ m.party = p /\ m.old = g /\ m.new = a
  BY DEF FieldStates, Renew
<1>4. /\ Follow(f, m).copy = [f.copy EXCEPT ![p] = [master |-> a, member |-> f.copy[p].member \ {g}]]
      /\ Follow(f, m).gaeaTo = [f.gaeaTo EXCEPT ![g] = NoParty]
  BY <1>2, <1>3 DEF MsgPartyMasterRenew
<1> HIDE DEF m
<1>5. /\ Follow(f, m).copy[p] = [master |-> a, member |-> f.copy[p].member \ {g}]
      /\ \A o \in Parties \ {p} : Follow(f, m).copy[o] = f.copy[o]
  BY <1>3, <1>4
<1>6. \A h \in Ids : Follow(f, m).gaeaTo[h] = IF h = g THEN NoParty ELSE f.gaeaTo[h]
  BY <1>3, <1>4
<1> QED  BY <1>5, <1>6 DEF m

\* The notices q say of party p of f that the n characters of s are taken off.
TakesOff(f, p, s, n, q) ==
  /\ f \in FieldStates /\ p \in Parties /\ f.copy[p].master # NoId
  /\ n \in Nat /\ s \in [1 .. n -> Ids]
  /\ q = [i \in DOMAIN s |-> Del(p, s[i])]

\* They are, one after the other.
LEMMA FollowDels ==
  ASSUME NEW f, NEW p, NEW s, NEW n, NEW q, TakesOff(f, p, s, n, q)
  PROVE  LET k == Outcome(Move, f, q)
         IN /\ k \in FieldStates
            /\ k.copy[p] = [master |-> f.copy[p].master, member |-> f.copy[p].member \ Range(s)]
            /\ \A o \in Parties \ {p} : k.copy[o] = f.copy[o]
            /\ \A g \in Ids : k.gaeaTo[g] = IF g \in Range(s) THEN NoParty ELSE f.gaeaTo[g]
<1> DEFINE R(i) == {s[x] : x \in 1 .. i}
           Q(d, i) == /\ d.copy[p] = [master |-> f.copy[p].master, member |-> f.copy[p].member \ R(i)]
                      /\ \A o \in Parties \ {p} : d.copy[o] = f.copy[o]
                      /\ \A g \in Ids : d.gaeaTo[g] = IF g \in R(i) THEN NoParty ELSE f.gaeaTo[g]
           T == [i \in 0 .. n |-> {d \in FieldStates : Q(d, i)}]
<1> USE DEF TakesOff
<1>1. q \in Seq(FieldNotices) /\ Len(q) = n /\ \A i \in 1 .. n : q[i] = Del(p, s[i])
  <2>1. q \in [1 .. n -> FieldNotices]
    BY NoticesOK
  <2> QED  BY <2>1, SeqDef, LenProperties
<1>2. f \in T[0]
  <2>1. R(0) = {}
    OBVIOUS
  <2>2. f.copy[p] = [master |-> f.copy[p].master, member |-> f.copy[p].member]
    BY DEF FieldStates, Copies
  <2> HIDE DEF R
  <2>3. Q(f, 0)
    BY <2>1, <2>2
  <2> QED  BY <2>3
<1>3. ASSUME NEW i \in 1 .. n, NEW d \in FieldStates, d \in T[i - 1]
      PROVE  Move[<<d, q[i]>>] \in T[i]
  <2>1. i - 1 \in 0 .. n /\ i \in 0 .. n /\ s[i] \in Ids
    OBVIOUS
  <2>2. R(i) = R(i - 1) \cup {s[i]}
    OBVIOUS
  <2> HIDE DEF R
  <2>3. Q(d, i - 1)
    BY <1>3, <2>1
  <2>4. d.copy[p].master = f.copy[p].master /\ d.copy[p].member = f.copy[p].member \ R(i - 1)
    BY <2>3
  <2> DEFINE k == Follow(d, Del(p, s[i]))
  <2>5. /\ k.copy[p] = [master |-> d.copy[p].master, member |-> d.copy[p].member \ {s[i]}]
        /\ \A o \in Parties \ {p} : k.copy[o] = d.copy[o]
        /\ \A h \in Ids : k.gaeaTo[h] = IF h = s[i] THEN NoParty ELSE d.gaeaTo[h]
    BY <2>1, <2>4, FollowDel
  <2>6. k \in FieldStates
    BY <2>1, FollowType, NoticesOK
  <2> HIDE DEF k
  <2>7. Q(k, i)
    <3>1. (f.copy[p].member \ R(i - 1)) \ {s[i]} = f.copy[p].member \ R(i)
      BY <2>2
    <3> QED  BY <2>2, <2>3, <2>4, <2>5, <3>1
  <2>8. Move[<<d, q[i]>>] = k
    BY <1>1, <2>1, MoveIs, NoticesOK DEF k
  <2> HIDE DEF Q
  <2> QED  BY <2>1, <2>6, <2>7, <2>8
<1>4. R(n) = Range(s)
  BY DEF Range
<1> HIDE DEF T
<1>5. Outcome(Move, f, q) \in FieldStates /\ Outcome(Move, f, q) \in T[Len(q)]
  BY <1>1, <1>2, <1>3, MoveType, OutcomeIn
<1>6. n \in 0 .. n
  OBVIOUS
<1>7. Q(Outcome(Move, f, q), n)
  BY <1>1, <1>5, <1>6 DEF T
<1> HIDE DEF R
<1> QED  BY <1>4, <1>5, <1>7

\* Records that hold no party stay as they are, whatever is dissolved.
LEMMA FollowNothing ==
  ASSUME NEW f \in FieldStates, \A p \in Parties : f.copy[p].master = NoId,
         NEW s, NEW n \in Nat, s \in [1 .. n -> Parties]
  PROVE  Outcome(Move, f, [i \in DOMAIN s |-> Dissolved(s[i])]) = f
<1> DEFINE q == [i \in DOMAIN s |-> Dissolved(s[i])]
           T == [i \in 0 .. n |-> {f}]
<1>1. q \in Seq(FieldNotices) /\ Len(q) = n /\ \A i \in 1 .. n : q[i] = Dissolved(s[i])
  <2>1. q \in [1 .. n -> FieldNotices]
    BY DissolvedOK
  <2> QED  BY <2>1, SeqDef, LenProperties
<1>2. f \in T[0]
  OBVIOUS
<1>3. ASSUME NEW i \in 1 .. n, NEW d \in FieldStates, d \in T[i - 1]
      PROVE  Move[<<d, q[i]>>] \in T[i]
  <2>1. d = f /\ i \in 0 .. n /\ s[i] \in Parties
    BY <1>3
  <2>2. Move[<<f, Dissolved(s[i])>>] = f
    BY <2>1, MoveIs, DissolvedOK, FollowDissolved
  <2> QED  BY <1>1, <2>1, <2>2
<1> HIDE DEF q, T
<1>4. Outcome(Move, f, q) \in T[Len(q)]
  BY <1>1, <1>2, <1>3, MoveType, OutcomeIn
<1> QED  BY <1>1, <1>4 DEF q, T
-----------------------------------------------------------------------------
(* The field's records follow the agent's parties *)

AsCopied(r) == [master |-> r.master, member |-> r.member]

\* Beyond what is to be shown: the field takes nobody for a member of a party
\* whom the party does not list.  Who comes on line is in none.
Agrees(f) ==
  /\ \A p \in Parties : f.copy[p] = AsCopied(party[p])
  /\ \A g \in Ids : On(g) => f.gaeaTo[g] = pid[g]
  /\ \A g \in Ids : f.gaeaTo[g] # NoParty => g \in party[f.gaeaTo[g]].member

CaughtUp == ~apart => Agrees(Caught)

\* Party p becomes r at the agent, and the field's f becomes k.
Copied(f, k, p, r) ==
  /\ party' = [party EXCEPT ![p] = r] /\ who' = who
  /\ k.copy[p] = AsCopied(r) /\ \A o \in Parties \ {p} : k.copy[o] = f.copy[o]
  /\ \A g \in Ids : On(g) => k.gaeaTo[g] = pid'[g]
  /\ \A g \in Ids : k.gaeaTo[g] # NoParty =>
       \/ k.gaeaTo[g] = p /\ g \in r.member
       \/ k.gaeaTo[g] = f.gaeaTo[g] /\ f.gaeaTo[g] # p

LEMMA AgreeOne ==
  ASSUME IInv, NEW f \in FieldStates, Agrees(f), NEW k \in FieldStates,
         NEW p \in Parties, NEW r, Copied(f, k, p, r)
  PROVE  Agrees(k)'
<1> USE DEF Copied
<1>1. party'[p] = r /\ \A o \in Parties \ {p} : party'[o] = party[o]
  BY DEF IInv, AgentTypeOK
<1>2. \A o \in Parties : k.copy[o] = AsCopied(party'[o])
  BY <1>1 DEF Agrees
<1>3. \A g \in Ids : On(g)' => k.gaeaTo[g] = pid'[g]
  BY DEF On
<1>4. ASSUME NEW g \in Ids, k.gaeaTo[g] # NoParty PROVE g \in party'[k.gaeaTo[g]].member
  <2>1. k.gaeaTo[g] \in Parties
    BY <1>4 DEF FieldStates
  <2> QED  BY <1>1, <1>4, <2>1 DEF Agrees
<1> QED  BY <1>2, <1>3, <1>4 DEF Agrees

\* Nothing of it changes.
LEMMA AgreeSame ==
  ASSUME NEW f, Agrees(f), UNCHANGED <<who, pid, party>>
  PROVE  Agrees(f)'
  BY DEF Agrees, On

LEMMA AgreesAt ==
  ASSUME IInv, NEW f \in FieldStates, Agrees(f), NEW p \in Parties
  PROVE  /\ f.copy[p].master = party[p].master /\ f.copy[p].member = party[p].member
         /\ Valid(p) => f.copy[p].master # NoId
         /\ \A g \in Ids : f.gaeaTo[g] = p => g \in party[p].member
<1>1. f.copy[p] = [master |-> party[p].master, member |-> party[p].member]
  BY DEF Agrees, AsCopied
<1>2. ASSUME NEW g \in Ids, f.gaeaTo[g] = p PROVE g \in party[p].member
  <2>1. f.gaeaTo[g] # NoParty
    BY <1>2, NullAssumption
  <2> QED  BY <1>2, <2>1 DEF Agrees
<1> QED  BY <1>1, <1>2 DEF Valid

LEMMA AgreeNew ==
  ASSUME IInv, NEW f \in FieldStates, Agrees(f), NEW a, NEW t, On(a), On(t),
         NewParty(a, t), keepPC
  PROVE  \E m \in FieldNotices : toField' = Append(toField, m) /\ Agrees(Follow(f, m))'
<1>1. free \in Seq(Parties) /\ free # <<>> /\ Distinct(free)
  BY DEF IInv, AgentTypeOK, NewParty, IdsOnce, Distinct
<1>2. PICK p \in Parties : p = Head(free)
  BY <1>1, FreeTail
<1> DEFINE r == [master |-> a, member |-> {a, t}, before |-> {<<a, t>>}]
           m == FNew(p, a, {a, t})
           k == Follow(f, m)
<1>3. a \in Ids /\ t \in Ids /\ {a, t} \in SUBSET Ids
  BY DEF On
<1>4. /\ party' = [party EXCEPT ![p] = r] /\ pid' = [pid EXCEPT ![a] = p, ![t] = p]
      /\ toField' = Append(toField, m) /\ who' = who
  BY <1>2 DEF NewParty, keepPC
<1>5. m \in FieldNotices /\ k \in FieldStates
  BY <1>3, NoticesOK, FollowType
<1>6. /\ k.copy[p] = AsCopied(r) /\ \A o \in Parties \ {p} : k.copy[o] = f.copy[o]
      /\ \A g \in Ids : k.gaeaTo[g] = IF g \in {a, t} THEN p ELSE f.gaeaTo[g]
  <2>1. /\ k.copy[p] = [master |-> a, member |-> {a, t}]
        /\ \A o \in Parties \ {p} : k.copy[o] = f.copy[o]
        /\ \A g \in Ids : k.gaeaTo[g] = IF g \in {a, t} \cup {a} THEN p ELSE f.gaeaTo[g]
    <3>1. {a, t} \in SUBSET Ids
      BY <1>3
    <3> HIDE DEF r
    <3> QED  BY <1>3, <3>1, FollowNew, SMTT(20)
  <2> HIDE DEF k
  <2> QED  BY <2>1 DEF AsCopied
<1>7. party[p].member = {}
  BY <1>1, <1>2, FreeTail DEF IInv, IdsOnce, NoMembers
<1>8. \A g \in Ids : f.gaeaTo[g] # p
  BY <1>7, AgreesAt
<1>9. pid \in [Ids -> Parties \cup {NoParty}] /\ r.member = {a, t}
  BY DEF IInv, AgentTypeOK
<1> HIDE DEF r, m, k
<1>10. \A g \in Ids : On(g) => k.gaeaTo[g] = pid'[g]
  BY <1>3, <1>4, <1>6, <1>9 DEF Agrees
<1>11. Agrees(k)'
  <2>1. Copied(f, k, p, r)
    BY <1>4, <1>5, <1>6, <1>8, <1>9, <1>10 DEF Copied
  <2> QED  BY <1>4, <1>5, <1>6, <1>8, <1>9, <1>10, <2>1, AgreeOne
<1> QED  BY <1>4, <1>5, <1>11 DEF k

LEMMA AgreeJoin ==
  ASSUME IInv, NEW f \in FieldStates, Agrees(f), NEW a, NEW t, On(a), On(t),
         Valid(pid[a]), ~IsFull(pid[a]), Join(a, t), keepPC
  PROVE  \E m \in FieldNotices : toField' = Append(toField, m) /\ Agrees(Follow(f, m))'
<1>1. PICK p \in Parties : p = pid[a]
  BY DEF Valid
<1> DEFINE r == AddMember(party[p], t)
           m == Add(p, t)
           k == Follow(f, m)
<1>2. t \in Ids /\ party[p] \in Party
  BY MembersOK DEF On
<1>3. /\ party' = [party EXCEPT ![p] = r] /\ pid' = [pid EXCEPT ![t] = p]
      /\ toField' = Append(toField, m) /\ who' = who
  BY <1>1 DEF Join, keepPC
<1>4. m \in FieldNotices /\ k \in FieldStates
  BY <1>2, NoticesOK, FollowType
<1>5. /\ f.copy[p].master = party[p].master /\ f.copy[p].member = party[p].member
      /\ f.copy[p].master # NoId /\ Cardinality(f.copy[p].member) # MAXPARTY
      /\ \A g \in Ids : f.gaeaTo[g] = p => g \in party[p].member
  BY <1>1, AgreesAt DEF IsFull
<1>6. r.master = party[p].master /\ r.member = party[p].member \cup {t}
  BY <1>2, AddMemberOK
<1>7. /\ k.copy[p] = AsCopied(r) /\ \A o \in Parties \ {p} : k.copy[o] = f.copy[o]
      /\ \A g \in Ids : k.gaeaTo[g] = IF g = t THEN p ELSE f.gaeaTo[g]
  BY <1>2, <1>5, <1>6, FollowAdd DEF AsCopied
<1>8. pid \in [Ids -> Parties \cup {NoParty}]
  BY DEF IInv, AgentTypeOK
<1> HIDE DEF r, m, k
<1>9. \A g \in Ids : On(g) => k.gaeaTo[g] = pid'[g]
  BY <1>2, <1>3, <1>7, <1>8 DEF Agrees
<1>10. \A g \in Ids : k.gaeaTo[g] # NoParty =>
         \/ k.gaeaTo[g] = p /\ g \in r.member
         \/ k.gaeaTo[g] = f.gaeaTo[g] /\ f.gaeaTo[g] # p
  BY <1>5, <1>6, <1>7
<1>11. Agrees(k)'
  <2>1. Copied(f, k, p, r)
    BY <1>3, <1>4, <1>7, <1>9, <1>10 DEF Copied
  <2> QED  BY <1>3, <1>4, <1>7, <1>9, <1>10, <2>1, AgreeOne
<1> QED  BY <1>3, <1>4, <1>11 DEF k

LEMMA AgreeSecede ==
  ASSUME IInv, NEW f \in FieldStates, Agrees(f), NEW g, NEW p, NEW t, MsgPartySecede(g, p, t)
  PROVE  \E m \in FieldNotices : toField' = Append(toField, m) /\ Agrees(Follow(f, m))'
<1>1. p \in Parties /\ Valid(p) /\ t \in Ids
  BY DEF MsgPartySecede, MayCommand, Valid, On
<1> DEFINE r == Keep(party[p], Ids \ {t})
           m == Del(p, t)
           k == Follow(f, m)
<1>2. party[p] \in Party /\ party[p].member \in SUBSET Ids
  BY <1>1, MembersOK
<1>3. /\ party' = [party EXCEPT ![p] = r] /\ pid' = [pid EXCEPT ![t] = NoParty]
      /\ toField' = Append(toField, m) /\ who' = who
  BY DEF MsgPartySecede, keepPC
<1>4. m \in FieldNotices /\ k \in FieldStates
  BY <1>1, NoticesOK, FollowType
<1>5. /\ f.copy[p].master = party[p].master /\ f.copy[p].member = party[p].member
      /\ f.copy[p].master # NoId
      /\ \A h \in Ids : f.gaeaTo[h] = p => h \in party[p].member
  BY <1>1, AgreesAt
<1>6. r.master = party[p].master /\ r.member = party[p].member \ {t}
  BY <1>2, KeepOK
<1>7. /\ k.copy[p] = AsCopied(r) /\ \A o \in Parties \ {p} : k.copy[o] = f.copy[o]
      /\ \A h \in Ids : k.gaeaTo[h] = IF h = t THEN NoParty ELSE f.gaeaTo[h]
  <2>1. /\ k.copy[p] = [master |-> f.copy[p].master, member |-> f.copy[p].member \ {t}]
        /\ \A o \in Parties \ {p} : k.copy[o] = f.copy[o]
        /\ \A h \in Ids : k.gaeaTo[h] = IF h = t THEN NoParty ELSE f.gaeaTo[h]
    BY <1>1, <1>5, FollowDel
  <2> HIDE DEF k, r
  <2> QED  BY <2>1, <1>5, <1>6 DEF AsCopied
<1>8. pid \in [Ids -> Parties \cup {NoParty}]
  BY DEF IInv, AgentTypeOK
<1> HIDE DEF r, m, k
<1>9. \A h \in Ids : On(h) => k.gaeaTo[h] = pid'[h]
  BY <1>1, <1>3, <1>7, <1>8 DEF Agrees
<1>10. \A h \in Ids : k.gaeaTo[h] # NoParty =>
         \/ k.gaeaTo[h] = p /\ h \in r.member
         \/ k.gaeaTo[h] = f.gaeaTo[h] /\ f.gaeaTo[h] # p
  BY <1>5, <1>6, <1>7
<1>11. Agrees(k)'
  <2>1. Copied(f, k, p, r)
    BY <1>1, <1>3, <1>4, <1>7, <1>9, <1>10 DEF Copied
  <2> QED  BY <1>1, <1>3, <1>4, <1>7, <1>9, <1>10, <2>1, AgreeOne
<1> QED  BY <1>3, <1>4, <1>11 DEF k

LEMMA AgreeAuthority ==
  ASSUME IInv, NEW f \in FieldStates, Agrees(f), NEW g, NEW p, NEW t, MsgPartyAuthority(g, p, t)
  PROVE  \E m \in FieldNotices : toField' = Append(toField, m) /\ Agrees(Follow(f, m))'
<1>1. p \in Parties /\ Valid(p) /\ t \in Ids
  BY DEF MsgPartyAuthority, MayCommand, Valid, On
<1> DEFINE r == [party[p] EXCEPT !.master = t]
           m == AuthorityTo(p, t)
           k == Follow(f, m)
<1>2. party[p] \in Party
  BY <1>1, MembersOK
<1>3. /\ party' = [party EXCEPT ![p] = r] /\ pid' = pid
      /\ toField' = Append(toField, m) /\ who' = who
  BY DEF MsgPartyAuthority, keepPC
<1>4. m \in FieldNotices /\ k \in FieldStates
  BY <1>1, NoticesOK, FollowType
<1>5. /\ f.copy[p].member = party[p].member /\ f.copy[p].master # NoId
      /\ \A h \in Ids : f.gaeaTo[h] = p => h \in party[p].member
  BY <1>1, AgreesAt
<1>6. r.master = t /\ r.member = party[p].member
  BY <1>2 DEF Party
<1>7. /\ k.copy[p] = AsCopied(r) /\ \A o \in Parties \ {p} : k.copy[o] = f.copy[o]
      /\ \A h \in Ids : k.gaeaTo[h] = f.gaeaTo[h]
  BY <1>1, <1>5, <1>6, FollowAuthority DEF AsCopied
<1> HIDE DEF r, m, k
<1>8. \A h \in Ids : On(h) => k.gaeaTo[h] = pid'[h]
  BY <1>3, <1>7 DEF Agrees
<1>9. \A h \in Ids : k.gaeaTo[h] # NoParty =>
         \/ k.gaeaTo[h] = p /\ h \in r.member
         \/ k.gaeaTo[h] = f.gaeaTo[h] /\ f.gaeaTo[h] # p
  BY <1>5, <1>6, <1>7
<1>10. Agrees(k)'
  <2>1. Copied(f, k, p, r)
    BY <1>1, <1>3, <1>4, <1>7, <1>8, <1>9 DEF Copied
  <2> QED  BY <1>1, <1>3, <1>4, <1>7, <1>8, <1>9, <2>1, AgreeOne
<1> QED  BY <1>3, <1>4, <1>10 DEF k

\* The field's f has become e by changes to party p alone: it lists S on line.
Reduced(f, e, p, S) ==
  /\ e.copy[p].master # NoId /\ \A o \in Parties \ {p} : e.copy[o] = f.copy[o]
  /\ \A g \in Ids : On(g) => (g \in e.copy[p].member <=> g \in S)
  /\ \A g \in Ids : \/ g \in e.copy[p].member
                    \/ e.gaeaTo[g] = NoParty
                    \/ e.gaeaTo[g] = f.gaeaTo[g] /\ f.gaeaTo[g] # p
  /\ \A g \in Ids : On(g) /\ g \notin e.copy[p].member => e.gaeaTo[g] = f.gaeaTo[g]

LEMMA AgreeDissolved ==
  ASSUME IInv, NEW f \in FieldStates, Agrees(f), NEW e \in FieldStates,
         NEW p \in Parties, NEW S \in SUBSET Ids, Reduced(f, e, p, S),
         NEW field, NEW client, DelParty(p, S, field, client), who' = who
  PROVE  Agrees(Follow(e, Dissolved(p)))'
<1> USE DEF Reduced
<1> DEFINE k == Follow(e, Dissolved(p))
<1>1. k \in FieldStates
  BY DissolvedOK, FollowType
<1>2. /\ k.copy[p] = NoCopy /\ \A o \in Parties \ {p} : k.copy[o] = e.copy[o]
      /\ \A g \in Ids : k.gaeaTo[g] = IF g \in e.copy[p].member THEN NoParty ELSE e.gaeaTo[g]
  BY FollowDissolved
<1>3. party' = [party EXCEPT ![p] = NoOne]
      /\ pid' = [g \in Ids |-> IF g \in OnLine(S) THEN NoParty ELSE pid[g]]
  BY DEF DelParty
<1>4. k.copy[p] = AsCopied(NoOne)
  BY <1>2 DEF AsCopied, NoOne, NoCopy
<1> HIDE DEF k
<1>5. \A g \in Ids : On(g) => k.gaeaTo[g] = pid'[g]
  BY <1>2, <1>3 DEF Agrees, OnLine
<1>6. \A g \in Ids : k.gaeaTo[g] # NoParty => k.gaeaTo[g] = f.gaeaTo[g] /\ f.gaeaTo[g] # p
  BY <1>2
<1>7. \A o \in Parties \ {p} : k.copy[o] = f.copy[o]
  BY <1>2
<1>8. Copied(f, k, p, NoOne)
  BY <1>3, <1>4, <1>5, <1>6, <1>7 DEF Copied
<1>9. Agrees(k)'
  BY <1>1, <1>8, AgreeOne
<1> QED  BY <1>9 DEF k

LEMMA AgreeGone ==
  ASSUME IInv, NEW f \in FieldStates, Agrees(f), NEW p \in Parties, Valid(p),
         NEW S \in SUBSET Ids, OnLine(S) = OnLine(party[p].member),
         NEW client, DelParty(p, S, toField, client), who' = who
  PROVE  \E m \in FieldNotices : toField' = Append(toField, m) /\ Agrees(Follow(f, m))'
<1>1. /\ f.copy[p].member = party[p].member /\ f.copy[p].master # NoId
      /\ \A h \in Ids : f.gaeaTo[h] = p => h \in party[p].member
  BY AgreesAt
<1>2. \A g \in Ids : On(g) => (g \in f.copy[p].member <=> g \in S)
  BY <1>1 DEF OnLine
<1>3. Reduced(f, f, p, S)
  BY <1>1, <1>2 DEF Reduced
<1>4. Agrees(Follow(f, Dissolved(p)))'
  BY <1>3, AgreeDissolved
<1> QED  BY <1>4, DissolvedOK DEF DelParty

LEMMA AgreesBecomes ==
  ASSUME NEW k, Agrees(k)', Caught' = k
  PROVE  Agrees(Caught)'
  BY DEF Agrees

\* A handler that says one thing, or nothing.
LEMMA AgreeSays ==
  ASSUME NetTypes, NEW f, f = Caught, Field' = Field,
         \E m \in FieldNotices : toField' = Append(toField, m) /\ Agrees(Follow(f, m))'
  PROVE  Agrees(Caught)'
<1>1. PICK m \in FieldNotices : toField' = Append(toField, m) /\ Agrees(Follow(f, m))'
  OBVIOUS
<1>2. Caught' = Follow(f, m)
  BY <1>1, CaughtSays
<1> QED  BY <1>1, <1>2, AgreesBecomes

LEMMA AgreeQuiet ==
  ASSUME NEW f, f = Caught, Agrees(f), Field' = Field, UNCHANGED <<who, pid, party, toField>>
  PROVE  Agrees(Caught)'
<1>1. Caught' = f
  BY DEF Caught
<1> QED  BY <1>1, AgreeSame, AgreesBecomes

LEMMA AgreeObey ==
  ASSUME IInv, NetTypes, Agrees(Caught), NEW g \in Ids, NEW m, Obey(g, m), Field' = Field
  PROVE  Agrees(Caught)'
<1>0. PICK f \in FieldStates : f = Caught
  BY CaughtType
<1>a. Agrees(f)
  BY <1>0
<1> DEFINE Says == \E n \in FieldNotices : toField' = Append(toField, n) /\ Agrees(Follow(f, n))'
<1>1. CASE UNCHANGED <<who, pid, party, toField>>
  BY <1>0, <1>a, <1>1, AgreeQuiet
<1>2. CASE \/ UNCHANGED agentVars
           \/ MsgPartyLure(g, m.who) \/ MsgPartySearchLure(g, m.who)
           \/ MsgPartyLureTarRefuse(m.who, g, m.party)
           \/ MsgPartyLureSearchTarRefuse(g, m.who)
  BY <1>1, <1>2 DEF agentVars, keepPC, MsgPartyLure, MsgPartySearchLure,
     MsgPartyLureTarRefuse, MsgPartyLureSearchTarRefuse
<1>3. CASE MsgPartyLureTarOk(m.who, g, m.party)
  <2>1. On(m.who) /\ On(g) /\ keepPC
    BY <1>3 DEF MsgPartyLureTarOk, Accepts, MayAnswer
  <2>2. CASE NewParty(m.who, g)
    <3>1. Says
      BY <1>0, <1>a, <2>1, <2>2, AgreeNew
    <3> QED  BY <1>0, <3>1, AgreeSays
  <2>3. CASE NoNewParty
    BY <1>1, <2>1, <2>3 DEF NoNewParty, keepPC
  <2>4. CASE ~First(m.who, m.party)
    <3>1. Valid(pid[m.who]) /\ ~IsFull(pid[m.who]) /\ Join(m.who, g)
      BY <1>3, <2>4 DEF MsgPartyLureTarOk, Accepts, MayAnswer
    <3>2. Says
      BY <1>0, <1>a, <2>1, <3>1, AgreeJoin
    <3> QED  BY <1>0, <3>2, AgreeSays
  <2> QED  BY <1>3, <2>2, <2>3, <2>4 DEF MsgPartyLureTarOk
<1>4. CASE MsgPartyLureSearchTarOk(g, m.who)
  <2>1. /\ On(m.who) /\ On(g) /\ keepPC
        /\ Valid(pid[g]) /\ ~IsFull(pid[g]) /\ Join(g, m.who)
    BY <1>4 DEF MsgPartyLureSearchTarOk, Admits, MayAnswerSearch
  <2>2. Says
    BY <1>0, <1>a, <2>1, AgreeJoin
  <2> QED  BY <1>0, <2>2, AgreeSays
<1>5. CASE MsgPartySecede(g, m.party, m.who)
  <2>1. Says
    BY <1>0, <1>a, <1>5, AgreeSecede
  <2> QED  BY <1>0, <2>1, AgreeSays
<1>6. CASE MsgPartyAuthority(g, m.party, m.who)
  <2>1. Says
    BY <1>0, <1>a, <1>6, AgreeAuthority
  <2> QED  BY <1>0, <2>1, AgreeSays
<1>7. CASE MsgPartyDissolve(g, m.party)
  <2>1. PICK p \in Parties : p = m.party /\ Valid(p)
    BY <1>7 DEF MsgPartyDissolve, MayDissolve, Valid
  <2>2. DelParty(p, party[p].member, toField, toClient) /\ who' = who
    BY <1>7, <2>1 DEF MsgPartyDissolve, keepPC
  <2>3. PICK S \in SUBSET Ids : S = party[p].member
    BY MembersOK
  <2>4. Says
    BY <1>0, <1>a, <2>1, <2>2, <2>3, AgreeGone
  <2> QED  BY <1>0, <2>4, AgreeSays
<1> HIDE DEF Says
<1> QED
  BY <1>2, <1>3, <1>4, <1>5, <1>6, <1>7 DEF Obey, Unless

\* The first notice of the frame to a party whose leader has gone.
Renewed(p, a) ==
  IF On(party[p].master) THEN toField ELSE Append(toField, Renew(p, party[p].master, a))

LEMMA AgreeRenewed ==
  ASSUME IInv, NetTypes, NEW f \in FieldStates, f = Caught, Agrees(f),
         NEW p \in Parties, Valid(p), NEW a \in Ids, Leads(p, a)
  PROVE  /\ Renewed(p, a) \in Seq(FieldNotices)
         /\ \E e \in FieldStates :
              /\ Outcome(Move, Field, Renewed(p, a)) = e
              /\ e.copy[p] = [master |-> a, member |-> Rest(p)]
              /\ \A o \in Parties \ {p} : e.copy[o] = f.copy[o]
              /\ \A g \in Ids : e.gaeaTo[g] = IF ~On(g) /\ g = party[p].master
                                              THEN NoParty ELSE f.gaeaTo[g]
<1>1. Field \in FieldStates /\ toField \in Seq(FieldNotices)
  BY FieldTyped DEF NetTypes, Posted
<1>2. party[p] \in Party /\ party[p].master \in Ids
  BY MembersOK DEF Valid, Party
<1>3. PICK old \in Ids : old = party[p].master
  BY <1>2
<1>4. /\ f.copy[p].master = old /\ f.copy[p].member = party[p].member
      /\ f.copy[p].master # NoId
  BY <1>3, AgreesAt
<1>5. CASE On(old)
  <2>1. a = old /\ Rest(p) = party[p].member /\ Renewed(p, a) = toField
    BY <1>3, <1>5 DEF Leads, Rest, Renewed
  <2>2. f.copy[p] = [master |-> f.copy[p].master, member |-> f.copy[p].member]
    BY DEF FieldStates, Copies
  <2>3. Outcome(Move, Field, Renewed(p, a)) = f
    BY <2>1 DEF Caught
  <2> QED  BY <1>1, <1>3, <1>4, <1>5, <2>1, <2>2, <2>3
<1>6. CASE ~On(old)
  <2>1. Rest(p) = party[p].member \ {old} /\ Renewed(p, a) = Append(toField, Renew(p, old, a))
    BY <1>3, <1>6 DEF Rest, Renewed
  <2>2. Renew(p, old, a) \in FieldNotices
    BY NoticesOK
  <2>3. Outcome(Move, Field, Append(toField, Renew(p, old, a))) = Move[<<f, Renew(p, old, a)>>]
    BY <1>1, <2>2, MoveType, OutcomeAppend DEF Caught
  <2>4. PICK e \in FieldStates : e = Follow(f, Renew(p, old, a))
    BY <2>2, FollowType
  <2>5. Outcome(Move, Field, Renewed(p, a)) = e
    BY <2>1, <2>2, <2>3, <2>4, MoveIs
  <2>6. /\ e.copy[p] = [master |-> a, member |-> f.copy[p].member \ {old}]
        /\ \A o \in Parties \ {p} : e.copy[o] = f.copy[o]
        /\ \A h \in Ids : e.gaeaTo[h] = IF h = old THEN NoParty ELSE f.gaeaTo[h]
    BY <1>4, <2>4, FollowRenew
  <2>8. Renewed(p, a) \in Seq(FieldNotices)
    BY <1>1, <2>1, <2>2, AppendProperties
  <2>9. /\ e.copy[p] = [master |-> a, member |-> Rest(p)]
        /\ \A g \in Ids : e.gaeaTo[g] = IF ~On(g) /\ g = party[p].master
                                        THEN NoParty ELSE f.gaeaTo[g]
    BY <1>3, <1>4, <1>6, <2>1, <2>6
  <2> QED  BY <2>5, <2>6, <2>8, <2>9
<1> QED  BY <1>5, <1>6

\* All the frame says to the field of a party that stays or is to be dissolved.
FrameSays(p, a, s) == Renewed(p, a) \o [i \in DOMAIN s |-> Del(p, s[i])]

LEMMA AgreeFrameSays ==
  ASSUME IInv, NetTypes, NEW f \in FieldStates, f = Caught, Agrees(f),
         NEW p \in Parties, Valid(p), NEW a \in Ids, Leads(p, a),
         NEW s \in Orders(Gone(p)), \A g \in Gone(p) : \E i \in DOMAIN s : s[i] = g
  PROVE  /\ FrameSays(p, a, s) \in Seq(FieldNotices)
         /\ \E k \in FieldStates :
              /\ Outcome(Move, Field, FrameSays(p, a, s)) = k
              /\ k.copy[p] = [master |-> a, member |-> OnLine(Rest(p))]
              /\ \A o \in Parties \ {p} : k.copy[o] = f.copy[o]
              /\ \A g \in Ids : On(g) => k.gaeaTo[g] = f.gaeaTo[g]
              /\ \A g \in Ids : \/ g \in OnLine(Rest(p))
                                \/ k.gaeaTo[g] = NoParty
                                \/ k.gaeaTo[g] = f.gaeaTo[g] /\ f.gaeaTo[g] # p
<1> DEFINE dels == [i \in DOMAIN s |-> Del(p, s[i])]
<1>1. Field \in FieldStates /\ Renewed(p, a) \in Seq(FieldNotices)
  BY FieldTyped, AgreeRenewed DEF NetTypes
<1>2. PICK e \in FieldStates :
        /\ Outcome(Move, Field, Renewed(p, a)) = e
        /\ e.copy[p] = [master |-> a, member |-> Rest(p)]
        /\ \A o \in Parties \ {p} : e.copy[o] = f.copy[o]
        /\ \A g \in Ids : e.gaeaTo[g] = IF ~On(g) /\ g = party[p].master
                                        THEN NoParty ELSE f.gaeaTo[g]
  BY AgreeRenewed
<1>3. PICK n \in Nat : n = Cardinality(Gone(p))
  BY GoneFinite, FS_CardinalityType
<1>4. s \in [1 .. n -> Ids] /\ Range(s) = Gone(p)
  <2>1. Gone(p) \in SUBSET Ids
    BY GoneFinite
  <2>2. s \in [1 .. n -> Gone(p)]
    BY <1>3 DEF Orders
  <2>3. Range(s) = Gone(p)
    BY <2>2 DEF Range
  <2> QED  BY <2>1, <2>2, <2>3
<1>5. dels \in Seq(FieldNotices)
  BY DelsOK
<1> DEFINE u == Outcome(Move, e, dels)
<1>6. e.copy[p].master = a /\ e.copy[p].member = Rest(p) /\ a # NoId
  BY <1>2, NullAssumption
<1>7. /\ u \in FieldStates
      /\ u.copy[p] = [master |-> e.copy[p].master, member |-> e.copy[p].member \ Range(s)]
      /\ \A o \in Parties \ {p} : u.copy[o] = e.copy[o]
      /\ \A g \in Ids : u.gaeaTo[g] = IF g \in Range(s) THEN NoParty ELSE e.gaeaTo[g]
  <2>1. e.copy[p].master # NoId
    BY <1>6
  <2>2. e \in FieldStates /\ n \in Nat /\ s \in [1 .. n -> Ids]
    BY <1>2, <1>3, <1>4
  <2>3. TakesOff(e, p, s, n, dels)
    BY <2>1, <2>2 DEF TakesOff
  <2> HIDE DEF dels
  <2> QED  BY <2>3, FollowDels
<1>8. PICK k \in FieldStates :
        /\ k = Outcome(Move, e, dels)
        /\ k.copy[p] = [master |-> a, member |-> Rest(p) \ Gone(p)]
        /\ \A o \in Parties \ {p} : k.copy[o] = e.copy[o]
        /\ \A g \in Ids : k.gaeaTo[g] = IF g \in Gone(p) THEN NoParty ELSE e.gaeaTo[g]
  <2>1. PICK k : k = u
    OBVIOUS
  <2>2. k = Outcome(Move, e, dels)
    BY <2>1
  <2> HIDE DEF u, dels
  <2>3. k \in FieldStates /\ k.copy[p] = [master |-> a, member |-> Rest(p) \ Gone(p)]
    BY <1>4, <1>6, <1>7, <2>1
  <2>4. /\ \A o \in Parties \ {p} : k.copy[o] = e.copy[o]
        /\ \A g \in Ids : k.gaeaTo[g] = IF g \in Gone(p) THEN NoParty ELSE e.gaeaTo[g]
    BY <1>4, <1>7, <2>1
  <2> QED  BY <2>2, <2>3, <2>4
<1> HIDE DEF u
<1>9. Rest(p) \ Gone(p) = OnLine(Rest(p)) /\ Rest(p) \subseteq party[p].member
  BY DEF Gone, OnLine, Rest
<1>10. \A g \in Ids : f.gaeaTo[g] = p => g \in party[p].member
  BY AgreesAt
<1>11. Outcome(Move, Field, Renewed(p, a) \o dels) = k
  BY <1>1, <1>2, <1>5, <1>8, MoveType, OutcomeConcat
<1>12. FrameSays(p, a, s) \in Seq(FieldNotices)
  BY <1>1, <1>5, ConcatProperties DEF FrameSays
<1>13. k.copy[p] = [master |-> a, member |-> OnLine(Rest(p))]
  BY <1>8, <1>9
<1>14. \A o \in Parties \ {p} : k.copy[o] = f.copy[o]
  BY <1>2, <1>8
<1>15. \A g \in Ids : On(g) => k.gaeaTo[g] = f.gaeaTo[g]
  BY <1>2, <1>8 DEF Gone
<1>16. ASSUME NEW g \in Ids, f.gaeaTo[g] = p, g \notin OnLine(Rest(p))
       PROVE  k.gaeaTo[g] = NoParty
  <2>1. g \in Gone(p) \/ (~On(g) /\ g = party[p].master)
    BY <1>10, <1>16 DEF Gone, Rest, OnLine
  <2>2. e.gaeaTo[g] = NoParty \/ g \in Gone(p)
    BY <1>2, <2>1
  <2> QED  BY <1>8, <2>2
<1>17. \A g \in Ids : k.gaeaTo[g] = NoParty \/ k.gaeaTo[g] = f.gaeaTo[g]
  BY <1>2, <1>8
<1>18. Outcome(Move, Field, FrameSays(p, a, s)) = k
  BY <1>11 DEF FrameSays
<1>19. \A g \in Ids : \/ g \in OnLine(Rest(p))
                      \/ k.gaeaTo[g] = NoParty
                      \/ k.gaeaTo[g] = f.gaeaTo[g] /\ f.gaeaTo[g] # p
  BY <1>16, <1>17
<1> QED  BY <1>8, <1>12, <1>13, <1>14, <1>15, <1>18, <1>19

\* The leader is replaced and those who have gone are taken off, one notice
\* each; the party is then what the frame keeps of it, or dissolved.
LEMMA AgreeFrameParty ==
  ASSUME IInv, NetTypes, Agrees(Caught), NEW p \in Parties, p = turn, NEW a \in Ids,
         NEW s \in Orders(Gone(p)), FrameParty(a, s), Field' = Field
  PROVE  Agrees(Caught)'
<1>0. PICK f \in FieldStates : f = Caught
  BY CaughtType
<1>1. /\ Agrees(f) /\ Field \in FieldStates /\ who' = who /\ Valid(p) /\ Leads(p, a)
      /\ \A g \in Gone(p) : \E i \in DOMAIN s : s[i] = g
  BY <1>0, FieldTyped DEF NetTypes, FrameParty, NextTurn
<1>2. PICK left \in SUBSET Ids : left = OnLine(Rest(p))
  BY RestOK DEF OnLine
<1>3. PICK q \in Seq(FieldNotices) : q = FrameSays(p, a, s)
  BY <1>0, <1>1, AgreeFrameSays
<1>4. PICK k \in FieldStates :
        /\ Outcome(Move, Field, q) = k
        /\ k.copy[p] = [master |-> a, member |-> left]
        /\ \A o \in Parties \ {p} : k.copy[o] = f.copy[o]
        /\ \A g \in Ids : On(g) => k.gaeaTo[g] = f.gaeaTo[g]
        /\ \A g \in Ids : \/ g \in left
                          \/ k.gaeaTo[g] = NoParty
                          \/ k.gaeaTo[g] = f.gaeaTo[g] /\ f.gaeaTo[g] # p
  BY <1>0, <1>1, <1>2, <1>3, AgreeFrameSays
<1>5. \A g \in Ids : On(g) => f.gaeaTo[g] = pid[g]
  BY <1>1 DEF Agrees
<1>6. /\ \A g \in left : On(g)
      /\ \A g \in Ids : On(g) /\ g \in party[p].member => g \in left
  BY <1>2, RestOK DEF OnLine
<1>7. FrameParty(a, s) <=>
        /\ NextTurn /\ Valid(p) /\ Leads(p, a)
        /\ \A g \in Gone(p) : \E i \in DOMAIN s : s[i] = g
        /\ \A i, j \in DOMAIN s : i < j => <<s[i], s[j]>> \in party[p].before
        /\ LET client == [g \in Ids |-> IF g \in left
                           THEN toClient[g] \o [i \in DOMAIN s |-> Del(p, s[i])] ELSE toClient[g]]
           IN IF Alone(left)
              THEN DelParty(p, left, q, client)
              ELSE /\ party' = [party EXCEPT ![p] = [Keep(@, left) EXCEPT !.master = a]]
                   /\ toField' = q /\ toClient' = client
                   /\ UNCHANGED <<pid, free>>
  BY <1>2, <1>3, Zenon DEF FrameParty, FrameSays, Renewed
<1>8. CASE ~Alone(left)
  <2>1. PICK r : r = [Keep(party[p], left) EXCEPT !.master = a]
    OBVIOUS
  <2>2. party' = [party EXCEPT ![p] = r] /\ toField' = q /\ pid' = pid
    BY <1>7, <1>8, <2>1
  <2>3. /\ Keep(party[p], left) \in Party
        /\ Keep(party[p], left).member = party[p].member \cap left
    BY KeepOK, MembersOK DEF IInv, AgentTypeOK
  <2>4. left \subseteq party[p].member
    BY <1>2 DEF OnLine, Rest
  <2>5. r.master = a /\ r.member = left
    BY <2>1, <2>3, <2>4 DEF Party
  <2>6. k.copy[p] = AsCopied(r)
    BY <1>4, <2>5 DEF AsCopied
  <2>7. \A g \in Ids : On(g) => k.gaeaTo[g] = pid'[g]
    BY <1>4, <1>5, <2>2
  <2>8. \A g \in Ids : k.gaeaTo[g] # NoParty =>
          \/ k.gaeaTo[g] = p /\ g \in r.member
          \/ k.gaeaTo[g] = f.gaeaTo[g] /\ f.gaeaTo[g] # p
    <3>1. ASSUME NEW g \in Ids, k.gaeaTo[g] # NoParty, g \in left
          PROVE  \/ k.gaeaTo[g] = p
                 \/ k.gaeaTo[g] = f.gaeaTo[g] /\ f.gaeaTo[g] # p
      BY <1>4, <1>5, <1>6, <3>1
    <3> QED  BY <1>4, <2>5, <3>1
  <2>9. Copied(f, k, p, r)
    BY <1>1, <1>4, <2>2, <2>6, <2>7, <2>8 DEF Copied
  <2>10. Agrees(k)'
    BY <1>1, <2>9, AgreeOne
  <2>11. Caught' = k
    BY <1>4, <2>2 DEF Caught
  <2> QED  BY <2>10, <2>11, AgreesBecomes
<1>9. CASE Alone(left)
  <2>1. PICK client : DelParty(p, left, q, client)
    BY <1>7, <1>9
  <2>2. k.copy[p].master = a /\ k.copy[p].member = left /\ a # NoId
    BY <1>4, NullAssumption
  <2>3. Reduced(f, k, p, left)
    BY <1>4, <1>6, <2>2 DEF Reduced
  <2>4. PICK d \in FieldStates : d = Follow(k, Dissolved(p))
    BY DissolvedOK, FollowType
  <2>5. Agrees(Follow(k, Dissolved(p)))'
    BY <1>1, <2>1, <2>3, AgreeDissolved
  <2>6. toField' = Append(q, Dissolved(p)) /\ Dissolved(p) \in FieldNotices
    BY <2>1, DissolvedOK DEF DelParty
  <2>7. Outcome(Move, Field, Append(q, Dissolved(p))) = Move[<<k, Dissolved(p)>>]
    BY <1>1, <1>4, <2>6, MoveType, OutcomeAppend
  <2>8. Caught' = d
    BY <2>4, <2>6, <2>7, MoveIs DEF Caught
  <2>9. Agrees(d)'
    BY <2>4, <2>5 DEF Agrees
  <2> QED  BY <2>8, <2>9, AgreesBecomes
<1> QED  BY <1>8, <1>9

LEMMA AgreeFrame ==
  ASSUME IInv, NetTypes, Agrees(Caught), FrameMoveParty, Field' = Field
  PROVE  Agrees(Caught)'
<1>0. PICK f \in FieldStates : f = Caught
  BY CaughtType
<1>a. Agrees(f)
  BY <1>0
<1>1. CASE FrameNoParty
  BY <1>0, <1>a, <1>1, AgreeQuiet DEF FrameNoParty, NextTurn
<1>2. CASE FrameLeaderless
  <2>1. PICK p \in Parties : p = turn /\ Valid(p)
    BY <1>2 DEF FrameLeaderless, NextTurn
  <2>2. DelParty(p, Rest(p), toField, toClient) /\ who' = who
    BY <1>2, <2>1 DEF FrameLeaderless, NextTurn
  <2>3. PICK S \in SUBSET Ids : S = Rest(p) /\ OnLine(S) = OnLine(party[p].member)
    BY RestOK
  <2>4. \E m \in FieldNotices : toField' = Append(toField, m) /\ Agrees(Follow(f, m))'
    BY <1>a, <2>1, <2>2, <2>3, AgreeGone
  <2> QED  BY <1>0, <2>4, AgreeSays
<1>3. CASE turn \in Parties /\ \E a \in Ids : \E s \in Orders(Gone(turn)) : FrameParty(a, s)
  <2>1. PICK p \in Parties : p = turn
    BY <1>3
  <2>2. PICK a \in Ids, s \in Orders(Gone(p)) : FrameParty(a, s)
    BY <1>3, <2>1
  <2> QED  BY <2>1, <2>2, AgreeFrameParty
<1> QED  BY <1>1, <1>2, <1>3 DEF FrameMoveParty

\* Who comes on line is in no party at the field either.
LEMMA AgreeLogin ==
  ASSUME IInv, NetTypes, Agrees(Caught), NEW g \in Ids, NEW c, CreatePC(g, c), Field' = Field
  PROVE  Agrees(Caught)'
<1>0. PICK f \in FieldStates : f = Caught
  BY CaughtType
<1>1. Agrees(f) /\ Caught' = f
  BY <1>0 DEF Caught, CreatePC
<1>2. pid[g] = NoParty
  BY DEF IInv, OffLine, CreatePC, On
<1>3. f.gaeaTo[g] = NoParty
  <2>1. f.gaeaTo[g] \in Parties \cup {NoParty}
    BY DEF FieldStates
  <2> QED  BY <1>1, <2>1 DEF Agrees, CreatePC, Listed
<1>4. \A h \in Ids : On(h)' => On(h) \/ h = g
  BY DEF On, CreatePC, IInv, AgentTypeOK
<1>5. Agrees(f)'
  BY <1>1, <1>2, <1>3, <1>4 DEF Agrees, CreatePC
<1> QED  BY <1>1, <1>5, AgreesBecomes

\* Nothing is said of those who go; the records stay, and with them the members.
LEMMA AgreeDrop ==
  ASSUME IInv, NetTypes, Agrees(Caught), NEW S, DropOutPC(S), Field' = Field
  PROVE  Agrees(Caught)'
<1>0. PICK f \in FieldStates : f = Caught
  BY CaughtType
<1>1. Agrees(f) /\ Caught' = f
  BY <1>0 DEF Caught, DropOutPC
<1>2. \A h \in Ids : On(h)' => On(h) /\ pid'[h] = pid[h]
  BY DEF On, DropOutPC
<1>3. Agrees(f)'
  BY <1>1, <1>2 DEF Agrees, DropOutPC
<1> QED  BY <1>1, <1>3, AgreesBecomes

\* A field started anew has no parties, and nor has the agent.
LEMMA AgreeFieldRestart ==
  ASSUME IInv, NetTypes, FieldRestart
  PROVE  Agrees(Caught)'
<1> DEFINE S == {p \in Parties : Valid(p)}
           M == UNION {party[p].member : p \in S}
<1>1. PICK s \in Orders(S) : DelPartyAll(s, <<>>)
  BY DEF FieldRestart
<1>2. toField' = [i \in DOMAIN s |-> Dissolved(s[i])]
  <2>1. <<>> \in Seq(FieldNotices)
    OBVIOUS
  <2>2. toField' = <<>> \o [i \in DOMAIN s |-> Dissolved(s[i])]
    BY <1>1, <2>1, DelPartyAllPosted DEF NetTypes
  <2> QED  BY <2>2
<1>3. PICK n \in Nat : n = Cardinality(S)
  <2>1. IsFiniteSet(Parties)
    BY FS_Interval, NumberAssumption DEF Parties
  <2> HIDE DEF S
  <2>2. S \subseteq Parties
    BY DEF S
  <2> QED  BY <2>1, <2>2, FS_Subset, FS_CardinalityType
<1>4. s \in [1 .. n -> Parties]
  BY <1>1, <1>3 DEF Orders
<1>5. PICK f : f = [copy |-> [p \in Parties |-> NoCopy], gaeaTo |-> [g \in Ids |-> NoParty]]
  OBVIOUS
<1>6. Field' = f
  BY <1>5 DEF FieldRestart, Field
<1>7. f \in FieldStates /\ \A p \in Parties : f.copy[p] = NoCopy
  BY <1>5 DEF FieldStates, Copies, NoCopy
<1>8. Caught' = f
  <2>1. \A p \in Parties : f.copy[p].master = NoId
    BY <1>7 DEF NoCopy
  <2>2. Outcome(Move, f, [i \in DOMAIN s |-> Dissolved(s[i])]) = f
    BY <1>3, <1>4, <1>7, <2>1, FollowNothing
  <2> QED  BY <1>2, <1>6, <2>2 DEF Caught
<1>9. party' = [p \in Parties |-> NoOne] /\ who' = who
      /\ pid' = [g \in Ids |-> IF g \in OnLine(M) THEN NoParty ELSE pid[g]]
  BY <1>1 DEF DelPartyAll, keepPC
<1>10. ASSUME NEW g \in Ids, On(g) PROVE pid'[g] = NoParty
  <2>1. CASE pid[g] = NoParty
    BY <1>9, <2>1
  <2>2. CASE pid[g] \in Parties
    <3>1. PICK p \in Parties : p = pid[g]
      BY <2>2
    <3>2. g \in party[p].member
      BY <1>10, <3>1 DEF IInv, OneParty
    <3>3. p \in S
      BY <3>2 DEF IInv, NoMembers
    <3>4. g \in M
      BY <3>2, <3>3
    <3> QED  BY <1>9, <1>10, <3>4 DEF OnLine
  <2> QED  BY <2>1, <2>2 DEF IInv, AgentTypeOK
<1>11. Agrees(f)'
  <2>1. \A g \in Ids : On(g)' => On(g)
    BY <1>9 DEF On
  <2>2. \A p \in Parties : f.copy[p] = AsCopied(party'[p])
    BY <1>7, <1>9 DEF AsCopied, NoOne, NoCopy
  <2>3. \A g \in Ids : f.gaeaTo[g] = NoParty
    BY <1>5
  <2> QED  BY <1>10, <2>1, <2>2, <2>3 DEF Agrees
<1> QED  BY <1>8, <1>11, AgreesBecomes

\* A step that leaves the agent's characters and parties, the field's records
\* and all that is under way to it as they are.
fieldView == <<who, pid, party, toField, copy, gaeaTo>>

LEMMA CaughtUpStep == IInv /\ NetTypes /\ CaughtUp /\ [NetNext]_netVars => CaughtUp'
<1> SUFFICES ASSUME IInv, NetTypes, CaughtUp, [NetNext]_netVars, ~apart'
             PROVE  Agrees(Caught)'
  BY DEF CaughtUp
<1> DEFINE Fixed == ~apart /\ UNCHANGED <<copy, gaeaTo>>
<1>f. ASSUME Fixed PROVE Field' = Field
  BY <1>f DEF Field
<1>k. ASSUME ~apart PROVE Agrees(Caught)
  BY <1>k DEF CaughtUp
<1>0. CASE ~apart /\ UNCHANGED fieldView
  BY <1>0, <1>f, <1>k, CaughtType, AgreeQuiet DEF fieldView
<1>1. CASE \E g \in Ids : Request(g)
  <2>1. PICK g \in Ids : Request(g)
    BY <1>1
  <2>2. UNCHANGED <<agentVars, fieldVars>>
    BY <2>1 DEF Request, Lure, ReqPartySearchJoin, Secede, Authority, Dissolve, AnswerLure,
       AnswerSearch, Ask
  <2> QED  BY <1>0, <2>2 DEF fieldView, agentVars, fieldVars
<1>2. CASE \E g \in Ids : Serve(g)
  <2>1. PICK g \in Ids : Serve(g)
    BY <1>2
  <2>2. Fixed /\ Obey(g, Head(sent[g]))
    BY <2>1 DEF Serve, fieldVars
  <2>3. Field' = Field /\ Agrees(Caught)
    BY <1>f, <1>k, <2>2
  <2> QED  BY <2>2, <2>3, AgreeObey
<1>3. CASE \E g \in Ids : ClientReadsAgent(g) \/ ClientReadsField(g) \/ EnterField(g)
  <2>1. /\ \A g : ClientReadsAgent(g) => UNCHANGED <<fieldView, apart>>
        /\ \A g : ClientReadsField(g) => UNCHANGED <<fieldView, apart>>
        /\ \A g : EnterField(g) => UNCHANGED <<fieldView, apart>>
    BY DEF fieldView, ClientReadsAgent, ClientReadsField, EnterField, agentVars, fieldVars
  <2> QED  BY <1>0, <1>3, <2>1
<1>4. CASE \E g \in Ids : LeaveField(g)
  <2>1. PICK g \in Ids : LeaveField(g)
    BY <1>4
  <2> QED  BY <1>0, <2>1 DEF LeaveField, fieldView, agentVars
<1>5. CASE FieldReads
  <2>1. ~apart /\ UNCHANGED <<who, pid, party>>
    BY <1>5 DEF FieldReads
  <2>2. PICK f \in FieldStates : f = Caught
    BY CaughtType
  <2>3. Agrees(f) /\ Caught' = f
    BY <1>5, <1>k, <2>1, <2>2, CaughtReads
  <2> QED  BY <2>1, <2>3, AgreeSame, AgreesBecomes
<1>6. CASE \E g \in Ids : LoginTwice(g)
  <2>1. PICK g \in Ids : DropOutPC({g}) /\ ClientsEnd({g}) /\ UNCHANGED apart
    BY <1>6 DEF LoginTwice, DropTwice
  <2>2. Fixed
    BY <2>1 DEF ClientsEnd
  <2> QED  BY <1>f, <1>k, <2>1, <2>2, AgreeDrop
<1>7. CASE \E g \in Ids : \E c \in Chars : Login(g, c)
  <2>1. PICK g \in Ids, c \in Chars : Login(g, c)
    BY <1>7
  <2>2. Fixed /\ CreatePC(g, c)
    BY <2>1 DEF Login
  <2> QED  BY <1>f, <1>k, <2>2, AgreeLogin
<1>8. CASE \E S \in SUBSET Ids : Frame(S)
  <2>1. PICK S \in SUBSET Ids : DropOutPC(S) /\ ClientsEnd(S) /\ UNCHANGED apart
    BY <1>8 DEF Frame, FrameMove
  <2>2. Fixed
    BY <2>1 DEF ClientsEnd
  <2> QED  BY <1>f, <1>k, <2>1, <2>2, AgreeDrop
<1>9. CASE FrameGoesOn
  <2>1. Fixed /\ FrameMoveParty
    BY <1>9 DEF FrameGoesOn, fieldVars
  <2> QED  BY <1>f, <1>k, <2>1, AgreeFrame
<1>10. CASE FieldRestart
  BY <1>10, AgreeFieldRestart
<1>11. CASE FieldReconnect \/ AgentRestart
  BY <1>11 DEF FieldReconnect, AgentRestart
<1>12. CASE UNCHANGED netVars
  BY <1>0, <1>12 DEF netVars, agentVars, fieldVars, fieldView
<1> QED
  BY <1>1, <1>2, <1>3, <1>4, <1>5, <1>6, <1>7, <1>8, <1>9, <1>10, <1>11, <1>12 DEF NetNext

LEMMA CaughtUpInit == NetInit => CaughtUp
<1> SUFFICES ASSUME NetInit PROVE Agrees(Caught)
  BY DEF CaughtUp
<1>1. NetTypes
  BY NetTypesInit
<1>2. Caught = Field
  BY <1>1, FieldTyped, MoveType, OutcomeEmpty DEF Caught, NetInit, AgentInit, NetTypes
<1>3. /\ \A p \in Parties : Field.copy[p] = AsCopied(party[p])
      /\ \A g \in Ids : Field.gaeaTo[g] = NoParty /\ pid[g] = NoParty
  BY DEF NetInit, AgentInit, Field, AsCopied, NoOne, NoCopy
<1> QED  BY <1>2, <1>3 DEF Agrees

\* What the field's records become once it has read all that is under way are
\* the agent's parties, and nobody is in a party there who is not in it here,
\* unless the agent lost its parties since the field was last started.
THEOREM CaughtUpHolds == NetSpec => []CaughtUp
  BY CaughtUpInit, CaughtUpStep, NetTypesHold, InvHolds, PTL DEF NetSpec

\* The field follows the agent (GLPartyFieldMan): its records, once it has
\* read what is under way, are the agent's parties, and the characters on line
\* are in their parties there, unless the agent lost its parties since the
\* field was last started.
THEOREM FieldKeepsUp == NetSpec => []FieldFollows
<1>1. NetTypes /\ CaughtUp => FieldFollows
  <2> SUFFICES ASSUME NetTypes, CaughtUp, ~apart
               PROVE  LET f == FoldLeft(Follow, Field, toField)
                      IN /\ \A p \in Parties : f.copy[p] = [master |-> party[p].master, member |-> party[p].member]
                         /\ \A g \in Ids : On(g) => f.gaeaTo[g] = pid[g]
    BY DEF FieldFollows
  <2>1. FoldLeft(Follow, Field, toField) = Caught
    BY FieldTyped, ReplayIs DEF NetTypes, Posted, Caught
  <2>2. PICK f : f = Caught
    OBVIOUS
  <2>3. Agrees(f)
    BY <2>2 DEF CaughtUp
  <2>4. /\ \A p \in Parties : f.copy[p] = [master |-> party[p].master, member |-> party[p].member]
        /\ \A g \in Ids : On(g) => f.gaeaTo[g] = pid[g]
    BY <2>3 DEF Agrees, AsCopied
  <2> QED  BY <2>1, <2>2, <2>4
<1> QED  BY <1>1, CaughtUpHolds, NetTypesHold, PTL
=============================================================================
