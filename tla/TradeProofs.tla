----------------------------- MODULE TradeProofs -----------------------------
(***************************************************************************)
(* What holds of the trade for any characters, ids, items and amounts of   *)
(* money: its types; that trades begin fresh, end for both sides at once,  *)
(* and keep their offers while an agreement stands; that no item and no    *)
(* money is made or lost; and that the trade implements a barter: goods    *)
(* and money pass between characters only in whole swaps of what both      *)
(* agreed to.                                                              *)
(***************************************************************************)
EXTENDS Trade, FoldLemmas, TLAPS

\* The inductive invariant: a Gaea id nobody stands at has no trade left, and
\* nobody is asked by itself.
IInv ==
  /\ TypeOK
  /\ \A i \in Ids : ~Online(i) => trade[i] = NoTrade
  /\ \A i \in Ids : asked[i] # i

-----------------------------------------------------------------------------
(* Types of what the handlers compute *)

LEMMA TradeTypes ==
  /\ NoTrade \in TradeStates /\ NoTrade.target = NULL /\ NoTrade.agree = FALSE
  /\ \A j \in Ids : /\ [NoTrade EXCEPT !.target = j] \in TradeStates
                    /\ [NoTrade EXCEPT !.target = j].target = j
                    /\ [NoTrade EXCEPT !.target = j].agree = FALSE
<1> DEFINE none == [b \in BoxPos |-> NoEntry]
<1>1. none \in Boxes
  BY DEF Boxes
<1>2. BlockTime \in 0..BlockTime /\ 0 \in 0..Gold
  BY NumberAssumption
<1> HIDE DEF none
<1>3. NoTrade = [target |-> NULL, agree |-> FALSE, lock |-> FALSE,
                 timer |-> BlockTime, money |-> 0, box |-> none]
  BY Zenon DEF NoTrade, none
<1>4. NoTrade \in TradeStates /\ NoTrade.target = NULL /\ NoTrade.agree = FALSE
  BY <1>1, <1>2, <1>3 DEF TradeStates
<1>5. \A j \in Ids : /\ [NoTrade EXCEPT !.target = j].target = j
                     /\ [NoTrade EXCEPT !.target = j].agree = FALSE
  BY <1>3
<1>6. \A j \in Ids : [NoTrade EXCEPT !.target = j] \in TradeStates
  BY <1>4 DEF TradeStates
<1> QED  BY <1>4, <1>5, <1>6

\* BlockAgree makes a trade state, with the same target and the same offer.
LEMMA BlockAgreeType ==
  ASSUME NEW t \in TradeStates
  PROVE  /\ BlockAgree(t) \in TradeStates
         /\ BlockAgree(t).target = t.target /\ BlockAgree(t).agree = FALSE
         /\ BlockAgree(t).money = t.money /\ BlockAgree(t).box = t.box
<1>1. BlockTime \in 0..BlockTime
  BY NumberAssumption
<1>2. BlockAgree(t) \in TradeStates
  BY <1>1 DEF BlockAgree, TradeStates
<1>3. /\ BlockAgree(t).target = t.target /\ BlockAgree(t).agree = FALSE
      /\ BlockAgree(t).money = t.money /\ BlockAgree(t).box = t.box
  BY DEF BlockAgree, TradeStates
<1> QED  BY <1>2, <1>3

\* A frame either resets a trade whose target is gone or only moves its timer.
LEMMA FrameType ==
  ASSUME NEW t \in TradeStates, NEW present \in SUBSET Ids
  PROVE  /\ TradeFrameMove(t, present) \in TradeStates
         /\ t.target = NULL => TradeFrameMove(t, present) = t
         /\ \/ TradeFrameMove(t, present) = NoTrade /\ t.target \notin present
            \/ /\ TradeFrameMove(t, present).target = t.target
               /\ TradeFrameMove(t, present).agree = t.agree
               /\ TradeFrameMove(t, present).money = t.money
               /\ TradeFrameMove(t, present).box = t.box
<1> DEFINE left == IF t.timer = 0 THEN 0 ELSE t.timer - 1
           u == [t EXCEPT !.timer = left]
<1>1. left \in 0..BlockTime
  BY NumberAssumption DEF TradeStates
<1>2. CASE t.target = NULL
  <2>1. TradeFrameMove(t, present) = t
    BY <1>2, NullAssumption DEF TradeFrameMove
  <2> QED  BY <2>1
<1>3. CASE t.target # NULL /\ t.target \in present
  <2>1. TradeFrameMove(t, present) = u
    BY <1>3 DEF TradeFrameMove
  <2> HIDE DEF left
  <2>2. u \in TradeStates
    BY <1>1 DEF TradeStates
  <2>3. u.target = t.target /\ u.agree = t.agree /\ u.money = t.money /\ u.box = t.box
    BY DEF TradeStates
  <2> QED  BY <1>3, <2>1, <2>2, <2>3
<1>4. CASE t.target # NULL /\ t.target \notin present
  BY <1>4, TradeTypes DEF TradeFrameMove
<1> QED  BY <1>2, <1>3, <1>4

Slots == [Spots -> Items \cup {NoItem}]

\* Whatever DoTrade makes of an inventory and a purse, half way or whole, is one.
LEMMA DoTradeType ==
  ASSUME NEW inv \in Slots, NEW gold \in Nat,
         NEW mine \in TradeStates, NEW theirs \in TradeStates,
         NEW x \in DoTrade(inv, gold, mine, theirs)
  PROVE  x.inv \in Slots /\ x.gold \in Nat
<1> DEFINE paid == gold - mine.money + theirs.money
           rest == Deleted(inv, mine, Filled(mine))
           missing == Filled(mine) \ Deletable(inv, mine)
           half == Deleted(inv, mine, {b \in Filled(mine) : \A y \in missing : b < y})
<1>1. mine.money \in Nat /\ theirs.money \in Nat
  BY NumberAssumption DEF TradeStates
<1>2. gold >= mine.money => paid \in Nat
  BY <1>1
<1>3. ASSUME NEW S PROVE Deleted(inv, mine, S) \in Slots
  BY DEF Deleted, Slots
<1>4. ASSUME NEW f, DOMAIN f \subseteq Filled(theirs) PROVE Inserted(rest, theirs, f) \in Slots
  <2>1. rest \in Slots
    BY <1>3
  <2>2. \A b \in Filled(theirs) : theirs.box[b].item \in Items
    BY DEF Filled, TradeStates, Boxes, Entry
  <2>3. ASSUME NEW s \in Spots, \E b \in DOMAIN f : f[b] = s
        PROVE  theirs.box[CHOOSE b \in DOMAIN f : f[b] = s].item \in Items
    <3>1. (CHOOSE b \in DOMAIN f : f[b] = s) \in DOMAIN f
      BY <2>3
    <3> QED  BY <3>1, <2>2, <1>4
  <2> QED  BY <2>1, <2>3 DEF Inserted, Slots
<1>5. CASE gold < mine.money
  <2>1. x = [ok |-> FALSE, inv |-> inv, gold |-> gold]
    BY <1>1, <1>5 DEF DoTrade
  <2> QED  BY <2>1
<1>6. CASE ~(gold < mine.money) /\ gold >= mine.money /\ missing # {}
  <2>1. x = [ok |-> FALSE, inv |-> half, gold |-> paid]
    BY <1>6 DEF DoTrade
  <2> QED  BY <2>1, <1>2, <1>3, <1>6
<1>7. CASE ~(gold < mine.money) /\ missing = {}
  <2>1. \/ /\ Placements(rest, theirs) # {}
           /\ x \in {[ok |-> TRUE, inv |-> Inserted(rest, theirs, f), gold |-> paid] :
                       f \in Placements(rest, theirs)}
        \/ x \in {[ok |-> FALSE, inv |-> Inserted(rest, theirs, f), gold |-> paid] :
                       f \in Overfull(rest, theirs)}
    BY <1>7 DEF DoTrade
  <2>2. paid \in Nat
    BY <1>1, <1>2, <1>7
  <2>3. \A f \in Placements(rest, theirs) : DOMAIN f \subseteq Filled(theirs)
    BY DEF Placements, Injection, IsInjective
  <2>4. \A f \in Overfull(rest, theirs) : DOMAIN f \subseteq Filled(theirs)
    <3>1. ASSUME NEW f \in Overfull(rest, theirs) PROVE DOMAIN f \subseteq Filled(theirs)
      <4>1. PICK b \in Filled(theirs) :
                f \in Bijection({a \in Filled(theirs) : a < b}, Free(rest))
        BY <3>1 DEF Overfull
      <4>2. DOMAIN f = {a \in Filled(theirs) : a < b}
        BY <4>1 DEF Bijection, Injection
      <4> QED  BY <4>2
    <3> QED  BY <3>1
  <2>5. CASE x \in {[ok |-> TRUE, inv |-> Inserted(rest, theirs, f), gold |-> paid] :
                      f \in Placements(rest, theirs)}
    BY <2>2, <2>3, <2>5, <1>4
  <2>6. CASE x \in {[ok |-> FALSE, inv |-> Inserted(rest, theirs, f), gold |-> paid] :
                      f \in Overfull(rest, theirs)}
    BY <2>2, <2>4, <2>6, <1>4
  <2> QED  BY <2>1, <2>5, <2>6
<1> QED  BY <1>1, <1>5, <1>6, <1>7

-----------------------------------------------------------------------------
(* The inductive invariant *)

LEMMA InitIInv == Init => IInv
<1> SUFFICES ASSUME Init PROVE IInv
  OBVIOUS
<1>1. trade \in [Ids -> TradeStates]
  BY TradeTypes DEF Init
<1>2. money \in [Persons -> Nat]
  <2>1. money \in [Persons -> 0..Gold]
    BY Zenon DEF Init
  <2>2. \A n \in 0..Gold : n \in Nat
    BY NumberAssumption
  <2> QED  BY <2>1, <2>2
<1>3. bag \in Bags /\ land \in SUBSET Items /\ landMoney \in Nat
  BY DEF Init, Bags
<1>4. pc \in [Ids -> Persons \cup {Nobody}] /\ disTrade \in [Ids -> BOOLEAN]
      /\ asked \in [Ids -> Ids \cup {NULL}]
  BY DEF Init
<1>5. \A i \in Ids : trade[i] = NoTrade /\ asked[i] # i
  BY NullAssumption DEF Init
<1> QED  BY <1>1, <1>2, <1>3, <1>4, <1>5 DEF IInv, TypeOK

\* A step on the trades only
LEMMA TradesStep ==
  ASSUME IInv, UNCHANGED <<pc, goods>>,
         trade' \in [Ids -> TradeStates], disTrade' \in [Ids -> BOOLEAN],
         asked' \in [Ids -> Ids \cup {NULL}],
         \A i \in Ids : ~Online(i) => trade'[i] = trade[i],
         \A i \in Ids : asked'[i] # i
  PROVE  IInv'
  BY DEF IInv, TypeOK, goods, Online

\* A step on the goods only
LEMMA GoodsStep ==
  ASSUME IInv, UNCHANGED <<pc, trade, disTrade, asked>>,
         bag' \in Bags, money' \in [Persons -> Nat],
         land' \in SUBSET Items, landMoney' \in Nat
  PROVE  IInv'
  BY DEF IInv, TypeOK, Online

\* The occupant of an id is a character.
LEMMA OnlineIsPerson ==
  ASSUME IInv, NEW i \in Ids, Online(i)
  PROVE  pc[i] \in Persons
  BY DEF IInv, TypeOK, Online

\* What the check each handler opens with says about the two ids.
LEMMA PairedTypes ==
  ASSUME IInv, NEW i \in Ids, Paired(i)
  PROVE  /\ trade[i].target \in Ids /\ trade[trade[i].target].target = i
         /\ Online(i) /\ Online(trade[i].target)
         /\ trade[i] \in TradeStates /\ trade[trade[i].target] \in TradeStates
         /\ pc[i] \in Persons /\ pc[trade[i].target] \in Persons
<1>1. trade[i] \in TradeStates /\ Valid(i) /\ Online(i) /\ Online(trade[i].target)
      /\ trade[trade[i].target].target = i
  BY DEF Paired, IInv, TypeOK
<1>2. trade[i].target \in Ids
  BY <1>1 DEF TradeStates, Valid
<1> QED  BY <1>1, <1>2, OnlineIsPerson DEF IInv, TypeOK

\* Dropping a broken trade preserves the invariant.
LEMMA DropBrokenIInv ==
  ASSUME IInv, NEW i \in Ids, DropBrokenTrade(i)
  PROVE  IInv'
  BY TradesStep, TradeTypes DEF DropBrokenTrade, IInv, TypeOK

\* An edit of an offer preserves the invariant.
LEMMA EditIInv ==
  ASSUME IInv, NEW i \in Ids, Paired(i), NEW mine \in TradeStates,
         mine.target = trade[i].target, Edit(i, mine)
  PROVE  IInv'
<1> DEFINE j == trade[i].target
<1>1. j \in Ids /\ Online(i) /\ Online(j) /\ trade[j] \in TradeStates
  BY PairedTypes
<1>2. /\ trade' = [trade EXCEPT ![i] = BlockAgree(mine), ![j] = BlockAgree(@)]
      /\ UNCHANGED <<pc, disTrade, asked, goods>>
  BY DEF Edit
<1>3. BlockAgree(mine) \in TradeStates /\ \A t \in TradeStates : BlockAgree(t) \in TradeStates
  BY BlockAgreeType
<1>4. trade' \in [Ids -> TradeStates]
  BY <1>1, <1>2, <1>3 DEF IInv, TypeOK
<1>5. \A k \in Ids : ~Online(k) => trade'[k] = trade[k]
  BY <1>1, <1>2 DEF IInv, TypeOK
<1> QED  BY <1>2, <1>4, <1>5, TradesStep DEF IInv, TypeOK

\* The offers the three editing handlers make
LEMMA Offers ==
  ASSUME IInv, NEW i \in Ids, Online(i)
  PROVE  /\ \A m \in 0..Gold :
              /\ [trade[i] EXCEPT !.money = m] \in TradeStates
              /\ [trade[i] EXCEPT !.money = m].target = trade[i].target
         /\ \A b \in BoxPos, e \in Entry \cup {NoEntry} :
              /\ [trade[i] EXCEPT !.box[b] = e] \in TradeStates
              /\ [trade[i] EXCEPT !.box[b] = e].target = trade[i].target
<1>1. trade[i] \in TradeStates
  BY DEF IInv, TypeOK
<1>2. ASSUME NEW m \in 0..Gold
      PROVE  /\ [trade[i] EXCEPT !.money = m] \in TradeStates
             /\ [trade[i] EXCEPT !.money = m].target = trade[i].target
  BY <1>1 DEF TradeStates
<1>3. ASSUME NEW b \in BoxPos, NEW e \in Entry \cup {NoEntry}
      PROVE  /\ [trade[i] EXCEPT !.box[b] = e] \in TradeStates
             /\ [trade[i] EXCEPT !.box[b] = e].target = trade[i].target
  <2>1. [trade[i].box EXCEPT ![b] = e] \in Boxes
    BY <1>1 DEF TradeStates, Boxes
  <2> QED  BY <1>1, <2>1 DEF TradeStates
<1> QED  BY <1>2, <1>3

\* RequestTradeTarAns preserves the invariant.
LEMMA OpenIInv ==
  ASSUME IInv, NEW i \in Ids, NEW ok \in BOOLEAN, RequestTradeTarAns(i, ok)
  PROVE  IInv'
<1> DEFINE m == asked[i]
           with(k) == [NoTrade EXCEPT !.target = k]
<1>1. m \in Ids /\ m # i /\ Online(i) /\ UNCHANGED <<pc, disTrade, goods>>
      /\ asked' = [asked EXCEPT ![i] = NULL]
  BY DEF IInv, TypeOK, RequestTradeTarAns
<1>2. asked' \in [Ids -> Ids \cup {NULL}] /\ \A k \in Ids : asked'[k] # k
  BY <1>1, NullAssumption DEF IInv, TypeOK
<1>3. CASE trade' = trade
  BY <1>1, <1>2, <1>3, TradesStep DEF IInv, TypeOK
<1>4. CASE Online(m) /\ trade' = [trade EXCEPT ![i] = with(m), ![m] = with(i)]
  <2>1. with(m) \in TradeStates /\ with(i) \in TradeStates
    BY <1>1, TradeTypes
  <2>2. trade' \in [Ids -> TradeStates]
    BY <1>1, <1>4, <2>1 DEF IInv, TypeOK
  <2>3. \A k \in Ids : ~Online(k) => trade'[k] = trade[k]
    BY <1>1, <1>4 DEF IInv, TypeOK
  <2> QED  BY <1>1, <1>2, <2>2, <2>3, TradesStep DEF IInv, TypeOK
<1> QED  BY <1>3, <1>4 DEF RequestTradeTarAns

\* RequestTradeAgree, with or without the exchange, preserves the invariant.
LEMMA AgreeIInv ==
  ASSUME IInv, NEW i \in Ids, RequestTradeAgree(i)
  PROVE  IInv'
<1> DEFINE j == trade[i].target
<1>1. CASE DropBrokenTrade(i)
  BY <1>1, DropBrokenIInv
<1>2. CASE ~DropBrokenTrade(i)
  <2>1. /\ Paired(i) /\ j \in Ids /\ trade[i] \in TradeStates /\ trade[j] \in TradeStates
        /\ pc[i] \in Persons /\ pc[j] \in Persons /\ Online(i) /\ Online(j)
        /\ UNCHANGED <<pc, disTrade, asked, land, landMoney>>
    BY <1>2, PairedTypes DEF RequestTradeAgree
  <2>2. CASE /\ trade' = [trade EXCEPT ![i].agree = TRUE]
             /\ UNCHANGED <<bag, money>>
    <3>1. [trade[i] EXCEPT !.agree = TRUE] \in TradeStates
      BY <2>1 DEF TradeStates
    <3>2. trade' = [trade EXCEPT ![i] = [trade[i] EXCEPT !.agree = TRUE]]
      BY <2>2
    <3>3. trade' \in [Ids -> TradeStates] /\ \A k \in Ids : ~Online(k) => trade'[k] = trade[k]
      BY <2>1, <3>1, <3>2 DEF IInv, TypeOK
    <3> QED  BY <2>1, <2>2, <3>3, TradesStep DEF IInv, TypeOK, goods
  <2>3. CASE /\ Exchange(i, j)
             /\ trade' = [trade EXCEPT ![i] = NoTrade, ![j] = NoTrade]
    <3> DEFINE p == pc[i]
               q == pc[j]
               Results(d, e, t, u) == DoTrade(bag[d], money[d], t, u)
    <3>1. trade' \in [Ids -> TradeStates] /\ \A k \in Ids : ~Online(k) => trade'[k] = trade[k]
      BY <2>1, <2>3, TradeTypes DEF IInv, TypeOK
    <3>2. bag \in [Persons -> Slots] /\ money \in [Persons -> Nat]
      BY DEF IInv, TypeOK, Bags, Slots
    <3>3. bag[p] \in Slots /\ bag[q] \in Slots /\ money[p] \in Nat /\ money[q] \in Nat
      BY <2>1, <3>2
    <3>4. \/ UNCHANGED <<bag, money>>
          \/ \E x \in DoTrade(bag[p], money[p], trade[i], trade[j]) :
             \E y \in DoTrade(bag[q], money[q], trade[j], trade[i])
                        \cup {[ok |-> FALSE, inv |-> bag[q], gold |-> money[q]]} :
               /\ bag' = [bag EXCEPT ![p] = x.inv, ![q] = y.inv]
               /\ money' = [money EXCEPT ![p] = x.gold, ![q] = y.gold]
      BY <2>3, Zenon DEF Exchange
    <3>5. bag' \in Bags /\ money' \in [Persons -> Nat]
      <4>1. CASE UNCHANGED <<bag, money>>
        BY <4>1 DEF IInv, TypeOK
      <4>2. ASSUME NEW x \in DoTrade(bag[p], money[p], trade[i], trade[j]),
                   NEW y \in DoTrade(bag[q], money[q], trade[j], trade[i])
                              \cup {[ok |-> FALSE, inv |-> bag[q], gold |-> money[q]]},
                   bag' = [bag EXCEPT ![p] = x.inv, ![q] = y.inv],
                   money' = [money EXCEPT ![p] = x.gold, ![q] = y.gold]
            PROVE  bag' \in Bags /\ money' \in [Persons -> Nat]
        <5>1. x.inv \in Slots /\ x.gold \in Nat
          BY <2>1, <3>3, DoTradeType
        <5>2. y.inv \in Slots /\ y.gold \in Nat
          <6>1. CASE y \in DoTrade(bag[q], money[q], trade[j], trade[i])
            BY <6>1, <2>1, <3>3, DoTradeType
          <6>2. CASE y = [ok |-> FALSE, inv |-> bag[q], gold |-> money[q]]
            BY <6>2, <3>3
          <6> QED  BY <4>2, <6>1, <6>2
        <5> QED  BY <2>1, <3>2, <4>2, <5>1, <5>2 DEF Bags, Slots
      <4> QED  BY <3>4, <4>1, <4>2
    <3> QED  BY <2>1, <3>1, <3>5 DEF IInv, TypeOK, Online
  <2> QED  BY <1>2, <2>2, <2>3 DEF RequestTradeAgree
<1> QED  BY <1>1, <1>2

\* RequestTradeLock preserves the invariant.
LEMMA LockIInv ==
  ASSUME IInv, NEW i \in Ids, RequestTradeLock(i)
  PROVE  IInv'
<1>1. CASE DropBrokenTrade(i)
  BY <1>1, DropBrokenIInv
<1>2. CASE Paired(i) /\ trade' = [trade EXCEPT ![i].lock = TRUE]
           /\ UNCHANGED <<pc, disTrade, asked, goods>>
  <2>1. trade[i] \in TradeStates /\ Online(i)
    BY <1>2, PairedTypes
  <2>2. [trade[i] EXCEPT !.lock = TRUE] \in TradeStates
    BY <2>1 DEF TradeStates
  <2>3. trade' \in [Ids -> TradeStates] /\ \A k \in Ids : ~Online(k) => trade'[k] = trade[k]
    BY <1>2, <2>1, <2>2 DEF IInv, TypeOK
  <2> QED  BY <1>2, <2>3, TradesStep DEF IInv, TypeOK
<1> QED  BY <1>1, <1>2 DEF RequestTradeLock

\* RequestTradeCancel preserves the invariant.
LEMMA CancelIInv ==
  ASSUME IInv, NEW i \in Ids, RequestTradeCancel(i)
  PROVE  IInv'
<1> DEFINE j == trade[i].target
<1>1. CASE DropBrokenTrade(i)
  BY <1>1, DropBrokenIInv
<1>2. CASE Paired(i) /\ trade' = [trade EXCEPT ![i] = NoTrade, ![j] = NoTrade]
           /\ UNCHANGED <<pc, disTrade, asked, goods>>
  <2>1. j \in Ids /\ Online(i) /\ Online(j)
    BY <1>2, PairedTypes
  <2>2. trade' \in [Ids -> TradeStates] /\ \A k \in Ids : ~Online(k) => trade'[k] = trade[k]
    BY <1>2, <2>1, TradeTypes DEF IInv, TypeOK
  <2> QED  BY <1>2, <2>2, TradesStep DEF IInv, TypeOK
<1> QED  BY <1>1, <1>2 DEF RequestTradeCancel

\* What the handlers that edit an offer come to
LEMMA OfferEdits ==
  ASSUME IInv, NEW i \in Ids,
         \/ \E m \in 0..Gold : RequestTradeMoney(i, m)
         \/ \E c \in Cells, b \in BoxPos : RequestTradeItemResist(i, c, b)
         \/ \E b \in BoxPos : RequestTradeItemReMove(i, b)
  PROVE  \/ DropBrokenTrade(i)
         \/ /\ Paired(i)
            /\ \E mine \in TradeStates : mine.target = trade[i].target /\ Edit(i, mine)
<1> DEFINE Edits == \E mine \in TradeStates : mine.target = trade[i].target /\ Edit(i, mine)
<1> SUFFICES ASSUME ~DropBrokenTrade(i) PROVE Paired(i) /\ Edits
  BY Zenon
<1>1. Paired(i) /\ Online(i)
  BY PairedTypes DEF RequestTradeMoney, RequestTradeItemResist, RequestTradeItemReMove, MayEdit
<1>2. ASSUME NEW m \in 0..Gold, RequestTradeMoney(i, m)
      PROVE  Edits
  <2>1. Edit(i, [trade[i] EXCEPT !.money = m])
    BY <1>2 DEF RequestTradeMoney
  <2> QED  BY <1>1, <2>1, Offers
<1>3. ASSUME NEW c \in Cells, NEW b \in BoxPos, RequestTradeItemResist(i, c, b)
      PROVE  Edits
  <2>1. bag[pc[i]][c] # NoItem
        /\ Edit(i, [trade[i] EXCEPT !.box[b] = [item |-> bag[pc[i]][c], back |-> c]])
    BY <1>3 DEF RequestTradeItemResist
  <2>2. pc[i] \in Persons
    BY <1>1, OnlineIsPerson
  <2>3. [item |-> bag[pc[i]][c], back |-> c] \in Entry
    BY <2>1, <2>2 DEF IInv, TypeOK, Bags, Entry, Spots
  <2> QED  BY <1>1, <2>1, <2>3, Offers
<1>4. ASSUME NEW b \in BoxPos, RequestTradeItemReMove(i, b)
      PROVE  Edits
  <2>1. Edit(i, [trade[i] EXCEPT !.box[b] = NoEntry])
    BY <1>4 DEF RequestTradeItemReMove
  <2> QED  BY <1>1, <2>1, Offers
<1> QED  BY <1>1, <1>2, <1>3, <1>4

\* The three handlers that edit an offer preserve the invariant.
LEMMA OfferIInv ==
  ASSUME IInv, NEW i \in Ids,
         \/ \E m \in 0..Gold : RequestTradeMoney(i, m)
         \/ \E c \in Cells, b \in BoxPos : RequestTradeItemResist(i, c, b)
         \/ \E b \in BoxPos : RequestTradeItemReMove(i, b)
  PROVE  IInv'
  BY OfferEdits, DropBrokenIInv, EditIInv

\* Items put at some spots of an inventory make an inventory.
LEMMA RearrangeType ==
  ASSUME IInv, NEW i \in Ids, Online(i), NEW f, Rearrange(i, f),
         \A s \in DOMAIN f : f[s] \in Items \cup {NoItem}
  PROVE  bag' \in Bags
<1>1. pc[i] \in Persons /\ bag \in [Persons -> Slots]
  BY OnlineIsPerson DEF IInv, TypeOK, Bags, Slots
<1> DEFINE new == [s \in Spots |-> IF s \in DOMAIN f THEN f[s] ELSE bag[pc[i]][s]]
<1>2. new \in Slots
  BY <1>1 DEF Slots
<1>3. bag' = [bag EXCEPT ![pc[i]] = new]
  BY <1>1 DEF Rearrange
<1> HIDE DEF new
<1> QED  BY <1>1, <1>2, <1>3 DEF Bags, Slots

\* An item moves between two spots of one character.
LEMMA MoveIInv ==
  ASSUME IInv, NEW i \in Ids, NEW from \in Spots, NEW to \in Spots, MoveItem(i, from, to)
  PROVE  IInv'
<1> DEFINE f == [s \in {from, to} |-> IF s = to THEN bag[pc[i]][from] ELSE NoItem]
<1>1. Online(i) /\ Rearrange(i, f) /\ UNCHANGED <<pc, trade, disTrade, asked, money, land, landMoney>>
  BY Zenon DEF MoveItem, Has
<1>2. pc[i] \in Persons
  BY <1>1, OnlineIsPerson
<1>3. \A s \in DOMAIN f : f[s] \in Items \cup {NoItem}
  BY <1>2 DEF IInv, TypeOK, Bags
<1> HIDE DEF f
<1>4. bag' \in Bags
  BY <1>1, <1>3, RearrangeType
<1> QED  BY <1>1, <1>4, GoodsStep DEF IInv, TypeOK

\* The inventory handlers, in the middle of a trade or not, preserve the invariant.
LEMMA InventoryIInv ==
  ASSUME IInv, InventoryNext
  PROVE  IInv'
<1>1. Cells \subseteq Spots /\ HOLD \in Spots /\ SLOT \in Spots
  BY DEF Spots
<1>2. ASSUME NEW i \in Ids, NEW c \in Cells,
             MsgReqInvenToHold(i, c) \/ MsgReqInvenToSlot(i, c)
               \/ MsgReqSlotToHold(i) \/ MsgReqHoldToInven(i, c)
      PROVE  IInv'
  BY <1>1, <1>2, MoveIInv
     DEF MsgReqInvenToHold, MsgReqInvenToSlot, MsgReqSlotToHold, MsgReqHoldToInven
<1>3. ASSUME NEW i \in Ids, MsgReqSlotToHold(i)
      PROVE  IInv'
  BY <1>1, <1>3, MoveIInv DEF MsgReqSlotToHold
<1>4. ASSUME NEW i \in Ids, NEW c \in Cells, MsgReqInvenExHold(i, c)
      PROVE  IInv'
  <2> DEFINE f == [s \in {c, HOLD} |-> bag[pc[i]][IF s = c THEN HOLD ELSE c]]
  <2>1. Online(i) /\ Rearrange(i, f)
        /\ UNCHANGED <<pc, trade, disTrade, asked, money, land, landMoney>>
    BY <1>4, Zenon DEF MsgReqInvenExHold, Has
  <2>2. pc[i] \in Persons
    BY <2>1, OnlineIsPerson
  <2>3. \A s \in DOMAIN f : f[s] \in Items \cup {NoItem}
    BY <2>2, <1>1 DEF IInv, TypeOK, Bags
  <2> HIDE DEF f
  <2>4. bag' \in Bags
    BY <2>1, <2>3, RearrangeType
  <2> QED  BY <2>1, <2>4, GoodsStep DEF IInv, TypeOK
<1>5. ASSUME NEW i \in Ids, MsgReqHoldToField(i)
      PROVE  IInv'
  <2> DEFINE f == [s \in {HOLD} |-> NoItem]
  <2>1. Online(i) /\ Rearrange(i, f) /\ bag[pc[i]][HOLD] # NoItem
        /\ land' = land \cup {bag[pc[i]][HOLD]}
        /\ UNCHANGED <<pc, trade, disTrade, asked, money, landMoney>>
    BY <1>5, Zenon DEF MsgReqHoldToField, Has
  <2>2. pc[i] \in Persons
    BY <2>1, OnlineIsPerson
  <2>3. land' \in SUBSET Items
    BY <2>1, <2>2, <1>1 DEF IInv, TypeOK, Bags
  <2>4. \A s \in DOMAIN f : f[s] \in Items \cup {NoItem}
    OBVIOUS
  <2> HIDE DEF f
  <2>5. bag' \in Bags
    BY <2>1, <2>4, RearrangeType
  <2> QED  BY <2>1, <2>3, <2>5, GoodsStep DEF IInv, TypeOK
<1>6. ASSUME NEW i \in Ids, NEW x \in Items, NEW s \in Spots, Online(i),
             Rearrange(i, [r \in {s} |-> x]), land' = land \ {x},
             UNCHANGED <<pc, trade, disTrade, asked, money, landMoney>>
      PROVE  IInv'
  <2> DEFINE f == [r \in {s} |-> x]
  <2>1. \A r \in DOMAIN f : f[r] \in Items \cup {NoItem}
    OBVIOUS
  <2>2. bag' \in Bags
    BY <1>6, <2>1, RearrangeType
  <2>3. land' \in SUBSET Items
    BY <1>6 DEF IInv, TypeOK
  <2> QED  BY <1>6, <2>2, <2>3, GoodsStep DEF IInv, TypeOK
<1>7. ASSUME NEW i \in Ids, NEW x \in Items, NEW c \in Cells,
             MsgReqFieldToInven(i, x, c) \/ MsgReqFieldToHold(i, x)
      PROVE  IInv'
  BY <1>1, <1>6, <1>7, Zenon DEF MsgReqFieldToInven, MsgReqFieldToHold, Lacks
<1>8. ASSUME NEW i \in Ids, NEW x \in Items, MsgReqFieldToHold(i, x)
      PROVE  IInv'
  BY <1>1, <1>6, <1>8, Zenon DEF MsgReqFieldToHold
<1>9. ASSUME NEW i \in Ids, NEW m \in 1..Gold, MsgReqMoneyToField(i, m) \/ MoneyToInven(i, m)
      PROVE  IInv'
  <2>1. Online(i) /\ UNCHANGED <<pc, trade, disTrade, asked, bag, land>>
    BY <1>9 DEF MsgReqMoneyToField, MoneyToInven
  <2>2. pc[i] \in Persons /\ money \in [Persons -> Nat] /\ landMoney \in Nat /\ m \in Nat
    BY <2>1, OnlineIsPerson, NumberAssumption DEF IInv, TypeOK
  <2>3. money[pc[i]] \in Nat
    BY <2>2
  <2>4. money' \in [Persons -> Nat] /\ landMoney' \in Nat
    BY <1>9, <2>2, <2>3 DEF MsgReqMoneyToField, MoneyToInven
  <2> QED  BY <2>1, <2>4, GoodsStep DEF IInv, TypeOK
<1> QED  BY <1>2, <1>3, <1>4, <1>5, <1>7, <1>8, <1>9 DEF InventoryNext

\* Characters that go back to the pool leave no trade at their ids.
LEMMA DropOutIInv ==
  ASSUME IInv, NEW D \in SUBSET Ids, NEW tr \in [Ids -> TradeStates], DropOutPC(D, tr),
         \A i \in Ids : ~Online(i) => tr[i] = NoTrade
  PROVE  IInv'
<1>1. trade' \in [Ids -> TradeStates]
  BY TradeTypes DEF DropOutPC, ResetData
<1>2. pc' \in [Ids -> Persons \cup {Nobody}] /\ disTrade' \in [Ids -> BOOLEAN]
      /\ asked' \in [Ids -> Ids \cup {NULL}]
  BY DEF DropOutPC, IInv, TypeOK
<1>3. bag' \in Bags /\ money' \in [Persons -> Nat] /\ land' \in SUBSET Items /\ landMoney' \in Nat
  BY DEF DropOutPC, IInv, TypeOK, goods
<1>4. \A i \in Ids : ~(pc'[i] # Nobody) => trade'[i] = NoTrade
  BY DEF DropOutPC, ResetData, Online
<1>5. \A i \in Ids : asked'[i] # i
  BY NullAssumption DEF DropOutPC, IInv
<1> QED  BY <1>1, <1>2, <1>3, <1>4, <1>5 DEF IInv, TypeOK, Online

\* A frame keeps the timers in range and gives no trade to an empty id.
LEMMA FrameTrades ==
  ASSUME IInv, NEW present \in SUBSET Ids
  PROVE  /\ [i \in Ids |-> TradeFrameMove(trade[i], present)] \in [Ids -> TradeStates]
         /\ \A i \in Ids : ~Online(i) => TradeFrameMove(trade[i], present) = NoTrade
<1>1. \A i \in Ids : trade[i] \in TradeStates
  BY DEF IInv, TypeOK
<1>2. \A i \in Ids : TradeFrameMove(trade[i], present) \in TradeStates
  BY <1>1, FrameType
<1>3. \A i \in Ids : ~Online(i) => TradeFrameMove(trade[i], present) = NoTrade
  BY <1>1, FrameType, TradeTypes DEF IInv
<1> QED  BY <1>2, <1>3

\* Joining, eviction and the frame preserve the invariant.
LEMMA PresenceIInv ==
  ASSUME IInv, PresenceNext
  PROVE  IInv'
<1>1. ASSUME NEW p \in Persons, NEW i \in Ids, CreatePC(p, i)
      PROVE  IInv'
  BY <1>1 DEF CreatePC, IInv, TypeOK, Online, goods
<1>2. ASSUME NEW p \in Persons, NEW i \in Ids, RequestFieldSvrCharChk(p, i)
      PROVE  IInv'
  <2> DEFINE D == {k \in Ids : Online(k) /\ (k = i \/ pc[k] = p)}
  <2>1. DropOutPC(D, trade) /\ D \in SUBSET Ids
    BY <1>2 DEF RequestFieldSvrCharChk
  <2> HIDE DEF D
  <2>2. trade \in [Ids -> TradeStates] /\ \A k \in Ids : ~Online(k) => trade[k] = NoTrade
    BY DEF IInv, TypeOK
  <2> QED  BY <2>1, <2>2, DropOutIInv
<1>3. ASSUME NEW D1 \in SUBSET Ids, NEW D2 \in SUBSET Ids, FrameMove(D1, D2)
      PROVE  IInv'
  <2> DEFINE present == {i \in Ids : Online(i)} \ D1
             tr == [i \in Ids |-> TradeFrameMove(trade[i], present)]
  <2>1. DropOutPC(D1 \cup D2, tr) /\ present \in SUBSET Ids
    BY <1>3 DEF FrameMove
  <2> HIDE DEF present
  <2>2. tr \in [Ids -> TradeStates] /\ \A i \in Ids : ~Online(i) => tr[i] = NoTrade
    BY <2>1, FrameTrades
  <2> HIDE DEF tr
  <2> QED  BY <2>1, <2>2, DropOutIInv
<1> QED  BY <1>1, <1>2, <1>3 DEF PresenceNext

\* Every step preserves the invariant.
LEMMA NextIInv == IInv /\ [Next]_vars => IInv'
<1> SUFFICES ASSUME IInv, [Next]_vars PROVE IInv'
  OBVIOUS
<1>1. ASSUME NEW i \in Ids, NEW j \in Ids, RequestTrade(i, j)
      PROVE  IInv'
  <2>1. asked' \in [Ids -> Ids \cup {NULL}] /\ \A k \in Ids : asked'[k] # k
    BY <1>1 DEF RequestTrade, IInv, TypeOK
  <2> QED  BY <1>1, <2>1, TradesStep DEF RequestTrade, IInv, TypeOK
<1>2. ASSUME NEW i \in Ids, NEW b \in BOOLEAN, SetDisTrade(i, b)
      PROVE  IInv'
  <2>1. disTrade' \in [Ids -> BOOLEAN]
    BY <1>2 DEF SetDisTrade, IInv, TypeOK
  <2> QED  BY <1>2, <2>1, TradesStep DEF SetDisTrade, IInv, TypeOK
<1>3. CASE TradeNext
  BY <1>1, <1>2, <1>3, OpenIInv, OfferIInv, LockIInv, CancelIInv, AgreeIInv DEF TradeNext
<1>4. CASE UNCHANGED vars
  BY <1>4 DEF vars, IInv, TypeOK, Online
<1> QED  BY <1>3, <1>4, InventoryIInv, PresenceIInv DEF Next

\* The state keeps its types, an id without an occupant has no trade, and no one
\* trades with, or is asked to trade by, himself.
THEOREM Invariance == Spec => []IInv
<1>1. Spec => [](IInv)
  BY InitIInv, NextIInv, PTL DEF Spec
<1> QED  BY <1>1

\* Every handler keeps the state within its types: no offer names a cell or an
\* item that does not exist, no timer or amount of money leaves its range, for
\* any number of characters, ids, items and cells.
THEOREM TypeCorrect == Spec => []TypeOK
<1>1. IInv => TypeOK
  BY DEF IInv
<1> QED  BY <1>1, Invariance, PTL

-----------------------------------------------------------------------------
(***************************************************************************)
(* What a step does to the trades: of all the handlers only these shapes   *)
(* are left.                                                               *)
(***************************************************************************)

\* The terms of the trade of k: whom with, what is offered
SameTerms(k) ==
  /\ trade'[k].target = trade[k].target
  /\ trade'[k].box = trade[k].box
  /\ trade'[k].money = trade[k].money

\* No terms change (an agreement, a lock or a timer may).
TermsKept == pc' = pc /\ \A k \in Ids : SameTerms(k)

\* Something is changed in the trade of i: neither side agrees any more.
Edited(i) ==
  /\ Paired(i) /\ pc' = pc
  /\ trade'[i].target = trade[i].target /\ ~trade'[i].agree
  /\ trade'[trade[i].target].target = i /\ ~trade'[trade[i].target].agree
  /\ \A k \in Ids \ {i, trade[i].target} : trade'[k] = trade[k]

\* The trade of i ends, and with it its partner's, if it has one.
Ended(i) ==
  /\ pc' = pc /\ trade'[i] = NoTrade /\ Valid(i)
  /\ \/ ~Paired(i) /\ \A k \in Ids \ {i} : trade'[k] = trade[k]
     \/ /\ Paired(i) /\ trade'[trade[i].target] = NoTrade
        /\ \A k \in Ids \ {i, trade[i].target} : trade'[k] = trade[k]

Opened(i, m) ==
  /\ i # m /\ ~Valid(i) /\ ~Valid(m) /\ pc' = pc
  /\ trade'[i] = [NoTrade EXCEPT !.target = m]
  /\ trade'[m] = [NoTrade EXCEPT !.target = i]
  /\ \A k \in Ids \ {i, m} : trade'[k] = trade[k]

Entered(i) ==
  /\ ~Online(i) /\ trade' = trade
  /\ \A k \in Ids \ {i} : pc'[k] = pc[k]

\* The occupants of D leave; whoever traded with somebody who left or was not
\* there may lose its trade.
Left(D) ==
  /\ \A k \in D : pc'[k] = Nobody /\ trade'[k] = NoTrade
  /\ \A k \in Ids \ D : pc'[k] = pc[k]
  /\ \A k \in Ids \ D :
       \/ SameTerms(k) /\ trade'[k].agree = trade[k].agree
       \/ /\ trade'[k] = NoTrade
          /\ trade[k].target \in D \/ ~Online(trade[k].target)

\* Edit changes my offer and takes back both agreements, and does nothing else.
LEMMA EditShape ==
  ASSUME IInv, NEW i \in Ids, Paired(i), NEW mine \in TradeStates,
         mine.target = trade[i].target, Edit(i, mine)
  PROVE  Edited(i)
<1> DEFINE j == trade[i].target
<1>1. j \in Ids /\ trade[j] \in TradeStates /\ trade[j].target = i
  BY PairedTypes
<1>2. trade' = [trade EXCEPT ![i] = BlockAgree(mine), ![j] = BlockAgree(@)] /\ pc' = pc
  BY DEF Edit
<1>3. /\ BlockAgree(mine).target = j /\ ~BlockAgree(mine).agree
      /\ BlockAgree(trade[j]).target = i /\ ~BlockAgree(trade[j]).agree
      /\ BlockAgree(BlockAgree(mine)).target = j /\ ~BlockAgree(BlockAgree(mine)).agree
  BY <1>1, BlockAgreeType
<1>4. \A k \in Ids \ {i, j} : trade'[k] = trade[k]
  BY <1>1, <1>2 DEF IInv, TypeOK
<1>5. trade'[i] = BlockAgree(mine) \/ trade'[i] = BlockAgree(BlockAgree(mine))
  BY <1>1, <1>2 DEF IInv, TypeOK
<1>6. i # j => trade'[j] = BlockAgree(trade[j])
  BY <1>1, <1>2 DEF IInv, TypeOK
<1> QED  BY <1>1, <1>2, <1>3, <1>4, <1>5, <1>6 DEF Edited

\* Dropping a broken trade ends one that had no partner.
LEMMA DropBrokenShape ==
  ASSUME IInv, NEW i \in Ids, DropBrokenTrade(i)
  PROVE  Ended(i)
  BY DEF DropBrokenTrade, Ended, IInv, TypeOK

\* A trade handler keeps the terms, edits an offer, ends a trade or opens one.
LEMMA TradeShape ==
  ASSUME IInv, TradeNext
  PROVE  \/ TermsKept
         \/ \E i \in Ids : Edited(i) \/ Ended(i)
         \/ \E i, m \in Ids : Opened(i, m)
<1> DEFINE Shape == \/ TermsKept
                    \/ \E i \in Ids : Edited(i) \/ Ended(i)
                    \/ \E i, m \in Ids : Opened(i, m)
<1>1. (\E i, j \in Ids : RequestTrade(i, j)) \/ (\E i \in Ids, b \in BOOLEAN : SetDisTrade(i, b))
        => TermsKept
  BY DEF RequestTrade, SetDisTrade, TermsKept, SameTerms
<1>2. ASSUME NEW i \in Ids, NEW ok \in BOOLEAN, RequestTradeTarAns(i, ok)
      PROVE  Shape
  <2> DEFINE m == asked[i]
             with(k) == [NoTrade EXCEPT !.target = k]
  <2>1. m \in Ids /\ m # i /\ pc' = pc
    BY <1>2 DEF IInv, TypeOK, RequestTradeTarAns
  <2>2. \/ trade' = trade
        \/ ~Valid(i) /\ ~Valid(m) /\ trade' = [trade EXCEPT ![i] = with(m), ![m] = with(i)]
    BY <1>2 DEF RequestTradeTarAns
  <2>3. CASE trade' = trade
    BY <2>1, <2>3 DEF TermsKept, SameTerms
  <2>4. CASE ~Valid(i) /\ ~Valid(m) /\ trade' = [trade EXCEPT ![i] = with(m), ![m] = with(i)]
    <3>1. trade'[i] = with(m) /\ trade'[m] = with(i)
          /\ \A k \in Ids \ {i, m} : trade'[k] = trade[k]
      BY <2>1, <2>4 DEF IInv, TypeOK
    <3>2. Opened(i, m)
      BY <2>1, <2>4, <3>1 DEF Opened
    <3> QED  BY <2>1, <3>2
  <2> QED  BY <2>2, <2>3, <2>4
<1>3. ASSUME NEW i \in Ids,
             \/ \E m \in 0..Gold : RequestTradeMoney(i, m)
             \/ \E c \in Cells, b \in BoxPos : RequestTradeItemResist(i, c, b)
             \/ \E b \in BoxPos : RequestTradeItemReMove(i, b)
      PROVE  Shape
  BY <1>3, OfferEdits, EditShape, DropBrokenShape
\* A lock or an agreement is set.
<1>4. ASSUME NEW i \in Ids, Paired(i), pc' = pc,
             \/ trade' = [trade EXCEPT ![i].lock = TRUE]
             \/ trade' = [trade EXCEPT ![i].agree = TRUE]
      PROVE  TermsKept
  <2> DEFINE locked == [trade[i] EXCEPT !.lock = TRUE]
             agreed == [trade[i] EXCEPT !.agree = TRUE]
  <2>1. trade[i] \in TradeStates /\ trade \in [Ids -> TradeStates]
    BY DEF IInv, TypeOK
  <2>2. \A t \in {locked, agreed} :
          t.target = trade[i].target /\ t.box = trade[i].box /\ t.money = trade[i].money
    BY <2>1 DEF TradeStates
  <2>3. trade' = [trade EXCEPT ![i] = locked] \/ trade' = [trade EXCEPT ![i] = agreed]
    BY <1>4
  <2> HIDE DEF locked, agreed
  <2>4. trade'[i] \in {locked, agreed} /\ \A k \in Ids \ {i} : trade'[k] = trade[k]
    BY <2>1, <2>3
  <2> QED  BY <1>4, <2>2, <2>4 DEF TermsKept, SameTerms
\* Both sides' trades are reset.
<1>5. ASSUME NEW i \in Ids, Paired(i), pc' = pc,
             trade' = [trade EXCEPT ![i] = NoTrade, ![trade[i].target] = NoTrade]
      PROVE  Ended(i)
  <2>1. trade[i].target \in Ids /\ trade \in [Ids -> TradeStates] /\ Valid(i)
    BY <1>5, PairedTypes DEF IInv, TypeOK, Paired
  <2> QED  BY <1>5, <2>1 DEF Ended
<1>6. ASSUME NEW i \in Ids, RequestTradeLock(i) \/ RequestTradeCancel(i) \/ RequestTradeAgree(i)
      PROVE  Shape
  <2>1. CASE DropBrokenTrade(i)
    BY <2>1, DropBrokenShape
  <2>2. CASE RequestTradeLock(i) /\ ~DropBrokenTrade(i)
    BY <1>4, <2>2 DEF RequestTradeLock
  <2>3. CASE RequestTradeCancel(i) /\ ~DropBrokenTrade(i)
    BY <1>5, <2>3 DEF RequestTradeCancel
  <2>4. CASE RequestTradeAgree(i) /\ ~DropBrokenTrade(i)
    <3>1. /\ Paired(i) /\ pc' = pc
          /\ \/ trade' = [trade EXCEPT ![i] = NoTrade, ![trade[i].target] = NoTrade]
             \/ trade' = [trade EXCEPT ![i].agree = TRUE]
      BY <2>4, Zenon DEF RequestTradeAgree
    <3> QED  BY <1>4, <1>5, <3>1
  <2> QED  BY <1>6, <2>1, <2>2, <2>3, <2>4
<1> QED  BY <1>1, <1>2, <1>3, <1>6 DEF TradeNext

\* An inventory handler leaves every trade as it was.
LEMMA InventoryShape ==
  ASSUME InventoryNext
  PROVE  TermsKept
<1>1. UNCHANGED <<pc, trade>>
  BY DEF InventoryNext, MsgReqInvenToHold, MsgReqInvenToSlot, MsgReqSlotToHold,
         MsgReqHoldToInven, MoveItem, MsgReqInvenExHold, MsgReqHoldToField,
         MsgReqFieldToInven, MsgReqFieldToHold, MsgReqMoneyToField, MoneyToInven
<1> QED  BY <1>1 DEF TermsKept, SameTerms

\* Joining fills an empty id; the frame and an eviction empty ids and free orphans.
LEMMA PresenceShape ==
  ASSUME IInv, PresenceNext
  PROVE  (\E i \in Ids : Entered(i)) \/ (\E D \in SUBSET Ids : Left(D))
<1>1. ASSUME NEW p \in Persons, NEW i \in Ids, CreatePC(p, i)
      PROVE  Entered(i)
  BY <1>1 DEF CreatePC, Entered, IInv, TypeOK
<1>2. ASSUME NEW p \in Persons, NEW i \in Ids, RequestFieldSvrCharChk(p, i)
      PROVE  \E D \in SUBSET Ids : Left(D)
  <2> DEFINE D == {k \in Ids : Online(k) /\ (k = i \/ pc[k] = p)}
  <2>1. DropOutPC(D, trade) /\ D \in SUBSET Ids
    BY <1>2 DEF RequestFieldSvrCharChk
  <2> HIDE DEF D
  <2>2. Left(D)
    BY <2>1 DEF DropOutPC, Left, SameTerms, ResetData
  <2> QED  BY <2>1, <2>2
<1>3. ASSUME NEW D1 \in SUBSET Ids, NEW D2 \in SUBSET Ids, FrameMove(D1, D2)
      PROVE  \E D \in SUBSET Ids : Left(D)
  <2> DEFINE present == {i \in Ids : Online(i)} \ D1
             tr == [i \in Ids |-> TradeFrameMove(trade[i], present)]
             D == D1 \cup D2
  <2>1. DropOutPC(D, tr)
    BY <1>3 DEF FrameMove
  <2>2. \A k \in Ids : trade[k] \in TradeStates
    BY DEF IInv, TypeOK
  <2>3. ASSUME NEW k \in Ids \ D, ~(SameTerms(k) /\ trade'[k].agree = trade[k].agree)
        PROVE  /\ trade'[k] = NoTrade
               /\ trade[k].target \in D \/ ~Online(trade[k].target)
    <3>1. trade'[k] = TradeFrameMove(trade[k], present)
      BY <2>1 DEF DropOutPC
    <3>2. trade'[k] = NoTrade /\ trade[k].target \notin present /\ trade[k].target # NULL
      BY <2>2, <2>3, <3>1, FrameType DEF SameTerms
    <3> QED  BY <2>2, <3>2 DEF TradeStates
  <2>4. /\ \A k \in D : pc'[k] = Nobody /\ trade'[k] = NoTrade
        /\ \A k \in Ids \ D : pc'[k] = pc[k]
    BY <2>1 DEF DropOutPC, ResetData
  <2>5. Left(D)
    BY <2>3, <2>4 DEF Left
  <2> QED  BY <2>5
<1> QED  BY <1>1, <1>2, <1>3 DEF PresenceNext

\* What a step can do to the trades, whichever handler it is.
LEMMA Shapes ==
  ASSUME IInv, [Next]_vars
  PROVE  \/ TermsKept
         \/ \E i \in Ids : Edited(i) \/ Ended(i) \/ Entered(i)
         \/ \E i, m \in Ids : Opened(i, m)
         \/ \E D \in SUBSET Ids : Left(D)
<1>1. UNCHANGED vars => TermsKept
  BY DEF vars, TermsKept, SameTerms
<1> QED  BY <1>1, TradeShape, InventoryShape, PresenceShape DEF Next

\* Partners stay partners as long as the target, the characters and their
\* presence stay.
LEMMA PartnersFacts ==
  ASSUME IInv, NEW i \in Ids, NEW j \in Ids, Partners(i, j)
  PROVE  /\ Paired(i) /\ Paired(j) /\ Online(i) /\ Online(j)
         /\ trade[i].target = j /\ trade[j].target = i /\ Valid(i) /\ Valid(j)
  BY NullAssumption DEF Partners, Paired, Valid

\* What it is to be partners after a step.
LEMMA PartnersNext ==
  ASSUME NEW i \in Ids, NEW j \in Ids
  PROVE  /\ Partners(i, j)' <=> /\ pc'[i] # Nobody /\ pc'[j] # Nobody
                                /\ trade'[i].target = j /\ trade'[j].target = i
         /\ Valid(i)' <=> trade'[i].target # NULL
  BY NullAssumption DEF Partners, Paired, Valid, Online

\* Two characters that become partners in a step open a new trade.
LEMMA FreshStep ==
  ASSUME IInv, [Next]_vars, NEW i \in Ids, NEW j \in Ids, Partners(i, j)',
         ~(Partners(i, j) /\ pc[i]' = pc[i] /\ pc[j]' = pc[j])
  PROVE  trade[i]' = [NoTrade EXCEPT !.target = j]
<1>1. /\ pc'[i] # Nobody /\ pc'[j] # Nobody
      /\ trade'[i].target = j /\ trade'[j].target = i
  BY PartnersNext
<1>2. NoTrade.target = NULL /\ NULL \notin Ids
  BY TradeTypes, NullAssumption
<1>3. ~(/\ pc[i] # Nobody /\ pc[j] # Nobody /\ trade[i].target = j /\ trade[j].target = i
        /\ pc'[i] = pc[i] /\ pc'[j] = pc[j])
  BY <1>2 DEF Partners, Paired, Valid, Online
<1>4. \A k \in Ids : ~Online(k) => trade[k].target = NULL
  BY <1>2 DEF IInv
<1>5. ~TermsKept
  BY <1>1, <1>2, <1>3, <1>4 DEF TermsKept, SameTerms, Online
<1>6. ASSUME NEW k \in Ids, Edited(k) PROVE FALSE
  <2>1. \A l \in Ids : trade'[l].target = trade[l].target
    BY <1>6, PairedTypes DEF Edited
  <2> QED  BY <1>1, <1>3, <1>6, <2>1 DEF Edited
<1>7. ASSUME NEW k \in Ids, Ended(k) PROVE FALSE
  <2>1. trade'[i] = trade[i] /\ trade'[j] = trade[j]
    BY <1>1, <1>2, <1>7 DEF Ended
  <2> QED  BY <1>1, <1>3, <1>7, <2>1 DEF Ended
<1>8. ASSUME NEW k \in Ids, Entered(k) PROVE FALSE
  <2>1. i # k /\ j # k
    BY <1>1, <1>2, <1>4, <1>8 DEF Entered
  <2> QED  BY <1>1, <1>3, <1>8, <2>1 DEF Entered
<1>9. ASSUME NEW D \in SUBSET Ids, Left(D) PROVE FALSE
  <2>1. i \notin D /\ j \notin D
    BY <1>1, <1>9 DEF Left
  <2>2. trade[i].target = j /\ trade[j].target = i
    BY <1>1, <1>2, <1>9, <2>1 DEF Left, SameTerms
  <2> QED  BY <1>1, <1>3, <1>9, <2>1, <2>2 DEF Left
<1>10. ASSUME NEW k \in Ids, NEW m \in Ids, Opened(k, m)
       PROVE  trade'[i] = [NoTrade EXCEPT !.target = j]
  <2>1. [NoTrade EXCEPT !.target = m].target = m /\ [NoTrade EXCEPT !.target = k].target = k
    BY TradeTypes
  <2>2. CASE i = k
    BY <1>1, <1>10, <2>1, <2>2 DEF Opened
  <2>3. CASE i = m
    BY <1>1, <1>10, <2>1, <2>3 DEF Opened
  <2>4. CASE i # k /\ i # m
    <3>1. trade'[i] = trade[i] /\ trade'[j] = trade[j]
      BY <1>1, <1>10, <2>1, <2>4 DEF Opened
    <3> QED  BY <1>1, <1>3, <1>10, <3>1 DEF Opened
  <2> QED  BY <2>2, <2>3, <2>4
<1> QED  BY <1>5, <1>6, <1>7, <1>8, <1>9, <1>10, Shapes

\* Two characters become partners only by opening a new trade: a trade left
\* behind at a Gaea id is never resumed by the id's next occupant.
THEOREM TradesStartFresh == Spec => PairsStartFresh
<1> DEFINE Fresh == \A i, j \in Ids :
                      Partners(i, j)' /\ ~(Partners(i, j) /\ pc[i]' = pc[i] /\ pc[j]' = pc[j])
                        => trade[i]' = [NoTrade EXCEPT !.target = j]
<1>1. IInv /\ [Next]_vars => Fresh
  BY FreshStep
<1>2. UNCHANGED vars => Fresh
  BY PartnersNext DEF vars, Partners, Paired, Valid, Online
<1> QED  BY <1>1, <1>2, Invariance, PTL DEF Spec, PairsStartFresh

\* Whoever ends a trade of two characters that stay ends it for both in one step.
THEOREM TradesEndTogether == Spec => PairsEndTogether
<1> DEFINE Together == \A i, j \in Ids :
                         Partners(i, j) /\ ~Partners(i, j)' /\ pc[i]' = pc[i] /\ pc[j]' = pc[j]
                           => ~Valid(i)' /\ ~Valid(j)'
<1>1. ASSUME IInv, [Next]_vars, NEW i \in Ids, NEW j \in Ids, Partners(i, j),
             ~Partners(i, j)', pc'[i] = pc[i], pc'[j] = pc[j]
      PROVE  ~Valid(i)' /\ ~Valid(j)'
  <2>1. /\ Paired(i) /\ Paired(j) /\ Online(i) /\ Online(j)
        /\ trade[i].target = j /\ trade[j].target = i /\ Valid(i) /\ Valid(j)
    BY <1>1, PartnersFacts
  <2>2. ~(trade'[i].target = j /\ trade'[j].target = i)
    BY <1>1, <2>1, PartnersNext DEF Online
  <2>3. NoTrade.target = NULL
    BY TradeTypes
  <2>4. ~TermsKept
    BY <2>1, <2>2 DEF TermsKept, SameTerms
  <2>5. ASSUME NEW k \in Ids, Edited(k) PROVE FALSE
    <3>1. \A l \in Ids : trade'[l].target = trade[l].target
      BY <1>1, <2>5, PairedTypes DEF Edited
    <3> QED  BY <2>1, <2>2, <3>1
  <2>6. ASSUME NEW k \in Ids, Ended(k) PROVE trade'[i] = NoTrade /\ trade'[j] = NoTrade
    <3>1. CASE k = i \/ k = j
      BY <2>1, <2>6, <3>1 DEF Ended
    <3>2. CASE k # i /\ k # j
      <4>1. Paired(k) => trade[k].target # i /\ trade[k].target # j
        BY <1>1, <2>1, <3>2, PairedTypes
      <4>2. trade'[i] = trade[i] /\ trade'[j] = trade[j]
        BY <2>6, <3>2, <4>1 DEF Ended
      <4> QED  BY <2>1, <2>2, <4>2
    <3> QED  BY <3>1, <3>2
  <2>7. \A k \in Ids : ~Entered(k)
    BY <2>1, <2>2 DEF Entered
  <2>8. \A k, m \in Ids : ~Opened(k, m)
    BY <2>1, <2>2 DEF Opened
  <2>9. ASSUME NEW D \in SUBSET Ids, Left(D) PROVE FALSE
    <3>1. i \notin D /\ j \notin D
      BY <1>1, <2>1, <2>9 DEF Left, Online
    <3> QED  BY <2>1, <2>2, <2>9, <3>1 DEF Left, SameTerms
  <2>10. trade'[i] = NoTrade /\ trade'[j] = NoTrade
    BY <1>1, <2>4, <2>5, <2>6, <2>7, <2>8, <2>9, Shapes
  <2> QED  BY <2>3, <2>10, PartnersNext
<1>2. IInv /\ [Next]_vars => Together
  BY <1>1
<1>3. UNCHANGED vars => Together
  BY PartnersNext DEF vars, Partners, Paired, Valid, Online
<1> QED  BY <1>2, <1>3, Invariance, PTL DEF Spec, PairsEndTogether

\* A step that leaves two characters partners and one of them agreed changes the
\* offers of neither.
LEMMA TermsStep ==
  ASSUME IInv, [Next]_vars, NEW i \in Ids, NEW j \in Ids, Partners(i, j),
         Partners(i, j)', trade'[i].agree
  PROVE  SameTerms(i) /\ SameTerms(j)
<1>1. /\ Paired(i) /\ Paired(j) /\ Online(i) /\ Online(j)
      /\ trade[i].target = j /\ trade[j].target = i /\ Valid(i) /\ Valid(j)
  BY PartnersFacts
<1>2. /\ pc'[i] # Nobody /\ pc'[j] # Nobody
      /\ trade'[i].target = j /\ trade'[j].target = i
  BY PartnersNext
<1>3. NoTrade.target = NULL /\ NULL \notin Ids
  BY TradeTypes, NullAssumption
<1>4. TermsKept => SameTerms(i) /\ SameTerms(j)
  BY DEF TermsKept
<1>5. ASSUME NEW k \in Ids, Edited(k) PROVE SameTerms(i) /\ SameTerms(j)
  <2>1. k # i /\ k # j
    BY <1>1, <1>5 DEF Edited
  <2>2. trade[k].target # i /\ trade[k].target # j
    BY <1>1, <1>5, <2>1, PairedTypes DEF Edited
  <2> QED  BY <1>5, <2>1, <2>2 DEF Edited, SameTerms
<1>6. ASSUME NEW k \in Ids, Ended(k) PROVE SameTerms(i) /\ SameTerms(j)
  BY <1>2, <1>3, <1>6 DEF Ended, SameTerms
<1>7. ASSUME NEW k \in Ids, Entered(k) PROVE SameTerms(i) /\ SameTerms(j)
  BY <1>7 DEF Entered, SameTerms
<1>8. \A k, m \in Ids : Opened(k, m) => SameTerms(i) /\ SameTerms(j)
  BY <1>1 DEF Opened, SameTerms
<1>9. ASSUME NEW D \in SUBSET Ids, Left(D) PROVE SameTerms(i) /\ SameTerms(j)
  BY <1>2, <1>3, <1>9 DEF Left
<1> QED  BY <1>4, <1>5, <1>6, <1>7, <1>8, <1>9, Shapes

\* What a character agreed to does not change while the agreement stands: an
\* edit by either side takes the agreements of both back.
THEOREM AgreementBinds == Spec => OfferStable
<1> DEFINE Stable == \A i, j \in Ids :
       Partners(i, j) /\ trade[i].agree /\ Partners(i, j)' /\ trade[i].agree'
         => /\ trade[i].box' = trade[i].box /\ trade[i].money' = trade[i].money
            /\ trade[j].box' = trade[j].box /\ trade[j].money' = trade[j].money
<1>1. IInv /\ [Next]_vars => Stable
  BY TermsStep DEF SameTerms
<1>2. UNCHANGED vars => Stable
  BY DEF vars
<1> QED  BY <1>1, <1>2, Invariance, PTL DEF Spec, OfferStable

-----------------------------------------------------------------------------
(***************************************************************************)
(* No item is in two places, and none is lost but in a hand: an exchange   *)
(* and the inventory handlers only move items.                             *)
(***************************************************************************)

\* Nobody stands at two ids, and nobody trades with himself.
Apart ==
  /\ \A i, j \in Ids : Online(i) /\ pc[i] = pc[j] => i = j
  /\ \A i \in Ids : trade[i].target # i

DInv == IInv /\ Apart /\ NoDup

LEMMA ApartStep ==
  ASSUME IInv, Apart, [Next]_vars
  PROVE  Apart'
<1>1. NoTrade.target = NULL /\ NULL \notin Ids
  BY TradeTypes, NullAssumption
<1>2. ASSUME NEW i \in Ids PROVE trade'[i].target # i
  <2>1. trade[i].target # i
    BY DEF Apart
  <2>2. ASSUME NEW k \in Ids, Edited(k) PROVE trade'[i].target # i
    <3>1. \A l \in Ids : trade'[l].target = trade[l].target
      BY <2>2, PairedTypes DEF Edited
    <3> QED  BY <2>1, <3>1
  <2>3. ASSUME NEW k \in Ids, Ended(k) \/ Entered(k) PROVE trade'[i].target # i
    BY <1>1, <2>1, <2>3 DEF Ended, Entered
  <2>4. ASSUME NEW k \in Ids, NEW m \in Ids, Opened(k, m) PROVE trade'[i].target # i
    <3>1. [NoTrade EXCEPT !.target = m].target = m /\ [NoTrade EXCEPT !.target = k].target = k
      BY TradeTypes
    <3>2. trade'[k].target = m /\ trade'[m].target = k
      BY <2>4, <3>1 DEF Opened
    <3> QED  BY <2>1, <2>4, <3>2 DEF Opened
  <2>5. ASSUME NEW D \in SUBSET Ids, Left(D) PROVE trade'[i].target # i
    BY <1>1, <2>1, <2>5 DEF Left, SameTerms
  <2> QED  BY <2>1, <2>2, <2>3, <2>4, <2>5, Shapes DEF TermsKept, SameTerms
<1>3. \/ pc' = pc
      \/ \E p \in Persons, i \in Ids : CreatePC(p, i)
      \/ \E D \in SUBSET Ids : \A i \in Ids : pc'[i] = IF i \in D THEN Nobody ELSE pc[i]
  <2>1. ASSUME NEW p \in Persons, NEW i \in Ids, RequestFieldSvrCharChk(p, i)
        PROVE  \E D \in SUBSET Ids : \A k \in Ids : pc'[k] = IF k \in D THEN Nobody ELSE pc[k]
    <3> DEFINE D == {k \in Ids : Online(k) /\ (k = i \/ pc[k] = p)}
    <3>1. \A k \in Ids : pc'[k] = IF k \in D THEN Nobody ELSE pc[k]
      BY <2>1 DEF RequestFieldSvrCharChk, DropOutPC
    <3>2. D \in SUBSET Ids
      OBVIOUS
    <3> QED  BY <3>1, <3>2
  <2>2. ASSUME NEW D1 \in SUBSET Ids, NEW D2 \in SUBSET Ids, FrameMove(D1, D2)
        PROVE  \E D \in SUBSET Ids : \A k \in Ids : pc'[k] = IF k \in D THEN Nobody ELSE pc[k]
    <3>1. \A k \in Ids : pc'[k] = IF k \in D1 \cup D2 THEN Nobody ELSE pc[k]
      BY <2>2 DEF FrameMove, DropOutPC
    <3> QED  BY <3>1
  <2>3. TradeNext => pc' = pc
    BY DEF TradeNext, DropBrokenTrade, RequestTrade, RequestTradeTarAns, SetDisTrade,
           RequestTradeMoney, RequestTradeItemResist, RequestTradeItemReMove, Edit,
           RequestTradeLock, RequestTradeCancel, RequestTradeAgree
  <2>4. InventoryNext => pc' = pc
    BY DEF InventoryNext, MsgReqInvenToHold, MsgReqInvenToSlot, MsgReqSlotToHold,
           MsgReqHoldToInven, MoveItem, MsgReqInvenExHold, MsgReqHoldToField,
           MsgReqFieldToInven, MsgReqFieldToHold, MsgReqMoneyToField, MoneyToInven
  <2> QED  BY <2>1, <2>2, <2>3, <2>4 DEF Next, PresenceNext, vars
<1>4. ASSUME NEW p \in Persons, NEW i \in Ids, CreatePC(p, i),
             NEW k \in Ids, NEW l \in Ids, pc'[k] # Nobody, pc'[k] = pc'[l]
      PROVE  k = l
  <2>1. \A m \in Ids : pc'[m] = IF m = i THEN p ELSE pc[m]
    BY <1>4 DEF CreatePC, IInv, TypeOK
  <2> QED  BY <1>4, <2>1 DEF CreatePC, Apart, Online
<1>5. \A k, l \in Ids : pc'[k] # Nobody /\ pc'[k] = pc'[l] => k = l
  <2>1. CASE pc' = pc
    BY <2>1 DEF Apart, Online
  <2>2. ASSUME NEW D \in SUBSET Ids,
               \A i \in Ids : pc'[i] = IF i \in D THEN Nobody ELSE pc[i]
        PROVE  \A k, l \in Ids : pc'[k] # Nobody /\ pc'[k] = pc'[l] => k = l
    BY <2>2 DEF Apart, Online
  <2> QED  BY <1>3, <1>4, <2>1, <2>2
<1> QED  BY <1>2, <1>5 DEF Apart, Online

\* From inv to new, the other's items come to spots f that were empty or are
\* emptied, my own offered items leave, and the rest stays where it is.
Placed(inv, new, mine, theirs, f) ==
  /\ f \in [Filled(theirs) -> Spots]
  /\ \A b \in Filled(theirs) :
       /\ new[f[b]] = theirs.box[b].item
       /\ inv[f[b]] = NoItem \/ \E c \in Filled(mine) : mine.box[c].back = f[b]
  /\ \A s \in Spots : (\A b \in Filled(theirs) : f[b] # s) =>
       new[s] = IF \E c \in Filled(mine) : mine.box[c].back = s THEN NoItem ELSE inv[s]

\* Under the checks of RequestTradeAgree, DoTrade succeeds and does this to an
\* inventory.
LEMMA DoTradeMoves ==
  ASSUME NEW inv \in Slots, NEW gold \in Nat,
         NEW mine \in TradeStates, NEW theirs \in TradeStates,
         IsVaildTradeData(inv, gold, mine), IsVaildTradeInvenSpace(inv, mine, theirs),
         NEW x \in DoTrade(inv, gold, mine, theirs)
  PROVE  /\ x.ok = TRUE /\ x.gold = gold - mine.money + theirs.money
         /\ \E f : Placed(inv, x.inv, mine, theirs, f)
<1> DEFINE rest == Deleted(inv, mine, Filled(mine))
           paid == gold - mine.money + theirs.money
<1>1. mine.money \in Nat
  BY NumberAssumption DEF TradeStates
<1>2. /\ ~(gold < mine.money) /\ Filled(mine) \ Deletable(inv, mine) = {}
      /\ Placements(rest, theirs) # {}
  BY <1>1 DEF IsVaildTradeData, IsVaildTradeInvenSpace
<1>3. x \in {[ok |-> TRUE, inv |-> Inserted(rest, theirs, f), gold |-> paid] :
               f \in Placements(rest, theirs)}
  BY <1>2 DEF DoTrade
<1>4. PICK f \in Placements(rest, theirs) :
        x = [ok |-> TRUE, inv |-> Inserted(rest, theirs, f), gold |-> paid]
  BY <1>3
<1>5. /\ f \in [Filled(theirs) -> Free(rest)] /\ DOMAIN f = Filled(theirs)
      /\ \A b, c \in Filled(theirs) : f[b] = f[c] => b = c
  BY DEF Placements, Injection, IsInjective
<1>6. \A s \in Spots : rest[s] = IF \E c \in Filled(mine) : mine.box[c].back = s
                                THEN NoItem ELSE inv[s]
  BY DEF Deleted
<1>7. \A b \in Filled(theirs) : f[b] \in Spots /\ rest[f[b]] = NoItem
  BY <1>5 DEF Free, Spots
<1>8. x.inv = Inserted(rest, theirs, f) /\ x.ok = TRUE /\ x.gold = paid
  BY <1>4
<1> HIDE DEF rest
<1>9. ASSUME NEW b \in Filled(theirs) PROVE x.inv[f[b]] = theirs.box[b].item
  <2>1. (CHOOSE c \in DOMAIN f : f[c] = f[b]) = b
    BY <1>5
  <2>2. \E c \in DOMAIN f : f[c] = f[b]
    BY <1>5
  <2>3. x.inv[f[b]] = theirs.box[CHOOSE c \in DOMAIN f : f[c] = f[b]].item
    BY <1>7, <1>8, <2>2 DEF Inserted
  <2> QED  BY <2>1, <2>3
<1>10. ASSUME NEW s \in Spots, \A b \in Filled(theirs) : f[b] # s PROVE x.inv[s] = rest[s]
  BY <1>5, <1>8, <1>10 DEF Inserted
<1>11. f \in [Filled(theirs) -> Spots]
  BY <1>5, <1>7
<1>12. \A b \in Filled(theirs) :
         inv[f[b]] = NoItem \/ \E c \in Filled(mine) : mine.box[c].back = f[b]
  BY <1>6, <1>7
<1>13. \A s \in Spots : (\A b \in Filled(theirs) : f[b] # s) =>
          x.inv[s] = IF \E c \in Filled(mine) : mine.box[c].back = s THEN NoItem ELSE inv[s]
  BY <1>6, <1>10
<1> QED  BY <1>8, <1>9, <1>11, <1>12, <1>13 DEF Placed

\* What the checks say of an offer: its items lie where it says, in cells of
\* their own.
LEMMA OfferLies ==
  ASSUME NEW inv \in Slots, NEW gold, NEW mine \in TradeStates, NEW theirs,
         IsVaildTradeData(inv, gold, mine), IsVaildTradeInvenSpace(inv, mine, theirs)
  PROVE  /\ \A b \in Filled(mine) :
              /\ mine.box[b].back \in Spots
              /\ inv[mine.box[b].back] = mine.box[b].item /\ mine.box[b].item # NoItem
         /\ \A b, c \in Filled(mine) : mine.box[b].back = mine.box[c].back => b = c
<1>1. \A b \in Filled(mine) : mine.box[b] \in Entry /\ b \in BoxPos
  BY DEF Filled, TradeStates, Boxes
<1>2. \A b \in Filled(mine) :
              /\ mine.box[b].back \in Spots
              /\ inv[mine.box[b].back] = mine.box[b].item /\ mine.box[b].item # NoItem
  BY <1>1, ItemAssumption DEF IsVaildTradeData, Entry, Spots
<1>3. ASSUME NEW b \in Filled(mine), NEW c \in Filled(mine), b # c
      PROVE  mine.box[b].back # mine.box[c].back
  <2>1. b \in Nat /\ c \in Nat
    BY <1>1, NumberAssumption
  <2>2. b \in Deletable(inv, mine) /\ c \in Deletable(inv, mine)
    BY DEF IsVaildTradeInvenSpace
  <2>3. b < c \/ c < b
    BY <1>3, <2>1
  <2> QED  BY <2>2, <2>3 DEF Deletable
<1> QED  BY <1>2, <1>3

\* Where an item can be
Places == Persons \X Spots

At(g, a) == g[a[1]][a[2]]

\* Every item goes to a place of its own, and every item at a place came so.
Shuffled == \E d \in [Places -> Places] :
  /\ \A a \in Places : At(bag, a) # NoItem => At(bag', d[a]) = At(bag, a)
  /\ \A c \in Places :
       At(bag', c) # NoItem => \E a \in Places : d[a] = c /\ At(bag, a) = At(bag', c)

LEMMA PlaceFacts ==
  ASSUME NEW g, NEW p \in Persons, NEW s \in Spots
  PROVE  <<p, s>> \in Places /\ At(g, <<p, s>>) = g[p][s]
BY DEF Places, At

LEMMA ShuffledKeeps ==
  ASSUME TypeOK, NoDup, Shuffled, land' = land
  PROVE  NoDup' /\ Owned \subseteq Owned'
<1>1. PICK d \in [Places -> Places] :
        /\ \A a \in Places : At(bag, a) # NoItem => At(bag', d[a]) = At(bag, a)
        /\ \A c \in Places : At(bag', c) # NoItem => \E a \in Places : d[a] = c /\ At(bag, a) = At(bag', c)
  BY DEF Shuffled
<1>2. \A a, b \in Places : At(bag, a) = At(bag, b) /\ At(bag, a) # NoItem => a = b
  BY DEF NoDup, Places, At
<1>3. \A a, b \in Places : At(bag', a) = At(bag', b) /\ At(bag', a) # NoItem => a = b
  BY <1>1, <1>2
<1>4. ASSUME NEW p \in Persons, NEW q \in Persons, NEW s \in Spots, NEW t \in Spots,
             bag'[p][s] = bag'[q][t], bag'[p][s] # NoItem
      PROVE  p = q /\ s = t
  <2>1. /\ <<p, s>> \in Places /\ At(bag', <<p, s>>) = bag'[p][s]
        /\ <<q, t>> \in Places /\ At(bag', <<q, t>>) = bag'[q][t]
    BY PlaceFacts
  <2>2. <<p, s>> = <<q, t>>
    BY <1>3, <1>4, <2>1
  <2> QED  BY <2>2
<1>5. ASSUME NEW p \in Persons, NEW s \in Spots
      PROVE  bag'[p][s] \notin land
  <2>1. \A a \in Places : At(bag, a) \notin land
    BY DEF NoDup, Places, At
  <2>2. CASE bag'[p][s] # NoItem
    <3>1. <<p, s>> \in Places /\ At(bag', <<p, s>>) = bag'[p][s]
      BY PlaceFacts
    <3>2. PICK a \in Places : At(bag, a) = At(bag', <<p, s>>)
      BY <1>1, <2>2, <3>1
    <3> QED  BY <2>1, <3>1, <3>2
  <2>3. CASE bag'[p][s] = NoItem
    BY <2>3, ItemAssumption DEF TypeOK
  <2> QED  BY <2>2, <2>3
<1>6. ASSUME NEW p \in Persons, NEW s \in Spots, bag[p][s] \in Items
      PROVE  \E q \in Persons, t \in Spots : bag'[q][t] = bag[p][s]
  <2>1. d[<<p, s>>] \in Places /\ At(bag', d[<<p, s>>]) = bag[p][s]
    BY <1>1, <1>6, PlaceFacts, ItemAssumption
  <2> QED  BY <2>1 DEF Places, At
<1> QED  BY <1>4, <1>5, <1>6 DEF NoDup, Owned

\* An exchange happens under all checks and whole, or not at all.
LEMMA ExchangePlaces ==
  ASSUME DInv, NEW i \in Ids, NEW j \in Ids, Paired(i), trade[i].target = j, Exchange(i, j)
  PROVE  \/ UNCHANGED <<bag, money>>
         \/ /\ IsVaildTradeData(bag[pc[i]], money[pc[i]], trade[i])
            /\ IsVaildTradeData(bag[pc[j]], money[pc[j]], trade[j])
            /\ IsVaildTradeInvenSpace(bag[pc[i]], trade[i], trade[j])
            /\ IsVaildTradeInvenSpace(bag[pc[j]], trade[j], trade[i])
            /\ \E f : Placed(bag[pc[i]], bag'[pc[i]], trade[i], trade[j], f)
            /\ \E g : Placed(bag[pc[j]], bag'[pc[j]], trade[j], trade[i], g)
            /\ \A r \in Persons \ {pc[i], pc[j]} : bag'[r] = bag[r]
            /\ money' = [money EXCEPT ![pc[i]] = money[pc[i]] - trade[i].money + trade[j].money,
                                      ![pc[j]] = money[pc[j]] - trade[j].money + trade[i].money]
<1> DEFINE p == pc[i]
           q == pc[j]
           ti == trade[i]
           tj == trade[j]
<1>1. /\ ti \in TradeStates /\ tj \in TradeStates
      /\ p \in Persons /\ q \in Persons /\ p # q
      /\ bag \in [Persons -> Slots] /\ money \in [Persons -> Nat]
  BY PairedTypes DEF DInv, Apart, IInv, TypeOK, Bags, Slots
<1> SUFFICES ASSUME ~UNCHANGED <<bag, money>>
             PROVE  /\ IsVaildTradeData(bag[p], money[p], ti) /\ IsVaildTradeData(bag[q], money[q], tj)
                    /\ IsVaildTradeInvenSpace(bag[p], ti, tj) /\ IsVaildTradeInvenSpace(bag[q], tj, ti)
                    /\ \E f : Placed(bag[p], bag'[p], ti, tj, f)
                    /\ \E g : Placed(bag[q], bag'[q], tj, ti, g)
                    /\ \A r \in Persons \ {p, q} : bag'[r] = bag[r]
                    /\ money' = [money EXCEPT ![p] = money[p] - ti.money + tj.money,
                                              ![q] = money[q] - tj.money + ti.money]
  OBVIOUS
<1>2. /\ IsVaildTradeData(bag[p], money[p], ti) /\ IsVaildTradeData(bag[q], money[q], tj)
      /\ IsVaildTradeInvenSpace(bag[p], ti, tj) /\ IsVaildTradeInvenSpace(bag[q], tj, ti)
      /\ \E x \in DoTrade(bag[p], money[p], ti, tj) :
         \E y \in IF x.ok THEN DoTrade(bag[q], money[q], tj, ti)
                  ELSE {[ok |-> FALSE, inv |-> bag[q], gold |-> money[q]]} :
           /\ bag' = [bag EXCEPT ![p] = x.inv, ![q] = y.inv]
           /\ money' = [money EXCEPT ![p] = x.gold, ![q] = y.gold]
  BY Zenon DEF Exchange
<1> HIDE DEF p, q, ti, tj
<1>3. PICK x \in DoTrade(bag[p], money[p], ti, tj) :
         \E y \in IF x.ok THEN DoTrade(bag[q], money[q], tj, ti)
                  ELSE {[ok |-> FALSE, inv |-> bag[q], gold |-> money[q]]} :
           /\ bag' = [bag EXCEPT ![p] = x.inv, ![q] = y.inv]
           /\ money' = [money EXCEPT ![p] = x.gold, ![q] = y.gold]
  BY <1>2
<1>4. bag[p] \in Slots /\ bag[q] \in Slots /\ money[p] \in Nat /\ money[q] \in Nat
  BY <1>1
<1>5. /\ x.ok = TRUE /\ x.gold = money[p] - ti.money + tj.money
      /\ \E f : Placed(bag[p], x.inv, ti, tj, f)
  BY <1>1, <1>2, <1>4, DoTradeMoves
<1>6. PICK y \in DoTrade(bag[q], money[q], tj, ti) :
           /\ bag' = [bag EXCEPT ![p] = x.inv, ![q] = y.inv]
           /\ money' = [money EXCEPT ![p] = x.gold, ![q] = y.gold]
  BY <1>3, <1>5
<1>7. /\ y.gold = money[q] - tj.money + ti.money
      /\ \E g : Placed(bag[q], y.inv, tj, ti, g)
  <2>1. /\ tj \in TradeStates /\ ti \in TradeStates
        /\ bag[q] \in Slots /\ money[q] \in Nat
        /\ IsVaildTradeData(bag[q], money[q], tj) /\ IsVaildTradeInvenSpace(bag[q], tj, ti)
        /\ y \in DoTrade(bag[q], money[q], tj, ti)
    BY <1>1, <1>2, <1>4
  <2> QED  BY <2>1, DoTradeMoves
<1>8. bag'[p] = x.inv /\ bag'[q] = y.inv /\ \A r \in Persons \ {p, q} : bag'[r] = bag[r]
  BY <1>1, <1>6
<1> QED  BY <1>2, <1>5, <1>6, <1>7, <1>8

\* The exchange shuffles the items of the two.
LEMMA ExchangeShuffles ==
  ASSUME DInv, NEW i \in Ids, Paired(i), Exchange(i, trade[i].target)
  PROVE  UNCHANGED bag \/ Shuffled
<1> SUFFICES ASSUME ~UNCHANGED bag PROVE Shuffled
  OBVIOUS
<1>0. trade[i].target \in Ids
  BY PairedTypes DEF DInv
<1>j. PICK j \in Ids : trade[i].target = j
  BY <1>0
<1> DEFINE p == pc[i]
           q == pc[j]
           ti == trade[i]
           tj == trade[j]
<1>1. /\ ti \in TradeStates /\ tj \in TradeStates
      /\ p \in Persons /\ q \in Persons /\ p # q
      /\ bag \in [Persons -> Slots] /\ money \in [Persons -> Nat]
  BY <1>j, PairedTypes DEF DInv, Apart, IInv, TypeOK, Bags, Slots
<1>2. /\ IsVaildTradeData(bag[p], money[p], ti) /\ IsVaildTradeData(bag[q], money[q], tj)
      /\ IsVaildTradeInvenSpace(bag[p], ti, tj) /\ IsVaildTradeInvenSpace(bag[q], tj, ti)
      /\ \E f : Placed(bag[p], bag'[p], ti, tj, f)
      /\ \E g : Placed(bag[q], bag'[q], tj, ti, g)
      /\ \A r \in Persons \ {p, q} : bag'[r] = bag[r]
  BY <1>j, ExchangePlaces
<1> HIDE DEF p, q, ti, tj
<1>4. bag[p] \in Slots /\ bag[q] \in Slots
  BY <1>1
<1>f. PICK f : Placed(bag[p], bag'[p], ti, tj, f)
  BY <1>2
<1>g. PICK g : Placed(bag[q], bag'[q], tj, ti, g)
  BY <1>2
<1>7. /\ \A b \in Filled(tj) :
           /\ f[b] \in Spots /\ bag'[p][f[b]] = tj.box[b].item
           /\ bag[p][f[b]] = NoItem \/ \E c \in Filled(ti) : ti.box[c].back = f[b]
      /\ \A s \in Spots : (\A b \in Filled(tj) : f[b] # s) =>
           bag'[p][s] = IF \E c \in Filled(ti) : ti.box[c].back = s THEN NoItem ELSE bag[p][s]
  BY <1>f DEF Placed
<1>8. /\ \A b \in Filled(ti) :
           /\ g[b] \in Spots /\ bag'[q][g[b]] = ti.box[b].item
           /\ bag[q][g[b]] = NoItem \/ \E c \in Filled(tj) : tj.box[c].back = g[b]
      /\ \A s \in Spots : (\A b \in Filled(ti) : g[b] # s) =>
           bag'[q][s] = IF \E c \in Filled(tj) : tj.box[c].back = s THEN NoItem ELSE bag[q][s]
  BY <1>g DEF Placed
<1>9. /\ \A b \in Filled(ti) : /\ ti.box[b].back \in Spots /\ ti.box[b].item # NoItem
                               /\ bag[p][ti.box[b].back] = ti.box[b].item
      /\ \A b, c \in Filled(ti) : ti.box[b].back = ti.box[c].back => b = c
  BY <1>1, <1>2, <1>4, OfferLies
<1>10. /\ \A b \in Filled(tj) : /\ tj.box[b].back \in Spots /\ tj.box[b].item # NoItem
                                /\ bag[q][tj.box[b].back] = tj.box[b].item
       /\ \A b, c \in Filled(tj) : tj.box[b].back = tj.box[c].back => b = c
  BY <1>1, <1>2, <1>4, OfferLies
<1> DEFINE BackI(s, b) == b \in Filled(ti) /\ ti.box[b].back = s
           BackJ(s, b) == b \in Filled(tj) /\ tj.box[b].back = s
           d == [a \in Places |->
                   IF a[1] = p /\ \E b : BackI(a[2], b) THEN <<q, g[CHOOSE b : BackI(a[2], b)]>>
                   ELSE IF a[1] = q /\ \E b : BackJ(a[2], b)
                   THEN <<p, f[CHOOSE b : BackJ(a[2], b)]>> ELSE a]
<1>12. \A s, b : BackI(s, b) => (CHOOSE c : BackI(s, c)) = b
  BY <1>9
<1>13. \A s, b : BackJ(s, b) => (CHOOSE c : BackJ(s, c)) = b
  BY <1>10
<1>14. ASSUME NEW s \in Spots, NEW b, BackI(s, b) PROVE d[<<p, s>>] = <<q, g[b]>>
  BY <1>1, <1>12, <1>14 DEF Places
<1>15. ASSUME NEW s \in Spots, NEW b, BackJ(s, b) PROVE d[<<q, s>>] = <<p, f[b]>>
  BY <1>1, <1>13, <1>15 DEF Places
<1>16. ASSUME NEW r \in Persons, NEW s \in Spots,
              ~(r = p /\ \E b : BackI(s, b)), ~(r = q /\ \E b : BackJ(s, b))
       PROVE  d[<<r, s>>] = <<r, s>>
  BY <1>16 DEF Places
<1> HIDE DEF d, BackI, BackJ
<1>17. ASSUME NEW a \in Places PROVE d[a] \in Places /\ (At(bag, a) # NoItem => At(bag', d[a]) = At(bag, a))
  <2>1. PICK r \in Persons, s \in Spots : a = <<r, s>>
    BY DEF Places
  <2>2. At(bag, a) = bag[r][s]
    BY <2>1, PlaceFacts
  <2>3. ASSUME NEW b, r = p, BackI(s, b) PROVE d[a] \in Places /\ At(bag', d[a]) = At(bag, a)
    <3>1. d[a] = <<q, g[b]>> /\ g[b] \in Spots
      BY <1>8, <1>14, <2>1, <2>3 DEF BackI
    <3>2. At(bag', <<q, g[b]>>) = bag'[q][g[b]]
      BY <1>1, <3>1, PlaceFacts
    <3> QED  BY <1>1, <1>8, <1>9, <2>2, <2>3, <3>1, <3>2, PlaceFacts DEF BackI
  <2>4. ASSUME NEW b, r = q, BackJ(s, b) PROVE d[a] \in Places /\ At(bag', d[a]) = At(bag, a)
    <3>1. d[a] = <<p, f[b]>> /\ f[b] \in Spots
      BY <1>7, <1>15, <2>1, <2>4 DEF BackJ
    <3>2. At(bag', <<p, f[b]>>) = bag'[p][f[b]]
      BY <1>1, <3>1, PlaceFacts
    <3> QED  BY <1>1, <1>7, <1>10, <2>2, <2>4, <3>1, <3>2, PlaceFacts DEF BackJ
  <2>5. ASSUME ~(r = p /\ \E b : BackI(s, b)), ~(r = q /\ \E b : BackJ(s, b))
        PROVE  d[a] \in Places /\ (At(bag, a) # NoItem => At(bag', d[a]) = At(bag, a))
    <3>1. d[a] = a
      BY <1>16, <2>1, <2>5
    <3>2. At(bag', a) = bag'[r][s]
      BY <2>1, PlaceFacts
    <3>3. bag[r][s] # NoItem => bag'[r][s] = bag[r][s]
      BY <1>2, <1>7, <1>8, <2>5 DEF BackI, BackJ
    <3> QED  BY <2>2, <3>1, <3>2, <3>3
  <2> QED  BY <2>3, <2>4, <2>5
<1>18. ASSUME NEW c \in Places, At(bag', c) # NoItem
       PROVE  \E a \in Places : d[a] = c /\ At(bag, a) = At(bag', c)
  <2>1. PICK r \in Persons, s \in Spots : c = <<r, s>>
    BY DEF Places
  <2>2. At(bag', c) = bag'[r][s]
    BY <2>1, PlaceFacts
  <2>3. ASSUME NEW b \in Filled(tj), r = p, f[b] = s
        PROVE  \E a \in Places : d[a] = c /\ At(bag, a) = At(bag', c)
    <3> DEFINE a == <<q, tj.box[b].back>>
    <3>1. a \in Places /\ At(bag, a) = tj.box[b].item
      BY <1>1, <1>10, PlaceFacts
    <3>2. d[a] = c
      BY <1>10, <1>15, <2>1, <2>3 DEF BackJ
    <3>3. At(bag', c) = tj.box[b].item
      BY <1>7, <2>2, <2>3
    <3> QED  BY <3>1, <3>2, <3>3
  <2>4. ASSUME NEW b \in Filled(ti), r = q, g[b] = s
        PROVE  \E a \in Places : d[a] = c /\ At(bag, a) = At(bag', c)
    <3> DEFINE a == <<p, ti.box[b].back>>
    <3>1. a \in Places /\ At(bag, a) = ti.box[b].item
      BY <1>1, <1>9, PlaceFacts
    <3>2. d[a] = c
      BY <1>9, <1>14, <2>1, <2>4 DEF BackI
    <3>3. At(bag', c) = ti.box[b].item
      BY <1>8, <2>2, <2>4
    <3> QED  BY <3>1, <3>2, <3>3
  <2>5. ASSUME ~(r = p /\ \E b \in Filled(tj) : f[b] = s),
               ~(r = q /\ \E b \in Filled(ti) : g[b] = s)
        PROVE  \E a \in Places : d[a] = c /\ At(bag, a) = At(bag', c)
    <3>1. /\ bag'[r][s] = bag[r][s]
          /\ ~(r = p /\ \E b : BackI(s, b)) /\ ~(r = q /\ \E b : BackJ(s, b))
      BY <1>2, <1>7, <1>8, <1>18, <2>2, <2>5 DEF BackI, BackJ
    <3>2. d[c] = c
      BY <1>16, <2>1, <3>1
    <3>3. At(bag, c) = At(bag', c)
      BY <2>1, <2>2, <3>1, PlaceFacts
    <3> QED  BY <3>2, <3>3
  <2> QED  BY <2>3, <2>4, <2>5
<1>19. d \in [Places -> Places]
  BY <1>17 DEF d
<1> QED  BY <1>17, <1>18, <1>19 DEF Shuffled

\* Two spots of one character change contents (one may be empty).
Swapped(p, s, t) ==
  /\ \A q \in Persons \ {p} : bag'[q] = bag[q]
  /\ \A r \in Spots : bag'[p][r] = IF r = s THEN bag[p][t]
                                    ELSE IF r = t THEN bag[p][s] ELSE bag[p][r]

LEMMA SwapShuffles ==
  ASSUME NEW p \in Persons, NEW s \in Spots, NEW t \in Spots, Swapped(p, s, t)
  PROVE  Shuffled
<1> DEFINE d == [a \in Places |-> IF a = <<p, s>> THEN <<p, t>>
                                  ELSE IF a = <<p, t>> THEN <<p, s>> ELSE a]
<1>1. /\ <<p, s>> \in Places /\ At(bag, <<p, s>>) = bag[p][s] /\ At(bag', <<p, s>>) = bag[p][t]
      /\ <<p, t>> \in Places /\ At(bag, <<p, t>>) = bag[p][t] /\ At(bag', <<p, t>>) = bag[p][s]
  BY PlaceFacts DEF Swapped
<1>2. ASSUME NEW a \in Places, a # <<p, s>>, a # <<p, t>> PROVE At(bag', a) = At(bag, a)
  <2>1. PICK q \in Persons, r \in Spots : a = <<q, r>>
    BY DEF Places
  <2>2. bag'[q][r] = bag[q][r]
    BY <1>2, <2>1 DEF Swapped
  <2>3. At(bag', a) = bag'[q][r] /\ At(bag, a) = bag[q][r]
    BY <2>1, PlaceFacts
  <2> QED  BY <2>2, <2>3
<1>3. d \in [Places -> Places] /\ \A a \in Places : At(bag', d[a]) = At(bag, a) /\ d[d[a]] = a
  BY <1>1, <1>2
<1> HIDE DEF d
<1>4. \A c \in Places : d[c] \in Places /\ d[d[c]] = c /\ At(bag, d[c]) = At(bag', c)
  BY <1>3
<1> QED  BY <1>3, <1>4 DEF Shuffled

\* What Rearrange does, spot by spot
LEMMA Rearranged ==
  ASSUME IInv, NEW i \in Ids, Online(i), NEW f, Rearrange(i, f)
  PROVE  /\ pc[i] \in Persons /\ \A q \in Persons \ {pc[i]} : bag'[q] = bag[q]
         /\ \A s \in Spots : bag'[pc[i]][s] = IF s \in DOMAIN f THEN f[s] ELSE bag[pc[i]][s]
BY OnlineIsPerson DEF IInv, TypeOK, Bags, Rearrange

\* Some handler keeps every item where it is, or moves items about, or puts one
\* on the field, or takes one from it.
ToField(p) ==
  /\ bag[p][HOLD] # NoItem
  /\ land' = land \cup {bag[p][HOLD]}
  /\ \A q \in Persons \ {p} : bag'[q] = bag[q]
  /\ \A s \in Spots : bag'[p][s] = IF s = HOLD THEN NoItem ELSE bag[p][s]

FromField(p, x, s) ==
  /\ x \in land /\ land' = land \ {x}
  /\ bag[p][s] = NoItem \/ s = HOLD
  /\ \A q \in Persons \ {p} : bag'[q] = bag[q]
  /\ \A t \in Spots : bag'[p][t] = IF t = s THEN x ELSE bag[p][t]

\* What a character can do to goods by itself
OwnShape ==
  \/ UNCHANGED <<bag, land>>
  \/ \E p \in Persons, s, u \in Spots : Swapped(p, s, u) /\ land' = land
  \/ \E p \in Persons : ToField(p)
  \/ \E p \in Persons, x \in Items, s \in Spots : FromField(p, x, s)

GoodsShape ==
  \/ UNCHANGED <<bag, land>>
  \/ Shuffled /\ land' = land
  \/ \E p \in Persons : ToField(p)
  \/ \E p \in Persons, x \in Items, s \in Spots : FromField(p, x, s)

LEMMA MoveShape ==
  ASSUME IInv, NEW i \in Ids, NEW from \in Spots, NEW to \in Spots, MoveItem(i, from, to)
  PROVE  OwnShape
<1> DEFINE f == [s \in {from, to} |-> IF s = to THEN bag[pc[i]][from] ELSE NoItem]
<1>1. Online(i) /\ Rearrange(i, f) /\ bag[pc[i]][from] # NoItem /\ bag[pc[i]][to] = NoItem
      /\ land' = land
  BY Zenon DEF MoveItem, Has, Lacks
<1>2. DOMAIN f = {from, to} /\ f[to] = bag[pc[i]][from] /\ (from # to => f[from] = NoItem)
  OBVIOUS
<1> HIDE DEF f
<1>3. /\ pc[i] \in Persons /\ \A q \in Persons \ {pc[i]} : bag'[q] = bag[q]
      /\ \A s \in Spots : bag'[pc[i]][s] = IF s \in DOMAIN f THEN f[s] ELSE bag[pc[i]][s]
  BY <1>1, Rearranged
<1>4. \A r \in Spots : bag'[pc[i]][r] = IF r = from THEN bag[pc[i]][to]
                                        ELSE IF r = to THEN bag[pc[i]][from] ELSE bag[pc[i]][r]
  BY <1>1, <1>2, <1>3
<1>5. Swapped(pc[i], from, to)
  BY <1>3, <1>4 DEF Swapped
<1> QED  BY <1>1, <1>3, <1>5 DEF OwnShape

LEMMA InventoryOwn ==
  ASSUME IInv, InventoryNext
  PROVE  OwnShape
<1>1. Cells \subseteq Spots /\ HOLD \in Spots /\ SLOT \in Spots
  BY DEF Spots
<1>2. ASSUME NEW i \in Ids, NEW c \in Cells,
             MsgReqInvenToHold(i, c) \/ MsgReqInvenToSlot(i, c) \/ MsgReqHoldToInven(i, c)
      PROVE  OwnShape
  BY <1>1, <1>2, MoveShape DEF MsgReqInvenToHold, MsgReqInvenToSlot, MsgReqHoldToInven
<1>3. ASSUME NEW i \in Ids, MsgReqSlotToHold(i)
      PROVE  OwnShape
  BY <1>1, <1>3, MoveShape DEF MsgReqSlotToHold
<1>4. ASSUME NEW i \in Ids, NEW c \in Cells, MsgReqInvenExHold(i, c)
      PROVE  OwnShape
  <2> DEFINE f == [s \in {c, HOLD} |-> bag[pc[i]][IF s = c THEN HOLD ELSE c]]
  <2>1. Online(i) /\ Rearrange(i, f) /\ land' = land
    BY <1>4, Zenon DEF MsgReqInvenExHold, Has
  <2>2. c # HOLD
    BY SpotsAssumption
  <2>3. DOMAIN f = {c, HOLD} /\ f[c] = bag[pc[i]][HOLD] /\ f[HOLD] = bag[pc[i]][c]
    BY <2>2
  <2> HIDE DEF f
  <2>4. /\ pc[i] \in Persons /\ \A q \in Persons \ {pc[i]} : bag'[q] = bag[q]
        /\ \A s \in Spots : bag'[pc[i]][s] = IF s \in DOMAIN f THEN f[s] ELSE bag[pc[i]][s]
    BY <2>1, Rearranged
  <2>5. \A r \in Spots : bag'[pc[i]][r] = IF r = c THEN bag[pc[i]][HOLD]
                                          ELSE IF r = HOLD THEN bag[pc[i]][c] ELSE bag[pc[i]][r]
    BY <2>3, <2>4
  <2>6. Swapped(pc[i], c, HOLD)
    BY <2>4, <2>5 DEF Swapped
  <2> QED  BY <1>1, <2>1, <2>4, <2>6 DEF OwnShape
<1>5. ASSUME NEW i \in Ids, MsgReqHoldToField(i)
      PROVE  OwnShape
  <2> DEFINE f == [s \in {HOLD} |-> NoItem]
  <2>1. Online(i) /\ Rearrange(i, f) /\ bag[pc[i]][HOLD] # NoItem
        /\ land' = land \cup {bag[pc[i]][HOLD]}
    BY <1>5, Zenon DEF MsgReqHoldToField, Has
  <2>2. ToField(pc[i]) /\ pc[i] \in Persons
    BY <2>1, Rearranged DEF ToField
  <2> QED  BY <2>2 DEF OwnShape
<1>6. ASSUME NEW i \in Ids, NEW x \in Items, NEW s \in Spots, Online(i),
             Rearrange(i, [r \in {s} |-> x]), land' = land \ {x}, x \in land,
             bag[pc[i]][s] = NoItem \/ s = HOLD
      PROVE  OwnShape
  <2>1. FromField(pc[i], x, s) /\ pc[i] \in Persons
    BY <1>6, Rearranged DEF FromField
  <2> QED  BY <2>1 DEF OwnShape
<1>7. ASSUME NEW i \in Ids, NEW x \in Items, NEW c \in Cells, MsgReqFieldToInven(i, x, c)
      PROVE  OwnShape
  BY <1>1, <1>6, <1>7, Zenon DEF MsgReqFieldToInven, Lacks
<1>8. ASSUME NEW i \in Ids, NEW x \in Items, MsgReqFieldToHold(i, x)
      PROVE  OwnShape
  BY <1>1, <1>6, <1>8, Zenon DEF MsgReqFieldToHold
<1>9. ASSUME NEW i \in Ids, NEW m \in 1..Gold, MsgReqMoneyToField(i, m) \/ MoneyToInven(i, m)
      PROVE  OwnShape
  BY <1>9 DEF OwnShape, MsgReqMoneyToField, MoneyToInven
<1> QED  BY <1>2, <1>3, <1>4, <1>5, <1>7, <1>8, <1>9 DEF InventoryNext

LEMMA InventoryGoods ==
  ASSUME IInv, InventoryNext
  PROVE  GoodsShape
  BY InventoryOwn, SwapShuffles DEF OwnShape, GoodsShape

\* What a step can do to the goods, whichever handler it is
LEMMA GoodsShapes ==
  ASSUME DInv, [Next]_vars
  PROVE  GoodsShape
<1>1. UNCHANGED vars => GoodsShape
  BY DEF vars, GoodsShape
<1>2. PresenceNext => GoodsShape
  BY DEF PresenceNext, CreatePC, RequestFieldSvrCharChk, FrameMove, DropOutPC, goods, GoodsShape
<1>3. ASSUME NEW i \in Ids, RequestTradeAgree(i) PROVE GoodsShape
  <2>1. \/ UNCHANGED <<bag, land>>
        \/ Paired(i) /\ Exchange(i, trade[i].target) /\ land' = land
    BY <1>3 DEF RequestTradeAgree, DropBrokenTrade, goods
  <2> QED  BY <2>1, ExchangeShuffles DEF GoodsShape
<1>4. ASSUME NEW i \in Ids,
             \/ \E j \in Ids : RequestTrade(i, j)
             \/ \E ok \in BOOLEAN : RequestTradeTarAns(i, ok)
             \/ \E b \in BOOLEAN : SetDisTrade(i, b)
             \/ \E m \in 0..Gold : RequestTradeMoney(i, m)
             \/ \E c \in Cells, b \in BoxPos : RequestTradeItemResist(i, c, b)
             \/ \E b \in BoxPos : RequestTradeItemReMove(i, b)
             \/ RequestTradeLock(i) \/ RequestTradeCancel(i)
      PROVE  GoodsShape
  <2>1. UNCHANGED goods
    BY <1>4 DEF DropBrokenTrade, RequestTrade, RequestTradeTarAns, SetDisTrade,
           RequestTradeMoney, RequestTradeItemResist, RequestTradeItemReMove, Edit,
           RequestTradeLock, RequestTradeCancel
  <2> QED  BY <2>1 DEF goods, GoodsShape
<1> QED  BY <1>1, <1>2, <1>3, <1>4, InventoryGoods DEF DInv, Next, TradeNext

LEMMA NoDupStep ==
  ASSUME DInv, [Next]_vars
  PROVE  NoDup'
<1>1. HOLD \in Spots /\ TypeOK /\ NoDup
  BY DEF Spots, DInv, IInv
<1>2. CASE UNCHANGED <<bag, land>>
  BY <1>1, <1>2 DEF NoDup
<1>3. CASE Shuffled /\ land' = land
  BY <1>1, <1>3, ShuffledKeeps
<1>4. ASSUME NEW p \in Persons, ToField(p) PROVE NoDup'
  <2>1. \A q \in Persons, s \in Spots :
          bag'[q][s] = IF q = p /\ s = HOLD THEN NoItem ELSE bag[q][s]
    BY <1>4 DEF ToField
  <2>2. land' = land \cup {bag[p][HOLD]} /\ bag[p][HOLD] # NoItem /\ NoItem \notin land
    BY <1>1, <1>4, ItemAssumption DEF ToField, TypeOK
  <2> QED  BY <1>1, <2>1, <2>2 DEF NoDup
<1>5. ASSUME NEW p \in Persons, NEW x \in Items, NEW s \in Spots, FromField(p, x, s)
      PROVE  NoDup'
  <2>1. \A q \in Persons, t \in Spots :
          bag'[q][t] = IF q = p /\ t = s THEN x ELSE bag[q][t]
    BY <1>5 DEF FromField
  <2>2. land' = land \ {x} /\ x \in land
    BY <1>5 DEF FromField
  <2> QED  BY <1>1, <2>1, <2>2 DEF NoDup
<1> QED  BY <1>2, <1>3, <1>4, <1>5, GoodsShapes DEF GoodsShape

LEMMA InitDInv == Init => DInv
<1> SUFFICES ASSUME Init PROVE DInv
  OBVIOUS
<1>1. IInv
  BY InitIInv
<1>2. Apart
  BY NullAssumption DEF Init, Apart, Online, NoTrade
<1>3. /\ bag \in [Persons -> [Spots -> Items \cup {NoItem}]] /\ land = {}
      /\ \A p \in Persons : bag[p][HOLD] = NoItem /\ bag[p][SLOT] = NoItem
      /\ \A x \in Items : \E p \in Persons, c \in Cells :
           \A q \in Persons, d \in Cells : bag[q][d] = x <=> q = p /\ d = c
  BY DEF Init
<1>4. ASSUME NEW p \in Persons, NEW q \in Persons, NEW s \in Spots, NEW t \in Spots,
             bag[p][s] = bag[q][t], bag[p][s] # NoItem
      PROVE  p = q /\ s = t
  <2>1. bag[p][s] \in Items /\ s \in Cells /\ t \in Cells
    BY <1>3, <1>4 DEF Spots
  <2> QED  BY <1>3, <1>4, <2>1
<1> QED  BY <1>1, <1>2, <1>3, <1>4 DEF DInv, NoDup

LEMMA DInvariance == Spec => []DInv
<1>1. DInv /\ [Next]_vars => DInv'
  BY NextIInv, ApartStep, NoDupStep DEF DInv
<1> QED  BY <1>1, InitDInv, PTL DEF Spec

\* No trade, drop or inventory request ever makes one item be in two places.
THEOREM NothingDuplicated == Spec => []NoDup
<1>1. DInv => NoDup
  BY DEF DInv
<1> QED  BY <1>1, DInvariance, PTL

\* No trade, whole or failed, loses an item; one is lost only from a hand on
\* which an item from the field is put.
THEOREM NothingLost == Spec => ItemsKept
<1> DEFINE Kept == \A x \in (Owned \cup land) \ (Owned' \cup land') :
                     \E p \in Persons : bag[p][HOLD] = x /\ bag[p][HOLD]' \in land
<1>1. ASSUME DInv, [Next]_vars PROVE Kept
  <2>1. HOLD \in Spots /\ TypeOK /\ NoDup
    BY <1>1 DEF Spots, DInv, IInv
  <2>2. CASE UNCHANGED <<bag, land>>
    BY <2>2 DEF Owned
  <2>3. CASE Shuffled /\ land' = land
    BY <2>1, <2>3, ShuffledKeeps
  <2>4. ASSUME NEW p \in Persons, ToField(p) PROVE Kept
    <3>1. \A q \in Persons, s \in Spots :
            bag'[q][s] = IF q = p /\ s = HOLD THEN NoItem ELSE bag[q][s]
      BY <2>4 DEF ToField
    <3>2. land' = land \cup {bag[p][HOLD]}
      BY <2>4 DEF ToField
    <3> QED  BY <3>1, <3>2 DEF Owned
  <2>5. ASSUME NEW p \in Persons, NEW x \in Items, NEW s \in Spots, FromField(p, x, s)
        PROVE  Kept
    <3>1. \A q \in Persons, t \in Spots :
            bag'[q][t] = IF q = p /\ t = s THEN x ELSE bag[q][t]
      BY <2>5 DEF FromField
    <3>2. land' = land \ {x} /\ x \in land /\ (bag[p][s] = NoItem \/ s = HOLD)
      BY <2>5 DEF FromField
    <3>3. x \in Owned'
      BY <3>1 DEF Owned
    <3>4. ASSUME NEW y \in Owned, y \notin Owned' PROVE y = bag[p][HOLD] /\ s = HOLD
      BY <3>1, <3>2, <3>4, ItemAssumption DEF Owned
    <3>5. s = HOLD => bag'[p][HOLD] = x
      BY <3>1
    <3> QED  BY <3>2, <3>3, <3>4, <3>5
  <2> QED  BY <1>1, <2>2, <2>3, <2>4, <2>5, GoodsShapes DEF GoodsShape
<1>2. UNCHANGED vars => Kept
  BY DEF vars, Owned
<1> QED  BY <1>1, <1>2, DInvariance, PTL DEF Spec, ItemsKept

-----------------------------------------------------------------------------
(* The trade implements Barter                                             *)
(*                                                                         *)
(* By DInv nobody stands at two ids, so that the terms of a character are  *)
(* those of the one id it stands at.  What a step does to them follows     *)
(* from the shapes a step can have; what it does to the goods from the     *)
(* checks before an exchange.                                              *)

(* Standing terms, as a function of who stands where and of the trades *)

AgreedIn(h, t, p, i) ==
  /\ h[i] = p /\ h[i] # Nobody /\ t[i].target # NULL
  /\ h[t[i].target] # Nobody /\ t[t[i].target].target = i
  /\ t[i].agree

TermsIn(h, t, i) ==
  [with |-> h[t[i].target],
   gives |-> Offered(t[i]), pays |-> t[i].money,
   takes |-> Offered(t[t[i].target]), gets |-> t[t[i].target].money]

ConsentIn(h, t) ==
  [p \in Persons |-> IF \E i \in Ids : AgreedIn(h, t, p, i)
                     THEN TermsIn(h, t, CHOOSE i \in Ids : AgreedIn(h, t, p, i)) ELSE NULL]

LEMMA SameOffer ==
  ASSUME NEW t, NEW u, t.box = u.box
  PROVE  Offered(t) = Offered(u)
  BY DEF Offered, Filled

LEMMA AgreedNow ==
  ASSUME NEW p, NEW i
  PROVE  Agreed(p, i) <=> AgreedIn(pc, trade, p, i)
  BY DEF Agreed, AgreedIn, Paired, Online, Valid

LEMMA StandingNow == Standing = ConsentIn(pc, trade)
  BY Zenon DEF Standing, ConsentIn, Agreed, AgreedIn, TermsOf, TermsIn, Paired, Online, Valid

LEMMA StandingNext == Standing' = ConsentIn(pc', trade')
  BY Zenon DEF Standing, ConsentIn, Agreed, AgreedIn, TermsOf, TermsIn, Paired, Online, Valid

\* Where nobody stands at two ids, the terms of a character are those of the id
\* at which it has agreed.
LEMMA ConsentFacts ==
  ASSUME NEW h, NEW t, NEW p \in Persons,
         \A i, j \in Ids : h[i] # Nobody /\ h[i] = h[j] => i = j
  PROVE  /\ \A i \in Ids : AgreedIn(h, t, p, i) => ConsentIn(h, t)[p] = TermsIn(h, t, i)
         /\ (\A i \in Ids : ~AgreedIn(h, t, p, i)) => ConsentIn(h, t)[p] = NULL
<1>1. ASSUME NEW i \in Ids, AgreedIn(h, t, p, i)
      PROVE  (CHOOSE k \in Ids : AgreedIn(h, t, p, k)) = i
  <2>1. \A k \in Ids : AgreedIn(h, t, p, k) => k = i
    BY <1>1 DEF AgreedIn
  <2> QED  BY <1>1, <2>1
<1> QED  BY <1>1 DEF ConsentIn

\* The two states of a step, in these words
LEMMA Consents ==
  ASSUME Apart, Apart', NEW p \in Persons
  PROVE  /\ \A i \in Ids : AgreedIn(pc, trade, p, i) => Standing[p] = TermsIn(pc, trade, i)
         /\ (\A i \in Ids : ~AgreedIn(pc, trade, p, i)) => Standing[p] = NULL
         /\ \A i \in Ids : AgreedIn(pc', trade', p, i) => Standing'[p] = TermsIn(pc', trade', i)
         /\ (\A i \in Ids : ~AgreedIn(pc', trade', p, i)) => Standing'[p] = NULL
<1>1. \A i, j \in Ids : pc[i] # Nobody /\ pc[i] = pc[j] => i = j
  BY DEF Apart, Online
<1>2. \A i, j \in Ids : pc'[i] # Nobody /\ pc'[i] = pc'[j] => i = j
  BY DEF Apart, Online
<1> QED  BY <1>1, <1>2, ConsentFacts, StandingNow, StandingNext

-----------------------------------------------------------------------------
(* Steps that only take consent back *)

\* Unless somebody agrees in the step, whoever still stands by terms afterwards
\* stood by the same terms before.
LEMMA WithdrawStep ==
  ASSUME DInv, [Next]_vars,
         \A i \in Ids : trade'[i].agree = TRUE => trade[i].agree = TRUE
  PROVE  \A p \in Persons : Standing'[p] \in {Standing[p], NULL}
<1>0. IInv /\ Apart /\ Apart'
  BY ApartStep DEF DInv
<1> SUFFICES ASSUME NEW p \in Persons, NEW i \in Ids, AgreedIn(pc', trade', p, i)
             PROVE  Standing'[p] = Standing[p]
  BY <1>0, Consents
<1>1. IInv'
  BY <1>0, NextIInv
<1>2. trade'[i] \in TradeStates /\ trade'[i].target # NULL
  BY <1>1 DEF AgreedIn, IInv, TypeOK
<1>3. trade'[i].target \in Ids /\ trade'[i].agree = TRUE
  BY <1>2 DEF TradeStates, AgreedIn
<1>j. PICK j \in Ids : trade'[i].target = j
  BY <1>3
<1>4. Partners(i, j)'
  BY <1>3, <1>j, PartnersNext DEF AgreedIn
<1>5. [NoTrade EXCEPT !.target = j].agree = FALSE
  BY TradeTypes
<1>6. Partners(i, j) /\ pc'[i] = pc[i] /\ pc'[j] = pc[j]
  BY <1>0, <1>3, <1>4, <1>5, FreshStep
<1>7. SameTerms(i) /\ SameTerms(j)
  BY <1>0, <1>3, <1>4, <1>6, TermsStep
<1>8. trade[i].agree = TRUE /\ trade[i].target = j /\ trade[j].target = i
  BY <1>3, <1>j, <1>6, <1>7 DEF Partners, SameTerms, Paired
<1>9. AgreedIn(pc, trade, p, i)
  BY <1>6, <1>8 DEF AgreedIn, Partners, Paired, Valid, Online
<1>10. /\ Offered(trade'[i]) = Offered(trade[i]) /\ Offered(trade'[j]) = Offered(trade[j])
       /\ trade'[i].money = trade[i].money /\ trade'[j].money = trade[j].money
  BY <1>7, SameOffer DEF SameTerms
<1>11. TermsIn(pc', trade', i) = TermsIn(pc, trade, i)
  BY <1>j, <1>6, <1>8, <1>10 DEF TermsIn
<1> QED  BY <1>0, <1>9, <1>11, Consents

-----------------------------------------------------------------------------
(* What a step is, as a barter *)

AgreesAt(i) ==
  /\ Paired(i) /\ trade' = [trade EXCEPT ![i].agree = TRUE]
  /\ UNCHANGED <<pc, goods>>

Exchanges(i, j) ==
  /\ Paired(i) /\ trade[i].target = j /\ trade[j].agree = TRUE
  /\ Exchange(i, j)
  /\ trade' = [trade EXCEPT ![i] = NoTrade, ![j] = NoTrade]
  /\ UNCHANGED <<pc, land, landMoney>>

NoneAgrees == \A i \in Ids : trade'[i].agree = TRUE => trade[i].agree = TRUE

\* A handler that opens, edits, ends or leaves a trade sets no agreement.
LEMMA ShapesAgree ==
  ASSUME IInv,
         \/ trade' = trade
         \/ \E i \in Ids : Edited(i) \/ Ended(i) \/ Entered(i)
         \/ \E i, m \in Ids : Opened(i, m)
         \/ \E D \in SUBSET Ids : Left(D)
  PROVE  NoneAgrees
<1>1. NoTrade.agree = FALSE /\ \A k \in Ids : [NoTrade EXCEPT !.target = k].agree = FALSE
  BY TradeTypes
<1>2. CASE trade' = trade
  BY <1>2 DEF NoneAgrees
<1>3. ASSUME NEW i \in Ids, Edited(i) PROVE NoneAgrees
  BY <1>3, PairedTypes DEF NoneAgrees, Edited
<1>4. ASSUME NEW i \in Ids, Ended(i) PROVE NoneAgrees
  BY <1>1, <1>4, PairedTypes DEF NoneAgrees, Ended
<1>5. ASSUME NEW i \in Ids, Entered(i) PROVE NoneAgrees
  BY <1>5 DEF NoneAgrees, Entered
<1>6. ASSUME NEW i \in Ids, NEW m \in Ids, Opened(i, m) PROVE NoneAgrees
  BY <1>1, <1>6 DEF NoneAgrees, Opened
<1>7. ASSUME NEW D \in SUBSET Ids, Left(D) PROVE NoneAgrees
  BY <1>1, <1>7 DEF NoneAgrees, Left
<1> QED  BY <1>2, <1>3, <1>4, <1>5, <1>6, <1>7

\* An agreement may be set by RequestTradeAgree only.
LEMMA StepCases ==
  ASSUME IInv, [Next]_vars
  PROVE  \/ InventoryNext
         \/ UNCHANGED goods /\ NoneAgrees
         \/ \E i \in Ids : AgreesAt(i)
         \/ \E i, j \in Ids : Exchanges(i, j)
<1> DEFINE Cases == \/ UNCHANGED goods /\ NoneAgrees
                    \/ \E i \in Ids : AgreesAt(i)
                    \/ \E i, j \in Ids : Exchanges(i, j)
<1>1. UNCHANGED vars => Cases
  BY ShapesAgree DEF vars, goods
<1>2. PresenceNext => Cases
  BY PresenceShape, ShapesAgree DEF PresenceNext, CreatePC, RequestFieldSvrCharChk, FrameMove, DropOutPC
<1>3. ASSUME NEW i \in Ids, DropBrokenTrade(i) PROVE UNCHANGED goods /\ NoneAgrees
  BY <1>3, DropBrokenShape, ShapesAgree DEF DropBrokenTrade
<1>4. ASSUME NEW i \in Ids,
             \/ \E j \in Ids : RequestTrade(i, j)
             \/ \E b \in BOOLEAN : SetDisTrade(i, b)
      PROVE  Cases
  BY <1>4, ShapesAgree DEF RequestTrade, SetDisTrade
<1>5. ASSUME NEW i \in Ids, NEW ok \in BOOLEAN, RequestTradeTarAns(i, ok)
      PROVE  Cases
  <2> DEFINE m == asked[i]
             with(k) == [NoTrade EXCEPT !.target = k]
  <2>1. m \in Ids /\ m # i /\ pc' = pc /\ UNCHANGED goods
    BY <1>5 DEF IInv, TypeOK, RequestTradeTarAns
  <2>2. \/ trade' = trade
        \/ ~Valid(i) /\ ~Valid(m) /\ trade' = [trade EXCEPT ![i] = with(m), ![m] = with(i)]
    BY <1>5 DEF RequestTradeTarAns
  <2>3. CASE trade' = trade
    BY <2>1, <2>3, ShapesAgree
  <2>4. CASE ~Valid(i) /\ ~Valid(m) /\ trade' = [trade EXCEPT ![i] = with(m), ![m] = with(i)]
    <3>1. trade'[i] = with(m) /\ trade'[m] = with(i)
          /\ \A k \in Ids \ {i, m} : trade'[k] = trade[k]
      BY <2>1, <2>4 DEF IInv, TypeOK
    <3>2. Opened(i, m)
      BY <2>1, <2>4, <3>1 DEF Opened
    <3> QED  BY <2>1, <3>2, ShapesAgree
  <2> QED  BY <2>2, <2>3, <2>4
<1>6. ASSUME NEW i \in Ids,
             \/ \E m \in 0..Gold : RequestTradeMoney(i, m)
             \/ \E c \in Cells, b \in BoxPos : RequestTradeItemResist(i, c, b)
             \/ \E b \in BoxPos : RequestTradeItemReMove(i, b)
      PROVE  Cases
  <2>1. Edited(i) \/ Ended(i)
    BY <1>6, OfferEdits, EditShape, DropBrokenShape
  <2>2. UNCHANGED goods
    BY <1>6 DEF RequestTradeMoney, RequestTradeItemResist, RequestTradeItemReMove,
                Edit, DropBrokenTrade
  <2> QED  BY <2>1, <2>2, ShapesAgree
<1>7. ASSUME NEW i \in Ids, RequestTradeLock(i), ~DropBrokenTrade(i)
      PROVE  Cases
  <2>1. trade' = [trade EXCEPT ![i].lock = TRUE] /\ UNCHANGED goods
    BY <1>7 DEF RequestTradeLock
  <2>2. \A k \in Ids : trade'[k].agree = trade[k].agree
    BY <2>1 DEF IInv, TypeOK, TradeStates
  <2> QED  BY <2>1, <2>2 DEF NoneAgrees
<1>8. ASSUME NEW i \in Ids, RequestTradeCancel(i), ~DropBrokenTrade(i)
      PROVE  Cases
  <2>1. /\ trade' = [trade EXCEPT ![i] = NoTrade, ![trade[i].target] = NoTrade]
        /\ UNCHANGED goods
    BY <1>8 DEF RequestTradeCancel
  <2>2. NoTrade.agree = FALSE
    BY TradeTypes
  <2>3. \A k \in Ids : trade'[k] \in {trade[k], NoTrade}
    BY <2>1 DEF IInv, TypeOK
  <2> QED  BY <2>1, <2>2, <2>3 DEF NoneAgrees
<1>9. ASSUME NEW i \in Ids, RequestTradeAgree(i), ~DropBrokenTrade(i)
      PROVE  Cases
  <2>1. Paired(i) /\ trade[i].target \in Ids /\ trade[trade[i].target].agree \in BOOLEAN
    BY <1>9, PairedTypes DEF RequestTradeAgree, TradeStates
  <2>2. CASE trade[trade[i].target].agree = TRUE
    BY <1>9, <2>1, <2>2, Zenon DEF RequestTradeAgree, Exchanges
  <2>3. CASE trade[trade[i].target].agree = FALSE
    BY <1>9, <2>1, <2>3 DEF RequestTradeAgree, AgreesAt, goods
  <2> QED  BY <2>1, <2>2, <2>3
<1> QED  BY <1>1, <1>2, <1>3, <1>4, <1>5, <1>6, <1>7, <1>8, <1>9, Zenon DEF Next, TradeNext

-----------------------------------------------------------------------------
(* Consent and the swap *)

\* Steps that leave all goods alone and set no agreement are Withdraw.
LEMMA WithdrawIsBarter ==
  ASSUME DInv, [Next]_vars, UNCHANGED goods, NoneAgrees
  PROVE  Barter!Withdraw
<1>1. \A p \in Persons : Standing'[p] \in {Standing[p], NULL}
  BY WithdrawStep DEF NoneAgrees
<1>2. UNCHANGED <<land, landMoney, money, Wealth>>
  BY DEF goods, Wealth
<1> QED  BY <1>1, <1>2 DEF Barter!Withdraw

\* The first of two to agree consents to the terms as they lie in the boxes.
LEMMA AgreeIsBarter ==
  ASSUME DInv, [Next]_vars, NEW i \in Ids, AgreesAt(i)
  PROVE  Barter!Withdraw \/ \E p \in Persons : Barter!Consent(p)
<1>1. IInv /\ Apart /\ Apart' /\ UNCHANGED goods
  BY ApartStep DEF DInv, AgreesAt
<1> DEFINE agreed == [trade[i] EXCEPT !.agree = TRUE]
<1>2. /\ trade \in [Ids -> TradeStates] /\ Paired(i) /\ pc' = pc
      /\ trade[i].target \in Ids /\ trade' = [trade EXCEPT ![i] = agreed]
  BY <1>1, PairedTypes DEF AgreesAt, IInv, TypeOK
<1>3. /\ agreed.target = trade[i].target /\ agreed.box = trade[i].box
      /\ agreed.money = trade[i].money /\ agreed.agree = TRUE
  BY <1>2 DEF TradeStates
<1> HIDE DEF agreed
<1>4. trade'[i] = agreed /\ \A k \in Ids \ {i} : trade'[k] = trade[k]
  BY <1>2
<1>5. CASE trade[i].agree = TRUE
  <2>1. NoneAgrees
    BY <1>4, <1>5 DEF NoneAgrees
  <2> QED  BY <1>1, <2>1, WithdrawIsBarter
<1>6. CASE trade[i].agree # TRUE
  <2>p. PICK p \in Persons : p = pc[i]
    BY <1>1, <1>2, OnlineIsPerson DEF Paired
  <2>j. PICK j \in Ids : trade[i].target = j
    BY <1>2
  <2>1. /\ pc[i] # Nobody /\ pc[j] # Nobody /\ trade[j].target = i /\ j # i
        /\ trade[i].target # NULL
    BY <1>1, <1>2, <2>j DEF Paired, Online, Valid, Apart
  <2>2. \A k \in Ids : SameTerms(k)
    BY <1>3, <1>4 DEF SameTerms
  <2>3. \A k \in Ids : Offered(trade'[k]) = Offered(trade[k])
    BY <2>2, SameOffer DEF SameTerms
  <2>4. \A k \in Ids : k # i => trade'[k].agree = trade[k].agree
    BY <1>4
  <2>5. \A k \in Ids : pc[k] = p => k = i
    BY <1>1, <2>p, <2>1 DEF Apart, Online
  <2>6. Standing[p] = NULL
    BY <1>1, <1>6, <2>5, Consents DEF AgreedIn
  <2>7. AgreedIn(pc', trade', p, i)
    BY <1>2, <1>3, <1>4, <2>p, <2>j, <2>1 DEF AgreedIn
  <2>8. Standing'[p] = TermsIn(pc', trade', i)
    BY <1>1, <2>7, Consents
  <2>9. TermsIn(pc', trade', i) = [with |-> pc[j], gives |-> Offered(trade[i]), pays |-> trade[i].money,
                                   takes |-> Offered(trade[j]), gets |-> trade[j].money]
    <3>1. trade'[i].target = j /\ trade'[i].money = trade[i].money /\ trade'[j].money = trade[j].money
      BY <2>j, <2>2 DEF SameTerms
    <3> QED  BY <1>2, <2>3, <3>1 DEF TermsIn
  <2>10. Standing'[p] \in Barter!Terms /\ Standing'[p].with # p
    <3>1. \A k \in Ids : Offered(trade[k]) \in SUBSET Items /\ trade[k].money \in 0..Gold
      BY <1>2 DEF Offered, Filled, TradeStates, Boxes, Entry
    <3>2. pc[j] \in Persons /\ pc[j] # p
      BY <1>1, <2>p, <2>1, OnlineIsPerson DEF Online, Apart
    <3> QED  BY <2>8, <2>9, <3>1, <3>2 DEF Barter!Terms
  <2>11. ASSUME NEW q \in Persons \ {p} PROVE Standing'[q] = Standing[q]
    <3>1. \A k \in Ids : AgreedIn(pc, trade, q, k) <=> AgreedIn(pc', trade', q, k)
      <4>1. ASSUME NEW k \in Ids, k # i, trade[k].target # NULL
            PROVE  trade'[trade[k].target].target = trade[trade[k].target].target
        <5>1. trade[k].target \in Ids
          BY <1>2, <4>1 DEF TradeStates
        <5> QED  BY <2>2, <5>1 DEF SameTerms
      <4> QED  BY <1>2, <2>p, <2>2, <2>4, <4>1 DEF AgreedIn, SameTerms
    <3>2. ASSUME NEW k \in Ids, AgreedIn(pc, trade, q, k)
          PROVE  TermsIn(pc', trade', k) = TermsIn(pc, trade, k)
      <4>1. trade[k].target \in Ids
        BY <1>2, <3>2 DEF AgreedIn, TradeStates
      <4>l. PICK l \in Ids : trade[k].target = l
        BY <4>1
      <4>2. /\ trade'[k].target = l /\ trade'[k].money = trade[k].money
            /\ trade'[l].money = trade[l].money
        BY <2>2, <4>l DEF SameTerms
      <4> QED  BY <1>2, <2>3, <4>l, <4>2 DEF TermsIn
    <3>3. CASE \E k \in Ids : AgreedIn(pc, trade, q, k)
      BY <1>1, <3>1, <3>2, <3>3, Consents
    <3>4. CASE \A k \in Ids : ~AgreedIn(pc, trade, q, k)
      BY <1>1, <3>1, <3>4, Consents
    <3> QED  BY <3>3, <3>4
  <2>12. UNCHANGED <<land, landMoney, money, Wealth>>
    BY <1>1 DEF goods, Wealth
  <2>13. Barter!Consent(p)
    BY <2>6, <2>10, <2>11, <2>12 DEF Barter!Consent
  <2> QED  BY <2>13
<1> QED  BY <1>5, <1>6

\* The items in an inventory; none lies in two of its spots; an offer lies there.
Contents(inv) == {inv[s] : s \in Spots} \cap Items

Distinct(inv) == \A s, t \in Spots : inv[s] = inv[t] /\ inv[s] # NoItem => s = t

Lies(inv, mine) ==
  \A b \in Filled(mine) :
    /\ mine.box[b].back \in Spots
    /\ inv[mine.box[b].back] = mine.box[b].item /\ mine.box[b].item # NoItem

\* What Placed makes of the contents of an inventory
LEMMA WealthPlaced ==
  ASSUME NEW inv, NEW new, NEW mine, NEW theirs \in TradeStates, NEW f,
         Placed(inv, new, mine, theirs, f), Distinct(inv), Lies(inv, mine)
  PROVE  Contents(new) = (Contents(inv) \ Offered(mine)) \cup Offered(theirs)
<1> USE DEF Distinct, Lies, Contents
<1>1. /\ \A b \in Filled(theirs) :
           /\ f[b] \in Spots /\ new[f[b]] = theirs.box[b].item
           /\ inv[f[b]] = NoItem \/ \E c \in Filled(mine) : mine.box[c].back = f[b]
      /\ \A s \in Spots : (\A b \in Filled(theirs) : f[b] # s) =>
           new[s] = IF \E c \in Filled(mine) : mine.box[c].back = s THEN NoItem ELSE inv[s]
  BY DEF Placed
<1>2. \A b \in Filled(theirs) : theirs.box[b].item \in Items
  BY DEF Filled, TradeStates, Boxes, Entry
<1>3. ASSUME NEW s \in Spots, new[s] \in Items, new[s] \notin Offered(theirs)
      PROVE  new[s] \notin Offered(mine) /\ \E t \in Spots : inv[t] = new[s]
  <2>1. \A b \in Filled(theirs) : f[b] # s
    BY <1>1, <1>3 DEF Offered
  <2>2. new[s] = inv[s] /\ \A c \in Filled(mine) : mine.box[c].back # s
    BY <1>1, <1>3, <2>1, ItemAssumption
  <2> QED  BY <1>3, <2>2, ItemAssumption DEF Offered
<1>4. ASSUME NEW s \in Spots, inv[s] \in Items, inv[s] \notin Offered(mine)
      PROVE  \E t \in Spots : new[t] = inv[s]
  <2>1. \A c \in Filled(mine) : mine.box[c].back # s
    BY <1>4 DEF Offered
  <2>2. \A b \in Filled(theirs) : f[b] # s
    BY <1>1, <1>4, <2>1, ItemAssumption
  <2> QED  BY <1>1, <2>1, <2>2
<1>5. \A y \in Offered(theirs) : y \in Items /\ \E t \in Spots : new[t] = y
  BY <1>1, <1>2 DEF Offered
<1> QED  BY <1>3, <1>4, <1>5

\* The exchange of i and j fulfils the terms the occupant of j stands by.
LEMMA ExchangeIsBarter ==
  ASSUME DInv, [Next]_vars, NEW i \in Ids, NEW j \in Ids, Exchanges(i, j)
  PROVE  Barter!Withdraw \/ \E p, q \in Persons : Barter!Swap(p, q)
<1>1. IInv /\ Apart /\ Apart' /\ NoDup
  BY ApartStep DEF DInv
<1>2. /\ Paired(i) /\ trade[i].target = j /\ trade[j].agree = TRUE
      /\ Exchange(i, j) /\ pc' = pc /\ land' = land /\ landMoney' = landMoney
      /\ trade' = [trade EXCEPT ![i] = NoTrade, ![j] = NoTrade]
  BY DEF Exchanges
<1>3. /\ trade \in [Ids -> TradeStates] /\ trade[j].target = i /\ i # j
      /\ pc[i] # Nobody /\ pc[j] # Nobody /\ trade[i].target # NULL /\ i # NULL
      /\ pc[i] \in Persons /\ pc[j] \in Persons /\ pc[i] # pc[j]
  BY <1>1, <1>2, OnlineIsPerson, NullAssumption DEF IInv, TypeOK, Paired, Online, Valid, Apart
<1>4. trade'[i] = NoTrade /\ trade'[j] = NoTrade /\ \A k \in Ids \ {i, j} : trade'[k] = trade[k]
  BY <1>2, <1>3
<1>5. NoTrade.target = NULL /\ NoTrade.agree = FALSE
  BY TradeTypes
<1>6. CASE UNCHANGED <<bag, money>>
  <2>1. NoneAgrees
    BY <1>4, <1>5 DEF NoneAgrees
  <2> QED  BY <1>2, <1>6, <2>1, WithdrawIsBarter DEF goods
<1>7. CASE ~UNCHANGED <<bag, money>>
  <2>p. PICK p \in Persons : p = pc[i]
    BY <1>3
  <2>q. PICK q \in Persons : q = pc[j]
    BY <1>3
  <2>1. /\ IsVaildTradeData(bag[p], money[p], trade[i]) /\ IsVaildTradeData(bag[q], money[q], trade[j])
        /\ IsVaildTradeInvenSpace(bag[p], trade[i], trade[j])
        /\ IsVaildTradeInvenSpace(bag[q], trade[j], trade[i])
        /\ \E f : Placed(bag[p], bag'[p], trade[i], trade[j], f)
        /\ \E g : Placed(bag[q], bag'[q], trade[j], trade[i], g)
        /\ \A r \in Persons \ {p, q} : bag'[r] = bag[r]
        /\ money' = [money EXCEPT ![p] = money[p] - trade[i].money + trade[j].money,
                                  ![q] = money[q] - trade[j].money + trade[i].money]
    BY <1>2, <1>7, <2>p, <2>q, ExchangePlaces
  <2>2. /\ trade[i] \in TradeStates /\ trade[j] \in TradeStates /\ p # q
        /\ bag[p] \in Slots /\ bag[q] \in Slots /\ money \in [Persons -> Nat]
        /\ trade[i].money \in Nat /\ trade[j].money \in Nat
    BY <1>1, <1>3, <2>p, <2>q, NumberAssumption DEF IInv, TypeOK, Bags, Slots, TradeStates
  <2> DEFINE terms == [with |-> p, gives |-> Offered(trade[j]), pays |-> trade[j].money,
                       takes |-> Offered(trade[i]), gets |-> trade[i].money]
  \* The terms of q, and what becomes of everybody's
  <2>3. Standing[q] = terms
    <3>1. AgreedIn(pc, trade, q, j)
      BY <1>2, <1>3, <2>q DEF AgreedIn
    <3>2. Standing[q] = TermsIn(pc, trade, j)
      BY <1>1, <3>1, Consents
    <3> QED  BY <1>3, <2>p, <3>2 DEF TermsIn
  <2>4. Standing'[p] = NULL /\ Standing'[q] = NULL
    <3>1. \A k \in Ids : (pc[k] = p => k = i) /\ (pc[k] = q => k = j)
      BY <1>1, <1>3, <2>p, <2>q DEF Apart, Online
    <3>2. \A k \in Ids : ~AgreedIn(pc', trade', p, k) /\ ~AgreedIn(pc', trade', q, k)
      BY <1>2, <1>4, <1>5, <3>1 DEF AgreedIn
    <3> QED  BY <1>1, <3>2, Consents
  <2>5. ASSUME NEW r \in Persons \ {p, q} PROVE Standing'[r] = Standing[r]
    <3>1. ASSUME NEW k \in Ids, pc[k] = r
          PROVE  /\ AgreedIn(pc, trade, r, k) <=> AgreedIn(pc', trade', r, k)
                 /\ AgreedIn(pc, trade, r, k) => TermsIn(pc', trade', k) = TermsIn(pc, trade, k)
      <4>1. k # i /\ k # j /\ trade'[k] = trade[k]
        BY <1>4, <2>p, <2>q, <3>1
      <4>2. CASE trade[k].target = NULL
        BY <4>1, <4>2 DEF AgreedIn
      <4>3. CASE trade[k].target # NULL
        <5>1. trade[k].target \in Ids
          BY <1>3, <4>3 DEF TradeStates
        <5>l. PICK l \in Ids : trade[k].target = l
          BY <5>1
        <5>2. CASE l \in {i, j}
          BY <1>2, <1>3, <1>4, <1>5, <4>1, <5>l, <5>2, NullAssumption DEF AgreedIn
        <5>3. CASE l \notin {i, j}
          <6>1. trade'[l] = trade[l]
            BY <1>4, <5>3
          <6> QED  BY <1>2, <4>1, <5>l, <6>1 DEF AgreedIn, TermsIn
        <5> QED  BY <5>2, <5>3
      <4> QED  BY <4>2, <4>3
    <3>2. \A k \in Ids : pc[k] # r => ~AgreedIn(pc, trade, r, k) /\ ~AgreedIn(pc', trade', r, k)
      BY <1>2 DEF AgreedIn
    <3>3. CASE \E k \in Ids : AgreedIn(pc, trade, r, k)
      BY <1>1, <3>1, <3>2, <3>3, Consents
    <3>4. CASE \A k \in Ids : ~AgreedIn(pc, trade, r, k)
      BY <1>1, <3>1, <3>2, <3>4, Consents
    <3> QED  BY <3>3, <3>4
  <2>6. Standing' = [Standing EXCEPT ![q] = NULL, ![p] = NULL]
    <3>1. Standing \in [Persons -> {Standing[r] : r \in Persons}] /\ DOMAIN Standing' = Persons
      BY DEF Standing
    <3>2. Standing' = [r \in Persons |-> Standing'[r]]
      BY DEF Standing
    <3> QED  BY <2>4, <2>5, <3>1, <3>2
  \* What both own
  <2>7. Lies(bag[p], trade[i]) /\ Lies(bag[q], trade[j])
    BY <2>1, <2>2, OfferLies DEF Lies
  <2>8. \A r \in Persons : Distinct(bag[r])
    BY <1>1 DEF NoDup, Distinct
  <2>f. PICK f : Placed(bag[p], bag'[p], trade[i], trade[j], f)
    BY <2>1
  <2>g. PICK g : Placed(bag[q], bag'[q], trade[j], trade[i], g)
    BY <2>1
  <2>9. Contents(bag'[p]) = (Contents(bag[p]) \ Offered(trade[i])) \cup Offered(trade[j])
    BY <2>2, <2>7, <2>8, <2>f, WealthPlaced
  <2>10. Contents(bag'[q]) = (Contents(bag[q]) \ Offered(trade[j])) \cup Offered(trade[i])
    BY <2>2, <2>7, <2>8, <2>g, WealthPlaced
  <2>11. Wealth' = [Wealth EXCEPT ![q] = (@ \ terms.gives) \cup terms.takes,
                                  ![p] = (@ \ terms.takes) \cup terms.gives]
    <3>1. /\ Wealth'[p] = (Wealth[p] \ terms.takes) \cup terms.gives
          /\ Wealth'[q] = (Wealth[q] \ terms.gives) \cup terms.takes
      BY <2>9, <2>10 DEF Wealth, Contents
    <3>2. \A r \in Persons \ {p, q} : Wealth'[r] = Wealth[r]
      BY <2>1 DEF Wealth
    <3>3. Wealth' = [r \in Persons |-> Wealth'[r]] /\ Wealth = [r \in Persons |-> Wealth[r]]
      BY DEF Wealth
    <3> HIDE DEF terms
    <3> QED  BY <2>2, <3>1, <3>2, <3>3
  <2>12. terms.gives \subseteq Wealth[q] /\ terms.takes \subseteq Wealth[p]
    <3>1. \A b \in Filled(trade[i]) : trade[i].box[b].item \in Items
      BY <2>2 DEF Filled, TradeStates, Boxes, Entry
    <3>2. \A b \in Filled(trade[j]) : trade[j].box[b].item \in Items
      BY <2>2 DEF Filled, TradeStates, Boxes, Entry
    <3> QED  BY <2>7, <3>1, <3>2 DEF Offered, Wealth, Lies
  <2>13. /\ terms.pays <= money[q] /\ terms.gets <= money[p]
         /\ money' = [money EXCEPT ![q] = @ - terms.pays + terms.gets,
                                   ![p] = @ - terms.gets + terms.pays]
    BY <2>1, <2>2 DEF IsVaildTradeData
  <2>14. terms # NULL /\ terms.with = p
    <3>1. \A t \in {trade[i], trade[j]} : Offered(t) \in SUBSET Items /\ t.money \in 0..Gold
      BY <2>2 DEF Offered, Filled, TradeStates, Boxes, Entry
    <3>2. terms \in Deals
      BY <3>1 DEF Deals
    <3> QED  BY <3>2, DealAssumption
  <2> HIDE DEF terms
  <2>15. Barter!Swap(q, p)
    BY <1>2, <2>3, <2>6, <2>11, <2>12, <2>13, <2>14 DEF Barter!Swap
  <2> QED  BY <2>15
<1> QED  BY <1>6, <1>7

-----------------------------------------------------------------------------
(* The inventory handlers: goods and money come from the ground or go to it *)

\* What an inventory handler does to the money
LEMMA InventoryMoney ==
  ASSUME IInv, InventoryNext
  PROVE  /\ UNCHANGED <<pc, trade>>
         /\ \/ UNCHANGED <<money, landMoney>>
            \/ /\ UNCHANGED <<bag, land>>
               /\ \E p \in Persons, m \in 1..Gold :
                    \/ m <= money[p] /\ money' = [money EXCEPT ![p] = @ - m] /\ landMoney' = landMoney + m
                    \/ m <= landMoney /\ money' = [money EXCEPT ![p] = @ + m] /\ landMoney' = landMoney - m
<1>1. UNCHANGED <<pc, trade>>
  BY DEF InventoryNext, MsgReqInvenToHold, MsgReqInvenToSlot, MsgReqSlotToHold,
         MsgReqHoldToInven, MoveItem, MsgReqInvenExHold, MsgReqHoldToField,
         MsgReqFieldToInven, MsgReqFieldToHold, MsgReqMoneyToField, MoneyToInven
<1>2. ASSUME NEW i \in Ids, NEW m \in 1..Gold, MsgReqMoneyToField(i, m) \/ MoneyToInven(i, m)
      PROVE  /\ UNCHANGED <<bag, land>>
             /\ \E p \in Persons, n \in 1..Gold :
                  \/ n <= money[p] /\ money' = [money EXCEPT ![p] = @ - n] /\ landMoney' = landMoney + n
                  \/ n <= landMoney /\ money' = [money EXCEPT ![p] = @ + n] /\ landMoney' = landMoney - n
  <2>1. pc[i] \in Persons
    BY <1>2, OnlineIsPerson DEF MsgReqMoneyToField, MoneyToInven
  <2> QED  BY <1>2, <2>1 DEF MsgReqMoneyToField, MoneyToInven
<1>3. \/ UNCHANGED <<money, landMoney>>
      \/ \E i \in Ids, m \in 1..Gold : MsgReqMoneyToField(i, m) \/ MoneyToInven(i, m)
  BY DEF InventoryNext, MsgReqInvenToHold, MsgReqInvenToSlot, MsgReqSlotToHold,
         MsgReqHoldToInven, MoveItem, MsgReqInvenExHold, MsgReqHoldToField,
         MsgReqFieldToInven, MsgReqFieldToHold
<1> QED  BY <1>1, <1>2, <1>3

\* Every inventory handler is a step of the barter with the ground.
LEMMA InventoryIsBarter ==
  ASSUME DInv, InventoryNext
  PROVE  Barter!Next
<1>1. /\ IInv /\ NoDup /\ bag \in [Persons -> [Spots -> Items \cup {NoItem}]]
      /\ land \in SUBSET Items /\ HOLD \in Spots
  BY DEF DInv, IInv, TypeOK, Bags, Spots
<1>2. Standing' = Standing
  BY <1>1, InventoryMoney, StandingNow, StandingNext
<1>3. \A p \in Persons : Distinct(bag[p])
  BY <1>1 DEF NoDup, Distinct
<1>4. /\ Wealth = [p \in Persons |-> Contents(bag[p])]
      /\ Wealth' = [p \in Persons |-> Contents(bag'[p])]
  BY DEF Wealth, Contents
<1>5. CASE UNCHANGED <<bag, land, money, landMoney>>
  <2>1. Barter!Withdraw
    BY <1>2, <1>5 DEF Barter!Withdraw, Wealth
  <2> QED  BY <2>1 DEF Barter!Next
<1>6. ASSUME UNCHANGED <<bag, land>>, NEW p \in Persons, NEW m \in 1..Gold,
             \/ m <= money[p] /\ money' = [money EXCEPT ![p] = @ - m] /\ landMoney' = landMoney + m
             \/ m <= landMoney /\ money' = [money EXCEPT ![p] = @ + m] /\ landMoney' = landMoney - m
      PROVE  Barter!Next
  <2>1. Wealth' = Wealth /\ m \in 0..Gold
    BY <1>6, NumberAssumption DEF Wealth
  <2>2. Barter!PutDownMoney(p, m) \/ Barter!PickUpMoney(p, m)
    BY <1>2, <1>6, <2>1 DEF Barter!PutDownMoney, Barter!PickUpMoney
  <2> QED  BY <2>1, <2>2 DEF Barter!Next
<1>7. ASSUME NEW p \in Persons, NEW s \in Spots, NEW u \in Spots, Swapped(p, s, u),
             land' = land, UNCHANGED <<money, landMoney>>
      PROVE  Barter!Next
  <2>1. \A r \in Spots : bag'[p][r] = IF r = s THEN bag[p][u]
                                     ELSE IF r = u THEN bag[p][s] ELSE bag[p][r]
    BY <1>7 DEF Swapped
  <2>2. Contents(bag'[p]) = Contents(bag[p])
    <3>1. /\ bag'[p][s] = bag[p][u] /\ bag'[p][u] = bag[p][s]
          /\ \A r \in Spots \ {s, u} : bag'[p][r] = bag[p][r]
      BY <2>1
    <3> QED  BY <3>1 DEF Contents
  <2>3. Wealth' = Wealth
    BY <1>4, <1>7, <2>2 DEF Swapped
  <2>4. Barter!Withdraw
    BY <1>2, <1>7, <2>3 DEF Barter!Withdraw
  <2> QED  BY <2>4 DEF Barter!Next
<1>8. ASSUME NEW p \in Persons, ToField(p), UNCHANGED <<money, landMoney>>
      PROVE  Barter!Next
  <2>x. PICK x \in Items : x = bag[p][HOLD]
    BY <1>1, <1>8 DEF ToField
  <2>1. \A s \in Spots : bag'[p][s] = IF s = HOLD THEN NoItem ELSE bag[p][s]
    BY <1>8 DEF ToField
  <2>2. Contents(bag'[p]) = Contents(bag[p]) \ {x} /\ x \in Contents(bag[p])
    <3>1. \A s \in Spots : s # HOLD => bag[p][s] # x
      BY <1>1, <1>3, <2>x, ItemAssumption DEF Distinct
    <3> QED  BY <1>1, <2>x, <2>1, <3>1, ItemAssumption DEF Contents
  <2>3. Wealth' = [Wealth EXCEPT ![p] = @ \ {x}] /\ x \in Wealth[p]
    <3>1. \A q \in Persons \ {p} : bag'[q] = bag[q]
      BY <1>8 DEF ToField
    <3> QED  BY <1>4, <2>2, <3>1
  <2>4. land' = land \cup {x}
    BY <1>8, <2>x DEF ToField
  <2>5. Barter!PutDown(p, x)
    BY <1>2, <1>8, <2>3, <2>4 DEF Barter!PutDown
  <2> QED  BY <2>5 DEF Barter!Next
<1>9. ASSUME NEW p \in Persons, NEW x \in Items, NEW s \in Spots, FromField(p, x, s),
             UNCHANGED <<money, landMoney>>
      PROVE  Barter!Next
  <2>1. /\ x \in land /\ land' = land \ {x} /\ bag'[p][s] = x
        /\ \A t \in Spots \ {s} : bag'[p][t] = bag[p][t]
        /\ \A q \in Persons \ {p} : bag'[q] = bag[q]
    BY <1>9 DEF FromField
  <2>2. CASE bag[p][s] = NoItem
    <3>1. Contents(bag'[p]) = Contents(bag[p]) \cup {x}
      BY <2>1, <2>2, ItemAssumption DEF Contents
    <3>2. Wealth' = [Wealth EXCEPT ![p] = @ \cup {x}]
      BY <1>4, <2>1, <3>1
    <3>3. Barter!PickUp(p, x)
      BY <1>2, <1>9, <2>1, <3>2 DEF Barter!PickUp
    <3> QED  BY <3>3 DEF Barter!Next
  <2>3. CASE bag[p][s] # NoItem
    <3>y. PICK y \in Items : y = bag[p][s]
      BY <1>1, <2>3
    <3>1. \A t \in Spots : t # s => bag[p][t] # y
      BY <1>3, <2>3, <3>y DEF Distinct
    <3>2. Contents(bag'[p]) = (Contents(bag[p]) \ {y}) \cup {x} /\ y \in Contents(bag[p])
      BY <2>1, <3>y, <3>1 DEF Contents
    <3>3. Wealth' = [Wealth EXCEPT ![p] = (@ \ {y}) \cup {x}] /\ y \in Wealth[p]
      BY <1>4, <2>1, <3>2
    <3>4. Barter!PickUpOver(p, x, y)
      BY <1>2, <1>9, <2>1, <3>3 DEF Barter!PickUpOver
    <3> QED  BY <3>4 DEF Barter!Next
  <2> QED  BY <2>2, <2>3
<1> QED  BY <1>1, <1>5, <1>6, <1>7, <1>8, <1>9, InventoryOwn, InventoryMoney DEF OwnShape

-----------------------------------------------------------------------------

\* Nobody is in the field at first, and nobody stands by terms.
LEMMA InitIsBarter == Init => Barter!Init
<1> SUFFICES ASSUME Init PROVE Barter!Init
  OBVIOUS
<1>1. Standing = [p \in Persons |-> NULL]
  BY DEF Init, Standing, Agreed, Paired, Online
<1>2. Wealth \in [Persons -> SUBSET Items]
  BY DEF Wealth
<1> QED  BY <1>1, <1>2 DEF Init, Barter!Init

LEMMA StepIsBarter ==
  ASSUME DInv, [Next]_vars
  PROVE  Barter!Next
<1>1. InventoryNext => Barter!Next
  BY InventoryIsBarter
<1>2. UNCHANGED goods /\ NoneAgrees => Barter!Next
  BY WithdrawIsBarter DEF Barter!Next
<1>3. ASSUME NEW i \in Ids, AgreesAt(i) PROVE Barter!Next
  BY <1>3, AgreeIsBarter DEF Barter!Next
<1>4. ASSUME NEW i \in Ids, NEW j \in Ids, Exchanges(i, j) PROVE Barter!Next
  BY <1>4, ExchangeIsBarter DEF Barter!Next
<1> QED  BY <1>1, <1>2, <1>3, <1>4, StepCases DEF DInv

\* The trade of the field server implements a barter: whatever requests, edits,
\* disconnections and moves of items come between, goods and money change
\* hands only whole, in one step, on the terms that one of the two agreed to
\* and the other accepts.
THEOREM TradeIsBarter == Spec => BarterSpec
<1>1. DInv /\ [Next]_vars => [Barter!Next]_Barter!vars
  BY StepIsBarter
<1> QED  BY <1>1, InitIsBarter, DInvariance, PTL DEF Spec, BarterSpec, Barter!Spec

-----------------------------------------------------------------------------
(* Money *)

Total(m) == SumFunctionOnSet(m, Persons)

LEMMA TotalIs ==
  ASSUME NEW m \in [Persons -> Nat]
  PROVE  FoldFunction(+, 0, m) = Total(m)
  BY DEF FoldFunction, Total, SumFunctionOnSet

LEMMA TotalOne ==
  ASSUME NEW m \in [Persons -> Nat], NEW n \in [Persons -> Nat], NEW p \in Persons,
         \A o \in Persons \ {p} : n[o] = m[o]
  PROVE  Total(n) = Total(m) + n[p] - m[p] /\ Total(m) \in Int
<1>1. \A o \in Persons : m[o] \in Int /\ n[o] \in Int /\ (o # p => n[o] = m[o])
  OBVIOUS
<1>2. Total(n) = Total(m) + n[p] - m[p]
  BY <1>1, PersonsAssumption, SumOne DEF Total
<1> QED  BY <1>1, <1>2, PersonsAssumption, SumType DEF Total

LEMMA TotalTwo ==
  ASSUME NEW m \in [Persons -> Nat], NEW n \in [Persons -> Nat],
         NEW p \in Persons, NEW q \in Persons, p # q,
         n[p] + n[q] = m[p] + m[q],
         \A o \in Persons \ {p, q} : n[o] = m[o]
  PROVE  Total(n) = Total(m)
<1>1. \A o \in Persons : m[o] \in Int /\ n[o] \in Int /\ (o \notin {p, q} => n[o] = m[o])
  OBVIOUS
<1>2. Total(n) = Total(m) + (n[p] - m[p]) + (n[q] - m[q])
  <2>1. TwoDiffer(Persons, m, n, p, q)
    BY <1>1 DEF TwoDiffer
  <2> QED  BY <2>1, PersonsAssumption, SumTwo DEF Total
<1>3. Total(m) \in Int
  BY <1>1, PersonsAssumption, SumType DEF Total
<1> QED  BY <1>1, <1>2, <1>3

AllMoney == Total(money) + landMoney = Gold

LEMMA StandingTerms ==
  ASSUME DInv, NEW p \in Persons, Standing[p] # NULL
  PROVE  Standing[p].with # p /\ Standing[p].pays \in Nat /\ Standing[p].gets \in Nat
<1>1. PICK i \in Ids : AgreedIn(pc, trade, p, i)
  BY StandingNow DEF ConsentIn
<1>2. Standing[p] = TermsIn(pc, trade, i)
  BY <1>1, StandingNow, ConsentFacts DEF DInv, Apart, Online
<1>3. i # trade[i].target /\ trade[i].target \in Ids
  BY <1>1 DEF AgreedIn, DInv, IInv, TypeOK, Apart, TradeStates
<1>4. pc[trade[i].target] # p
  BY <1>1, <1>3 DEF AgreedIn, DInv, Apart, Online
<1>5. trade[i].money \in Nat /\ trade[trade[i].target].money \in Nat
  BY <1>3, NumberAssumption DEF DInv, IInv, TypeOK, TradeStates
<1> QED  BY <1>2, <1>4, <1>5 DEF TermsIn

\* A swap moves money between two persons, and all else that a person pays or
\* gets goes to the field or comes from it.
LEMMA BarterKeepsMoney ==
  ASSUME DInv, TypeOK', AllMoney, Barter!Next
  PROVE  AllMoney'
<1>1. /\ money \in [Persons -> Nat] /\ money' \in [Persons -> Nat]
      /\ landMoney \in Nat /\ landMoney' \in Nat /\ Gold \in Nat
  BY NumberAssumption DEF TypeOK, DInv, IInv
<1>2. Total(money) + landMoney = Gold
  BY DEF AllMoney
<1> SUFFICES Total(money') + landMoney' = Gold
  BY DEF AllMoney, Total
<1>4. CASE money' = money /\ landMoney' = landMoney
  BY <1>2, <1>4
<1>5. ASSUME NEW p \in Persons, NEW m \in 0..Gold, Barter!PutDownMoney(p, m)
      PROVE  Total(money') + landMoney' = Gold
  <2>1. /\ m \in Nat /\ landMoney' = landMoney + m
        /\ money'[p] = money[p] - m /\ \A o \in Persons \ {p} : money'[o] = money[o]
    BY <1>1, <1>5 DEF Barter!PutDownMoney
  <2>2. Total(money') = Total(money) + money'[p] - money[p] /\ Total(money) \in Int
    BY <1>1, <2>1, TotalOne
  <2> QED  BY <1>1, <1>2, <2>1, <2>2
<1>6. ASSUME NEW p \in Persons, NEW m \in 0..Gold, Barter!PickUpMoney(p, m)
      PROVE  Total(money') + landMoney' = Gold
  <2>1. /\ m \in Nat /\ landMoney' = landMoney - m
        /\ money'[p] = money[p] + m /\ \A o \in Persons \ {p} : money'[o] = money[o]
    BY <1>1, <1>6 DEF Barter!PickUpMoney
  <2>2. Total(money') = Total(money) + money'[p] - money[p] /\ Total(money) \in Int
    BY <1>1, <2>1, TotalOne
  <2> QED  BY <1>1, <1>2, <2>1, <2>2
<1>7. ASSUME NEW p \in Persons, NEW q \in Persons, Barter!Swap(p, q)
      PROVE  Total(money') + landMoney' = Gold
  <2> DEFINE t == Standing[p]
  <2>1. /\ t # NULL /\ t.with = q
        /\ money' = [money EXCEPT ![p] = @ - t.pays + t.gets, ![q] = @ - t.gets + t.pays]
        /\ landMoney' = landMoney
    BY <1>7 DEF Barter!Swap
  <2>2. t.with # p /\ t.pays \in Nat /\ t.gets \in Nat
    BY <2>1, StandingTerms
  <2>3. /\ money'[p] = money[p] - t.pays + t.gets /\ money'[q] = money[q] - t.gets + t.pays
        /\ \A o \in Persons \ {p, q} : money'[o] = money[o]
    BY <1>1, <2>1, <2>2
  <2> HIDE DEF t
  <2>4. money'[p] + money'[q] = money[p] + money[q]
    BY <1>1, <2>2, <2>3
  <2>5. Total(money') = Total(money)
    BY <1>1, <2>1, <2>2, <2>3, <2>4, TotalTwo
  <2> QED  BY <1>2, <2>1, <2>5
<1> QED
  BY <1>4, <1>5, <1>6, <1>7
  DEF Barter!Next, Barter!Withdraw, Barter!Consent, Barter!PickUp, Barter!PutDown, Barter!PickUpOver

\* No handler makes or destroys money: an exchange takes from each what the
\* other is given, and it is whole or nothing moves.
THEOREM NoMoneyMade == Spec => []MoneyConserved
<1>1. Init => AllMoney
  <2> SUFFICES ASSUME Init PROVE AllMoney
    OBVIOUS
  <2>1. money \in [Persons -> Nat] /\ landMoney = 0
    <3>1. money \in [Persons -> 0..Gold] /\ landMoney = 0
      BY Zenon DEF Init
    <3> QED  BY <3>1, NumberAssumption
  <2>2. FoldFunction(+, 0, money) = Total(money)
    BY <2>1, TotalIs
  <2>3. Total(money) = Gold
    BY <2>2, Zenon DEF Init
  <2> QED  BY <2>1, <2>3, NumberAssumption DEF AllMoney
<1>2. DInv /\ DInv' /\ AllMoney /\ [Next]_vars => AllMoney'
  <2> SUFFICES ASSUME DInv, DInv', AllMoney, [Next]_vars PROVE AllMoney'
    OBVIOUS
  <2>1. TypeOK'
    BY DEF DInv, IInv
  <2> QED  BY <2>1, StepIsBarter, BarterKeepsMoney
<1>3. DInv /\ AllMoney => MoneyConserved
  BY TotalIs DEF DInv, IInv, TypeOK, AllMoney, MoneyConserved
<1> QED  BY <1>1, <1>2, <1>3, DInvariance, PTL DEF Spec
=============================================================================
