--------------------------- MODULE PMarketProofs ---------------------------
(***************************************************************************)
(* Proofs about PMarket, for any number of characters, items, cells, units *)
(* and prices.                                                             *)
(*                                                                         *)
(* Every step either leaves the items where they lie or lets the contents  *)
(* of two spots change places, one of them free of items; both keep        *)
(* LiesOnce.  That a purchase does the second and not half of it follows   *)
(* from the checks MsgPMarketBuy makes before it starts.  On it rests that *)
(* PMarket implements Bazaar; that units of the pile and money are neither *)
(* made nor lost is a matter of sums.                                      *)
(***************************************************************************)
EXTENDS PMarket, FoldLemmas, TLAPS

\* The WORD a number is cut to is no larger.
LEMMA WordBound == ASSUME NEW n \in Nat PROVE Word(n) \in 0..n
  BY NumberAssumption DEF Word

\* What the seller gets of a payment is part of it.
LEMMA GiveBound == ASSUME NEW t \in Nat PROVE Give(t) \in 0..t
<1> DEFINE r == 100 - Commission
<1>1. r \in 0..100
  BY NumberAssumption
<1>2. t * r \in Nat /\ t * r <= t * 100
  BY <1>1
<1> QED
  BY <1>2 DEF Give

\* The constants tell goods of different sorts apart.
LEMMA Apart ==
  /\ \A i \in Items : i \notin Piles /\ i # Empty /\ i # Pile
  /\ Empty \notin Piles /\ Piles \subseteq Nat
  /\ HOLD \in Spots /\ HOLD \notin Cells /\ Cells \subseteq Spots
  BY KindAssumption, NumberAssumption DEF Piles, Spots

----------------------------------------------------------------------------
(* Type correctness.                                                       *)

Bags == [Persons -> [Spots -> Contents]]

LEMMA PutType ==
  ASSUME NEW g \in Bags, NEW p \in Persons, NEW x \in Spots, NEW u \in Contents
  PROVE  [g EXCEPT ![p][x] = u] \in Bags
  BY DEF Bags

LEMMA ExchangeType ==
  ASSUME TypeOK, NEW p \in Persons, NEW q \in Persons, NEW x \in Spots, NEW y \in Spots
  PROVE  Exchange(p, x, q, y) \in Bags
<1> DEFINE u == bag[q][y]
           v == bag[p][x]
<1>1. bag \in Bags /\ u \in Contents /\ v \in Contents
  BY DEF TypeOK, Bags
<1>2. Exchange(p, x, q, y) = [bag EXCEPT ![p][x] = u, ![q][y] = v]
  BY DEF Exchange
<1> HIDE DEF u, v
<1> DEFINE g == [bag EXCEPT ![p][x] = u]
<1>3. g \in Bags
  BY <1>1, PutType
<1>4. Exchange(p, x, q, y) = [g EXCEPT ![q][y] = v]
  BY <1>2
<1> HIDE DEF g
<1>5. [g EXCEPT ![q][y] = v] \in Bags
  BY <1>1, <1>3, PutType
<1> QED
  BY <1>4, <1>5

\* The owner's moves keep the types.
LEMMA MovesType ==
  ASSUME TypeOK, NEW p \in Persons, Moves(p)
  PROVE  TypeOK'
<1>1. PICK c \in Cells : \/ MsgReqInvenToHold(p, c) \/ MsgReqHoldToInven(p, c)
                         \/ MsgReqInvenExHold(p, c)
                         \/ \E d \in Cells, n \in Piles : MsgReqInvenSplit(p, c, d, n)
  BY DEF Moves
<1>2. c \in Spots /\ HOLD \in Spots
  BY Apart
<1>3. CASE MsgReqInvenToHold(p, c) \/ MsgReqHoldToInven(p, c)
  BY <1>2, <1>3, ExchangeType
     DEF MsgReqInvenToHold, MsgReqHoldToInven, TypeOK, Bags, stalls, purses
<1>4. CASE MsgReqInvenExHold(p, c)
  <2>1. ASSUME bag[p][c] \in Piles, bag[p][HOLD] \in Piles,
               bag[p][c] # PileNum, bag[p][HOLD] # PileNum
        PROVE  Merge(p, c) \in Bags
    <3> DEFINE sum == bag[p][c] + bag[p][HOLD]
    <3>1. /\ sum \in Nat /\ PileNum \in Piles /\ Empty \in Contents /\ Piles \subseteq Contents
          /\ sum <= PileNum => sum \in Piles
          /\ ~(sum <= PileNum) => sum - PileNum \in Piles
      BY <2>1, NumberAssumption DEF Piles, Contents
    <3> HIDE DEF sum
    <3>2. CASE sum <= PileNum
      <4>1. Merge(p, c) = [bag EXCEPT ![p][c] = sum, ![p][HOLD] = Empty]
        BY <3>2 DEF Merge, sum
      <4> QED
        BY <1>2, <3>1, <3>2, <4>1 DEF TypeOK, Bags
    <3>3. CASE ~(sum <= PileNum)
      <4>1. Merge(p, c) = [bag EXCEPT ![p][c] = PileNum, ![p][HOLD] = sum - PileNum]
        BY <3>3 DEF Merge, sum
      <4> QED
        BY <1>2, <3>1, <3>3, <4>1 DEF TypeOK, Bags
    <3> QED
      BY <3>2, <3>3
  <2>2. bag' \in Bags
    BY <1>2, <1>4, <2>1, ExchangeType DEF MsgReqInvenExHold
  <2> QED
    BY <1>4, <2>2 DEF MsgReqInvenExHold, TypeOK, Bags, stalls, purses
<1>5. CASE \E d \in Cells, n \in Piles : MsgReqInvenSplit(p, c, d, n)
  <2>1. PICK d \in Cells, n \in Piles : MsgReqInvenSplit(p, c, d, n)
    BY <1>5
  <2>2. d \in Spots /\ bag[p][c] - n \in Contents /\ n \in Contents
    BY <2>1, Apart, NumberAssumption DEF MsgReqInvenSplit, Piles, Contents
  <2>3. bag' \in Bags
    BY <1>2, <2>1, <2>2 DEF MsgReqInvenSplit, TypeOK, Bags
  <2> QED
    BY <2>1, <2>3 DEF MsgReqInvenSplit, TypeOK, Bags, stalls, purses
<1> QED
  BY <1>1, <1>3, <1>4, <1>5

\* Keeping a stall keeps the types.
LEMMA KeepsType ==
  ASSUME TypeOK, NEW p \in Persons, Keeps(p)
  PROVE  TypeOK'
<1>0. NoStall \in [SalePos -> Entry \cup {NoEntry}]
  BY DEF NoStall
<1>1. CASE MsgPMarketTitle(p) \/ MsgPMarketOpen(p)
  BY <1>0, <1>1 DEF MsgPMarketTitle, MsgPMarketOpen, TypeOK, purses
<1>2. CASE MsgPMarketClose(p)
  <2>1. order' \in [Persons -> Order \cup {NoOrder}]
    BY <1>2 DEF MsgPMarketClose, Outdated, TypeOK, Order
  <2> QED
    BY <1>0, <1>2, <2>1 DEF MsgPMarketClose, TypeOK, purses
<1>3. ASSUME NEW k \in SalePos, MsgPMarketDisItem(p, k) PROVE TypeOK'
  BY <1>3 DEF MsgPMarketDisItem, TypeOK, purses
<1>4. ASSUME NEW k \in SalePos, NEW c \in Cells, NEW price \in Prices, NEW n \in 0..Units,
             MsgPMarketReqItem(p, c, k, price, n)
      PROVE  TypeOK'
  <2> DEFINE e == [what |-> KindOf(bag[p][c]), from |-> c, price |-> price,
                   number |-> n, sold |-> FALSE]
  <2>1. KindOf(bag[p][c]) \in Kinds
    BY <1>4, Apart DEF MsgPMarketReqItem, KindOf, Kinds, TypeOK, Contents
  <2>2. e \in Entry
    BY <2>1 DEF Entry
  <2> HIDE DEF e
  <2>3. sale' = [sale EXCEPT ![p][k] = e]
    BY <1>4 DEF MsgPMarketReqItem, e
  <2>4. sale' \in [Persons -> [SalePos -> Entry \cup {NoEntry}]]
    BY <2>2, <2>3 DEF TypeOK
  <2> QED
    BY <1>4, <2>4 DEF MsgPMarketReqItem, TypeOK, purses
<1> QED
  BY <1>1, <1>2, <1>3, <1>4 DEF Keeps

\* Sending an order keeps the types.
LEMMA OrderType ==
  ASSUME TypeOK, NEW b \in Persons, NEW s \in Persons, NEW k \in SalePos,
         NEW n \in 0..Units, ReqPMarketBuy(b, s, k, n)
  PROVE  TypeOK'
<1>1. sale[s][k] \in Entry
  BY DEF ReqPMarketBuy, TypeOK
<1>2. sale[s][k].what \in Kinds /\ sale[s][k].price \in Prices
  BY <1>1 DEF Entry
<1> DEFINE o == [seller |-> s, pos |-> k, number |-> n, what |-> sale[s][k].what,
                 price |-> sale[s][k].price, closed |-> ~open[s]]
<1>3. o \in Order
  <2>1. (~open[s]) \in BOOLEAN
    OBVIOUS
  <2> QED
    BY <1>2, <2>1 DEF Order
<1> HIDE DEF o
<1>4. order' = [order EXCEPT ![b] = o]
  BY DEF ReqPMarketBuy, o
<1> QED
  BY <1>3, <1>4 DEF ReqPMarketBuy, TypeOK, stalls, purses

\* What the handler has found out when it accepts an order.
LEMMA Accepted ==
  ASSUME TypeOK, NEW b \in Persons, NEW s \in Persons, NEW k \in SalePos,
         NEW n \in Nat, sale[s][k] # NoEntry, MayBuy(b, s, sale[s][k], n)
  PROVE  /\ sale[s][k] \in Entry /\ sale[s][k].what \in Kinds
         /\ sale[s][k].from \in Cells
         /\ sale[s][k].price \in Nat /\ sale[s][k].number \in 0..Units
         /\ Word(n) \in 0..sale[s][k].number
         /\ n * sale[s][k].price \in Nat /\ n * sale[s][k].price <= money[b]
<1>1. sale[s][k] \in Entry
  BY DEF TypeOK
<1>2. /\ sale[s][k].what \in Kinds /\ sale[s][k].from \in Cells
      /\ sale[s][k].price \in Nat /\ sale[s][k].number \in 0..Units
  BY <1>1, NumberAssumption DEF Entry
<1>3. n <= sale[s][k].number /\ n * sale[s][k].price <= money[b]
  BY DEF MayBuy
<1>4. Word(n) \in 0..sale[s][k].number
  BY <1>2, <1>3, WordBound, NumberAssumption
<1>5. n * sale[s][k].price \in Nat
  BY <1>2
<1> QED
  BY <1>1, <1>2, <1>3, <1>4, <1>5

\* A payment the buyer can afford keeps the types.
LEMMA PayType ==
  ASSUME TypeOK, NEW b \in Persons, NEW s \in Persons, NEW t \in Nat,
         t <= money[b], Pay(b, s, t)
  PROVE  money' \in [Persons -> Nat] /\ income' \in Nat
<1>1. Give(t) \in Nat /\ Give(t) <= t
  BY GiveBound
<1> DEFINE m == [money EXCEPT ![b] = @ - t]
<1>2. m \in [Persons -> Nat]
  BY DEF TypeOK
<1>3. money' = [m EXCEPT ![s] = @ + Give(t)]
  BY DEF Pay
<1>4. income' = income + (t - Give(t))
  BY DEF Pay
<1> HIDE DEF m
<1>5. money' \in [Persons -> Nat]
  BY <1>1, <1>2, <1>3
<1> QED
  BY <1>1, <1>4, <1>5 DEF TypeOK

\* A sale leaves an offer of the same goods at the same price.
LEMMA SaleEntry ==
  ASSUME TypeOK, NEW s \in Persons, NEW k \in SalePos, sale[s][k] \in Entry,
         NEW m \in 0..sale[s][k].number, DoSale(s, k, m)
  PROVE  \E e \in Entry : /\ sale' = [sale EXCEPT ![s][k] = e]
                          /\ e.price = sale[s][k].price /\ e.what = sale[s][k].what
                          /\ e.number = sale[s][k].number - m
<1> DEFINE e == [[sale[s][k] EXCEPT !.number = @ - m] EXCEPT !.sold = (sale[s][k].number = m)]
<1>1. sale[s][k].number - m \in 0..Units
  BY NumberAssumption DEF Entry
<1>2. /\ e \in Entry /\ e.price = sale[s][k].price /\ e.what = sale[s][k].what
      /\ e.number = sale[s][k].number - m
  BY <1>1 DEF Entry
<1>3. sale' = [sale EXCEPT ![s][k] = e]
  BY DEF DoSale, TypeOK
<1> HIDE DEF e
<1> QED
  BY <1>2, <1>3

LEMMA SaleType ==
  ASSUME TypeOK, NEW s \in Persons, NEW k \in SalePos, sale[s][k] \in Entry,
         NEW m \in 0..sale[s][k].number, DoSale(s, k, m)
  PROVE  sale' \in [Persons -> [SalePos -> Entry \cup {NoEntry}]]
<1>1. PICK e \in Entry : sale' = [sale EXCEPT ![s][k] = e]
  BY SaleEntry
<1> QED
  BY <1>1 DEF TypeOK

LEMMA HandOverType ==
  ASSUME TypeOK, NEW b \in Persons, NEW s \in Persons, NEW e \in Entry, NEW n \in Nat,
         IF e.what = Pile THEN HandOverPile(b, s, e, n) ELSE HandOverItem(b, s, e)
  PROVE  bag' \in Bags
<1>1. bag \in Bags /\ Empty \in Contents
  BY DEF TypeOK, Bags, Contents
<1>2. CASE e.what = Pile
  <2>1. PICK v \in Lessened(bag[s], Word(n)) :
          \E w \in Grown([bag EXCEPT ![s] = v][b], Word(n)) :
            bag' = [[bag EXCEPT ![s] = v] EXCEPT ![b] = w]
    BY <1>2 DEF HandOverPile
  <2>2. PICK w \in Grown([bag EXCEPT ![s] = v][b], Word(n)) :
          bag' = [[bag EXCEPT ![s] = v] EXCEPT ![b] = w]
    BY <2>1
  <2>3. v \in [Spots -> Contents] /\ w \in [Spots -> Contents]
    BY <2>1, <2>2 DEF Lessened, Grown
  <2> QED
    BY <1>1, <2>2, <2>3 DEF Bags
<1>3. CASE e.what # Pile
  <2>1. e.what \in Contents /\ e.from \in Spots
    BY <1>3, Apart DEF Entry, Kinds, Contents
  <2> DEFINE taken == [bag EXCEPT ![s][e.from] = Empty]
  <2>2. taken \in Bags
    BY <1>1, <2>1, PutType
  <2>3. \/ bag' = taken
        \/ \E c \in Vacant(taken[b]) : bag' = [taken EXCEPT ![b][c] = e.what]
    BY <1>3 DEF HandOverItem
  <2> HIDE DEF taken
  <2>4. ASSUME NEW c \in Vacant(taken[b]) PROVE [taken EXCEPT ![b][c] = e.what] \in Bags
    BY <2>1, <2>2, <2>4, PutType, Apart DEF Vacant
  <2> QED
    BY <2>2, <2>3, <2>4
<1> QED
  BY <1>2, <1>3

\* Carrying out an order keeps the types.
LEMMA BuyType ==
  ASSUME TypeOK, NEW b \in Persons, MsgPMarketBuy(b)
  PROVE  TypeOK'
<1> DEFINE s == order[b].seller
           k == order[b].pos
           n == Wanted(sale[s][k], order[b].number)
<1>1. order[b] \in Order
  BY DEF MsgPMarketBuy, TypeOK
<1>2. s \in Persons /\ k \in SalePos /\ n \in Nat
  BY <1>1, NumberAssumption DEF Order, Wanted
<1>3. open' \in [Persons -> BOOLEAN] /\ order' \in [Persons -> Order \cup {NoOrder}]
  BY DEF MsgPMarketBuy, TypeOK
<1>4. \/ sale[s][k] # NoEntry /\ MayBuy(b, s, sale[s][k], n) /\ Purchase(b, s, k, n)
      \/ UNCHANGED <<bag, sale, purses>>
  BY DEF MsgPMarketBuy
<1> HIDE DEF s, k, n
<1>5. CASE sale[s][k] # NoEntry /\ MayBuy(b, s, sale[s][k], n) /\ Purchase(b, s, k, n)
  <2>1. /\ sale[s][k] \in Entry /\ sale[s][k].price \in Nat
        /\ Word(n) \in 0..sale[s][k].number
        /\ n * sale[s][k].price \in Nat /\ n * sale[s][k].price <= money[b]
    BY <1>2, <1>5, Accepted
  <2>2. sale' \in [Persons -> [SalePos -> Entry \cup {NoEntry}]]
    BY <1>2, <1>5, <2>1, SaleType DEF Purchase
  <2>3. IF sale[s][k].what = Pile THEN HandOverPile(b, s, sale[s][k], n)
                                  ELSE HandOverItem(b, s, sale[s][k])
    BY <1>5 DEF Purchase
  <2>4. bag' \in Bags
    BY <1>2, <2>1, <2>3, HandOverType
  <2>5. money' \in [Persons -> Nat] /\ income' \in Nat
    <3>1. CASE sale[s][k].what = Pile
      BY <1>2, <2>1, <2>3, <3>1, PayType DEF HandOverPile
    <3>2. CASE sale[s][k].what # Pile
      <4>1. n = 1
        BY <3>2 DEF n, Wanted
      <4>2. sale[s][k].price <= money[b]
        BY <2>1, <4>1
      <4>3. UNCHANGED purses \/ Pay(b, s, sale[s][k].price)
        BY <2>3, <3>2 DEF HandOverItem
      <4> QED
        BY <1>2, <2>1, <4>2, <4>3, PayType DEF TypeOK, purses
    <3> QED
      BY <3>1, <3>2
  <2> QED
    BY <1>3, <2>2, <2>4, <2>5 DEF TypeOK, Bags
<1>6. CASE UNCHANGED <<bag, sale, purses>>
  BY <1>3, <1>6 DEF TypeOK, purses
<1> QED
  BY <1>4, <1>5, <1>6

LEMMA NextType == ASSUME TypeOK, [Next]_vars PROVE TypeOK'
<1>1. CASE UNCHANGED vars
  BY <1>1 DEF vars, TypeOK
<1>2. ASSUME NEW p \in Persons, Moves(p) PROVE TypeOK'
  BY <1>2, MovesType
<1>3. ASSUME NEW p \in Persons, Buys(p) PROVE TypeOK'
  BY <1>3, OrderType, BuyType DEF Buys
<1>4. ASSUME NEW p \in Persons, Keeps(p) PROVE TypeOK'
  BY <1>4, KeepsType
<1> QED
  BY <1>1, <1>2, <1>3, <1>4 DEF Next

LEMMA InitType == Init => TypeOK
  BY NumberAssumption DEF Init, TypeOK, NoStall

\* Bags, stalls, purses and orders hold what they should whatever the clients
\* ask for: in particular no order takes more than a buyer has or an offer
\* has left.
THEOREM Types == Spec => []TypeOK
<1>1. TypeOK /\ [Next]_vars => TypeOK'
  BY NextType
<1> QED
  BY <1>1, InitType, PTL DEF Spec

----------------------------------------------------------------------------
(* An order on its way finds the offer its buyer saw.                      *)

\* What OfferAsSeen says of one order o, of a stall that is open or not and
\* what stands in it.
Stands(o, opn, stall) ==
  o # NoOrder /\ ~o.closed =>
    /\ opn /\ stall[o.pos] # NoEntry
    /\ stall[o.pos].price = o.price /\ stall[o.pos].what = o.what

AllStand(ord, opn, sal) ==
  \A b \in Persons : Stands(ord[b], opn[ord[b].seller], sal[ord[b].seller])

LEMMA SeenStands == OfferAsSeen <=> AllStand(order, open, sale)
  BY DEF OfferAsSeen, AllStand, Stands

LEMMA SeenStandsNext == OfferAsSeen' <=> AllStand(order', open', sale')
  BY DEF OfferAsSeen, AllStand, Stands

\* A closed stall may change: no order that is not outdated waits for it.
LEMMA SetUpStands ==
  ASSUME TypeOK, AllStand(order, open, sale), NEW p \in Persons, ~open[p],
         NEW v, sale' = [sale EXCEPT ![p] = v]
  PROVE  AllStand(order, open, sale')
<1> SUFFICES ASSUME NEW b \in Persons, order[b] # NoOrder, ~order[b].closed
             PROVE  Stands(order[b], open[order[b].seller], sale'[order[b].seller])
  BY DEF AllStand, Stands
<1>1. Stands(order[b], open[order[b].seller], sale[order[b].seller])
  BY DEF AllStand
<1>2. order[b].seller # p
  BY <1>1 DEF Stands
<1>3. sale'[order[b].seller] = sale[order[b].seller]
  BY <1>2 DEF TypeOK, Order
<1> QED
  BY <1>1, <1>3

\* Keeping a stall leaves standing what is ordered, or outdates the order.
LEMMA KeepsStands ==
  ASSUME TypeOK, AllStand(order, open, sale), NEW p \in Persons, Keeps(p)
  PROVE  AllStand(order', open', sale')
<1>1. CASE MsgPMarketTitle(p)
  BY <1>1, SetUpStands DEF MsgPMarketTitle
<1>2. ASSUME NEW k \in SalePos, MsgPMarketDisItem(p, k)
      PROVE  AllStand(order', open', sale')
  <2>1. sale' = [sale EXCEPT ![p] = [sale[p] EXCEPT ![k] = NoEntry]]
    BY <1>2 DEF MsgPMarketDisItem, TypeOK
  <2> QED
    BY <1>2, <2>1, SetUpStands DEF MsgPMarketDisItem
<1>3. ASSUME NEW k \in SalePos, NEW c \in Cells, NEW price \in Prices, NEW n \in 0..Units,
             MsgPMarketReqItem(p, c, k, price, n)
      PROVE  AllStand(order', open', sale')
  <2> DEFINE e == [what |-> KindOf(bag[p][c]), from |-> c, price |-> price,
                   number |-> n, sold |-> FALSE]
  <2>1. sale' = [sale EXCEPT ![p][k] = e]
    BY <1>3 DEF MsgPMarketReqItem
  <2> HIDE DEF e
  <2>2. sale' = [sale EXCEPT ![p] = [sale[p] EXCEPT ![k] = e]]
    BY <2>1 DEF TypeOK
  <2> QED
    BY <1>3, <2>2, SetUpStands DEF MsgPMarketReqItem
<1>4. CASE MsgPMarketOpen(p)
  BY <1>4 DEF MsgPMarketOpen, AllStand, Stands, TypeOK, Order
<1>5. CASE MsgPMarketClose(p)
  <2> SUFFICES ASSUME NEW b \in Persons, order'[b] # NoOrder, ~order'[b].closed
               PROVE  Stands(order'[b], open'[order'[b].seller], sale'[order'[b].seller])
    BY DEF AllStand, Stands
  <2>1. order'[b] = IF order[b] # NoOrder /\ order[b].seller = p
                    THEN [order[b] EXCEPT !.closed = TRUE] ELSE order[b]
    BY <1>5 DEF MsgPMarketClose, Outdated
  <2>2. order[b] # NoOrder /\ order[b].seller # p /\ order'[b] = order[b]
    BY <2>1 DEF TypeOK, Order
  <2>3. Stands(order[b], open[order[b].seller], sale[order[b].seller])
    BY DEF AllStand
  <2>4. /\ open'[order[b].seller] = open[order[b].seller]
        /\ sale'[order[b].seller] = sale[order[b].seller]
    BY <1>5, <2>2 DEF MsgPMarketClose, TypeOK, Order
  <2> QED
    BY <2>2, <2>3, <2>4
<1> QED
  BY <1>1, <1>2, <1>3, <1>4, <1>5 DEF Keeps

\* An order is sent from what the stall shows, and carrying one out takes
\* from the number on offer alone.
LEMMA BuysStands ==
  ASSUME TypeOK, AllStand(order, open, sale), NEW b \in Persons, Buys(b)
  PROVE  AllStand(order', open', sale')
<1>1. ASSUME NEW s \in Persons, NEW k \in SalePos, NEW n \in 0..Units,
             ReqPMarketBuy(b, s, k, n)
      PROVE  AllStand(order', open', sale')
  BY <1>1 DEF ReqPMarketBuy, AllStand, Stands, TypeOK, stalls
<1>2. CASE MsgPMarketBuy(b)
  <2>1. order' = [order EXCEPT ![b] = NoOrder] /\ open' = open
    BY <1>2 DEF MsgPMarketBuy
  <2> DEFINE s == order[b].seller
             k == order[b].pos
             n == Wanted(sale[s][k], order[b].number)
  <2>2. \/ sale' = sale
        \/ sale[s][k] # NoEntry /\ MayBuy(b, s, sale[s][k], n) /\ DoSale(s, k, Word(n))
    BY <1>2 DEF MsgPMarketBuy, Purchase
  <2>3. s \in Persons /\ k \in SalePos /\ n \in Nat
    BY <1>2, NumberAssumption DEF MsgPMarketBuy, TypeOK, Order, Wanted
  <2> HIDE DEF s, k, n
  <2>4. ASSUME NEW q \in Persons, NEW j \in SalePos, sale[q][j] # NoEntry
        PROVE  /\ sale'[q][j] # NoEntry
               /\ sale'[q][j].price = sale[q][j].price /\ sale'[q][j].what = sale[q][j].what
    <3>1. CASE sale[s][k] # NoEntry /\ MayBuy(b, s, sale[s][k], n) /\ DoSale(s, k, Word(n))
      <4>1. sale[s][k] \in Entry /\ Word(n) \in 0..sale[s][k].number
        BY <2>3, <3>1, Accepted
      <4>2. PICK e \in Entry : /\ sale' = [sale EXCEPT ![s][k] = e]
                               /\ e.price = sale[s][k].price /\ e.what = sale[s][k].what
        BY <2>3, <3>1, <4>1, SaleEntry
      <4>3. e # NoEntry
        BY EntryAssumption
      <4> QED
        BY <2>3, <2>4, <4>2, <4>3 DEF TypeOK
    <3> QED
      BY <2>2, <2>4, <3>1
  <2> SUFFICES ASSUME NEW c \in Persons, order'[c] # NoOrder, ~order'[c].closed
               PROVE  Stands(order'[c], open'[order'[c].seller], sale'[order'[c].seller])
    BY DEF AllStand, Stands
  <2>5. order'[c] = order[c]
    BY <2>1 DEF TypeOK
  <2>6. Stands(order[c], open[order[c].seller], sale[order[c].seller])
    BY DEF AllStand
  <2>7. order[c].seller \in Persons /\ order[c].pos \in SalePos
    BY <2>5 DEF TypeOK, Order
  <2> QED
    BY <2>1, <2>4, <2>5, <2>6, <2>7 DEF Stands
<1> QED
  BY <1>1, <1>2 DEF Buys

LEMMA NextStands ==
  ASSUME TypeOK, AllStand(order, open, sale), [Next]_vars
  PROVE  AllStand(order', open', sale')
<1>1. CASE UNCHANGED vars
  BY <1>1 DEF vars
<1>2. ASSUME NEW p \in Persons, Moves(p) PROVE UNCHANGED <<open, sale, order>>
  BY <1>2 DEF Moves, MsgReqInvenToHold, MsgReqHoldToInven, MsgReqInvenExHold,
              MsgReqInvenSplit, stalls
<1> QED
  BY <1>1, <1>2, KeepsStands, BuysStands DEF Next

\* However stalls open, change and close and orders are sent and carried out:
\* a purchase is never made of other goods or at another price than its buyer
\* saw, unless the stall closed on the way.
THEOREM OffersStand == Spec => []OfferAsSeen
<1>1. Init => OfferAsSeen
  BY DEF Init, OfferAsSeen
<1>2. TypeOK /\ OfferAsSeen /\ [Next]_vars => OfferAsSeen'
  BY SeenStands, SeenStandsNext, NextStands
<1> QED
  BY <1>1, <1>2, Types, PTL DEF Spec

----------------------------------------------------------------------------
(* Every item stays in one place.                                          *)

OnceIn(g, i) ==
  \E p \in Persons, x \in Spots :
    /\ g[p][x] = i
    /\ \A q \in Persons, y \in Spots : g[q][y] = i => q = p /\ y = x

EachOnce(g) == \A i \in Items : OnceIn(g, i)

LEMMA OnceNow == ItemsOnce <=> EachOnce(bag)
  BY DEF ItemsOnce, LiesOnce, EachOnce, OnceIn

LEMMA OnceNext == ItemsOnce' <=> EachOnce(bag')
  BY DEF ItemsOnce, LiesOnce, EachOnce, OnceIn

\* The same item, or no item.
Same(u, v) == u = v \/ (u \notin Items /\ v \notin Items)

\* From g to h, what lies at x in p's bag and at y in q's changes places, and
\* no other item moves.
Swapped(g, h, p, x, q, y) ==
  /\ Same(h[p][x], g[q][y]) /\ Same(h[q][y], g[p][x])
  /\ \A r \in Persons, z \in Spots :
       ~(r = p /\ z = x) /\ ~(r = q /\ z = y) => Same(h[r][z], g[r][z])

LEMMA SwapOnce ==
  ASSUME NEW g, NEW h, NEW p \in Persons, NEW x \in Spots, NEW q \in Persons, NEW y \in Spots,
         EachOnce(g), Swapped(g, h, p, x, q, y)
  PROVE  EachOnce(h)
<1> SUFFICES ASSUME NEW i \in Items PROVE OnceIn(h, i)
  BY DEF EachOnce
<1>1. PICK r \in Persons, z \in Spots :
        /\ g[r][z] = i
        /\ \A t \in Persons, u \in Spots : g[t][u] = i => t = r /\ u = z
  BY DEF EachOnce, OnceIn
<1>2. /\ h[p][x] = i <=> g[q][y] = i
      /\ h[q][y] = i <=> g[p][x] = i
      /\ \A t \in Persons, u \in Spots :
           ~(t = p /\ u = x) /\ ~(t = q /\ u = y) => (h[t][u] = i <=> g[t][u] = i)
  BY DEF Swapped, Same
<1>3. CASE r = p /\ z = x
  BY <1>1, <1>2, <1>3 DEF OnceIn
<1>4. CASE r = q /\ z = y
  BY <1>1, <1>2, <1>4 DEF OnceIn
<1>5. CASE ~(r = p /\ z = x) /\ ~(r = q /\ z = y)
  BY <1>1, <1>2, <1>5 DEF OnceIn
<1> QED
  BY <1>3, <1>4, <1>5

\* No item moves.
LEMMA StillSwap ==
  ASSUME NEW g, NEW h, NEW p \in Persons,
         \A r \in Persons, z \in Spots : Same(h[r][z], g[r][z])
  PROVE  HOLD \in Spots /\ Swapped(g, h, p, HOLD, p, HOLD)
<1>1. HOLD \in Spots
  BY Apart
<1> QED
  BY <1>1 DEF Swapped

LEMMA ExchangeSwap ==
  ASSUME TypeOK, NEW p \in Persons, NEW x \in Spots, NEW y \in Spots
  PROVE  Swapped(bag, Exchange(p, x, p, y), p, x, p, y)
  BY DEF Exchange, Swapped, Same, TypeOK

\* The owner's moves exchange what lies at two of his spots.
LEMMA MovesSwap ==
  ASSUME TypeOK, NEW p \in Persons, Moves(p)
  PROVE  \E x, y \in Spots : Swapped(bag, bag', p, x, p, y)
<1>1. PICK c \in Cells : \/ MsgReqInvenToHold(p, c) \/ MsgReqHoldToInven(p, c)
                         \/ MsgReqInvenExHold(p, c)
                         \/ \E d \in Cells, n \in Piles : MsgReqInvenSplit(p, c, d, n)
  BY DEF Moves
<1>2. c \in Spots /\ HOLD \in Spots
  BY Apart
<1>3. CASE bag' = Exchange(p, c, p, HOLD)
  BY <1>2, <1>3, ExchangeSwap
<1>4. CASE /\ bag[p][c] \in Piles /\ bag[p][HOLD] \in Piles
           /\ bag' = Merge(p, c)
  <2> DEFINE sum == bag[p][c] + bag[p][HOLD]
  <2>1. /\ sum \notin Items /\ PileNum \notin Items /\ Empty \notin Items
        /\ ~(sum <= PileNum) => sum - PileNum \notin Items
    BY <1>4, KindAssumption, NumberAssumption DEF Piles
  <2>2. bag[p][c] \notin Items /\ bag[p][HOLD] \notin Items
    BY <1>4, Apart
  <2> HIDE DEF sum
  <2>3. CASE sum <= PileNum
    <3>1. bag' = [bag EXCEPT ![p][c] = sum, ![p][HOLD] = Empty]
      BY <1>4, <2>3 DEF Merge, sum
    <3>2. \A r \in Persons, z \in Spots : Same(bag'[r][z], bag[r][z])
      BY <1>2, <2>1, <2>2, <3>1 DEF Same, TypeOK
    <3> QED
      BY <3>2, StillSwap
  <2>4. CASE ~(sum <= PileNum)
    <3>1. bag' = [bag EXCEPT ![p][c] = PileNum, ![p][HOLD] = sum - PileNum]
      BY <1>4, <2>4 DEF Merge, sum
    <3>2. \A r \in Persons, z \in Spots : Same(bag'[r][z], bag[r][z])
      BY <1>2, <2>1, <2>2, <3>1 DEF Same, TypeOK
    <3> QED
      BY <3>2, StillSwap
  <2> QED
    BY <2>3, <2>4
<1>5. CASE \E d \in Cells, n \in Piles : MsgReqInvenSplit(p, c, d, n)
  <2>1. PICK d \in Cells, n \in Piles : MsgReqInvenSplit(p, c, d, n)
    BY <1>5
  <2> DEFINE rest == bag[p][c] - n
  <2>2. /\ d \in Spots /\ rest \notin Items /\ n \notin Items
        /\ bag[p][c] \notin Items /\ bag[p][d] \notin Items
    BY <2>1, Apart, KindAssumption, NumberAssumption DEF MsgReqInvenSplit, Piles
  <2>3. bag' = [bag EXCEPT ![p][c] = rest, ![p][d] = n]
    BY <2>1 DEF MsgReqInvenSplit, TypeOK
  <2> HIDE DEF rest
  <2>4. \A r \in Persons, z \in Spots : Same(bag'[r][z], bag[r][z])
    BY <1>2, <2>2, <2>3 DEF Same, TypeOK
  <2> QED
    BY <2>4, StillSwap
<1> QED
  BY <1>1, <1>3, <1>4, <1>5 DEF MsgReqInvenToHold, MsgReqHoldToInven, MsgReqInvenExHold

LEMMA MovesOnce ==
  ASSUME TypeOK, NEW p \in Persons, EachOnce(bag), Moves(p)
  PROVE  EachOnce(bag')
<1>1. PICK x \in Spots, y \in Spots : Swapped(bag, bag', p, x, p, y)
  BY MovesSwap
<1> QED
  BY <1>1, SwapOnce

\* An item that is sold changes places with a free cell: the checks before
\* the sale make sure that it lies where it was offered from and that there is
\* a free cell.
LEMMA ItemSwap ==
  ASSUME TypeOK, NEW b \in Persons, NEW s \in Persons, NEW n \in Nat,
         NEW e \in Entry, e.what # Pile, MayBuy(b, s, e, n), HandOverItem(b, s, e)
  PROVE  /\ e.what \in Items /\ e.from \in Spots /\ bag[s][e.from] = e.what
         /\ \E c \in Spots : /\ (b # s => bag[b][c] \notin Items) /\ bag'[b][c] = e.what
                           /\ Swapped(bag, bag', s, e.from, b, c)
         /\ Pay(b, s, e.price)
<1>1. /\ bag[s][e.from] = e.what /\ e.from \in Spots
      /\ e.what \in Items /\ Empty \notin Items
  BY Apart DEF MayBuy, InStock, Entry, Kinds
<1>2. PICK f \in Cells : bag[b][f] = Empty
  BY DEF MayBuy, Space, Vacant
<1> DEFINE taken == [bag EXCEPT ![s][e.from] = Empty]
<1>3. taken[b][f] = Empty
  BY <1>1, <1>2, Apart DEF TypeOK
<1>4. Vacant(taken[b]) # {}
  BY <1>3 DEF Vacant
<1>5. PICK c \in Vacant(taken[b]) : /\ bag' = [taken EXCEPT ![b][c] = e.what]
                                    /\ Pay(b, s, e.price)
  BY <1>4 DEF HandOverItem
<1>6. c \in Spots /\ taken[b][c] = Empty
  BY <1>5, Apart DEF Vacant
<1>7. taken \in Bags
  BY <1>1, PutType DEF TypeOK, Bags, Contents
<1>8. \A r \in Persons, z \in Spots :
        taken[r][z] = IF r = s /\ z = e.from THEN Empty ELSE bag[r][z]
  BY <1>1 DEF TypeOK
<1> HIDE DEF taken
<1>9. \A r \in Persons, z \in Spots :
        bag'[r][z] = IF r = b /\ z = c THEN e.what ELSE taken[r][z]
  BY <1>5, <1>6, <1>7 DEF Bags
<1>10. Swapped(bag, bag', s, e.from, b, c)
  BY <1>1, <1>6, <1>8, <1>9 DEF Swapped, Same
<1>11. (b # s => bag[b][c] \notin Items) /\ bag'[b][c] = e.what
  BY <1>1, <1>6, <1>8, <1>9
<1> QED
  BY <1>1, <1>5, <1>6, <1>10, <1>11

LEMMA ItemOnce ==
  ASSUME TypeOK, EachOnce(bag), NEW b \in Persons, NEW s \in Persons, NEW n \in Nat,
         NEW e \in Entry, e.what # Pile, MayBuy(b, s, e, n), HandOverItem(b, s, e)
  PROVE  EachOnce(bag')
<1>1. PICK c \in Spots : Swapped(bag, bag', s, e.from, b, c)
  BY ItemSwap
<1>2. e.from \in Spots
  BY ItemSwap
<1> QED
  BY <1>1, <1>2, SwapOnce

\* Piles that shrink or grow are no items, before or after.
LEMMA PileSame ==
  ASSUME TypeOK, NEW b \in Persons, NEW s \in Persons, NEW n \in Nat,
         NEW e \in Entry, HandOverPile(b, s, e, n)
  PROVE  \A r \in Persons, z \in Spots : Same(bag'[r][z], bag[r][z])
<1>1. PICK v \in Lessened(bag[s], Word(n)) :
        \E w \in Grown([bag EXCEPT ![s] = v][b], Word(n)) :
          bag' = [[bag EXCEPT ![s] = v] EXCEPT ![b] = w]
  BY DEF HandOverPile
<1> DEFINE taken == [bag EXCEPT ![s] = v]
<1>2. PICK w \in Grown(taken[b], Word(n)) : bag' = [taken EXCEPT ![b] = w]
  BY <1>1
<1>3. \A x \in Spots : Same(v[x], bag[s][x])
  BY Apart DEF Lessened, PileCells, Same
<1>4. taken \in [Persons -> [Spots -> Contents]]
  BY <1>1 DEF TypeOK, Lessened
<1>5. \A r \in Persons, z \in Spots : Same(taken[r][z], bag[r][z])
  BY <1>3 DEF TypeOK, Same
<1> HIDE DEF taken
<1>6. \A x \in Spots : Same(w[x], taken[b][x])
  BY <1>2, Apart DEF Grown, PileCells, Vacant, Same
<1>7. \A r \in Persons, z \in Spots : Same(bag'[r][z], taken[r][z])
  BY <1>2, <1>4, <1>6 DEF Same
<1> QED
  BY <1>5, <1>7 DEF Same

LEMMA PileOnce ==
  ASSUME TypeOK, EachOnce(bag), NEW b \in Persons, NEW s \in Persons, NEW n \in Nat,
         NEW e \in Entry, HandOverPile(b, s, e, n)
  PROVE  EachOnce(bag')
<1>1. \A r \in Persons, z \in Spots : Same(bag'[r][z], bag[r][z])
  BY PileSame
<1>2. HOLD \in Spots /\ Swapped(bag, bag', b, HOLD, b, HOLD)
  BY <1>1, StillSwap
<1> QED
  BY <1>2, SwapOnce

LEMMA BuyOnce ==
  ASSUME TypeOK, NEW b \in Persons, EachOnce(bag), MsgPMarketBuy(b)
  PROVE  EachOnce(bag')
<1> DEFINE s == order[b].seller
           k == order[b].pos
           n == Wanted(sale[s][k], order[b].number)
<1>1. order[b] \in Order
  BY DEF MsgPMarketBuy, TypeOK
<1>2. s \in Persons /\ k \in SalePos /\ n \in Nat
  BY <1>1, NumberAssumption DEF Order, Wanted
<1>3. \/ sale[s][k] # NoEntry /\ MayBuy(b, s, sale[s][k], n) /\ Purchase(b, s, k, n)
      \/ bag' = bag
  BY DEF MsgPMarketBuy
<1> HIDE DEF s, k, n
<1>4. CASE sale[s][k] # NoEntry /\ MayBuy(b, s, sale[s][k], n) /\ Purchase(b, s, k, n)
  <2>1. sale[s][k] \in Entry
    BY <1>2, <1>4 DEF TypeOK
  <2>2. IF sale[s][k].what = Pile THEN HandOverPile(b, s, sale[s][k], n)
                                  ELSE HandOverItem(b, s, sale[s][k])
    BY <1>4 DEF Purchase
  <2> QED
    BY <1>2, <1>4, <2>1, <2>2, ItemOnce, PileOnce
<1> QED
  BY <1>3, <1>4

LEMMA NextOnce == ASSUME TypeOK, EachOnce(bag), [Next]_vars PROVE EachOnce(bag')
<1>1. CASE UNCHANGED vars
  BY <1>1 DEF vars
<1>2. ASSUME NEW p \in Persons, Keeps(p) PROVE bag' = bag
  BY <1>2 DEF Keeps, MsgPMarketTitle, MsgPMarketOpen, MsgPMarketClose,
              MsgPMarketDisItem, MsgPMarketReqItem
<1>3. ASSUME NEW b \in Persons, Buys(b) PROVE EachOnce(bag')
  BY <1>3, BuyOnce DEF Buys, ReqPMarketBuy
<1> QED
  BY <1>1, <1>2, <1>3, MovesOnce DEF Next

\* However purchases and the sellers' own moves interleave, and whatever is
\* offered, moved away, put back or sold meanwhile: no item is lost between
\* two bags and none lies in two.
THEOREM NoItemTwice == Spec => []ItemsOnce
<1>1. Init => ItemsOnce
  BY DEF Init, ItemsOnce
<1>2. TypeOK /\ ItemsOnce /\ [Next]_vars => ItemsOnce'
  BY OnceNow, OnceNext, NextOnce
<1> QED
  BY <1>1, <1>2, Types, PTL DEF Spec

----------------------------------------------------------------------------
(* How much of the pile there is.                                          *)

\* How much of the pile lies at a spot, at each spot of a bag, in a bag, in
\* each bag and in all.
Amount(u) == IF u \in Piles THEN u ELSE 0
Amounts(v) == [x \in Spots |-> Amount(v[x])]
InBag(v) == SumFunctionOnSet(Amounts(v), Spots)
Hoards(g) == [p \in Persons |-> InBag(g[p])]
AllPiles(g) == SumFunctionOnSet(Hoards(g), Persons)

LEMMA AmountType == ASSUME NEW u PROVE Amount(u) \in Nat
  BY Apart DEF Amount

LEMMA AmountsAre ==
  ASSUME NEW v, NEW x \in Spots
  PROVE  Amounts(v)[x] = Amount(v[x]) /\ Amounts(v)[x] \in Int
  BY AmountType DEF Amounts

LEMMA SpotsFinite == IsFiniteSet(Spots) /\ IsFiniteSet(Cells)
  BY FiniteAssumption, FS_AddElement DEF Spots

LEMMA InBagType == ASSUME NEW v PROVE InBag(v) \in Int
  BY SpotsFinite, AmountsAre, SumType DEF InBag

\* The spots that hold a pile are those that count.
LEMMA PilesCount ==
  ASSUME NEW v, NEW S \in SUBSET Spots, IsFiniteSet(S)
  PROVE  SumFunctionOnSet(v, {x \in S : v[x] \in Piles}) = SumFunctionOnSet(Amounts(v), S)
<1> DEFINE T == {x \in S : v[x] \in Piles}
<1>1. IsFiniteSet(T) /\ T \in SUBSET S
  BY FS_Subset
<1>2. \A x \in S : Amounts(v)[x] = Amount(v[x]) /\ Amounts(v)[x] \in Int
  BY AmountsAre
<1>3. \A x \in T : Amounts(v)[x] \in Int /\ v[x] = Amounts(v)[x]
  BY <1>2 DEF Amount
<1>4. \A x \in S \ T : Amounts(v)[x] = 0
  BY <1>2 DEF Amount
<1> HIDE DEF T
<1>5. SumFunctionOnSet(v, T) = SumFunctionOnSet(Amounts(v), T)
  BY <1>1, <1>3, SumSame
<1>6. SumFunctionOnSet(Amounts(v), S) = SumFunctionOnSet(Amounts(v), T)
  BY <1>1, <1>2, <1>4, SumWithin
<1> QED
  BY <1>5, <1>6 DEF T

LEMMA StockIs == ASSUME NEW p PROVE Stock(p) = InBag(bag[p])
<1>1. Stock(p) = SumFunctionOnSet(bag[p], {x \in Spots : bag[p][x] \in Piles})
  BY DEF Stock, MapThenSumSet, SumFunctionOnSet, FoldFunctionOnSet, MapThenFoldSet
<1> QED
  BY <1>1, SpotsFinite, PilesCount DEF InBag

LEMMA StockIsNext == ASSUME NEW p PROVE Stock(p)' = InBag(bag'[p])
<1>1. Stock(p)' = SumFunctionOnSet(bag'[p], {x \in Spots : bag'[p][x] \in Piles})
  BY DEF Stock, MapThenSumSet, SumFunctionOnSet, FoldFunctionOnSet, MapThenFoldSet
<1> QED
  BY <1>1, SpotsFinite, PilesCount DEF InBag

\* What DeletePileItem and InsertPileItem count leaves out the hand.
LEMMA CountIs ==
  ASSUME NEW v
  PROVE  Count(v) \in Int /\ InBag(v) = Amount(v[HOLD]) + Count(v)
<1>1. Count(v) = SumFunctionOnSet(v, {x \in Cells : v[x] \in Piles})
  BY DEF Count, PileCells, MapThenSumSet, SumFunctionOnSet, FoldFunctionOnSet, MapThenFoldSet
<1>2. Count(v) = SumFunctionOnSet(Amounts(v), Cells)
  BY <1>1, SpotsFinite, PilesCount, Apart
<1>3. HOLD \in Spots /\ Spots \ {HOLD} = Cells
  BY Apart DEF Spots
<1>4. InBag(v) = Amounts(v)[HOLD] + SumFunctionOnSet(Amounts(v), Spots \ {HOLD})
  BY <1>3, SpotsFinite, AmountsAre, SumElement DEF InBag
<1>5. SumFunctionOnSet(Amounts(v), Cells) \in Int
  BY SpotsFinite, AmountsAre, SumType, Apart
<1>6. SumFunctionOnSet(Amounts(v), Spots \ {HOLD}) = Count(v)
  BY <1>2, <1>3
<1> QED
  BY <1>2, <1>3, <1>4, <1>5, <1>6, AmountsAre

LEMMA RoomType == ASSUME NEW v PROVE Room(v) \in Int
<1> DEFINE S == PileCells(v)
           f == [c \in S |-> PileNum - v[c]]
           E(it) == it = [s \in SUBSET S |-> IF s = {} THEN 0
                                             ELSE (PileNum - v[Chosen(s)]) + it[s \ {Chosen(s)}]]
           it == CHOOSE it : E(it)
           r == [s \in SUBSET S |-> SumFunctionOnSet(f, s)]
<1>1. Room(v) = it[S] + PileNum * Cardinality(Vacant(v))
  BY DEF Room, MapThenSumSet, MapThenFoldSet, Chosen
<1>2. IsFiniteSet(S) /\ \A c \in S : f[c] = PileNum - v[c] /\ f[c] \in Int
  <2>1. IsFiniteSet(S)
    BY FiniteAssumption, FS_Subset DEF PileCells
  <2>2. ASSUME NEW c \in S PROVE PileNum - v[c] \in Int
    <3>1. v[c] \in Nat
      BY <2>2, Apart DEF PileCells
    <3> QED
      BY <3>1, NumberAssumption
  <2> QED
    BY <2>1, <2>2
<1> HIDE DEF S, f
<1>3. ASSUME NEW s \in SUBSET S, s # {}
      PROVE  /\ Chosen(s) \in s
             /\ SumFunctionOnSet(f, s) = (PileNum - v[Chosen(s)]) + SumFunctionOnSet(f, s \ {Chosen(s)})
  <2>1. Chosen(s) \in s
    BY <1>3 DEF Chosen
  <2>2. IsFiniteSet(s) /\ \A c \in s : f[c] \in Int
    BY <1>2, FS_Subset
  <2> QED
    BY <1>2, <1>3, <2>1, <2>2, SumElement
<1>4. E(r)
  <2>1. \A s \in SUBSET S : r[s] = IF s = {} THEN 0
                                   ELSE (PileNum - v[Chosen(s)]) + r[s \ {Chosen(s)}]
    BY <1>3, SumEmpty
  <2> QED
    BY <2>1
<1>5. E(it)
  BY <1>4
<1> HIDE DEF it
<1>6. it[{}] = 0 /\ \A s \in SUBSET S : s # {} => it[s] = f[Chosen(s)] + it[s \ {Chosen(s)}]
  BY <1>2, <1>3, <1>5
<1>7. it[S] = SumFunctionOnSet(f, S) /\ SumFunctionOnSet(f, S) \in Int
  <2>1. SumFunctionOnSet(f, S) \in Int
    BY <1>2, SumType
  <2>2. it[S] = SumFunctionOnSet(f, S)
    BY <1>2, <1>6, SumIs
  <2> QED
    BY <2>1, <2>2
<1>8. Cardinality(Vacant(v)) \in Nat
  BY FiniteAssumption, FS_Subset, FS_CardinalityType DEF Vacant
<1> QED
  BY <1>1, <1>7, <1>8, NumberAssumption

LEMMA TotalIs == PileKept <=> AllPiles(bag) = Units
<1> DEFINE f == Hoards(bag)
           E(it) == it = [s \in SUBSET Persons |->
                            IF s = {} THEN 0 ELSE Stock(Chosen(s)) + it[s \ {Chosen(s)}]]
           it == CHOOSE it : E(it)
           r == [s \in SUBSET Persons |-> SumFunctionOnSet(f, s)]
<1>1. PileKept <=> it[Persons] = Units
  BY DEF PileKept, MapThenSumSet, MapThenFoldSet, Chosen
<1>2. \A p \in Persons : f[p] = Stock(p) /\ f[p] \in Int
  BY StockIs, InBagType DEF Hoards
<1> HIDE DEF f
<1>3. ASSUME NEW s \in SUBSET Persons, s # {}
      PROVE  /\ Chosen(s) \in s
             /\ SumFunctionOnSet(f, s) = Stock(Chosen(s)) + SumFunctionOnSet(f, s \ {Chosen(s)})
  <2>1. Chosen(s) \in s
    BY <1>3 DEF Chosen
  <2>2. IsFiniteSet(s) /\ \A p \in s : f[p] \in Int
    BY <1>2, FiniteAssumption, FS_Subset
  <2> QED
    BY <1>2, <1>3, <2>1, <2>2, SumElement
<1>4. E(r)
  <2>1. \A s \in SUBSET Persons : r[s] = IF s = {} THEN 0
                                         ELSE Stock(Chosen(s)) + r[s \ {Chosen(s)}]
    BY <1>3, SumEmpty
  <2> QED
    BY <2>1
<1>5. E(it)
  BY <1>4
<1> HIDE DEF it
<1>6. it[{}] = 0 /\ \A s \in SUBSET Persons : s # {} => it[s] = f[Chosen(s)] + it[s \ {Chosen(s)}]
  BY <1>2, <1>3, <1>5
<1>7. it[Persons] = SumFunctionOnSet(f, Persons)
  BY <1>2, <1>6, FiniteAssumption, SumIs
<1> QED
  BY <1>1, <1>7 DEF f, AllPiles

\* Each bag holds what it held.

LEMMA SamePiles ==
  ASSUME NEW g, NEW h, \A p \in Persons : InBag(h[p]) = InBag(g[p])
  PROVE  Hoards(h) = Hoards(g) /\ AllPiles(h) = AllPiles(g)
  BY DEF Hoards, AllPiles

\* No amount changes.
LEMMA StillPiles ==
  ASSUME NEW g, NEW h,
         \A p \in Persons, x \in Spots : Amount(h[p][x]) = Amount(g[p][x])
  PROVE  \A p \in Persons : InBag(h[p]) = InBag(g[p])
<1> SUFFICES ASSUME NEW p \in Persons PROVE InBag(h[p]) = InBag(g[p])
  OBVIOUS
<1>1. Amounts(h[p]) = Amounts(g[p])
  BY DEF Amounts
<1> QED
  BY <1>1 DEF InBag

\* From v to w the amounts at two spots of a bag change, and their sum does not.
Shifted(v, w, x, y) ==
  /\ x # y /\ \A z \in Spots : z \notin {x, y} => w[z] = v[z]
  /\ Amount(w[x]) + Amount(w[y]) = Amount(v[x]) + Amount(v[y])

LEMMA TwoSpots ==
  ASSUME NEW v, NEW w, NEW x \in Spots, NEW y \in Spots, Shifted(v, w, x, y)
  PROVE  InBag(w) = InBag(v)
<1>1. PICK f : f = Amounts(v)
  OBVIOUS
<1>2. PICK g : g = Amounts(w)
  OBVIOUS
<1>3. \A z \in Spots : f[z] \in Int /\ g[z] \in Int /\ (z \notin {x, y} => g[z] = f[z])
  BY <1>1, <1>2, AmountsAre DEF Shifted
<1>4. g[x] = Amount(w[x]) /\ g[y] = Amount(w[y]) /\ f[x] = Amount(v[x]) /\ f[y] = Amount(v[y])
  BY <1>1, <1>2, AmountsAre
<1>5. InBag(v) = SumFunctionOnSet(f, Spots) /\ InBag(w) = SumFunctionOnSet(g, Spots)
  BY <1>1, <1>2 DEF InBag
<1>6. TwoDiffer(Spots, f, g, x, y)
  BY <1>3 DEF Shifted, TwoDiffer
<1>7. SumFunctionOnSet(g, Spots) = SumFunctionOnSet(f, Spots) + (g[x] - f[x]) + (g[y] - f[y])
  BY <1>6, SpotsFinite, SumTwo
<1>8. g[x] + g[y] = f[x] + f[y]
  BY <1>4 DEF Shifted
<1> QED
  BY <1>3, <1>5, <1>7, <1>8, InBagType

\* The owner's moves: exchange, merge and split.
LEMMA MovesPiles ==
  ASSUME TypeOK, NEW p \in Persons, Moves(p)
  PROVE  \A q \in Persons : InBag(bag'[q]) = InBag(bag[q])
<1>1. PICK c \in Cells : \/ MsgReqInvenToHold(p, c) \/ MsgReqHoldToInven(p, c)
                         \/ MsgReqInvenExHold(p, c)
                         \/ \E d \in Cells, n \in Piles : MsgReqInvenSplit(p, c, d, n)
  BY DEF Moves
<1>2. c \in Spots /\ HOLD \in Spots /\ c # HOLD
  BY Apart
<1>3. ASSUME NEW x \in Spots, NEW y \in Spots, x # y, NEW u, NEW v,
             bag' = [bag EXCEPT ![p][x] = u, ![p][y] = v],
             Amount(u) + Amount(v) = Amount(bag[p][x]) + Amount(bag[p][y])
      PROVE  \A q \in Persons : InBag(bag'[q]) = InBag(bag[q])
  <2>1. /\ \A q \in Persons \ {p} : bag'[q] = bag[q]
        /\ bag'[p][x] = u /\ bag'[p][y] = v
        /\ \A z \in Spots : z \notin {x, y} => bag'[p][z] = bag[p][z]
    BY <1>3 DEF TypeOK
  <2>2. Shifted(bag[p], bag'[p], x, y)
    BY <1>3, <2>1 DEF Shifted
  <2>3. InBag(bag'[p]) = InBag(bag[p])
    BY <1>3, <2>2, TwoSpots
  <2> QED
    BY <2>1, <2>3
<1>4. CASE bag' = Exchange(p, c, p, HOLD)
  <2>1. bag' = [bag EXCEPT ![p][c] = bag[p][HOLD], ![p][HOLD] = bag[p][c]]
    BY <1>4 DEF Exchange
  <2>2. Amount(bag[p][HOLD]) \in Nat /\ Amount(bag[p][c]) \in Nat
    BY AmountType
  <2>3. Amount(bag[p][HOLD]) + Amount(bag[p][c]) = Amount(bag[p][c]) + Amount(bag[p][HOLD])
    BY <2>2
  <2> QED
    BY <1>2, <1>3, <2>1, <2>3
<1>5. CASE /\ bag[p][c] \in Piles /\ bag[p][HOLD] \in Piles
           /\ bag[p][c] # PileNum /\ bag[p][HOLD] # PileNum
           /\ bag' = Merge(p, c)
  <2> DEFINE sum == bag[p][c] + bag[p][HOLD]
  <2>1. /\ sum \in Nat /\ PileNum \in Piles
        /\ sum <= PileNum => sum \in Piles
        /\ ~(sum <= PileNum) => sum - PileNum \in Piles
    BY <1>5, NumberAssumption DEF Piles
  <2>2. Amount(bag[p][c]) + Amount(bag[p][HOLD]) = sum
    BY <1>5 DEF Amount
  <2>3. Amount(Empty) = 0
    BY Apart DEF Amount
  <2>4. CASE sum <= PileNum
    <3>1. bag' = [bag EXCEPT ![p][c] = sum, ![p][HOLD] = Empty]
      BY <1>5, <2>4 DEF Merge
    <3> HIDE DEF sum
    <3>2. Amount(sum) + Amount(Empty) = sum
      BY <2>1, <2>3, <2>4 DEF Amount
    <3> QED
      BY <1>2, <1>3, <2>2, <3>1, <3>2
  <2>5. CASE ~(sum <= PileNum)
    <3>1. bag' = [bag EXCEPT ![p][c] = PileNum, ![p][HOLD] = sum - PileNum]
      BY <1>5, <2>5 DEF Merge
    <3> HIDE DEF sum
    <3>2. Amount(PileNum) = PileNum /\ Amount(sum - PileNum) = sum - PileNum
      BY <2>1, <2>5 DEF Amount
    <3>3. Amount(PileNum) + Amount(sum - PileNum) = sum
      BY <2>1, <3>2, NumberAssumption
    <3> QED
      BY <1>2, <1>3, <2>2, <3>1, <3>3
  <2> QED
    BY <2>4, <2>5
<1>6. ASSUME NEW d \in Cells, NEW n \in Piles, MsgReqInvenSplit(p, c, d, n)
      PROVE  \A q \in Persons : InBag(bag'[q]) = InBag(bag[q])
  <2> DEFINE rest == bag[p][c] - n
  <2>1. bag[p][c] \in Piles /\ n < bag[p][c] /\ bag[p][d] = Empty
    BY <1>6 DEF MsgReqInvenSplit
  <2>2. d \in Spots /\ c # d
    BY <2>1, Apart
  <2>3. bag[p][c] \in Nat /\ n \in Nat /\ rest \in Piles
    BY <1>6, <2>1, NumberAssumption DEF Piles
  <2>4. bag' = [bag EXCEPT ![p][c] = rest, ![p][d] = n]
    BY <1>6 DEF MsgReqInvenSplit, TypeOK
  <2>5. /\ Amount(rest) = rest /\ Amount(n) = n
        /\ Amount(bag[p][c]) = bag[p][c] /\ Amount(bag[p][d]) = 0
    BY <1>6, <2>1, <2>3, Apart DEF Amount
  <2>6. Amount(rest) + Amount(n) = Amount(bag[p][c]) + Amount(bag[p][d])
    BY <2>3, <2>5
  <2> HIDE DEF rest
  <2> QED
    BY <1>2, <1>3, <2>2, <2>4, <2>6
<1> QED
  BY <1>1, <1>4, <1>5, <1>6 DEF MsgReqInvenToHold, MsgReqHoldToInven, MsgReqInvenExHold

\* An item that is sold is no pile, nor is the free cell.
LEMMA ItemPiles ==
  ASSUME TypeOK, NEW b \in Persons, NEW s \in Persons, NEW n \in Nat,
         NEW e \in Entry, e.what # Pile, MayBuy(b, s, e, n), HandOverItem(b, s, e)
  PROVE  \A q \in Persons : InBag(bag'[q]) = InBag(bag[q])
<1>1. /\ bag[s][e.from] = e.what /\ e.from \in Spots
      /\ e.what \in Items /\ e.what \notin Piles /\ Empty \notin Piles
  BY Apart DEF MayBuy, InStock, Entry, Kinds
<1> DEFINE taken == [bag EXCEPT ![s][e.from] = Empty]
<1>2. taken \in Bags
  BY <1>1, PutType DEF TypeOK, Bags, Contents
<1>3. \A r \in Persons, z \in Spots :
        taken[r][z] = IF r = s /\ z = e.from THEN Empty ELSE bag[r][z]
  BY <1>1 DEF TypeOK
<1>4. \A r \in Persons, z \in Spots : Amount(taken[r][z]) = Amount(bag[r][z])
  BY <1>1, <1>3 DEF Amount
<1>5. bag' = taken \/ \E c \in Vacant(taken[b]) : bag' = [taken EXCEPT ![b][c] = e.what]
  BY DEF HandOverItem
<1> HIDE DEF taken
<1>6. ASSUME NEW c \in Vacant(taken[b]), bag' = [taken EXCEPT ![b][c] = e.what]
      PROVE  \A r \in Persons, z \in Spots : Amount(bag'[r][z]) = Amount(taken[r][z])
  <2>1. c \in Spots /\ taken[b][c] = Empty
    BY <1>6, Apart DEF Vacant
  <2>2. \A r \in Persons, z \in Spots :
          bag'[r][z] = IF r = b /\ z = c THEN e.what ELSE taken[r][z]
    BY <1>2, <1>6, <2>1 DEF Bags
  <2> QED
    BY <1>1, <2>1, <2>2 DEF Amount
<1>7. \A r \in Persons, z \in Spots : Amount(bag'[r][z]) = Amount(bag[r][z])
  BY <1>4, <1>5, <1>6
<1> QED
  BY <1>7, StillPiles

\* What is taken from the seller's cells is laid into the buyer's: the checks
\* before the sale make sure that there is enough and that there is room.
LEMMA PilePiles ==
  ASSUME TypeOK, NEW b \in Persons, NEW s \in Persons, b # s, NEW n \in Nat,
         NEW e \in Entry, e.what = Pile, MayBuy(b, s, e, n), HandOverPile(b, s, e, n)
  PROVE  /\ \A q \in Persons : q \notin {b, s} => InBag(bag'[q]) = InBag(bag[q])
         /\ InBag(bag'[s]) = InBag(bag[s]) - Word(n)
         /\ InBag(bag'[b]) = InBag(bag[b]) + Word(n)
         /\ n <= InBag(bag[s])
<1> DEFINE m == Word(n)
<1>1. /\ n <= Count(bag[s]) /\ Count(bag[s]) \in Int
      /\ m <= Room(bag[b]) /\ Room(bag[b]) \in Int
      /\ Count(bag[b]) \in Int /\ m \in Nat /\ m <= n
  BY CountIs, RoomType, WordBound DEF MayBuy, InStock, Space
<1> HIDE DEF m
<1>2. PICK v \in Lessened(bag[s], m) :
        \E w \in Grown([bag EXCEPT ![s] = v][b], m) :
          bag' = [[bag EXCEPT ![s] = v] EXCEPT ![b] = w]
  BY DEF HandOverPile, m
<1>3. [bag EXCEPT ![s] = v][b] = bag[b]
  BY DEF TypeOK
<1>4. PICK w \in Grown(bag[b], m) : bag' = [[bag EXCEPT ![s] = v] EXCEPT ![b] = w]
  BY <1>2, <1>3
<1>5. Count(v) + m = Count(bag[s]) /\ Count(v) \in Int
  <2>1. Count(v) + m = Count(bag[s]) \/ Count(bag[s]) < m
    BY <1>2 DEF Lessened
  <2> QED
    BY <1>1, <2>1, CountIs
<1>6. Count(w) = Count(bag[b]) + m
  <2>1. Count(w) = Count(bag[b]) + m \/ Room(bag[b]) < m
    BY <1>4 DEF Grown
  <2> QED
    BY <1>1, <2>1
<1>7. v[HOLD] = bag[s][HOLD] /\ w[HOLD] = bag[b][HOLD]
  BY <1>2, <1>4, Apart DEF Lessened, Grown, PileCells, Vacant
<1>8. /\ bag'[s] = v /\ bag'[b] = w
      /\ \A q \in Persons : q \notin {b, s} => bag'[q] = bag[q]
  BY <1>4 DEF TypeOK
<1>9. /\ InBag(v) = Amount(bag[s][HOLD]) + Count(v)
      /\ InBag(bag[s]) = Amount(bag[s][HOLD]) + Count(bag[s])
      /\ InBag(w) = Amount(bag[b][HOLD]) + Count(w)
      /\ InBag(bag[b]) = Amount(bag[b][HOLD]) + Count(bag[b])
  BY <1>7, CountIs
<1>10. Amount(bag[s][HOLD]) \in Nat /\ Amount(bag[b][HOLD]) \in Nat
  BY AmountType
<1>11. InBag(v) = InBag(bag[s]) - m /\ n <= InBag(bag[s])
  BY <1>1, <1>5, <1>9, <1>10
<1>12. InBag(w) = InBag(bag[b]) + m
  BY <1>1, <1>6, <1>9, <1>10
<1> QED
  BY <1>8, <1>11, <1>12 DEF m

\* Nobody has ordered from himself.
FromOthers == \A b \in Persons : order[b] # NoOrder => order[b].seller # b

LEMMA FromOthersNext ==
  ASSUME TypeOK, FromOthers, [Next]_vars
  PROVE  FromOthers'
<1>1. CASE UNCHANGED vars
  BY <1>1 DEF vars, FromOthers
<1>2. ASSUME NEW p \in Persons, Moves(p) PROVE order' = order
  BY <1>2 DEF Moves, MsgReqInvenToHold, MsgReqHoldToInven, MsgReqInvenExHold,
              MsgReqInvenSplit
<1>3. ASSUME NEW p \in Persons, Keeps(p) PROVE FromOthers'
  <2>1. CASE MsgPMarketClose(p)
    BY <2>1 DEF MsgPMarketClose, Outdated, FromOthers, TypeOK, Order
  <2>2. CASE order' = order
    BY <2>2 DEF FromOthers
  <2> QED
    BY <1>3, <2>1, <2>2
       DEF Keeps, MsgPMarketTitle, MsgPMarketOpen, MsgPMarketDisItem, MsgPMarketReqItem
<1>4. ASSUME NEW b \in Persons, Buys(b) PROVE FromOthers'
  <2>1. ASSUME NEW s \in Persons, NEW k \in SalePos, NEW n \in 0..Units,
               ReqPMarketBuy(b, s, k, n)
        PROVE  FromOthers'
    BY <2>1 DEF ReqPMarketBuy, FromOthers, TypeOK
  <2>2. CASE MsgPMarketBuy(b)
    BY <2>2 DEF MsgPMarketBuy, FromOthers, TypeOK
  <2> QED
    BY <1>4, <2>1, <2>2 DEF Buys
<1> QED
  BY <1>1, <1>2, <1>3, <1>4 DEF Next, FromOthers

\* What an order that is carried out, and one that is refused, comes to.
LEMMA BuyCases ==
  ASSUME TypeOK, FromOthers, NEW b \in Persons, MsgPMarketBuy(b)
  PROVE  \/ UNCHANGED <<bag, sale, purses, open>>
         \/ \E s \in Persons, k \in SalePos, n \in Nat :
              /\ b # s /\ open[s] /\ UNCHANGED open
              /\ sale[s][k] # NoEntry /\ sale[s][k] \in Entry
              /\ n > 0 /\ (sale[s][k].what # Pile => n = 1)
              /\ MayBuy(b, s, sale[s][k], n) /\ Purchase(b, s, k, n)
<1> DEFINE s == order[b].seller
           k == order[b].pos
           n == Wanted(sale[s][k], order[b].number)
<1>1. order[b] \in Order
  BY DEF MsgPMarketBuy, TypeOK
<1>2. s \in Persons /\ k \in SalePos /\ n \in Nat /\ b # s
      /\ n > 0 /\ (sale[s][k].what # Pile => n = 1)
  BY <1>1, NumberAssumption DEF Order, Wanted, FromOthers, MsgPMarketBuy
<1>3. \/ /\ open[s] /\ sale[s][k] # NoEntry
         /\ MayBuy(b, s, sale[s][k], n) /\ Purchase(b, s, k, n)
      \/ UNCHANGED <<bag, sale, purses>>
  BY DEF MsgPMarketBuy
<1>4. UNCHANGED open
  BY DEF MsgPMarketBuy
<1> HIDE DEF s, k, n
<1>5. sale[s][k] # NoEntry => sale[s][k] \in Entry
  BY <1>2 DEF TypeOK
<1> QED
  BY <1>2, <1>3, <1>4, <1>5

\* No step makes or loses a unit.
LEMMA NextPiles ==
  ASSUME TypeOK, FromOthers, [Next]_vars
  PROVE  AllPiles(bag') = AllPiles(bag)
<1>1. CASE UNCHANGED vars
  BY <1>1 DEF vars
<1>2. ASSUME NEW p \in Persons, Keeps(p) PROVE bag' = bag
  BY <1>2 DEF Keeps, MsgPMarketTitle, MsgPMarketOpen, MsgPMarketClose,
              MsgPMarketDisItem, MsgPMarketReqItem
<1>3. ASSUME NEW p \in Persons, Moves(p) PROVE AllPiles(bag') = AllPiles(bag)
  <2>1. \A q \in Persons : InBag(bag'[q]) = InBag(bag[q])
    BY <1>3, MovesPiles
  <2> QED
    BY <2>1, SamePiles
<1>4. ASSUME NEW b \in Persons, MsgPMarketBuy(b) PROVE AllPiles(bag') = AllPiles(bag)
  <2>1. CASE bag' = bag
    BY <2>1
  <2>2. ASSUME NEW s \in Persons, NEW k \in SalePos, NEW n \in Nat, b # s,
               sale[s][k] \in Entry, MayBuy(b, s, sale[s][k], n), Purchase(b, s, k, n)
        PROVE  AllPiles(bag') = AllPiles(bag)
    <3>1. PICK e \in Entry : e = sale[s][k]
      BY <2>2
    <3>2. MayBuy(b, s, e, n)
          /\ IF e.what = Pile THEN HandOverPile(b, s, e, n) ELSE HandOverItem(b, s, e)
      BY <2>2, <3>1 DEF Purchase
    <3>3. CASE e.what # Pile
      <4>1. \A q \in Persons : InBag(bag'[q]) = InBag(bag[q])
        BY <3>2, <3>3, ItemPiles
      <4> QED
        BY <4>1, SamePiles
    <3>4. CASE e.what = Pile
      <4>1. /\ \A q \in Persons : q \notin {b, s} => InBag(bag'[q]) = InBag(bag[q])
            /\ InBag(bag'[s]) = InBag(bag[s]) - Word(n)
            /\ InBag(bag'[b]) = InBag(bag[b]) + Word(n)
        BY <2>2, <3>2, <3>4, PilePiles
      <4>2. PICK f : f = Hoards(bag)
        OBVIOUS
      <4>3. PICK g : g = Hoards(bag')
        OBVIOUS
      <4>4. /\ f[s] = InBag(bag[s]) /\ g[s] = InBag(bag'[s])
            /\ f[b] = InBag(bag[b]) /\ g[b] = InBag(bag'[b])
        BY <4>2, <4>3 DEF Hoards
      <4>5. TwoDiffer(Persons, f, g, b, s)
        BY <2>2, <4>1, <4>2, <4>3, InBagType DEF TwoDiffer, Hoards
      <4>6. SumFunctionOnSet(g, Persons)
              = SumFunctionOnSet(f, Persons) + (g[b] - f[b]) + (g[s] - f[s])
        BY <4>5, FiniteAssumption, SumTwo
      <4>7. SumFunctionOnSet(f, Persons) \in Int
        BY <4>5, FiniteAssumption, SumType DEF TwoDiffer
      <4>8. Word(n) \in Nat
        BY WordBound
      <4>9. SumFunctionOnSet(g, Persons) = SumFunctionOnSet(f, Persons)
        BY <4>1, <4>4, <4>6, <4>7, <4>8, InBagType
      <4> QED
        BY <4>2, <4>3, <4>9 DEF AllPiles
    <3> QED
      BY <3>2, <3>3, <3>4
  <2> QED
    BY <1>4, <2>1, <2>2, BuyCases
<1>5. ASSUME NEW b \in Persons, Buys(b) PROVE bag' = bag \/ MsgPMarketBuy(b)
  BY <1>5 DEF Buys, ReqPMarketBuy
<1> QED
  BY <1>1, <1>2, <1>3, <1>4, <1>5 DEF Next

LEMMA OthersHold == Spec => []FromOthers
<1>1. Init => FromOthers
  BY DEF Init, FromOthers
<1>2. TypeOK /\ FromOthers /\ [Next]_vars => FromOthers'
  BY FromOthersNext
<1> QED
  BY <1>1, <1>2, Types, PTL DEF Spec

\* There is as much of the pile kind as ever, however piles are moved, split,
\* merged and sold: MsgPMarketBuy sells no more than the seller's cells hold and
\* the buyer's take, so what DeletePileItem takes InsertPileItem lays down.
THEOREM NoUnitLost == Spec => []PileKept
<1>1. Init => AllPiles(bag) = Units
  <2>1. Init => PileKept
    BY DEF Init, PileKept
  <2> QED
    BY <2>1, TotalIs
<1>2. TypeOK /\ FromOthers /\ AllPiles(bag) = Units /\ [Next]_vars
        => (AllPiles(bag) = Units)'
  BY NextPiles
<1>3. AllPiles(bag) = Units => PileKept
  BY TotalIs
<1> QED
  BY <1>1, <1>2, <1>3, Types, OthersHold, PTL DEF Spec

----------------------------------------------------------------------------
(* The refinement: every step is one of Bazaar's, or changes nothing there. *)

\* Who has an item, where each lies once.
LEMMA HolderIs ==
  ASSUME EachOnce(bag), NEW p \in Persons, NEW x \in Spots, NEW i \in Items, bag[p][x] = i
  PROVE  Holders[i] = p
<1>1. \A q \in Persons : (\E y \in Spots : bag[q][y] = i) <=> q = p
  BY DEF EachOnce, OnceIn
<1> QED
  BY <1>1 DEF Holders

LEMMA HolderIsNext ==
  ASSUME EachOnce(bag'), NEW p \in Persons, NEW x \in Spots, NEW i \in Items, bag'[p][x] = i
  PROVE  Holders'[i] = p
<1>1. \A q \in Persons : (\E y \in Spots : bag'[q][y] = i) <=> q = p
  BY DEF EachOnce, OnceIn
<1> QED
  BY <1>1 DEF Holders

LEMMA HoldersType ==
  ASSUME EachOnce(bag), EachOnce(bag')
  PROVE  Holders \in [Items -> Persons] /\ Holders' \in [Items -> Persons]
<1>1. ASSUME NEW i \in Items
      PROVE  (CHOOSE p \in Persons : \E x \in Spots : bag[p][x] = i) \in Persons
  BY DEF EachOnce, OnceIn
<1>2. ASSUME NEW i \in Items
      PROVE  (CHOOSE p \in Persons : \E x \in Spots : bag'[p][x] = i) \in Persons
  BY DEF EachOnce, OnceIn
<1>3. Holders \in [Items -> Persons]
  BY <1>1 DEF Holders
<1>4. Holders' \in [Items -> Persons]
  BY <1>2 DEF Holders
<1> QED
  BY <1>3, <1>4

\* Items that change places in one bag have the holder they had.
LEMMA HoldersKept ==
  ASSUME EachOnce(bag), EachOnce(bag'), NEW p \in Persons,
         NEW x \in Spots, NEW y \in Spots, Swapped(bag, bag', p, x, p, y)
  PROVE  Holders' = Holders
<1>1. ASSUME NEW i \in Items
      PROVE  Holders'[i] = Holders[i]
  <2>1. PICK q \in Persons, z \in Spots : bag[q][z] = i
    BY DEF EachOnce, OnceIn
  <2>2. \E u \in Spots : bag'[q][u] = i
    BY <2>1 DEF Swapped, Same
  <2> QED
    BY <2>1, <2>2, HolderIs, HolderIsNext
<1> QED
  BY <1>1 DEF Holders

LEMMA StocksAre == Stocks = Hoards(bag) /\ Stocks' = Hoards(bag')
<1>1. Stocks = Hoards(bag)
  BY StockIs DEF Stocks, Hoards
<1>2. Stocks' = Hoards(bag')
  BY StockIsNext DEF Stocks, Hoards
<1> QED
  BY <1>1, <1>2

\* What stands in a stall, without its cell and its mark.
LEMMA PromisesAre ==
  ASSUME TypeOK, NEW p \in Persons, NEW k \in SalePos
  PROVE  /\ sale[p][k] = NoEntry <=> Promises[p][k] = NoEntry
         /\ sale[p][k] # NoEntry =>
              /\ Promises[p][k] \in Promise
              /\ Promises[p][k] = [what |-> sale[p][k].what, price |-> sale[p][k].price,
                                   number |-> sale[p][k].number]
<1>1. Promises[p][k] = Promised(sale[p][k])
  BY DEF Promises
<1>2. CASE sale[p][k] = NoEntry
  BY <1>1, <1>2 DEF Promised
<1>3. CASE sale[p][k] # NoEntry
  <2>1. sale[p][k] \in Entry
    BY <1>3 DEF TypeOK
  <2>2. Promised(sale[p][k]) = [what |-> sale[p][k].what, price |-> sale[p][k].price,
                                number |-> sale[p][k].number]
    BY <1>3 DEF Promised
  <2>3. Promised(sale[p][k]) \in Promise
    BY <2>1, <2>2 DEF Entry, Promise
  <2> QED
    BY <1>1, <1>3, <2>2, <2>3, PromiseAssumption
<1> QED
  BY <1>2, <1>3

\* Nothing of the bags is seen but who has what.
LEMMA MovesStutter ==
  ASSUME TypeOK, EachOnce(bag), EachOnce(bag'), NEW p \in Persons, Moves(p)
  PROVE  UNCHANGED B!vars
<1>1. PICK x \in Spots, y \in Spots : Swapped(bag, bag', p, x, p, y)
  BY MovesSwap
<1>2. Holders' = Holders
  BY <1>1, HoldersKept
<1>3. Stocks' = Stocks
  BY MovesPiles, SamePiles, StocksAre
<1>4. UNCHANGED <<open, sale, money, income>>
  BY DEF Moves, MsgReqInvenToHold, MsgReqHoldToInven, MsgReqInvenExHold,
         MsgReqInvenSplit, stalls, purses
<1>5. Promises' = Promises
  BY <1>4 DEF Promises
<1> QED
  BY <1>2, <1>3, <1>4, <1>5 DEF B!vars

\* Keeping a stall.
LEMMA KeepsBazaar ==
  ASSUME TypeOK, NEW p \in Persons, Keeps(p)
  PROVE  B!SetUp(p) \/ B!OpenUp(p) \/ B!CloseDown(p)
<1>1. bag' = bag /\ UNCHANGED <<money, income>>
  BY DEF Keeps, MsgPMarketTitle, MsgPMarketOpen, MsgPMarketClose,
         MsgPMarketDisItem, MsgPMarketReqItem, purses
<1>2. Holders' = Holders
  BY <1>1 DEF Holders
<1>3. Stocks' = Stocks
  BY <1>1, StocksAre
<1>4. ASSUME ~open[p], UNCHANGED open, \A q \in Persons \ {p} : sale'[q] = sale[q]
      PROVE  B!SetUp(p)
  <2>1. Promises' = [Promises EXCEPT ![p] = Promises'[p]]
    BY <1>4 DEF Promises
  <2> QED
    BY <1>1, <1>2, <1>3, <1>4, <2>1 DEF B!SetUp
<1>5. CASE MsgPMarketTitle(p)
  BY <1>4, <1>5 DEF MsgPMarketTitle, TypeOK
<1>6. ASSUME NEW k \in SalePos, MsgPMarketDisItem(p, k)
      PROVE  B!SetUp(p)
  BY <1>4, <1>6 DEF MsgPMarketDisItem, TypeOK
<1>7. ASSUME NEW k \in SalePos, NEW c \in Cells, NEW price \in Prices, NEW n \in 0..Units,
             MsgPMarketReqItem(p, c, k, price, n)
      PROVE  B!SetUp(p)
  <2>1. PICK e : sale' = [sale EXCEPT ![p][k] = e]
    BY <1>7 DEF MsgPMarketReqItem
  <2>2. \A q \in Persons \ {p} : sale'[q] = sale[q]
    BY <2>1 DEF TypeOK
  <2> QED
    BY <1>4, <1>7, <2>2 DEF MsgPMarketReqItem
<1>8. CASE MsgPMarketOpen(p)
  <2>1. PICK k \in SalePos : sale[p][k] # NoEntry
    BY <1>8 DEF MsgPMarketOpen, Offered
  <2>2. Promises[p][k] # NoEntry
    BY <2>1, PromisesAre
  <2>3. Promises' = Promises
    BY <1>8 DEF MsgPMarketOpen, Promises
  <2> QED
    BY <1>1, <1>2, <1>3, <1>8, <2>2, <2>3 DEF MsgPMarketOpen, B!OpenUp
<1>9. CASE MsgPMarketClose(p)
  <2>1. sale' = [sale EXCEPT ![p] = NoStall]
    BY <1>9 DEF MsgPMarketClose
  <2>2. \A k \in SalePos : Promised(NoStall[k]) = NoEntry
    BY DEF Promised, NoStall
  <2>3. Promises' = [Promises EXCEPT ![p] = [k \in SalePos |-> NoEntry]]
    BY <2>1, <2>2 DEF Promises, TypeOK
  <2> QED
    BY <1>1, <1>2, <1>3, <1>9, <2>3 DEF MsgPMarketClose, B!CloseDown
<1> QED
  BY <1>5, <1>6, <1>7, <1>8, <1>9 DEF Keeps

\* An offer that shrinks is a promise that shrinks.

LEMMA SaleDelivers ==
  ASSUME TypeOK, NEW s \in Persons, NEW k \in SalePos,
         sale[s][k] \in Entry, sale[s][k] # NoEntry,
         NEW m \in 0..sale[s][k].number, DoSale(s, k, m)
  PROVE  B!Deliver(s, k, m)
<1>1. PICK e \in Entry : /\ sale' = [sale EXCEPT ![s][k] = e]
                         /\ e.price = sale[s][k].price /\ e.what = sale[s][k].what
                         /\ e.number = sale[s][k].number - m
  BY SaleEntry
<1>2. e # NoEntry
  BY EntryAssumption
<1>3. \A p \in Persons, j \in SalePos :
        sale'[p][j] = IF p = s /\ j = k THEN e ELSE sale[p][j]
  BY <1>1 DEF TypeOK
<1>4. \A p \in Persons, j \in SalePos : Promises'[p][j] = Promised(sale'[p][j])
  BY DEF Promises, Promised
<1>5. \A p \in Persons, j \in SalePos : Promises[p][j] = Promised(sale[p][j])
  BY DEF Promises
<1>6. Promises[s][k] = [what |-> sale[s][k].what, price |-> sale[s][k].price,
                        number |-> sale[s][k].number]
  BY PromisesAre
<1>7. Promises'[s][k] = [what |-> e.what, price |-> e.price, number |-> e.number]
  BY <1>2, <1>3, <1>4 DEF Promised
<1>8. Promises'[s][k] = [Promises[s][k] EXCEPT !.number = @ - m]
  BY <1>1, <1>6, <1>7
<1>9. \A p \in Persons, j \in SalePos :
        ~(p = s /\ j = k) => Promises'[p][j] = Promises[p][j]
  BY <1>3, <1>4, <1>5
<1>10. Promises' = [Promises EXCEPT ![s][k].number = @ - m]
  <2>1. PICK u : u = [Promises[s][k] EXCEPT !.number = @ - m]
    OBVIOUS
  <2>2. [Promises EXCEPT ![s][k].number = @ - m] = [Promises EXCEPT ![s][k] = u]
    BY <2>1
  <2>3. Promises'[s][k] = u
    BY <1>8, <2>1
  <2>4. PICK f, g : f = Promises /\ g = Promises'
    OBVIOUS
  <2>5. /\ f = [p \in Persons |-> [j \in SalePos |-> f[p][j]]]
        /\ g = [p \in Persons |-> [j \in SalePos |-> g[p][j]]]
    BY <2>4 DEF Promises
  <2>6. \A p \in Persons, j \in SalePos :
          g[p][j] = IF p = s /\ j = k THEN u ELSE f[p][j]
    BY <1>9, <2>3, <2>4
  <2>7. PICK v : v = [f[s] EXCEPT ![k] = u]
    OBVIOUS
  <2>8. g[s] = v /\ \A p \in Persons : p # s => g[p] = f[p]
    BY <2>5, <2>6, <2>7
  <2>9. g = [f EXCEPT ![s] = v]
    BY <2>5, <2>8
  <2> QED
    BY <2>2, <2>4, <2>7, <2>9
<1>11. m <= Promises[s][k].number
  BY <1>6
<1> QED
  BY <1>10, <1>11 DEF B!Deliver

LEMMA PayIs ==
  ASSUME TypeOK, NEW b \in Persons, NEW s \in Persons, b # s, NEW t \in Nat,
         t <= money[b], Pay(b, s, t)
  PROVE  B!Pay(b, s, t)
<1>1. PICK u : u = Give(t) /\ u = B!Give(t)
  BY DEF B!Give, Give
<1>2. /\ money' = [[money EXCEPT ![b] = @ - t] EXCEPT ![s] = @ + u]
      /\ income' = income + (t - u)
  BY <1>1 DEF Pay
<1>3. money' = [money EXCEPT ![b] = @ - t, ![s] = @ + u]
  BY <1>2 DEF TypeOK
<1> QED
  BY <1>1, <1>2, <1>3 DEF B!Pay

\* An item is sold.
LEMMA ItemBazaar ==
  ASSUME TypeOK, EachOnce(bag), EachOnce(bag'), NEW b \in Persons, NEW s \in Persons, b # s,
         NEW k \in SalePos, NEW e \in Entry, e = sale[s][k], e # NoEntry, e.what # Pile,
         open[s], UNCHANGED open, MayBuy(b, s, e, 1), Purchase(b, s, k, 1)
  PROVE  B!Sell(b, s, k)
<1>1. HandOverItem(b, s, e) /\ DoSale(s, k, Word(1))
  BY DEF Purchase
<1>2. Word(1) = 1
  BY NumberAssumption DEF Word
<1>3. /\ Word(1) \in 0..e.number /\ e.price \in Nat /\ 1 * e.price <= money[b]
  BY Accepted
<1>4. e.price <= money[b]
  BY <1>3
<1>5. /\ e.what \in Items /\ e.from \in Spots /\ bag[s][e.from] = e.what
      /\ Pay(b, s, e.price)
  BY <1>1, ItemSwap
<1>6. PICK c \in Spots : /\ bag[b][c] \notin Items /\ bag'[b][c] = e.what
                         /\ Swapped(bag, bag', s, e.from, b, c)
  BY <1>1, ItemSwap
<1>7. Holders[e.what] = s /\ Holders'[e.what] = b
  BY <1>5, <1>6, HolderIs, HolderIsNext
<1>8. ASSUME NEW i \in Items, i # e.what
      PROVE  Holders'[i] = Holders[i]
  <2>1. PICK q \in Persons, z \in Spots : bag[q][z] = i
    BY DEF EachOnce, OnceIn
  <2>2. ~(q = s /\ z = e.from) /\ ~(q = b /\ z = c)
    BY <1>5, <1>6, <1>8, <2>1
  <2>3. bag'[q][z] = i
    BY <1>6, <2>1, <2>2 DEF Swapped, Same
  <2> QED
    BY <2>1, <2>3, HolderIs, HolderIsNext
<1>9. Holders' = [Holders EXCEPT ![e.what] = b]
  <2>1. Holders \in [Items -> Persons] /\ Holders' \in [Items -> Persons]
    BY HoldersType
  <2> QED
    BY <1>5, <1>7, <1>8, <2>1
<1>10. Stocks' = Stocks
  <2>1. \A q \in Persons : InBag(bag'[q]) = InBag(bag[q])
    BY <1>1, ItemPiles
  <2> QED
    BY <2>1, SamePiles, StocksAre
<1>11. B!Deliver(s, k, 1)
  BY <1>1, <1>2, <1>3, SaleDelivers
<1>12. B!Pay(b, s, e.price)
  BY <1>3, <1>4, <1>5, PayIs
<1>13. Promises[s][k].what = e.what /\ Promises[s][k].price = e.price /\ Promises[s][k] # NoEntry
  <2>1. /\ Promises[s][k] # NoEntry
        /\ Promises[s][k] = [what |-> e.what, price |-> e.price, number |-> e.number]
    BY PromisesAre
  <2> QED
    BY <2>1
<1>14. B!SellItem(b, s, k)
  BY <1>5, <1>7, <1>9, <1>10, <1>11, <1>12, <1>13 DEF B!SellItem
<1> QED
  BY <1>13, <1>14 DEF B!Sell

\* Some of a pile is sold.
LEMMA PileBazaar ==
  ASSUME TypeOK, EachOnce(bag), EachOnce(bag'), NEW b \in Persons, NEW s \in Persons, b # s,
         NEW k \in SalePos, NEW e \in Entry, e = sale[s][k], e # NoEntry, e.what = Pile,
         NEW n \in Nat, n > 0,
         open[s], UNCHANGED open, MayBuy(b, s, e, n), Purchase(b, s, k, n)
  PROVE  B!Sell(b, s, k)
<1>1. HandOverPile(b, s, e, n) /\ DoSale(s, k, Word(n)) /\ Pay(b, s, n * e.price)
  BY DEF Purchase, HandOverPile
<1>2. /\ Word(n) \in 0..e.number /\ e.number \in Nat
      /\ n * e.price \in Nat /\ n * e.price <= money[b]
  BY Accepted
<1>3. n <= e.number
  BY DEF MayBuy
<1>4. \A r \in Persons, z \in Spots : Same(bag'[r][z], bag[r][z])
  BY <1>1, PileSame
<1>5. Holders' = Holders
  <2>1. HOLD \in Spots /\ Swapped(bag, bag', b, HOLD, b, HOLD)
    BY <1>4, StillSwap
  <2> QED
    BY <2>1, HoldersKept
<1>6. /\ \A q \in Persons : q \notin {b, s} => InBag(bag'[q]) = InBag(bag[q])
      /\ InBag(bag'[s]) = InBag(bag[s]) - Word(n)
      /\ InBag(bag'[b]) = InBag(bag[b]) + Word(n)
      /\ n <= InBag(bag[s])
  BY <1>1, PilePiles
<1>7. \A q \in Persons : Stocks[q] = InBag(bag[q]) /\ Stocks'[q] = InBag(bag'[q])
  BY StocksAre DEF Hoards
<1>8. Stocks' = [Stocks EXCEPT ![s] = @ - (n % WordSize), ![b] = @ + (n % WordSize)]
  <2>1. /\ Stocks'[s] = Stocks[s] - (n % WordSize) /\ Stocks'[b] = Stocks[b] + (n % WordSize)
        /\ \A q \in Persons : q \notin {b, s} => Stocks'[q] = Stocks[q]
    BY <1>6, <1>7 DEF Word
  <2> QED
    BY <2>1 DEF Stocks
<1>9. B!Deliver(s, k, n % WordSize)
  BY <1>1, <1>2, SaleDelivers DEF Word
<1>10. B!Pay(b, s, n * e.price)
  BY <1>1, <1>2, PayIs
<1>11. /\ Promises[s][k].what = Pile /\ Promises[s][k].price = e.price
       /\ Promises[s][k].number = e.number /\ Promises[s][k] # NoEntry
  <2>1. /\ Promises[s][k] # NoEntry
        /\ Promises[s][k] = [what |-> e.what, price |-> e.price, number |-> e.number]
    BY PromisesAre
  <2> QED
    BY <2>1
<1>12. n \in 1..Promises[s][k].number
  BY <1>2, <1>3, <1>11
<1>13. n <= Stocks[s]
  BY <1>6, <1>7
<1>14. B!SellPile(b, s, k, n)
  BY <1>3, <1>5, <1>8, <1>9, <1>10, <1>11, <1>13 DEF B!SellPile
<1> QED
  BY <1>11, <1>12, <1>14 DEF B!Sell

LEMMA BuysBazaar ==
  ASSUME TypeOK, FromOthers, EachOnce(bag), EachOnce(bag'), NEW b \in Persons, Buys(b)
  PROVE  B!Next \/ UNCHANGED B!vars
<1>1. ASSUME bag' = bag, UNCHANGED <<sale, purses, open>>
      PROVE  UNCHANGED B!vars
  <2>1. Holders' = Holders /\ Promises' = Promises
    BY <1>1 DEF Holders, Promises
  <2>2. Stocks' = Stocks
    BY <1>1, StocksAre
  <2> QED
    BY <1>1, <2>1, <2>2 DEF B!vars, purses
<1>2. ASSUME NEW s \in Persons, NEW k \in SalePos, NEW n \in 0..Units,
             ReqPMarketBuy(b, s, k, n)
      PROVE  UNCHANGED B!vars
  BY <1>1, <1>2 DEF ReqPMarketBuy, stalls
<1>3. CASE MsgPMarketBuy(b)
  <2>1. CASE UNCHANGED <<bag, sale, purses, open>>
    BY <1>1, <2>1
  <2>2. ASSUME NEW s \in Persons, NEW k \in SalePos, NEW n \in Nat,
               b # s, open[s], UNCHANGED open, sale[s][k] # NoEntry, sale[s][k] \in Entry,
               n > 0, sale[s][k].what # Pile => n = 1,
               MayBuy(b, s, sale[s][k], n), Purchase(b, s, k, n)
        PROVE  B!Next
    <3>1. PICK e \in Entry : e = sale[s][k]
      BY <2>2
    <3>2. B!Sell(b, s, k)
      <4>1. CASE e.what = Pile
        BY <2>2, <3>1, <4>1, PileBazaar
      <4>2. CASE e.what # Pile
        <5>1. n = 1
          BY <2>2, <3>1, <4>2
        <5> QED
          BY <2>2, <3>1, <4>2, <5>1, ItemBazaar
      <4> QED
        BY <4>1, <4>2
    <3> QED
      BY <3>2 DEF B!Next
  <2> QED
    BY <1>3, <2>1, <2>2, BuyCases
<1> QED
  BY <1>2, <1>3 DEF Buys

\* However the handlers interleave, what anyone can see of the markets is a
\* bazaar: goods change owners only by a purchase from an open stall, at the
\* price that stands there, within what is offered, paid for and delivered in
\* one step or not at all.
THEOREM MarketsAreBazaar == Spec => BazaarSpec
<1>1. Init => B!Init
  <2> SUFFICES ASSUME Init PROVE B!Init
    OBVIOUS
  <2>1. Promises = [p \in Persons |-> [k \in SalePos |-> NoEntry]]
    BY DEF Init, NoStall, Promises, Promised
  <2> QED
    BY <2>1 DEF Init, B!Init
<1>2. TypeOK /\ FromOthers /\ ItemsOnce /\ ItemsOnce' /\ [Next]_vars => [B!Next]_(B!vars)
  <2> SUFFICES ASSUME TypeOK, FromOthers, ItemsOnce, ItemsOnce', [Next]_vars
               PROVE  B!Next \/ UNCHANGED B!vars
    OBVIOUS
  <2>1. EachOnce(bag) /\ EachOnce(bag')
    BY OnceNow, OnceNext
  <2>2. CASE UNCHANGED vars
    <3>1. Holders' = Holders /\ Promises' = Promises
      BY <2>2 DEF vars, Holders, Promises
    <3>2. Stocks' = Stocks
      BY <2>2, StocksAre DEF vars
    <3> QED
      BY <2>2, <3>1, <3>2 DEF vars, B!vars
  <2>3. ASSUME NEW p \in Persons, Keeps(p) PROVE B!Next
    BY <2>3, KeepsBazaar DEF B!Next
  <2> QED
    BY <2>1, <2>2, <2>3, MovesStutter, BuysBazaar DEF Next
<1> QED
  BY <1>1, <1>2, Types, OthersHold, NoItemTwice, PTL DEF Spec, BazaarSpec, B!Spec

----------------------------------------------------------------------------
(* The money.                                                              *)

\* What the characters have and the commission make up all there was.
MoneyKept == MapThenSumSet(LAMBDA p : money[p], Persons) + income = Gold

LEMMA MoneyIs == MoneyKept <=> SumFunctionOnSet(money, Persons) + income = Gold
  BY DEF MoneyKept, MapThenSumSet, SumFunctionOnSet, FoldFunctionOnSet, MapThenFoldSet

LEMMA PayKeeps ==
  ASSUME TypeOK, NEW b \in Persons, NEW s \in Persons, b # s, NEW t \in Nat,
         t <= money[b], Pay(b, s, t)
  PROVE  SumFunctionOnSet(money', Persons) + income'
           = SumFunctionOnSet(money, Persons) + income
<1>1. PICK u \in Nat : u = Give(t)
  BY GiveBound
<1>2. /\ money' = [[money EXCEPT ![b] = @ - t] EXCEPT ![s] = @ + u]
      /\ income' = income + (t - u)
  BY <1>1 DEF Pay
<1>3. /\ money'[b] = money[b] - t /\ money'[s] = money[s] + u
      /\ \A p \in Persons : p \notin {b, s} => money'[p] = money[p]
  BY <1>2 DEF TypeOK
<1>4. \A p \in Persons : money[p] \in Nat /\ money'[p] \in Nat
  BY PayType DEF TypeOK
<1>5. TwoDiffer(Persons, money, money', b, s)
  BY <1>3, <1>4 DEF TwoDiffer
<1>6. SumFunctionOnSet(money', Persons)
        = SumFunctionOnSet(money, Persons) + (money'[b] - money[b]) + (money'[s] - money[s])
  BY <1>5, FiniteAssumption, SumTwo
<1>7. SumFunctionOnSet(money, Persons) \in Int
  BY <1>4, FiniteAssumption, SumType
<1> QED
  BY <1>1, <1>2, <1>3, <1>4, <1>6, <1>7 DEF TypeOK

\* No purchase makes or loses money: what the buyer pays and the seller does not
\* get is the commission.
THEOREM NoMoneyMade == Spec => []MoneyKept
<1> DEFINE Sum == SumFunctionOnSet(money, Persons) + income
<1>1. Init => Sum = Gold
  <2>1. Init => MapThenSumSet(LAMBDA p : money[p], Persons) = Gold /\ income = 0
    BY DEF Init
  <2>2. MapThenSumSet(LAMBDA p : money[p], Persons) = SumFunctionOnSet(money, Persons)
    BY DEF MapThenSumSet, SumFunctionOnSet, FoldFunctionOnSet, MapThenFoldSet
  <2> QED
    BY <2>1, <2>2, NumberAssumption
<1>2. TypeOK /\ FromOthers /\ Sum = Gold /\ [Next]_vars => (Sum = Gold)'
  <2> SUFFICES ASSUME TypeOK, FromOthers, [Next]_vars PROVE Sum' = Sum
    OBVIOUS
  <2>1. CASE UNCHANGED purses
    BY <2>1 DEF purses
  <2>2. ASSUME NEW p \in Persons, Moves(p) PROVE UNCHANGED purses
    BY <2>2 DEF Moves, MsgReqInvenToHold, MsgReqHoldToInven, MsgReqInvenExHold,
                MsgReqInvenSplit
  <2>3. ASSUME NEW p \in Persons, Keeps(p) PROVE UNCHANGED purses
    BY <2>3 DEF Keeps, MsgPMarketTitle, MsgPMarketOpen, MsgPMarketClose,
                MsgPMarketDisItem, MsgPMarketReqItem
  <2>4. ASSUME NEW b \in Persons, MsgPMarketBuy(b) PROVE Sum' = Sum
    <3>1. CASE UNCHANGED <<bag, sale, purses, open>>
      BY <2>1, <3>1
    <3>2. ASSUME NEW s \in Persons, NEW k \in SalePos, NEW n \in Nat, b # s,
                 sale[s][k] # NoEntry, sale[s][k].what # Pile => n = 1,
                 MayBuy(b, s, sale[s][k], n), Purchase(b, s, k, n)
          PROVE  Sum' = Sum
      <4>1. /\ sale[s][k].price \in Nat /\ n * sale[s][k].price \in Nat
            /\ n * sale[s][k].price <= money[b]
        BY <3>2, Accepted
      <4>2. CASE sale[s][k].what = Pile
        <5>1. Pay(b, s, n * sale[s][k].price)
          BY <3>2, <4>2 DEF Purchase, HandOverPile
        <5> QED
          BY <3>2, <4>1, <5>1, PayKeeps
      <4>3. CASE sale[s][k].what # Pile
        <5>1. UNCHANGED purses \/ Pay(b, s, sale[s][k].price)
          BY <3>2, <4>3 DEF Purchase, HandOverItem
        <5>2. sale[s][k].price <= money[b]
          BY <3>2, <4>1, <4>3
        <5> QED
          BY <2>1, <3>2, <4>1, <5>1, <5>2, PayKeeps
      <4> QED
        BY <4>2, <4>3
    <3> QED
      BY <2>4, <3>1, <3>2, BuyCases
  <2>5. ASSUME NEW b \in Persons, Buys(b) PROVE UNCHANGED purses \/ MsgPMarketBuy(b)
    BY <2>5 DEF Buys, ReqPMarketBuy
  <2>6. UNCHANGED vars => UNCHANGED purses
    BY DEF vars, purses
  <2> QED
    BY <2>1, <2>2, <2>3, <2>4, <2>5, <2>6 DEF Next
<1>3. Sum = Gold => MoneyKept
  BY MoneyIs
<1> QED
  BY <1>1, <1>2, <1>3, Types, OthersHold, PTL DEF Spec
=============================================================================
