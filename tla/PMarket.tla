------------------------------ MODULE PMarket ------------------------------
(***************************************************************************)
(* The private market of the field server: GLPrivateMarket, the stall each *)
(* GLChar keeps, its handlers (GLCharPMarketMsg.cpp) and the inventory     *)
(* handlers by which a seller moves, splits and merges goods that stand    *)
(* offered.  A stall holds copies: the price, the number and the cell an   *)
(* item lay in when it was offered; a purchase meets the inventory as it   *)
(* is by then.                                                             *)
(*                                                                         *)
(* The buyer's client composes a purchase from what it shows of the stall, *)
(* and the message names only the seller, the place in the stall and a     *)
(* number: it is a step of its own here, and the stall may change before   *)
(* the handler runs.                                                       *)
(*                                                                         *)
(* Every item takes one cell.  Piles are of one kind and lie in cells as   *)
(* numbers.  Money is small: number times price fits its type.  Which free *)
(* cell a search finds, and in which order piles are filled and emptied,   *)
(* is left open.  The licence a stall is opened with is not modelled.      *)
(***************************************************************************)
EXTENDS Naturals, FiniteSetsExt

CONSTANTS
  Persons,      \* characters on the field
  Sellers,      \* who keeps a stall: a bound, in the program anyone may
  Items,        \* items that do not pile up: SITEMCUSTOM values
  Cells,        \* cells of an inventory
  HOLD,         \* the hand
  SalePos,      \* places of a stall, EMMAX_SALE_NUM of them
  PileNum,      \* wPileNum of the pile kind
  Units,        \* how much of the pile kind there is
  WordSize,     \* number of values of a WORD
  Prices,       \* prices a seller asks
  Gold,         \* all the money there is
  Commission,   \* m_fCommissionRate: percent of a payment the seller misses
  Pile,         \* the pile kind
  Empty, NoEntry, NoOrder

Spots == Cells \cup {HOLD}
Piles == 1..PileNum
Contents == Items \cup Piles \cup {Empty}
Kinds == Items \cup {Pile}

ASSUME SellersAssumption == Sellers \subseteq Persons
ASSUME FiniteAssumption == IsFiniteSet(Persons) /\ IsFiniteSet(Cells)
ASSUME KindAssumption == /\ Pile \notin Items /\ Empty \notin Items \cup Piles
                         /\ Items \cap Nat = {} /\ HOLD \notin Cells
ASSUME NumberAssumption == /\ PileNum \in Nat /\ Units \in Nat /\ Gold \in Nat
                           /\ WordSize \in Nat /\ WordSize > 1
                           /\ Prices \subseteq Nat /\ Commission \in 0..100

VARIABLES
  bag,      \* m_cInventory, and the hand: SLOT_HOLD of m_PutOnItems
  open,     \* m_sPMarket.m_bOPEN
  sale,     \* m_sPMarket.m_mapSALE
  money,    \* m_lnMoney
  income,   \* commission: to the club that holds the land, or to nobody
  order     \* the purchase each client has under way, and what it showed

vars == <<bag, open, sale, money, income, order>>
stalls == <<open, sale>>
purses == <<money, income>>

Entry == [what : Kinds, from : Cells, price : Prices, number : 0..Units, sold : BOOLEAN]
ASSUME EntryAssumption == NoEntry \notin Entry

NoStall == [k \in SalePos |-> NoEntry]

Order == [seller : Persons, pos : SalePos, number : 0..Units,
          what : Kinds, price : Prices, closed : BOOLEAN]

KindOf(x) == IF x \in Piles THEN Pile ELSE x
PileCells(v) == {c \in Cells : v[c] \in Piles}
Vacant(v) == {c \in Cells : v[c] = Empty}
Offered(p) == {k \in SalePos : sale[p][k] # NoEntry}

\* GLInventory::CountTurnItem
Count(v) == MapThenSumSet(LAMBDA c : v[c], PileCells(v))

\* How much more of the pile an inventory takes: ValidPileInsrt asks for it.
Room(v) == MapThenSumSet(LAMBDA c : PileNum - v[c], PileCells(v))
             + PileNum * Cardinality(Vacant(v))

\* A DWORD passed as a WORD.
Word(n) == n % WordSize

\* DeletePileItem: piles are used up one after the other, the last in part.
Lessened(v, n) ==
  {w \in [Spots -> Contents] :
     /\ \A x \in Spots \ PileCells(v) : w[x] = v[x]
     /\ \A c \in PileCells(v) : w[c] = Empty \/ (w[c] \in Piles /\ w[c] <= v[c])
     /\ Cardinality({c \in PileCells(w) : w[c] # v[c]}) <= 1
     /\ Count(w) + n = Count(v) \/ (Count(v) < n /\ Count(w) = 0)}

\* InsertPileItem: piles are filled up, the last in part, then new ones are
\* laid into free cells; what finds no cell is gone.
Grown(v, n) ==
  {w \in [Spots -> Contents] :
     /\ \A x \in Spots \ (PileCells(v) \cup Vacant(v)) : w[x] = v[x]
     /\ \A c \in PileCells(v) : w[c] \in Piles /\ v[c] <= w[c]
     /\ \A c \in Vacant(v) : w[c] = Empty \/ w[c] \in Piles
     /\ Cardinality({c \in PileCells(w) : w[c] \notin {v[c], PileNum}}) <= 1
     /\ PileCells(w) # PileCells(v) => \A c \in PileCells(v) : w[c] = PileNum
     /\ Count(w) = Count(v) + n \/ (Room(v) < n /\ Room(w) = 0)}

\* What lies at x in p's bag and at y in q's change places.
Exchange(p, x, q, y) == [bag EXCEPT ![p][x] = bag[q][y], ![q][y] = bag[p][x]]

----------------------------------------------------------------------------
(* The owner's moves: none of them asks whether the stall is open.         *)

MsgReqInvenToHold(p, c) ==
  /\ bag[p][c] # Empty /\ bag[p][HOLD] = Empty
  /\ bag' = Exchange(p, c, p, HOLD)
  /\ UNCHANGED <<stalls, purses, order>>

MsgReqHoldToInven(p, c) ==
  /\ bag[p][HOLD] # Empty /\ bag[p][c] = Empty
  /\ bag' = Exchange(p, c, p, HOLD)
  /\ UNCHANGED <<stalls, purses, order>>

\* Two piles that are not full are merged, and the hand keeps what is too
\* much; anything else is exchanged.
Merge(p, c) ==
  LET sum == bag[p][c] + bag[p][HOLD] IN
  IF sum <= PileNum THEN [bag EXCEPT ![p][c] = sum, ![p][HOLD] = Empty]
                    ELSE [bag EXCEPT ![p][c] = PileNum, ![p][HOLD] = sum - PileNum]

MsgReqInvenExHold(p, c) ==
  /\ bag[p][HOLD] # Empty /\ bag[p][c] # Empty
  /\ bag' = IF /\ bag[p][c] \in Piles /\ bag[p][HOLD] \in Piles
               /\ bag[p][c] # PileNum /\ bag[p][HOLD] # PileNum
            THEN Merge(p, c) ELSE Exchange(p, c, p, HOLD)
  /\ UNCHANGED <<stalls, purses, order>>

MsgReqInvenSplit(p, c, d, n) ==
  /\ bag[p][c] \in Piles /\ n < bag[p][c] /\ bag[p][d] = Empty
  /\ bag' = [bag EXCEPT ![p][c] = @ - n, ![p][d] = n]
  /\ UNCHANGED <<stalls, purses, order>>

----------------------------------------------------------------------------
(* The stall.                                                              *)

\* The orders under way know of it: the stall they were made from is gone.
Outdated(p) ==
  [b \in Persons |-> IF order[b] # NoOrder /\ order[b].seller = p
                     THEN [order[b] EXCEPT !.closed = TRUE] ELSE order[b]]

\* A new title starts an empty stall.
MsgPMarketTitle(p) ==
  /\ ~open[p]
  /\ sale' = [sale EXCEPT ![p] = NoStall]
  /\ UNCHANGED <<bag, open, purses, order>>

\* The cell is not registered yet, nor is the pile kind.
Registrable(p, c) ==
  \A k \in Offered(p) : /\ sale[p][k].from # c
                        /\ ~(bag[p][c] \in Piles /\ sale[p][k].what = Pile)

\* n is the number that ends up on offer: one of an item, and of a pile what
\* the request says but no more than there is.
MsgPMarketReqItem(p, c, k, price, n) ==
  /\ ~open[p] /\ bag[p][c] # Empty /\ Registrable(p, c)
  /\ sale[p][k] = NoEntry
  /\ IF bag[p][c] \in Piles THEN n <= Count(bag[p]) ELSE n = 1
  /\ sale' = [sale EXCEPT ![p][k] =
                [what |-> KindOf(bag[p][c]), from |-> c, price |-> price,
                 number |-> n, sold |-> FALSE]]
  /\ UNCHANGED <<bag, open, purses, order>>

\* WRONG: an open stall loses an offer
MsgPMarketDisItemOpen(p, k) ==
  /\ sale[p][k] # NoEntry
  /\ sale' = [sale EXCEPT ![p][k] = NoEntry]
  /\ UNCHANGED <<bag, open, purses, order>>

MsgPMarketDisItem(p, k) ==
  /\ ~open[p] /\ sale[p][k] # NoEntry
  /\ sale' = [sale EXCEPT ![p][k] = NoEntry]
  /\ UNCHANGED <<bag, open, purses, order>>

MsgPMarketOpen(p) ==
  /\ ~open[p] /\ Offered(p) # {}
  /\ open' = [open EXCEPT ![p] = TRUE]
  /\ UNCHANGED <<bag, sale, purses, order>>

\* Also what DropOutPC does for a character that leaves.
MsgPMarketClose(p) ==
  /\ open' = [open EXCEPT ![p] = FALSE]
  /\ sale' = [sale EXCEPT ![p] = NoStall]
  /\ order' = Outdated(p)
  /\ UNCHANGED <<bag, purses>>

----------------------------------------------------------------------------
(* A purchase: the buyer's client sends it, the field server carries it    *)
(* out later.  The client's view of its own money and cells may be behind, *)
(* so only the stall limits what it asks for.                              *)

\* The client shows the stalls of others only (GLGaeaClient.cpp:2247).  It asks
\* for the goods of one it takes to be open, but MsgPMarketItemInfo answers in
\* any state: when that stall has closed, with the one its owner sets up now.
ReqPMarketBuy(b, s, k, n) ==
  /\ order[b] = NoOrder /\ b # s /\ sale[s][k] # NoEntry
  /\ ~sale[s][k].sold /\ n <= sale[s][k].number /\ (sale[s][k].what \in Items => n = 1)
  /\ order' = [order EXCEPT ![b] =
                 [seller |-> s, pos |-> k, number |-> n, what |-> sale[s][k].what,
                  price |-> sale[s][k].price, closed |-> ~open[s]]]
  /\ UNCHANGED <<bag, stalls, purses>>

\* dwNum: one of an item, and at least one of a pile.
Wanted(e, n) == IF e.what = Pile /\ n > 0 THEN n ELSE 1

\* The buyer has space.
Space(b, e, n) ==
  IF e.what = Pile THEN Word(n) <= Room(bag[b]) ELSE Vacant(bag[b]) # {}

\* WRONG: something lies in the cell
InStockAny(s, e, n) ==
  IF e.what = Pile THEN n <= Count(bag[s]) ELSE bag[s][e.from] # Empty

\* WRONG: a pile is not counted
InStockUncounted(s, e, n) == e.what = Pile \/ bag[s][e.from] = e.what

\* What was offered is still there: enough of the pile, or the very item in
\* the cell it was offered from.
InStock(s, e, n) ==
  IF e.what = Pile THEN n <= Count(bag[s]) ELSE bag[s][e.from] = e.what

\* WRONG: the number left is not asked
MayBuyMore(b, s, e, n) ==
  /\ ~e.sold /\ n * e.price <= money[b]
  /\ Space(b, e, n) /\ InStock(s, e, n)

MayBuy(b, s, e, n) ==
  /\ ~e.sold /\ n <= e.number /\ n * e.price <= money[b]
  /\ Space(b, e, n) /\ InStock(s, e, n)

\* WRONG: the offer is not reduced
DoSaleWhole(s, k, m) == sale' = [sale EXCEPT ![s][k].sold = (@ \/ sale[s][k].number = m)]

\* GLPrivateMarket::DoSale
DoSale(s, k, m) ==
  sale' = [sale EXCEPT ![s][k].number = @ - m,
                       ![s][k].sold = (sale[s][k].number = m)]

\* lnGIVE
Give(total) == (total * (100 - Commission)) \div 100

\* The money moves last; the branches before it that give up leave it alone.
Pay(b, s, total) ==
  /\ money' = [[money EXCEPT ![b] = @ - total] EXCEPT ![s] = @ + Give(total)]
  /\ income' = income + (total - Give(total))

\* The item leaves its cell, and then a free cell is looked for: were there
\* none, the item would be gone and the buyer would not pay.
HandOverItem(b, s, e) ==
  LET taken == [bag EXCEPT ![s][e.from] = Empty] IN
  \/ /\ Vacant(taken[b]) = {}
     /\ bag' = taken
     /\ UNCHANGED purses
  \/ \E c \in Vacant(taken[b]) :
       /\ bag' = [taken EXCEPT ![b][c] = e.what]
       /\ Pay(b, s, e.price)

HandOverPile(b, s, e, n) ==
  /\ \E v \in Lessened(bag[s], Word(n)) :
       LET taken == [bag EXCEPT ![s] = v] IN
       \E w \in Grown(taken[b], Word(n)) : bag' = [taken EXCEPT ![b] = w]
  /\ Pay(b, s, n * e.price)

Purchase(b, s, k, n) ==
  LET e == sale[s][k] IN
  /\ DoSale(s, k, Word(n))
  /\ IF e.what = Pile THEN HandOverPile(b, s, e, n) ELSE HandOverItem(b, s, e)

MsgPMarketBuy(b) ==
  /\ order[b] # NoOrder
  /\ order' = [order EXCEPT ![b] = NoOrder]
  /\ UNCHANGED open
  /\ LET s == order[b].seller
         k == order[b].pos
         n == Wanted(sale[s][k], order[b].number)
     IN IF open[s] /\ sale[s][k] # NoEntry /\ MayBuy(b, s, sale[s][k], n)
        THEN Purchase(b, s, k, n)
        ELSE UNCHANGED <<bag, sale, purses>>

----------------------------------------------------------------------------
\* Item i lies at one place.
LiesOnce(i) ==
  \E p \in Persons, x \in Spots :
    /\ bag[p][x] = i
    /\ \A q \in Persons, y \in Spots : bag[q][y] = i => q = p /\ y = x

\* How much of the pile p has, the hand included.
Stock(p) == MapThenSumSet(LAMBDA x : bag[p][x], {x \in Spots : bag[p][x] \in Piles})

Init ==
  /\ bag \in [Persons -> [Spots -> Contents]]
  /\ \A p \in Persons : bag[p][HOLD] = Empty
  /\ \A i \in Items : LiesOnce(i)
  /\ MapThenSumSet(Stock, Persons) = Units
  /\ open = [p \in Persons |-> FALSE]
  /\ sale = [p \in Persons |-> NoStall]
  /\ money \in [Persons -> 0..Gold]
  /\ MapThenSumSet(LAMBDA p : money[p], Persons) = Gold
  /\ income = 0
  /\ order = [p \in Persons |-> NoOrder]

Moves(p) ==
  \E c \in Cells :
    \/ MsgReqInvenToHold(p, c) \/ MsgReqHoldToInven(p, c) \/ MsgReqInvenExHold(p, c)
    \/ \E d \in Cells, n \in Piles : MsgReqInvenSplit(p, c, d, n)

Keeps(p) ==
  \/ MsgPMarketTitle(p) \/ MsgPMarketOpen(p) \/ MsgPMarketClose(p)
  \/ \E k \in SalePos :
       \/ MsgPMarketDisItem(p, k)
       \/ \E c \in Cells, price \in Prices, n \in 0..Units :
            MsgPMarketReqItem(p, c, k, price, n)

Buys(b) ==
  \/ \E s \in Persons, k \in SalePos, n \in 0..Units : ReqPMarketBuy(b, s, k, n)
  \/ MsgPMarketBuy(b)

Next == \E p \in Persons : Moves(p) \/ Buys(p) \/ (p \in Sellers /\ Keeps(p))

Spec == Init /\ [][Next]_vars

----------------------------------------------------------------------------
\* The state has its types.
TypeOK ==
  /\ bag \in [Persons -> [Spots -> Contents]]
  /\ open \in [Persons -> BOOLEAN]
  /\ sale \in [Persons -> [SalePos -> Entry \cup {NoEntry}]]
  /\ money \in [Persons -> Nat] /\ income \in Nat
  /\ order \in [Persons -> Order \cup {NoOrder}]

\* However purchases, moves, splits and merges interleave, every item is in
\* one place: no purchase gives up between taking an item from the seller and
\* laying it into a cell of the buyer's (the branches of MsgPMarketBuy of
\* which the code says that they cannot be reached), and none hands out an
\* item that the seller has moved or sold since he offered it.
ItemsOnce == \A i \in Items : LiesOnce(i)

\* And there is as much of the pile as ever: what DeletePileItem takes from
\* the seller's piles InsertPileItem lays into the buyer's.
PileKept == MapThenSumSet(Stock, Persons) = Units

\* A purchase names a place in a stall and no price, yet it cannot meet a
\* price or goods its buyer was not shown, unless the stall was still being set
\* up when it was shown or closed since: an open stall stands unchanged under
\* every order made of it.
OfferAsSeen ==
  \A b \in Persons : order[b] # NoOrder /\ ~order[b].closed =>
    LET e == sale[order[b].seller][order[b].pos] IN
    /\ open[order[b].seller] /\ e # NoEntry
    /\ e.price = order[b].price /\ e.what = order[b].what

\* The handlers implement Bazaar: goods change owners only by a purchase from
\* an open stall, at its price and no more than it offers, and a purchase
\* happens whole or not at all.
Promise == [what : Kinds, price : Prices, number : 0..Units]
ASSUME PromiseAssumption == NoEntry \notin Promise
Promised(e) == IF e = NoEntry THEN NoEntry
               ELSE [what |-> e.what, price |-> e.price, number |-> e.number]
Promises == [p \in Persons |-> [k \in SalePos |-> Promised(sale[p][k])]]
Holders == [i \in Items |-> CHOOSE p \in Persons : \E x \in Spots : bag[p][x] = i]
Stocks == [p \in Persons |-> Stock(p)]
B == INSTANCE Bazaar WITH owner <- Holders, units <- Stocks, offers <- Promises
BazaarSpec == B!Spec
=============================================================================
