------------------------------- MODULE Trade -------------------------------
(***************************************************************************)
(* The two-party trade of the field server: GLTrade (one per character),   *)
(* the trade handlers of GLGaeaServer, GLChar::DoTrade, and everything     *)
(* that moves the traded goods under the trade's feet: the inventory       *)
(* handlers, characters joining, being dropped and evicted, and the        *)
(* recycling of Gaea ids.                                                  *)
(*                                                                         *)
(* Every handler runs to completion on the field server's main thread, so  *)
(* a handler is one action.  Characters (Persons) keep their goods when    *)
(* they leave the field; a Gaea id is a slot of m_PCArray that different   *)
(* characters occupy in turn, and the trade state belongs to the slot's    *)
(* present occupant.                                                       *)
(***************************************************************************)
EXTENDS Naturals, FiniteSets, Functions

CONSTANTS
  Persons,      \* characters of the database
  Ids,          \* Gaea ids, the indices of m_PCArray
  Items,        \* item instances: SITEMCUSTOM values told apart by memcmp
  Cells,        \* cells of an inventory; an item takes one
  HOLD, SLOT,   \* the hand and a slot of m_PutOnItems
  BoxPos,       \* positions of a trade box, in CELL_MAP order
  BlockTime,    \* EMTRADE_BLOCK_TIME, in server frames
  Gold,         \* all the money there is
  Nobody, NULL, NoItem, NoEntry

Spots == Cells \cup {HOLD, SLOT}

ASSUME SpotsAssumption == HOLD \notin Cells /\ SLOT \notin Cells /\ HOLD # SLOT
ASSUME NullAssumption == Nobody \notin Persons /\ NULL \notin Ids
ASSUME PersonsAssumption == IsFiniteSet(Persons)
ASSUME ItemAssumption == NoItem \notin Items
ASSUME NumberAssumption == BoxPos \subseteq Nat /\ BlockTime \in Nat /\ Gold \in Nat

VARIABLES
  pc,        \* m_PCArray: who stands at each id
  trade,     \* m_sTrade of the occupant of each id
  disTrade,  \* m_bDisTrade of the occupant of each id
  asked,     \* the id whose trade request the occupant's client shows
  bag,       \* m_cInventory and m_PutOnItems of each character
  money,     \* m_lnMoney of each character
  land,      \* items lying on the field
  landMoney  \* money lying on the field

vars == <<pc, trade, disTrade, asked, bag, money, land, landMoney>>
goods == <<bag, money, land, landMoney>>

Entry == [item : Items, back : Cells]
Boxes == [BoxPos -> Entry \cup {NoEntry}]

TradeStates == [target : Ids \cup {NULL}, agree : BOOLEAN, lock : BOOLEAN,
                timer : 0..BlockTime, money : 0..Gold, box : Boxes]

\* GLTrade::Reset
NoTrade == [target |-> NULL, agree |-> FALSE, lock |-> FALSE,
            timer |-> BlockTime, money |-> 0, box |-> [b \in BoxPos |-> NoEntry]]

\* GLTrade::BlockAgree: the agreement is off and the waiting time starts again
BlockAgree(t) == [t EXCEPT !.agree = FALSE, !.timer = BlockTime]

Online(i) == pc[i] # Nobody
Valid(i) == trade[i].target # NULL
Filled(t) == {b \in BoxPos : t.box[b] # NoEntry}

\* The check each handler opens with: my trade is valid, its target is there
\* and trades with me.
Paired(i) == /\ Online(i)
             /\ Valid(i)
             /\ Online(trade[i].target)
             /\ trade[trade[i].target].target = i

\* ... and what the handler does when it fails on a valid trade.
DropBrokenTrade(i) ==
  /\ Online(i) /\ Valid(i) /\ ~Paired(i)
  /\ trade' = [trade EXCEPT ![i] = NoTrade]
  /\ UNCHANGED <<pc, disTrade, asked, goods>>

\* An offer may be edited: the target takes trades and I have not locked.
MayEdit(i) == Paired(i) /\ ~disTrade[trade[i].target] /\ ~trade[i].lock

(***************************************************************************)
(* Opening a trade                                                         *)
(***************************************************************************)

\* The request reaches the target's client, which shows the latest one only.
\* A client asks other characters only (GLCharacter.cpp:1763): the handler does
\* not look.
RequestTrade(i, j) ==
  /\ Online(i) /\ Online(j) /\ i # j
  /\ ~Valid(i) /\ ~Valid(j) /\ ~disTrade[j]
  /\ asked' = [asked EXCEPT ![j] = i]
  /\ UNCHANGED <<pc, trade, disTrade, goods>>

\* The target answers; a refusal, a trade begun meanwhile or a requester that
\* is gone or takes no trades leaves the server as it was.
RequestTradeTarAns(i, ok) ==
  LET m == asked[i] IN
  /\ Online(i) /\ m # NULL
  /\ asked' = [asked EXCEPT ![i] = NULL]
  /\ trade' = IF ok /\ Online(m) /\ ~Valid(i) /\ ~Valid(m) /\ ~disTrade[m]
              THEN [trade EXCEPT ![i] = [NoTrade EXCEPT !.target = m],
                                 ![m] = [NoTrade EXCEPT !.target = i]]
              ELSE trade
  /\ UNCHANGED <<pc, disTrade, goods>>

SetDisTrade(i, b) ==
  /\ Online(i)
  /\ disTrade' = [disTrade EXCEPT ![i] = b]
  /\ UNCHANGED <<pc, trade, asked, goods>>

(***************************************************************************)
(* Editing the offers                                                      *)
(***************************************************************************)

\* WRONG: only my own agreement is taken back.
EditMineOnly(i, mine) ==
  /\ trade' = [trade EXCEPT ![i] = BlockAgree(mine)]
  /\ UNCHANGED <<pc, disTrade, asked, goods>>

\* An edit changes my offer and takes both agreements back.
Edit(i, mine) ==
  /\ trade' = [trade EXCEPT ![i] = BlockAgree(mine), ![trade[i].target] = BlockAgree(@)]
  /\ UNCHANGED <<pc, disTrade, asked, goods>>

RequestTradeMoney(i, m) ==
  \/ DropBrokenTrade(i)
  \/ /\ MayEdit(i)
     /\ m <= money[pc[i]]
     /\ Edit(i, [trade[i] EXCEPT !.money = m])

\* GLTrade::InsertItem: the cell is not offered yet and the box position is free
RequestTradeItemResist(i, c, b) ==
  \/ DropBrokenTrade(i)
  \/ /\ MayEdit(i)
     /\ bag[pc[i]][c] # NoItem
     /\ \A x \in Filled(trade[i]) : trade[i].box[x].back # c
     /\ trade[i].box[b] = NoEntry
     /\ Edit(i, [trade[i] EXCEPT !.box[b] = [item |-> bag[pc[i]][c], back |-> c]])

RequestTradeItemReMove(i, b) ==
  \/ DropBrokenTrade(i)
  \/ /\ MayEdit(i)
     /\ trade[i].box[b] # NoEntry
     /\ Edit(i, [trade[i] EXCEPT !.box[b] = NoEntry])

RequestTradeLock(i) ==
  \/ DropBrokenTrade(i)
  \/ /\ Paired(i)
     /\ trade' = [trade EXCEPT ![i].lock = TRUE]
     /\ UNCHANGED <<pc, disTrade, asked, goods>>

\* WRONG: the other side is left in the trade.
CancelMineOnly(i) ==
  \/ DropBrokenTrade(i)
  \/ /\ Paired(i)
     /\ trade' = [trade EXCEPT ![i] = NoTrade]
     /\ UNCHANGED <<pc, disTrade, asked, goods>>

RequestTradeCancel(i) ==
  \/ DropBrokenTrade(i)
  \/ /\ Paired(i)
     /\ trade' = [trade EXCEPT ![i] = NoTrade, ![trade[i].target] = NoTrade]
     /\ UNCHANGED <<pc, disTrade, asked, goods>>

(***************************************************************************)
(* The exchange                                                            *)
(***************************************************************************)

\* WRONG: the money is not looked at again.
ItemsOnlyChecked(inv, gold, t) ==
  \A b \in Filled(t) : inv[t.box[b].back] = t.box[b].item

\* WRONG: there is some item at the cell, it is not compared with the offered one.
NotCompared(inv, gold, t) ==
  /\ gold >= t.money
  /\ \A b \in Filled(t) : inv[t.box[b].back] # NoItem

\* GLChar::IsVaildTradeData
IsVaildTradeData(inv, gold, t) ==
  /\ gold >= t.money
  /\ \A b \in Filled(t) : inv[t.box[b].back] = t.box[b].item

\* Box positions whose DeleteItem of the inventory succeeds: there is an item
\* at the cell, and no earlier position has taken it.
Deletable(inv, t) ==
  {b \in Filled(t) : /\ inv[t.box[b].back] # NoItem
                     /\ \A a \in Filled(t) : a < b => t.box[a].back # t.box[b].back}

\* The inventory once the items of these box positions are deleted.
Deleted(inv, t, S) ==
  [s \in Spots |-> IF \E b \in S : t.box[b].back = s THEN NoItem ELSE inv[s]]

Free(inv) == {c \in Cells : inv[c] = NoItem}

\* The inventory once the items of the box positions DOMAIN f are put at f.
Inserted(inv, t, f) ==
  [s \in Spots |-> IF \E b \in DOMAIN f : f[b] = s
                   THEN t.box[CHOOSE b \in DOMAIN f : f[b] = s].item ELSE inv[s]]

\* FindInsrtable for each incoming item in turn, left open as to the cells.
Placements(inv, t) == Injection(Filled(t), Free(inv))

\* The items before some box position, put so that no room is left for it.
Overfull(inv, t) ==
  LET Before(b) == {a \in Filled(t) : a < b}
  IN  UNION {Bijection(Before(b), Free(inv)) : b \in Filled(t)}

\* WRONG: the items can be taken out, whether the others fit is not asked.
SpaceNotChecked(inv, mine, theirs) == Deletable(inv, mine) = Filled(mine)

\* GLChar::IsVaildTradeInvenSpace
IsVaildTradeInvenSpace(inv, mine, theirs) ==
  /\ Deletable(inv, mine) = Filled(mine)
  /\ Placements(Deleted(inv, mine, Filled(mine)), theirs) # {}

\* GLChar::DoTrade: what it can make of one character's inventory and money.
\* It returns FALSE half way when a check fails, and undoes nothing.
DoTrade(inv, gold, mine, theirs) ==
  LET missing == Filled(mine) \ Deletable(inv, mine)
      ends(ok, i, g) == [ok |-> ok, inv |-> i, gold |-> g]
      paid == gold - mine.money + theirs.money
      rest == Deleted(inv, mine, Filled(mine))
  IN  CASE gold < mine.money -> {ends(FALSE, inv, gold)}
        [] gold >= mine.money /\ missing # {} ->
             {ends(FALSE, Deleted(inv, mine, {b \in Filled(mine) : \A x \in missing : b < x}), paid)}
        [] OTHER ->
             IF Placements(rest, theirs) # {}
             THEN {ends(TRUE, Inserted(rest, theirs, f), paid) : f \in Placements(rest, theirs)}
             ELSE {ends(FALSE, Inserted(rest, theirs, f), paid) : f \in Overfull(rest, theirs)}

\* The exchange of the occupants of i and j, or nothing when a check fails.
Exchange(i, j) ==
  LET p == pc[i]
      q == pc[j]
      mayTrade == /\ IsVaildTradeData(bag[p], money[p], trade[i])
                  /\ IsVaildTradeData(bag[q], money[q], trade[j])
                  /\ IsVaildTradeInvenSpace(bag[p], trade[i], trade[j])
                  /\ IsVaildTradeInvenSpace(bag[q], trade[j], trade[i])
  IN  IF ~mayTrade
      THEN UNCHANGED <<bag, money>>
      ELSE \E x \in DoTrade(bag[p], money[p], trade[i], trade[j]) :
           \E y \in IF x.ok THEN DoTrade(bag[q], money[q], trade[j], trade[i])
                            ELSE {[ok |-> FALSE, inv |-> bag[q], gold |-> money[q]]} :
             /\ bag' = [bag EXCEPT ![p] = x.inv, ![q] = y.inv]
             /\ money' = [money EXCEPT ![p] = x.gold, ![q] = y.gold]

RequestTradeAgree(i) ==
  \/ DropBrokenTrade(i)
  \/ LET j == trade[i].target IN
     /\ Paired(i) /\ ~disTrade[j]
     /\ trade[i].timer = 0 /\ trade[i].lock
     /\ IF trade[j].agree
        THEN /\ Exchange(i, j)
             /\ trade' = [trade EXCEPT ![i] = NoTrade, ![j] = NoTrade]
        ELSE /\ trade' = [trade EXCEPT ![i].agree = TRUE]
             /\ UNCHANGED <<bag, money>>
     /\ UNCHANGED <<pc, disTrade, asked, land, landMoney>>

(***************************************************************************)
(* The inventory handlers                                                  *)
(***************************************************************************)

\* The owner's spots s change to the items f[s].
Rearrange(i, f) ==
  bag' = [bag EXCEPT ![pc[i]] = [s \in Spots |-> IF s \in DOMAIN f THEN f[s] ELSE @[s]]]

Has(i, s) == Online(i) /\ bag[pc[i]][s] # NoItem
Lacks(i, s) == Online(i) /\ bag[pc[i]][s] = NoItem

\* An item moves from one spot of a character to an empty one.
MoveItem(i, from, to) ==
  /\ Has(i, from) /\ Lacks(i, to)
  /\ Rearrange(i, [s \in {from, to} |-> IF s = to THEN bag[pc[i]][from] ELSE NoItem])
  /\ UNCHANGED <<pc, trade, disTrade, asked, money, land, landMoney>>

\* The only one of these handlers that looks at the trade.
MsgReqInvenToHold(i, c) == ~Valid(i) /\ MoveItem(i, c, HOLD)
MsgReqInvenToSlot(i, c) == MoveItem(i, c, SLOT)
MsgReqSlotToHold(i)     == MoveItem(i, SLOT, HOLD)
MsgReqHoldToInven(i, c) == MoveItem(i, HOLD, c)

MsgReqInvenExHold(i, c) ==
  /\ Has(i, c) /\ Has(i, HOLD)
  /\ Rearrange(i, [s \in {c, HOLD} |-> bag[pc[i]][IF s = c THEN HOLD ELSE c]])
  /\ UNCHANGED <<pc, trade, disTrade, asked, money, land, landMoney>>

MsgReqHoldToField(i) ==
  /\ Has(i, HOLD)
  /\ land' = land \cup {bag[pc[i]][HOLD]}
  /\ Rearrange(i, [s \in {HOLD} |-> NoItem])
  /\ UNCHANGED <<pc, trade, disTrade, asked, money, landMoney>>

MsgReqFieldToInven(i, x, c) ==
  /\ x \in land /\ Lacks(i, c)
  /\ land' = land \ {x}
  /\ Rearrange(i, [s \in {c} |-> x])
  /\ UNCHANGED <<pc, trade, disTrade, asked, money, landMoney>>

\* The hand is taken to be empty: what it held is overwritten.
MsgReqFieldToHold(i, x) ==
  /\ Online(i) /\ x \in land
  /\ land' = land \ {x}
  /\ Rearrange(i, [s \in {HOLD} |-> x])
  /\ UNCHANGED <<pc, trade, disTrade, asked, money, landMoney>>

MsgReqMoneyToField(i, m) ==
  /\ Online(i) /\ m <= money[pc[i]]
  /\ money' = [money EXCEPT ![pc[i]] = @ - m]
  /\ landMoney' = landMoney + m
  /\ UNCHANGED <<pc, trade, disTrade, asked, bag, land>>

MoneyToInven(i, m) ==
  /\ Online(i) /\ m <= landMoney
  /\ money' = [money EXCEPT ![pc[i]] = @ + m]
  /\ landMoney' = landMoney - m
  /\ UNCHANGED <<pc, trade, disTrade, asked, bag, land>>

(***************************************************************************)
(* Joining, leaving and the frame                                          *)
(***************************************************************************)

\* WRONG: the pool keeps the trade of the last user of the object.
KeptInPool(t) == t

\* What GLChar::RESET_DATA, on the way back to the pool, makes of the trade.
ResetData(t) == NoTrade

\* The occupants of the ids D go back to the pool, the others' trades become
\* as in tr.
DropOutPC(D, tr) ==
  /\ pc' = [i \in Ids |-> IF i \in D THEN Nobody ELSE pc[i]]
  /\ trade' = [i \in Ids |-> IF i \in D THEN ResetData(trade[i]) ELSE tr[i]]
  /\ disTrade' = [i \in Ids |-> disTrade[i] /\ i \notin D]
  /\ asked' = [i \in Ids |-> IF i \in D THEN NULL ELSE asked[i]]
  /\ UNCHANGED goods

\* The id is free and the character is not in the field yet; the object comes
\* from the pool as RESET_DATA left it.
CreatePC(p, i) ==
  /\ ~Online(i)
  /\ \A k \in Ids : pc[k] # p
  /\ pc' = [pc EXCEPT ![i] = p]
  /\ UNCHANGED <<trade, disTrade, asked, goods>>

\* An agent about to let character p in at id i has both evicted at once,
\* outside the frame.
RequestFieldSvrCharChk(p, i) ==
  LET D == {k \in Ids : Online(k) /\ (k = i \/ pc[k] = p)} IN
  /\ D # {}
  /\ DropOutPC(D, trade)

\* WRONG: the waiting time runs below zero.
TimerBelowZero(t, present) ==
  CASE t.target = NULL    -> t
    [] t.target \in present -> [t EXCEPT !.timer = @ - 1]
    [] OTHER              -> NoTrade

\* WRONG: the frame does not look for the target.
TargetNotLookedFor(t, present) ==
  IF t.target = NULL THEN t ELSE [t EXCEPT !.timer = IF @ = 0 THEN 0 ELSE @ - 1]

\* GLChar::FrameMove of a trade: the waiting time runs, and a trade whose
\* target is no longer there is reset.
TradeFrameMove(t, present) ==
  CASE t.target = NULL    -> t
    [] t.target \in present -> [t EXCEPT !.timer = IF @ = 0 THEN 0 ELSE @ - 1]
    [] OTHER              -> NoTrade

\* GLGaeaServer::FrameMove: reserved drops, every character's FrameMove, and
\* the drops reserved meanwhile.
FrameMove(D1, D2) ==
  LET present == {i \in Ids : Online(i)} \ D1 IN
  /\ D1 \cup D2 \subseteq {i \in Ids : Online(i)}
  /\ D1 \cap D2 = {}
  /\ DropOutPC(D1 \cup D2, [i \in Ids |-> TradeFrameMove(trade[i], present)])

-----------------------------------------------------------------------------

\* An empty field: every item lies in some inventory, all money is owned.
Init ==
  /\ pc = [i \in Ids |-> Nobody]
  /\ trade = [i \in Ids |-> NoTrade]
  /\ disTrade = [i \in Ids |-> FALSE]
  /\ asked = [i \in Ids |-> NULL]
  /\ land = {} /\ landMoney = 0
  /\ bag \in [Persons -> [Spots -> Items \cup {NoItem}]]
  /\ \A p \in Persons : bag[p][HOLD] = NoItem /\ bag[p][SLOT] = NoItem
  /\ \A x \in Items : \E p \in Persons, c \in Cells :
       \A q \in Persons, d \in Cells : bag[q][d] = x <=> q = p /\ d = c
  /\ money \in [Persons -> 0..Gold]
  /\ FoldFunction(+, 0, money) = Gold

TradeNext ==
  \/ \E i, j \in Ids : RequestTrade(i, j)
  \/ \E i \in Ids, ok \in BOOLEAN : RequestTradeTarAns(i, ok)
  \/ \E i \in Ids, b \in BOOLEAN : SetDisTrade(i, b)
  \/ \E i \in Ids, m \in 0..Gold : RequestTradeMoney(i, m)
  \/ \E i \in Ids, c \in Cells, b \in BoxPos : RequestTradeItemResist(i, c, b)
  \/ \E i \in Ids, b \in BoxPos : RequestTradeItemReMove(i, b)
  \/ \E i \in Ids : RequestTradeLock(i)
  \/ \E i \in Ids : RequestTradeCancel(i)
  \/ \E i \in Ids : RequestTradeAgree(i)

InventoryNext ==
  \/ \E i \in Ids, c \in Cells : MsgReqInvenToHold(i, c)
  \/ \E i \in Ids, c \in Cells : MsgReqInvenToSlot(i, c)
  \/ \E i \in Ids : MsgReqSlotToHold(i)
  \/ \E i \in Ids, c \in Cells : MsgReqHoldToInven(i, c)
  \/ \E i \in Ids, c \in Cells : MsgReqInvenExHold(i, c)
  \/ \E i \in Ids : MsgReqHoldToField(i)
  \/ \E i \in Ids, x \in Items, c \in Cells : MsgReqFieldToInven(i, x, c)
  \/ \E i \in Ids, x \in Items : MsgReqFieldToHold(i, x)
  \/ \E i \in Ids, m \in 1..Gold : MsgReqMoneyToField(i, m)
  \/ \E i \in Ids, m \in 1..Gold : MoneyToInven(i, m)

PresenceNext ==
  \/ \E p \in Persons, i \in Ids : CreatePC(p, i)
  \/ \E p \in Persons, i \in Ids : RequestFieldSvrCharChk(p, i)
  \/ \E D1, D2 \in SUBSET Ids : FrameMove(D1, D2)

Next == TradeNext \/ InventoryNext \/ PresenceNext

Spec == Init /\ [][Next]_vars

\* The field server's update loop never stops calling FrameMove; no frame has
\* to drop anybody.
FairSpec == Spec /\ WF_vars(FrameMove({}, {}))

-----------------------------------------------------------------------------
(***************************************************************************)
(* Properties                                                              *)
(***************************************************************************)

Bags == [Persons -> [Spots -> Items \cup {NoItem}]]

\* The state has the types of the program's: no timer, offer or box position
\* leaves its range, and everything in a box names an item and a cell.
TypeOK ==
  /\ pc \in [Ids -> Persons \cup {Nobody}]
  /\ trade \in [Ids -> TradeStates]
  /\ disTrade \in [Ids -> BOOLEAN]
  /\ asked \in [Ids -> Ids \cup {NULL}]
  /\ bag \in Bags
  /\ money \in [Persons -> Nat]
  /\ land \in SUBSET Items
  /\ landMoney \in Nat

\* No item instance is ever in two places: whatever a trade, a drop or an
\* inventory request in the middle of a trade does, nothing is duplicated.
NoDup ==
  /\ \A p, q \in Persons : \A s, t \in Spots :
       bag[p][s] = bag[q][t] /\ bag[p][s] # NoItem => p = q /\ s = t
  /\ \A p \in Persons, s \in Spots : bag[p][s] \notin land

\* No handler makes or destroys money (GLChar::DoTrade moves it twice).
MoneyConserved == FoldFunction(+, 0, money) + landMoney = Gold

Owned == {bag[p][s] : p \in Persons, s \in Spots} \cap Items

\* An item vanishes only from a hand on which MsgReqFieldToHold puts another
\* one from the field: no trade, whole or failed, loses an item.
ItemsKept ==
  [][\A x \in (Owned \cup land) \ (Owned' \cup land') :
       \E p \in Persons : bag[p][HOLD] = x /\ bag[p][HOLD]' \in land]_vars

\* The occupants of two ids trade with each other.
Partners(i, j) == Paired(i) /\ trade[i].target = j

\* Two characters come to trade with each other only by opening a new trade,
\* with empty offers, no lock, no agreement and the full waiting time.  A
\* trade left behind by a character that dropped never becomes the trade of
\* the next occupant of its Gaea id.
PairsStartFresh ==
  [][\A i, j \in Ids :
       Partners(i, j)' /\ ~(Partners(i, j) /\ pc[i]' = pc[i] /\ pc[j]' = pc[j])
         => trade[i]' = [NoTrade EXCEPT !.target = j]]_vars

\* A trade ends for both characters in one step, whoever ends it and whatever
\* third parties ask or answer meanwhile; only a character that leaves the
\* field, for another one or for good, leaves its partner with half a trade.
PairsEndTogether ==
  [][\A i, j \in Ids :
       Partners(i, j) /\ ~Partners(i, j)' /\ pc[i]' = pc[i] /\ pc[j]' = pc[j]
         => ~Valid(i)' /\ ~Valid(j)']_vars

\* For the documentation's rule that nothing leaves the inventory while a trade
\* is on (docs/MODULES/ECONOMY.md:65): what is offered lies where it was
\* offered from.
OffersInPlace ==
  \A i \in Ids : \A b \in Filled(trade[i]) :
    bag[pc[i]][trade[i].box[b].back] = trade[i].box[b].item

\* While an agreement stands, neither side's offer changes.
OfferStable ==
  [][\A i, j \in Ids :
       Partners(i, j) /\ trade[i].agree /\ Partners(i, j)' /\ trade[i].agree'
         => /\ trade[i].box' = trade[i].box /\ trade[i].money' = trade[i].money
            /\ trade[j].box' = trade[j].box /\ trade[j].money' = trade[j].money]_vars

\* A character that waits on a partner who has left the field is freed, or a
\* newcomer takes over the partner's Gaea id.
OrphanEnds ==
  \A i \in Ids :
    LET orphaned == Online(i) /\ Valid(i) /\ ~Online(trade[i].target)
    IN  orphaned ~> ~orphaned

(***************************************************************************)
(* The trade implements a barter.  A character stands by terms while its   *)
(* agreement is set and its partner is there: the two offers as they lie   *)
(* in the boxes.                                                           *)
(***************************************************************************)

Deals == [with : Persons, gives : SUBSET Items, takes : SUBSET Items,
          pays : 0..Gold, gets : 0..Gold]

ASSUME DealAssumption == NULL \notin Deals

Offered(t) == {t.box[b].item : b \in Filled(t)}

TermsOf(i) ==
  LET theirs == trade[trade[i].target]
  IN  [with |-> pc[trade[i].target],
       gives |-> Offered(trade[i]), pays |-> trade[i].money,
       takes |-> Offered(theirs), gets |-> theirs.money]

Agreed(p, i) == pc[i] = p /\ Paired(i) /\ trade[i].agree

Wealth == [p \in Persons |-> {bag[p][s] : s \in Spots} \cap Items]

Standing ==
  [p \in Persons |-> IF \E i \in Ids : Agreed(p, i)
                     THEN TermsOf(CHOOSE i \in Ids : Agreed(p, i)) ELSE NULL]

Barter == INSTANCE Barter WITH
  NoDeal <- NULL, goods <- Wealth, purse <- money, consent <- Standing,
  ground <- land, pot <- landMoney

\* Goods change hands only in a swap of exactly what both agreed to.
BarterSpec == Barter!Spec
=============================================================================
