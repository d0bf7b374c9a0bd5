------------------------------- MODULE Bazaar -------------------------------
(***************************************************************************)
(* What the private markets promise, without inventories, cells, hands,    *)
(* messages in flight or refusals: goods change owners only when somebody  *)
(* buys from an open stall, at the price that stands there, and the stall, *)
(* the goods and the money change in one step or not at all.               *)
(***************************************************************************)
EXTENDS Naturals

CONSTANTS Persons, Items, SalePos, WordSize, Commission, Pile, NoEntry

VARIABLES
  owner,    \* who has each item
  units,    \* how much of the pile each person has
  money,    \* what each person can pay
  income,   \* the commission taken so far
  offers,   \* what stands at each place of each stall
  open      \* whether the stall sells

vars == <<owner, units, money, income, offers, open>>

\* A stall is set up while it is closed ...
SetUp(p) ==
  /\ ~open[p]
  /\ offers' = [offers EXCEPT ![p] = offers'[p]]
  /\ UNCHANGED <<owner, units, money, income, open>>

\* ... stands as it is while it is open, but for what is sold ...
OpenUp(p) ==
  /\ ~open[p] /\ \E k \in SalePos : offers[p][k] # NoEntry
  /\ open' = [open EXCEPT ![p] = TRUE]
  /\ UNCHANGED <<owner, units, money, income, offers>>

\* ... and is cleared when it closes.
CloseDown(p) ==
  /\ open' = [open EXCEPT ![p] = FALSE]
  /\ offers' = [offers EXCEPT ![p] = [k \in SalePos |-> NoEntry]]
  /\ UNCHANGED <<owner, units, money, income>>

\* The seller gets the payment less the commission.
Give(total) == (total * (100 - Commission)) \div 100

Pay(b, s, total) ==
  /\ total <= money[b]
  /\ money' = [money EXCEPT ![b] = @ - total, ![s] = @ + Give(total)]
  /\ income' = income + (total - Give(total))

\* The offer shrinks by what is delivered.
Deliver(s, k, m) ==
  /\ m <= offers[s][k].number
  /\ offers' = [offers EXCEPT ![s][k].number = @ - m]

SellItem(b, s, k) ==
  /\ offers[s][k].what \in Items /\ owner[offers[s][k].what] = s
  /\ owner' = [owner EXCEPT ![offers[s][k].what] = b]
  /\ Deliver(s, k, 1) /\ Pay(b, s, offers[s][k].price)
  /\ UNCHANGED units

\* Of a pile at most what is left of the offer is delivered, and paid for in
\* full; an order of WordSize units and more is delivered short by multiples
\* of WordSize.
SellPile(b, s, k, n) ==
  /\ offers[s][k].what = Pile /\ 0 < n /\ n <= offers[s][k].number
  /\ n <= units[s]
  /\ units' = [units EXCEPT ![s] = @ - (n % WordSize), ![b] = @ + (n % WordSize)]
  /\ Deliver(s, k, n % WordSize) /\ Pay(b, s, n * offers[s][k].price)
  /\ UNCHANGED owner

Sell(b, s, k) ==
  /\ b # s /\ open[s] /\ offers[s][k] # NoEntry
  /\ UNCHANGED open
  /\ \/ SellItem(b, s, k)
     \/ \E n \in 1..offers[s][k].number : SellPile(b, s, k, n)

Init ==
  /\ offers = [p \in Persons |-> [k \in SalePos |-> NoEntry]]
  /\ open = [p \in Persons |-> FALSE]
  /\ income = 0

Next ==
  \/ \E p \in Persons : SetUp(p) \/ OpenUp(p) \/ CloseDown(p)
  \/ \E b, s \in Persons, k \in SalePos : Sell(b, s, k)

Spec == Init /\ [][Next]_vars
=============================================================================
