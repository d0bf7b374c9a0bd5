------------------------------- MODULE Barter -------------------------------
(***************************************************************************)
(* What the trade of two characters promises, with no server in sight.     *)
(* A person consents to terms: with whom, what is given and paid for what  *)
(* is taken and got.  Standing terms are withdrawn or fulfilled, never     *)
(* rewritten, and goods pass between persons in one way only: whole, in    *)
(* one step, on the very terms one of the two has consented to and the     *)
(* other accepts.  Everything else a person gains or loses comes from or   *)
(* goes to the ground.                                                     *)
(***************************************************************************)
EXTENDS Naturals

CONSTANTS Persons, Items, Gold, NoDeal

VARIABLES
  goods,    \* the items of each person
  purse,    \* the money of each person
  consent,  \* the terms each person stands by, or NoDeal
  ground,   \* items nobody owns
  pot       \* money nobody owns

vars == <<goods, purse, consent, ground, pot>>

Terms == [with : Persons, gives : SUBSET Items, takes : SUBSET Items,
          pays : 0..Gold, gets : 0..Gold]

Consent(p) ==
  /\ consent[p] = NoDeal
  /\ consent'[p] \in Terms /\ consent'[p].with # p
  /\ \A q \in Persons \ {p} : consent'[q] = consent[q]
  /\ UNCHANGED <<goods, purse, ground, pot>>

\* One person or several at once: an edit, a refusal, a disconnection
Withdraw ==
  /\ UNCHANGED <<ground, pot, purse, goods>>
  /\ \A p \in Persons : consent'[p] \in {consent[p], NoDeal}

\* q accepts the terms p stands by.
Swap(p, q) ==
  LET t == consent[p] IN
  /\ t # NoDeal /\ t.with = q
  /\ t.gives \subseteq goods[p] /\ t.takes \subseteq goods[q]
  /\ t.pays <= purse[p] /\ t.gets <= purse[q]
  /\ goods' = [goods EXCEPT ![p] = (@ \ t.gives) \cup t.takes,
                            ![q] = (@ \ t.takes) \cup t.gives]
  /\ purse' = [purse EXCEPT ![p] = @ - t.pays + t.gets,
                            ![q] = @ - t.gets + t.pays]
  /\ consent' = [consent EXCEPT ![p] = NoDeal, ![q] = NoDeal]
  /\ UNCHANGED <<ground, pot>>

PickUp(p, x) ==
  /\ x \in ground
  /\ ground' = ground \ {x}
  /\ goods' = [goods EXCEPT ![p] = @ \cup {x}]
  /\ UNCHANGED <<purse, consent, pot>>

\* As PickUp, and an item y the person had is lost for good.
PickUpOver(p, x, y) ==
  /\ x \in ground /\ y \in goods[p]
  /\ ground' = ground \ {x}
  /\ goods' = [goods EXCEPT ![p] = (@ \ {y}) \cup {x}]
  /\ UNCHANGED <<purse, consent, pot>>

PutDown(p, x) ==
  /\ x \in goods[p]
  /\ goods' = [goods EXCEPT ![p] = @ \ {x}]
  /\ ground' = ground \cup {x}
  /\ UNCHANGED <<purse, consent, pot>>

PutDownMoney(p, m) ==
  /\ m <= purse[p]
  /\ purse' = [purse EXCEPT ![p] = @ - m]
  /\ pot' = pot + m
  /\ UNCHANGED <<goods, consent, ground>>

PickUpMoney(p, m) ==
  /\ m <= pot
  /\ purse' = [purse EXCEPT ![p] = @ + m]
  /\ pot' = pot - m
  /\ UNCHANGED <<goods, consent, ground>>

Init ==
  /\ goods \in [Persons -> SUBSET Items]
  /\ purse \in [Persons -> 0..Gold]
  /\ consent = [p \in Persons |-> NoDeal]
  /\ ground = {} /\ pot = 0

Next ==
  \/ Withdraw
  \/ \E p \in Persons : Consent(p)
  \/ \E p \in Persons, x \in Items : PickUp(p, x) \/ PutDown(p, x)
  \/ \E p \in Persons, x, y \in Items : PickUpOver(p, x, y)
  \/ \E p \in Persons, m \in 0..Gold : PutDownMoney(p, m) \/ PickUpMoney(p, m)
  \/ \E p, q \in Persons : Swap(p, q)

Spec == Init /\ [][Next]_vars
=============================================================================
