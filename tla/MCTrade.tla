------------------------------ MODULE MCTrade ------------------------------
(* The trade for TLC: characters, ids, items and cells are interchangeable. *)
EXTENDS Trade, TLC

CONSTANTS BoxSize

MCBoxPos == 1..BoxSize

Symmetry == Permutations(Persons) \cup Permutations(Ids)
              \cup Permutations(Items) \cup Permutations(Cells)
=============================================================================
