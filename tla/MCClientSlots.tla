---------------------------- MODULE MCClientSlots ----------------------------
(* The connection slots for TLC: slots and Gaea ids are interchangeable.     *)
EXTENDS ClientSlots

Symmetry == Permutations(Slots) \cup Permutations(Gaeas)
=============================================================================
