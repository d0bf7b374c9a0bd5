----------------------------- MODULE MCCharSave -----------------------------
EXTENDS CharSave

\* Nothing tells two connections, two Gaea ids or two fields apart: Init lists
\* the free ids in every order.
Alike == Permutations(Conns) \cup Permutations(Fields)
=============================================================================
