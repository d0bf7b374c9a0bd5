----------------------------- MODULE MCPMarket -----------------------------
EXTENDS PMarket, TLC

\* The buyers are alike, and so are the cells: no search minds their order.
Alike == Permutations(Persons \ Sellers) \cup Permutations(Cells)
=============================================================================
