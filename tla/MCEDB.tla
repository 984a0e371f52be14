------------------------------- MODULE MCEDB -------------------------------
EXTENDS EDB

\* Records a torn write shows in: a mix of two is none of them.
MCRecords == {[j \in 1..RecSize |-> v] : v \in {1, 2}}

\* No two neighbouring bytes alike, so that a copied byte shows.
MCChip == [a \in Address |-> a % Base]
=============================================================================
