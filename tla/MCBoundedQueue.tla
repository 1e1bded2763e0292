--------------------------- MODULE MCBoundedQueue ---------------------------
(* Instances of BoundedQueue for TLC.                                      *)
EXTENDS BoundedQueue, TLC

\* The signed difference in is_past_last() is right only while fewer than
\* half the values of count_t (2^31) lie between two live tickets; a small
\* CountMod must leave the same room.
ASSUME WordIsWide == Cardinality(Producers) + Size < CountMod \div 2

\* Threads with the same role are interchangeable; used by safety runs only.
Symmetry == Permutations(Producers) \cup Permutations(Consumers)
=============================================================================
