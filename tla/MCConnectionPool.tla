--------------------------- MODULE MCConnectionPool ---------------------------
(* ConnectionPool for TLC.  Borrowers, and connections, are interchangeable.  *)
EXTENDS ConnectionPool, TLC

Symmetric == Permutations(Borrowers) \cup Permutations(Conns)
===============================================================================
