----------------------------- MODULE CheckoutPool -----------------------------
(***************************************************************************)
(* What a connection pool promises to its borrowers: a connection is lent  *)
(* to one borrower at a time, it is one of the pool's when it is lent, the *)
(* pool never keeps more than Capacity of them, and it only throws away a  *)
(* connection that nobody has, unless it shuts down.                       *)
(*                                                                         *)
(* Whether a lent connection is still open is no part of this promise: a   *)
(* call that is cancelled while it discards a connection leaves a closed   *)
(* one in the pool, and that one is lent again (NoClosedHandedOut of       *)
(* ConnectionPool, which holds only as long as no call is cancelled).      *)
(***************************************************************************)
EXTENDS Naturals, FiniteSets

CONSTANTS Conns, Borrowers, Nothing, Capacity

VARIABLES
  kept,   \* the connections of the pool
  lent    \* what each borrower has

checkoutVars == <<kept, lent>>

CheckoutInit ==
  /\ kept = {}
  /\ lent = [b \in Borrowers |-> Nothing]

Lend(b, c) ==
  /\ lent[b] = Nothing
  /\ \A other \in Borrowers : lent[other] # c
  /\ kept' = kept \cup {c}
  /\ Cardinality(kept') <= Capacity
  /\ lent' = [lent EXCEPT ![b] = c]

GiveBack(b) ==
  /\ lent[b] # Nothing
  /\ lent' = [lent EXCEPT ![b] = Nothing]
  /\ UNCHANGED kept

Discard(c) ==
  /\ \A b \in Borrowers : lent[b] # c
  /\ kept' = kept \ {c}
  /\ UNCHANGED lent

ShutDown ==
  /\ kept' = {}
  /\ UNCHANGED lent

CheckoutNext ==
  \/ \E b \in Borrowers : GiveBack(b) \/ \E c \in Conns : Lend(b, c)
  \/ \E c \in Conns : Discard(c)
  \/ ShutDown

CheckoutSpec == CheckoutInit /\ [][CheckoutNext]_checkoutVars
===============================================================================
