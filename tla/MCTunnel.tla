------------------------------- MODULE MCTunnel -------------------------------
(* Tunnel for TLC: the two directions and the bound on packets per direction. *)
EXTENDS Tunnel, Nonce

Directions == {"up", "down"}

\* The number that a nonce is, and that the loop over its bytes adds one to it.
ASSUME IncrementAddsOne ==
  \A width \in 1..3 : \A n \in [1..width -> {0, 1, 254, 255}] :
    Value(IncrementNonce(n)) = (Value(n) + 1) % Span(width)
===============================================================================
