---------------------------------- MODULE Nonce ----------------------------------
(***************************************************************************)
(* The nonce of an AEADCipher, a bytearray that counts the packets' parts. *)
(* The stream models keep it as a number; this module says which number,   *)
(* and how the loop of _increment_nonce moves it.                          *)
(***************************************************************************)
EXTENDS Integers, Sequences

Byte == 0..255
Nonces(width) == [1..width -> Byte]

\* bytearray(width)
FirstNonce(width) == [i \in 1..width |-> 0]

\* The loop goes from the last byte to the first, and past a byte only when that
\* byte has become zero.
Visited(nonce, i) == \A j \in i+1..Len(nonce) : (nonce[j] + 1) % 256 = 0

IncrementNonce(nonce) ==
  [i \in 1..Len(nonce) |->
     IF Visited(nonce, i) THEN (nonce[i] + 1) % 256 ELSE nonce[i]]

\* The number that a nonce is, the first byte counting most, and how many there are.
Prefixes(nonce) ==
  LET value[k \in 0..Len(nonce)] ==
        IF k = 0 THEN 0 ELSE 256 * value[k - 1] + nonce[k]
  IN value
Value(nonce) == Prefixes(nonce)[Len(nonce)]

Powers(width) ==
  LET power[k \in 0..width] == IF k = 0 THEN 1 ELSE 256 * power[k - 1]
  IN power
Span(width) == Powers(width)[width]
=============================================================================
