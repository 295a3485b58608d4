------------------------------- MODULE Nonce_proofs -------------------------------
(***************************************************************************)
(* The nonce counts: incrementing is adding one, whatever the width, and   *)
(* no nonce comes twice before all of them have come.                      *)
(***************************************************************************)
EXTENDS Nonce, Induction_proofs

\* What Prefixes and Powers have in common.
Digits(f, a, d, w) == f = [k \in 0..w |-> IF k = 0 THEN a ELSE 256 * f[k - 1] + d[k]]

\* There is such a function: it is built one place at a time.
LEMMA DigitsExist ==
  ASSUME NEW w \in Nat, NEW a, NEW d
  PROVE  \E f : Digits(f, a, d, w)
<1> DEFINE S == {n \in Nat : \E f : Digits(f, a, d, n)}
<1>1. 0 \in S
  <2> DEFINE f == [k \in 0..0 |-> a]
  <2>1. Digits(f, a, d, 0)
    BY DEF Digits
  <2> QED
    BY <2>1
<1>2. ASSUME NEW n \in Nat, n \in S
      PROVE  n + 1 \in S
  <2>1. PICK h : Digits(h, a, d, n)
    BY <1>2
  <2> DEFINE e(g, k) == IF k = 0 THEN a ELSE 256 * g[k - 1] + d[k]
             f == [k \in 0..n+1 |-> e(h, k)]
  <2>2. \A k \in 0..n : f[k] = h[k]
    BY <2>1 DEF Digits
  <2>3. \A k \in 0..n+1 : e(f, k) = e(h, k)
    <3> HIDE DEF f
    <3> QED
      BY <2>2
  <2>4. f = [k \in 0..n+1 |-> e(f, k)]
    <3>1. f = [k \in 0..n+1 |-> e(h, k)]
      OBVIOUS
    <3> HIDE DEF f, e
    <3> QED
      BY <2>3, <3>1
  <2> HIDE DEF f
  <2>5. Digits(f, a, d, n + 1)
    BY <2>4 DEF Digits
  <2> QED
    BY <2>5
<1> HIDE DEF S
<1>3. w \in S
  BY <1>1, <1>2, AllNumbers
<1> QED
  BY <1>3 DEF S

\* Its values are numbers when the first one and the digits are.
LEMMA DigitsType ==
  ASSUME NEW w \in Nat, NEW a \in Nat, NEW d, NEW f, Digits(f, a, d, w),
         \A k \in 1..w : d[k] \in Nat
  PROVE  \A k \in 0..w : f[k] \in Nat
<1>1. f[0] = a /\ \A k \in 1..w : f[k] = 256 * f[k - 1] + d[k]
  BY DEF Digits
<1> DEFINE S == {n \in Nat : n <= w => f[n] \in Nat}
<1>2. 0 \in S
  BY <1>1
<1>3. ASSUME NEW n \in Nat, n \in S PROVE n + 1 \in S
  BY <1>1, <1>3
<1> HIDE DEF S
<1>4. Nat \subseteq S
  BY <1>2, <1>3, AllNumbers
<1> QED
  BY <1>1, <1>4 DEF S

\* A nonce is a sequence of its bytes.
LEMMA NonceLen ==
  ASSUME NEW w \in Nat, NEW n \in Nonces(w)
  PROVE  Len(n) = w /\ \A k \in 1..w : n[k] \in Byte /\ n[k] \in Nat
<1>1. n \in Seq(Byte) /\ DOMAIN n = 1..w
  BY DEF Nonces
<1>2. \A k \in 1..w : n[k] \in Byte
  BY DEF Nonces
<1>3. Len(n) = w
  BY <1>1
<1>4. \A k \in 1..w : n[k] \in Nat
  BY <1>2 DEF Byte
<1> QED
  BY <1>2, <1>3, <1>4

\* What Prefixes computes.
LEMMA PrefixesDef ==
  ASSUME NEW w \in Nat, NEW n \in Nonces(w)
  PROVE  /\ \A k \in 0..w : Prefixes(n)[k] \in Nat
         /\ Prefixes(n)[0] = 0
         /\ \A k \in 1..w : Prefixes(n)[k] = 256 * Prefixes(n)[k - 1] + n[k]
<1>1. Len(n) = w /\ \A k \in 1..w : n[k] \in Nat
  BY NonceLen
<1>2. Prefixes(n) = CHOOSE v : Digits(v, 0, n, Len(n))
  BY DEF Prefixes, Digits
<1>3. Digits(Prefixes(n), 0, n, w)
  BY <1>1, <1>2, DigitsExist
<1> QED
  <2> DEFINE v == Prefixes(n)
  <2> HIDE DEF v
  <2>1. Digits(v, 0, n, w)
    BY <1>3 DEF v
  <2>2. \A k \in 0..w : v[k] \in Nat
    BY <1>1, <2>1, DigitsType
  <2>3. v[0] = 0 /\ \A k \in 1..w : v[k] = 256 * v[k - 1] + n[k]
    BY <1>1, <2>1, <2>2 DEF Digits
  <2> QED
    BY <2>2, <2>3 DEF v

\* What Powers computes.
LEMMA PowersDef ==
  ASSUME NEW w \in Nat
  PROVE  /\ \A k \in 0..w : Powers(w)[k] \in Nat
         /\ Powers(w)[0] = 1
         /\ \A k \in 1..w : Powers(w)[k] = 256 * Powers(w)[k - 1]
<1> DEFINE v == Powers(w)
           Step(f) == [k \in 0..w |-> IF k = 0 THEN 1 ELSE 256 * f[k - 1]]
           none == [k \in 1..w |-> 0]
<1>1. v = CHOOSE f : f = Step(f)
  BY DEF Powers
<1> HIDE DEF v
<1>2. PICK f : Digits(f, 1, none, w)
  BY DigitsExist
<1>3. \A k \in 0..w : f[k] \in Nat
  BY <1>2, DigitsType
<1>4. f = Step(f)
  <2>1. f = [k \in 0..w |-> IF k = 0 THEN 1 ELSE 256 * f[k - 1] + none[k]]
    BY <1>2 DEF Digits
  <2>2. \A k \in 0..w : f[k] = IF k = 0 THEN 1 ELSE 256 * f[k - 1]
    BY <1>3, <2>1
  <2> QED
    BY <2>1, <2>2
<1>5. v = Step(v)
  <2> HIDE DEF Step
  <2> QED
    BY <1>1, <1>4
<1>6. v[0] = 1 /\ \A k \in 1..w : v[k] = 256 * v[k - 1]
  BY <1>5
<1>7. \A k \in 0..w : v[k] \in Nat
  <2> DEFINE S == {k \in Nat : k <= w => v[k] \in Nat}
  <2>1. 0 \in S
    BY <1>6
  <2>2. ASSUME NEW k \in Nat, k \in S PROVE k + 1 \in S
    BY <1>6, <2>2
  <2> HIDE DEF S
  <2>3. Nat \subseteq S
    BY <2>1, <2>2, AllNumbers
  <2> QED
    BY <2>3 DEF S
<1> QED
  BY <1>6, <1>7 DEF v

-----------------------------------------------------------------------------
\* Counting.

\* What the loop makes of a nonce is one of the same width.
LEMMA IncrementType ==
  ASSUME NEW w \in Nat, NEW n \in Nonces(w)
  PROVE  /\ IncrementNonce(n) \in Nonces(w)
         /\ \A k \in 1..w : IncrementNonce(n)[k] =
              IF Visited(n, k) THEN (n[k] + 1) % 256 ELSE n[k]
<1>1. Len(n) = w /\ \A k \in 1..w : n[k] \in Byte
  BY NonceLen
<1>2. IncrementNonce(n) = [k \in 1..w |-> IF Visited(n, k) THEN (n[k] + 1) % 256 ELSE n[k]]
  BY <1>1 DEF IncrementNonce
<1>3. \A b \in Byte : (b + 1) % 256 \in Byte
  BY DEF Byte
<1>4. \A k \in 1..w : (IF Visited(n, k) THEN (n[k] + 1) % 256 ELSE n[k]) \in Byte
  BY <1>1, <1>3
<1> QED
  BY <1>2, <1>4 DEF Nonces

\* The loop comes to the byte before k when it comes to k and leaves zero there.
LEMMA VisitedBefore ==
  ASSUME NEW w \in Nat, NEW n \in Nonces(w), NEW k \in 1..w
  PROVE  /\ Visited(n, w)
         /\ Visited(n, k - 1) <=> Visited(n, k) /\ (n[k] + 1) % 256 = 0
<1>1. Len(n) = w
  BY NonceLen
<1>2. (k - 1) + 1..w = {k} \cup (k + 1..w)
  OBVIOUS
<1>3. w + 1..w = {}
  OBVIOUS
<1> QED
  BY <1>1, <1>2, <1>3 DEF Visited

\* The first k bytes count one more when the loop comes to the k-th, and go round
\* to zero after the last number they can show.
CountsTo(n, w, k) ==
  LET old == Prefixes(n)[k]
      new == Prefixes(IncrementNonce(n))[k]
      all == Powers(w)[k]
  IN /\ old < all
     /\ new = IF ~Visited(n, k) THEN old ELSE IF old + 1 = all THEN 0 ELSE old + 1

\* One byte more.
LEMMA CountsToNext ==
  ASSUME NEW w \in Nat, NEW n \in Nonces(w), NEW k \in 1..w, CountsTo(n, w, k - 1)
  PROVE  CountsTo(n, w, k)
<1> DEFINE old == Prefixes(n)
           new == Prefixes(IncrementNonce(n))
           all == Powers(w)
           d == n[k]
           e == IncrementNonce(n)[k]
<1>1. /\ old[k - 1] \in Nat /\ old[k] = 256 * old[k - 1] + d
      /\ new[k - 1] \in Nat /\ new[k] = 256 * new[k - 1] + e
      /\ all[k - 1] \in Nat /\ all[k] = 256 * all[k - 1]
  BY PrefixesDef, PowersDef, IncrementType
<1>2. d \in 0..255 /\ e = IF Visited(n, k) THEN (d + 1) % 256 ELSE d
  BY NonceLen, IncrementType DEF Byte
<1>3. Visited(n, k - 1) <=> Visited(n, k) /\ (d + 1) % 256 = 0
  BY VisitedBefore
<1>4. /\ old[k - 1] < all[k - 1]
      /\ new[k - 1] = IF ~Visited(n, k - 1) THEN old[k - 1]
                      ELSE IF old[k - 1] + 1 = all[k - 1] THEN 0 ELSE old[k - 1] + 1
  BY DEF CountsTo
<1> SUFFICES /\ old[k] < all[k]
             /\ new[k] = IF ~Visited(n, k) THEN old[k]
                         ELSE IF old[k] + 1 = all[k] THEN 0 ELSE old[k] + 1
  BY DEF CountsTo
<1> HIDE DEF old, new, all, d, e
<1>5. old[k] < all[k]
  BY <1>1, <1>2, <1>4
<1>6. CASE ~Visited(n, k)
  BY <1>1, <1>2, <1>3, <1>4, <1>5, <1>6
<1>7. CASE Visited(n, k) /\ d < 255
  BY <1>1, <1>2, <1>3, <1>4, <1>5, <1>7
<1>8. CASE Visited(n, k) /\ d = 255
  BY <1>1, <1>2, <1>3, <1>4, <1>5, <1>8
<1> QED
  BY <1>2, <1>6, <1>7, <1>8

\* _increment_nonce adds one to the number that the nonce is, modulo the number
\* of nonces of its width: 256 ^ 12 for the twelve bytes of an AEADCipher.
THEOREM NonceCounts ==
  ASSUME NEW w \in Nat \ {0}, NEW n \in Nonces(w)
  PROVE  /\ IncrementNonce(n) \in Nonces(w)
         /\ Value(n) \in 0..Span(w)-1
         /\ Value(IncrementNonce(n)) = (Value(n) + 1) % Span(w)
<1> DEFINE S == {k \in Nat : k <= w => CountsTo(n, w, k)}
<1>1. 0 \in S
  <2>1. Prefixes(n)[0] = 0 /\ Prefixes(IncrementNonce(n))[0] = 0 /\ Powers(w)[0] = 1
    BY PrefixesDef, PowersDef, IncrementType
  <2> QED
    BY <2>1 DEF CountsTo
<1>2. ASSUME NEW k \in Nat, k \in S PROVE k + 1 \in S
  <2> SUFFICES ASSUME k + 1 <= w PROVE CountsTo(n, w, k + 1)
    OBVIOUS
  <2>1. k + 1 \in 1..w /\ (k + 1) - 1 = k
    OBVIOUS
  <2> QED
    BY <1>2, <2>1, CountsToNext
<1> HIDE DEF S
<1>3. CountsTo(n, w, w)
  <2>1. w \in S
    BY <1>1, <1>2, AllNumbers
  <2> QED
    BY <2>1 DEF S
<1>4. Visited(n, w) /\ IncrementNonce(n) \in Nonces(w)
  BY VisitedBefore, IncrementType
<1>5. /\ Value(n) = Prefixes(n)[w] /\ Value(n) \in Nat
      /\ Value(IncrementNonce(n)) = Prefixes(IncrementNonce(n))[w]
      /\ Span(w) = Powers(w)[w] /\ Span(w) \in Nat
  BY <1>4, NonceLen, PrefixesDef, PowersDef DEF Value, Span
<1>6. /\ Value(n) < Span(w)
      /\ Value(IncrementNonce(n)) = IF Value(n) + 1 = Span(w) THEN 0 ELSE Value(n) + 1
  BY <1>3, <1>4, <1>5 DEF CountsTo
<1>7. \A x, m \in Nat : x < m => (x + 1) % m = IF x + 1 = m THEN 0 ELSE x + 1
  OBVIOUS
<1> QED
  BY <1>4, <1>5, <1>6, <1>7

\* The first of them is zero.
LEMMA FirstNonceIsZero ==
  ASSUME NEW w \in Nat
  PROVE  FirstNonce(w) \in Nonces(w) /\ Value(FirstNonce(w)) = 0
<1> DEFINE n == FirstNonce(w)
           v == Prefixes(n)
           S == {k \in Nat : k <= w => v[k] = 0}
<1>1. n \in Nonces(w) /\ \A k \in 1..w : n[k] = 0
  BY DEF FirstNonce, Nonces, Byte
<1>2. v[0] = 0 /\ \A k \in 1..w : v[k] = 256 * v[k - 1] + n[k]
  BY <1>1, PrefixesDef
<1> HIDE DEF n, v
<1>3. 0 \in S
  BY <1>2
<1>4. ASSUME NEW k \in Nat, k \in S PROVE k + 1 \in S
  BY <1>1, <1>2, <1>4
<1> HIDE DEF S
<1>5. w \in S
  BY <1>3, <1>4, AllNumbers
<1>6. v[w] = 0
  BY <1>5 DEF S
<1>7. Value(n) = v[w]
  BY <1>1, NonceLen DEF Value, v
<1> QED
  BY <1>1, <1>6, <1>7 DEF n

\* A cipher uses no nonce twice: counting up from zero, the nonces of any two of the
\* first Span(w) calls of encrypt or decrypt differ.
THEOREM NonceOnce ==
  ASSUME NEW w \in Nat \ {0}, NEW f \in [Nat -> Nonces(w)], f[0] = FirstNonce(w),
         \A i \in Nat : f[i + 1] = IncrementNonce(f[i])
  PROVE  \A i, j \in 0..Span(w)-1 : f[i] = f[j] => i = j
<1> DEFINE S == {i \in Nat : i < Span(w) => Value(f[i]) = i}
<1>1. Span(w) \in Nat
  BY PowersDef DEF Span
<1>2. 0 \in S
  BY FirstNonceIsZero
<1>3. ASSUME NEW i \in Nat, i \in S PROVE i + 1 \in S
  <2> SUFFICES ASSUME i + 1 < Span(w) PROVE Value(f[i + 1]) = i + 1
    OBVIOUS
  <2>1. Value(f[i]) = i
    BY <1>1, <1>3
  <2>2. Value(f[i + 1]) = (i + 1) % Span(w)
    BY <2>1, NonceCounts
  <2> QED
    BY <1>1, <2>2
<1> HIDE DEF S
<1>4. Nat \subseteq S
  BY <1>2, <1>3, AllNumbers
<1>5. \A i \in 0..Span(w)-1 : Value(f[i]) = i
  BY <1>1, <1>4 DEF S
<1> QED
  BY <1>5
=============================================================================
