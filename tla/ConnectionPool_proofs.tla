------------------------- MODULE ConnectionPool_proofs -------------------------
(***************************************************************************)
(* Proofs about the connection pool, for any number of connections and     *)
(* borrowers, any limits, with and without cancellation and stop.          *)
(***************************************************************************)
EXTENDS ConnectionPool, FiniteSetTheorems, TLAPS

\* The borrower that is in the middle of creating or discarding a connection
\* has the lock, and only it.
LockInv ==
  \A b \in Borrowers : lock = b <=> pc[b] \in {"creating", "discarding"}

\* A borrower has a connection from where get_connection returns to where
\* return_connection is through.
HandsInv ==
  \A b \in Borrowers :
    got[b] = NoConn <=> pc[b] \in {"away", "getting", "asleep", "creating"}

\* What the two collections of the pool say of a connection in a borrower's hand.
AccountInv ==
  /\ inUse \subseteq connections
  /\ lock = "cleanup" => doomed \cap inUse = {}
  /\ \A b \in Borrowers :
       IF pc[b] = "discarding" THEN got[b] \notin inUse
       ELSE got[b] \in connections => got[b] \in inUse

\* While stop has the lock, all it knows of is closed.
StopInv == lock = "stop" => \A c \in connections : link[c] = "closed"

\* A task that creates a connection has room for it.
RoomInv ==
  /\ Cardinality(connections) <= MaxConnections
  /\ \A b \in Borrowers :
       pc[b] = "creating" => Cardinality(connections) < MaxConnections

PoolInv ==
  /\ LockInv /\ HandsInv /\ AccountInv /\ StopInv /\ RoomInv
  /\ Exclusive /\ HeldIsInUse

-----------------------------------------------------------------------------
\* Every variable keeps its type.
THEOREM PoolTypeCorrect == PoolSpec => []PoolType
<1>1. Init => PoolType
  <2> SUFFICES ASSUME Init PROVE PoolType
    OBVIOUS
  <2>1. healthy \in [Conns -> BOOLEAN] /\ overdue \in [Borrowers -> BOOLEAN]
    BY DEF Init
  <2>2. /\ pc \in [Borrowers -> {"away", "getting", "asleep", "creating", "using",
                               "returning", "discarding"}]
        /\ got \in [Borrowers -> Conns \cup {NoConn}]
        /\ usage \in [Conns -> Nat] /\ idle \in [Conns -> 0 .. 2]
        /\ link \in [Conns -> {"open", "worn", "closed"}]
    BY DEF Init
  <2>3. /\ running \in BOOLEAN /\ stopping \in BOOLEAN
        /\ lock \in Borrowers \cup {"free", "cleanup", "stop"}
        /\ connections \subseteq Conns /\ inUse \subseteq Conns /\ doomed \subseteq Conns
    BY DEF Init
  <2> QED
    BY <2>1, <2>2, <2>3 DEF PoolType
<1>2. PoolType /\ [Next]_poolVars => PoolType'
  <2> SUFFICES ASSUME PoolType, [Next]_poolVars
               PROVE  PoolType'
    OBVIOUS
  <2> USE DEF PoolType, Goto, taskVars, connVars
  <2>1. ASSUME NEW b \in Borrowers, GetCall(b) \/ ReturnCall(b) \/ Cancel(b) \/ TimeOut(b)
        PROVE  PoolType'
    <3>1. CASE GetCall(b)
      BY <3>1 DEF GetCall
    <3>2. CASE ReturnCall(b)
      BY <3>2 DEF ReturnCall
    <3>3. CASE Cancel(b)
      BY <3>3 DEF Cancel
    <3>4. CASE TimeOut(b)
      BY <3>4 DEF TimeOut
    <3> QED
      BY <2>1, <3>1, <3>2, <3>3, <3>4
  <2>2. ASSUME NEW c \in Conns, GrowsStale(c) \/ WearsOut(c)
        PROVE  PoolType'
    <3>1. CASE GrowsStale(c)
      <4>1. idle[c] + 1 \in 0 .. 2
        BY <3>1 DEF GrowsStale
      <4> QED
        BY <3>1, <4>1 DEF GrowsStale
    <3>2. CASE WearsOut(c)
      BY <3>2 DEF WearsOut
    <3> QED
      BY <2>2, <3>1, <3>2
  <2>3. CASE Start \/ StopCall \/ StopClose \/ StopDone
    BY <2>3 DEF Start, StopCall, StopClose, StopDone
  <2>4. ASSUME NEW b \in Borrowers, Get(b) PROVE PoolType'
    <3>1. CASE GetReuse(b)
      <4>1. PICK c \in Available :
              /\ inUse' = inUse \cup {c}
              /\ idle' = [idle EXCEPT ![c] = 0]
              /\ usage' = [usage EXCEPT ![c] = OneMore(usage[c])]
              /\ got' = [got EXCEPT ![b] = c]
        BY <3>1 DEF GetReuse
      <4>2. c \in Conns /\ OneMore(usage[c]) \in Nat
        BY DEF Available, Unused, OneMore
      <4>3. pc' = [pc EXCEPT ![b] = "using"]
            /\ UNCHANGED <<running, stopping, overdue, lock, connections, doomed, healthy, link>>
        BY <3>1 DEF GetReuse
      <4> QED
        BY <4>1, <4>2, <4>3
    <3>2. CASE GetCreate(b)
      BY <3>2 DEF GetCreate
    <3>3. CASE GetCreated(b)
      <4>1. PICK c \in Fresh :
              /\ connections' = connections \cup {c}
              /\ inUse' = inUse \cup {c}
              /\ usage' = [usage EXCEPT ![c] = 1]
              /\ healthy' = [healthy EXCEPT ![c] = TRUE]
              /\ idle' = [idle EXCEPT ![c] = 0]
              /\ link' = [link EXCEPT ![c] = "open"]
              /\ got' = [got EXCEPT ![b] = c]
        BY <3>3 DEF GetCreated
      <4>2. c \in Conns
        BY DEF Fresh
      <4>3. /\ lock' = "free" /\ pc' = [pc EXCEPT ![b] = "using"]
            /\ UNCHANGED <<running, stopping, overdue, doomed>>
        BY <3>3 DEF GetCreated
      <4> QED
        BY <4>1, <4>2, <4>3
    <3>4. CASE GetFailed(b)
      BY <3>4 DEF GetFailed
    <3>5. CASE GetSleep(b)
      BY <3>5 DEF GetSleep
    <3>6. CASE GetAgain(b)
      BY <3>6 DEF GetAgain
    <3> QED
      BY <2>4, <3>1, <3>2, <3>3, <3>4, <3>5, <3>6 DEF Get
  <2>5. ASSUME NEW b \in Borrowers, Return(b) PROVE PoolType'
    <3>1. CASE ReturnKeep(b)
      BY <3>1 DEF ReturnKeep
    <3>2. CASE ReturnDiscard(b)
      BY <3>2 DEF ReturnDiscard
    <3>3. CASE ReturnDiscarded(b)
      BY <3>3 DEF ReturnDiscarded
    <3>4. CASE ReturnUnknown(b)
      BY <3>4 DEF ReturnUnknown
    <3> QED
      BY <2>5, <3>1, <3>2, <3>3, <3>4 DEF Return
  <2>6. CASE CheckHealth
    <3>1. \A c \in Conns : (healthy[c] /\ (c \in Unused => IsHealthy(c))) \in BOOLEAN
      OBVIOUS
    <3> QED
      BY <2>6, <3>1, Zenon DEF CheckHealth
  <2>7. CASE Cleanup
    <3>1. CASE CleanupStart
      BY <3>1 DEF CleanupStart, Stale, Unused
    <3>2. CASE CleanupNext
      BY <3>2 DEF CleanupNext
    <3>3. CASE CleanupCancelled
      BY <3>3 DEF CleanupCancelled
    <3> QED
      BY <2>7, <3>1, <3>2, <3>3 DEF Cleanup
  <2>8. CASE UNCHANGED poolVars
    BY <2>8 DEF poolVars
  <2> QED
    BY <2>1, <2>2, <2>3, <2>4, <2>5, <2>6, <2>7, <2>8 DEF Next, Environment, Stop
<1> QED
  BY <1>1, <1>2, PTL DEF PoolSpec

-----------------------------------------------------------------------------
LEMMA LockStep ==
  ASSUME PoolType, LockInv, [Next]_poolVars
  PROVE  LockInv'
<1> USE PoolAssumption DEF PoolType, LockInv, Goto, taskVars, connVars
<1>1. CASE UNCHANGED <<lock, pc>>
  BY <1>1
<1>2. ASSUME NEW b \in Borrowers, GetCall(b) \/ ReturnCall(b) \/ Cancel(b) \/ TimeOut(b)
      PROVE  LockInv'
  <2>1. CASE GetCall(b)
    BY <2>1 DEF GetCall
  <2>2. CASE ReturnCall(b)
    BY <2>2 DEF ReturnCall
  <2>3. CASE Cancel(b)
    BY <2>3 DEF Cancel
  <2>4. CASE TimeOut(b)
    BY <1>1, <2>4 DEF TimeOut
  <2> QED
    BY <1>2, <2>1, <2>2, <2>3, <2>4
<1>3. ASSUME NEW b \in Borrowers, Get(b) PROVE LockInv'
  <2>1. CASE GetReuse(b)
    BY <2>1 DEF GetReuse
  <2>2. CASE GetCreate(b)
    BY <2>2 DEF GetCreate
  <2>3. CASE GetCreated(b)
    BY <2>3 DEF GetCreated
  <2>4. CASE GetFailed(b)
    BY <2>4 DEF GetFailed
  <2>5. CASE GetSleep(b)
    BY <2>5 DEF GetSleep
  <2>6. CASE GetAgain(b)
    BY <2>6 DEF GetAgain
  <2> QED
    BY <1>3, <2>1, <2>2, <2>3, <2>4, <2>5, <2>6 DEF Get
<1>4. ASSUME NEW b \in Borrowers, Return(b) PROVE LockInv'
  <2>1. CASE ReturnKeep(b)
    BY <2>1 DEF ReturnKeep
  <2>2. CASE ReturnDiscard(b)
    BY <2>2 DEF ReturnDiscard
  <2>3. CASE ReturnDiscarded(b)
    BY <2>3 DEF ReturnDiscarded
  <2>4. CASE ReturnUnknown(b)
    BY <2>4 DEF ReturnUnknown
  <2> QED
    BY <1>4, <2>1, <2>2, <2>3, <2>4 DEF Return
<1>5. CASE Cleanup
  BY <1>5 DEF Cleanup, CleanupStart, CleanupNext, CleanupCancelled
<1>6. CASE Stop
  BY <1>6 DEF Stop, StopClose, StopDone
<1>7. CASE CheckHealth \/ Start \/ StopCall
  BY <1>1, <1>7 DEF CheckHealth, Start, StopCall
<1>8. ASSUME NEW c \in Conns, GrowsStale(c) \/ WearsOut(c)
      PROVE  LockInv'
  BY <1>1, <1>8 DEF GrowsStale, WearsOut
<1> QED
  BY <1>1, <1>2, <1>3, <1>4, <1>5, <1>6, <1>7, <1>8 DEF Next, Environment, poolVars

LEMMA HandsStep ==
  ASSUME PoolType, HandsInv, [Next]_poolVars
  PROVE  HandsInv'
<1> USE PoolAssumption DEF PoolType, HandsInv, Goto, taskVars, connVars
<1>1. CASE UNCHANGED <<got, pc>>
  BY <1>1
<1>2. ASSUME NEW b \in Borrowers, GetCall(b) \/ ReturnCall(b) \/ Cancel(b) \/ TimeOut(b)
      PROVE  HandsInv'
  <2>1. CASE GetCall(b)
    BY <2>1 DEF GetCall
  <2>2. CASE ReturnCall(b)
    BY <2>2 DEF ReturnCall
  <2>3. CASE Cancel(b)
    BY <2>3 DEF Cancel
  <2>4. CASE TimeOut(b)
    BY <1>1, <2>4 DEF TimeOut
  <2> QED
    BY <1>2, <2>1, <2>2, <2>3, <2>4
<1>3. ASSUME NEW b \in Borrowers, Get(b) PROVE HandsInv'
  <2>1. CASE GetReuse(b)
    <3>1. PICK c \in Available : got' = [got EXCEPT ![b] = c]
      BY <2>1 DEF GetReuse
    <3>2. c # NoConn
      BY DEF Available, Unused
    <3> QED
      BY <2>1, <3>1, <3>2 DEF GetReuse
  <2>2. CASE GetCreate(b)
    BY <2>2 DEF GetCreate
  <2>3. CASE GetCreated(b)
    <3>1. PICK c \in Fresh : got' = [got EXCEPT ![b] = c]
      BY <2>3 DEF GetCreated
    <3>2. c # NoConn
      BY DEF Fresh
    <3> QED
      BY <2>3, <3>1, <3>2 DEF GetCreated
  <2>4. CASE GetFailed(b)
    BY <2>4 DEF GetFailed
  <2>5. CASE GetSleep(b)
    BY <2>5 DEF GetSleep
  <2>6. CASE GetAgain(b)
    BY <2>6 DEF GetAgain
  <2> QED
    BY <1>3, <2>1, <2>2, <2>3, <2>4, <2>5, <2>6 DEF Get
<1>4. ASSUME NEW b \in Borrowers, Return(b) PROVE HandsInv'
  <2>1. CASE ReturnKeep(b)
    BY <2>1 DEF ReturnKeep
  <2>2. CASE ReturnDiscard(b)
    BY <2>2 DEF ReturnDiscard
  <2>3. CASE ReturnDiscarded(b)
    BY <2>3 DEF ReturnDiscarded
  <2>4. CASE ReturnUnknown(b)
    BY <2>4 DEF ReturnUnknown
  <2> QED
    BY <1>4, <2>1, <2>2, <2>3, <2>4 DEF Return
<1>5. CASE Cleanup \/ Stop \/ CheckHealth \/ Start \/ StopCall
  BY <1>1, <1>5 DEF Cleanup, CleanupStart, CleanupNext, CleanupCancelled,
                    Stop, StopClose, StopDone, CheckHealth, Start, StopCall
<1>6. ASSUME NEW c \in Conns, GrowsStale(c) \/ WearsOut(c)
      PROVE  HandsInv'
  BY <1>1, <1>6 DEF GrowsStale, WearsOut
<1> QED
  BY <1>1, <1>2, <1>3, <1>4, <1>5, <1>6 DEF Next, Environment, poolVars

\* A borrower is lent a connection that no other borrower has.
LEMMA NotHeldTwice ==
  ASSUME PoolType, LockInv, AccountInv, NEW b \in Borrowers, NEW c \in Conns,
         c \in Fresh \/ (lock = "free" /\ c \in Available)
  PROVE  got[b] # c
<1>1. CASE c \in Fresh
  BY <1>1 DEF Fresh
<1>2. CASE lock = "free" /\ c \in Available
  <2>1. c \in connections /\ c \notin inUse
    BY <1>2 DEF Available, Unused
  <2>2. pc[b] # "discarding"
    BY <1>2, PoolAssumption DEF LockInv, PoolType
  <2> QED
    BY <2>1, <2>2 DEF AccountInv
<1> QED
  BY <1>1, <1>2

\* Who gets a connection in a step, and which.
LEMMA GotStep ==
  ASSUME PoolType, [Next]_poolVars
  PROVE  \/ \E b \in Borrowers, c \in Conns :
              /\ c \in Fresh \/ (lock = "free" /\ c \in Available)
              /\ got' = [got EXCEPT ![b] = c]
         \/ \E b \in Borrowers : got' = [got EXCEPT ![b] = NoConn]
         \/ UNCHANGED got
<1> USE DEF PoolType, taskVars
<1>1. ASSUME NEW b \in Borrowers, Get(b)
      PROVE  \/ \E c \in Conns :
                  /\ c \in Fresh \/ (lock = "free" /\ c \in Available)
                  /\ got' = [got EXCEPT ![b] = c]
             \/ UNCHANGED got
  <2>1. CASE GetReuse(b)
    BY <2>1 DEF GetReuse, Available, Unused
  <2>2. CASE GetCreated(b)
    BY <2>2 DEF GetCreated, Fresh
  <2> QED
    BY <1>1, <2>1, <2>2 DEF Get, GetCreate, GetFailed, GetSleep, GetAgain
<1>2. ASSUME NEW b \in Borrowers,
             GetCall(b) \/ ReturnCall(b) \/ Cancel(b) \/ TimeOut(b) \/ Return(b)
      PROVE  got' = [got EXCEPT ![b] = NoConn] \/ UNCHANGED got
  BY <1>2 DEF GetCall, ReturnCall, Cancel, TimeOut, Return, ReturnKeep, ReturnDiscard,
              ReturnDiscarded, ReturnUnknown
<1>3. CASE Cleanup \/ Stop \/ CheckHealth \/ Start \/ StopCall
  BY <1>3 DEF Cleanup, CleanupStart, CleanupNext, CleanupCancelled,
              Stop, StopClose, StopDone, CheckHealth, Start, StopCall
<1>4. ASSUME NEW c \in Conns, GrowsStale(c) \/ WearsOut(c)
      PROVE  UNCHANGED got
  BY <1>4 DEF GrowsStale, WearsOut
<1> QED
  BY <1>1, <1>2, <1>3, <1>4 DEF Next, Environment, poolVars

LEMMA ExclusiveStep ==
  ASSUME PoolType, LockInv, AccountInv, Exclusive, [Next]_poolVars
  PROVE  Exclusive'
<1>1. ASSUME NEW b \in Borrowers, NEW c \in Conns,
             c \in Fresh \/ (lock = "free" /\ c \in Available),
             got' = [got EXCEPT ![b] = c]
      PROVE  Exclusive'
  <2>1. \A a \in Borrowers : got[a] # c
    BY <1>1, NotHeldTwice
  <2> QED
    BY <1>1, <2>1 DEF Exclusive, PoolType
<1>2. ASSUME NEW b \in Borrowers, got' = [got EXCEPT ![b] = NoConn]
      PROVE  Exclusive'
  BY <1>2 DEF Exclusive, PoolType
<1>3. CASE UNCHANGED got
  BY <1>3 DEF Exclusive
<1> QED
  BY <1>1, <1>2, <1>3, GotStep

LEMMA AccountStep ==
  ASSUME PoolType, LockInv, HandsInv, Exclusive, AccountInv, [Next]_poolVars
  PROVE  AccountInv'
<1> USE PoolAssumption DEF PoolType, AccountInv, Goto, taskVars, connVars
<1>0. NoConn \notin connections /\ NoConn \notin inUse
  OBVIOUS
<1>1. CASE UNCHANGED <<lock, pc, got, connections, inUse, doomed>>
  BY <1>1
<1>2. ASSUME NEW b \in Borrowers, GetCall(b) \/ ReturnCall(b) \/ Cancel(b) \/ TimeOut(b)
      PROVE  AccountInv'
  <2>1. CASE GetCall(b)
    BY <2>1 DEF GetCall
  <2>2. CASE ReturnCall(b)
    BY <2>2 DEF ReturnCall
  <2>3. CASE Cancel(b)
    BY <1>0, <2>3 DEF Cancel
  <2>4. CASE TimeOut(b)
    BY <1>1, <2>4 DEF TimeOut
  <2> QED
    BY <1>2, <2>1, <2>2, <2>3, <2>4
<1>3. ASSUME NEW b \in Borrowers, Get(b) PROVE AccountInv'
  <2>1. CASE GetReuse(b)
    <3>1. PICK c \in Available : inUse' = inUse \cup {c} /\ got' = [got EXCEPT ![b] = c]
      BY <2>1 DEF GetReuse
    <3>2. c \in connections /\ \A x \in Borrowers : pc[x] # "discarding"
      BY <2>1 DEF Available, Unused, GetReuse, LockInv
    <3>3. /\ lock' = "free" /\ pc' = [pc EXCEPT ![b] = "using"]
          /\ UNCHANGED <<connections, doomed>>
      BY <2>1 DEF GetReuse
    <3> QED
      BY <3>1, <3>2, <3>3
  <2>2. CASE GetCreate(b)
    BY <2>2 DEF GetCreate
  <2>3. CASE GetCreated(b)
    <3>1. PICK c \in Fresh : /\ connections' = connections \cup {c}
                             /\ inUse' = inUse \cup {c}
                             /\ got' = [got EXCEPT ![b] = c]
      BY <2>3 DEF GetCreated
    <3>2. \A x \in Borrowers : pc[x] # "discarding" /\ got[x] # c
      BY <2>3 DEF Fresh, GetCreated, LockInv
    <3>3. lock' = "free" /\ pc' = [pc EXCEPT ![b] = "using"]
      BY <2>3 DEF GetCreated
    <3> QED
      BY <3>1, <3>2, <3>3
  <2>4. CASE GetFailed(b)
    BY <2>4 DEF GetFailed
  <2>5. CASE GetSleep(b)
    BY <2>5 DEF GetSleep
  <2>6. CASE GetAgain(b)
    BY <2>6 DEF GetAgain
  <2> QED
    BY <1>3, <2>1, <2>2, <2>3, <2>4, <2>5, <2>6 DEF Get
<1>4. ASSUME NEW b \in Borrowers, Return(b) PROVE AccountInv'
  <2>0. pc[b] \in {"returning", "discarding"} =>
          \A x \in Borrowers \ {b} : got[x] # got[b]
    BY DEF Exclusive, HandsInv
  <2>1. CASE ReturnKeep(b)
    BY <1>0, <2>0, <2>1 DEF ReturnKeep
  <2>2. CASE ReturnDiscard(b)
    BY <2>0, <2>2 DEF ReturnDiscard
  <2>3. CASE ReturnDiscarded(b)
    BY <1>0, <2>0, <2>3 DEF ReturnDiscarded
  <2>4. CASE ReturnUnknown(b)
    BY <1>0, <2>4 DEF ReturnUnknown
  <2> QED
    BY <1>4, <2>1, <2>2, <2>3, <2>4 DEF Return
<1>5. CASE Cleanup
  <2>1. CASE CleanupStart
    BY <2>1 DEF CleanupStart, Stale, Unused
  <2>2. CASE CleanupNext
    BY <2>2 DEF CleanupNext
  <2>3. CASE CleanupCancelled
    BY <2>3 DEF CleanupCancelled
  <2> QED
    BY <1>5, <2>1, <2>2, <2>3 DEF Cleanup
<1>6. CASE Stop
  BY <1>6 DEF Stop, StopClose, StopDone
<1>7. CASE CheckHealth \/ Start \/ StopCall
  BY <1>1, <1>7 DEF CheckHealth, Start, StopCall
<1>8. ASSUME NEW c \in Conns, GrowsStale(c) \/ WearsOut(c)
      PROVE  AccountInv'
  BY <1>1, <1>8 DEF GrowsStale, WearsOut
<1> QED
  BY <1>1, <1>2, <1>3, <1>4, <1>5, <1>6, <1>7, <1>8 DEF Next, Environment, poolVars

\* Only the holder of the lock adds to the list, and only a new connection of
\* the pool is opened again.
LEMMA StopStep ==
  ASSUME PoolType, LockInv, AccountInv, StopInv, [Next]_poolVars
  PROVE  StopInv'
<1> USE PoolAssumption DEF PoolType, StopInv, taskVars, connVars
<1>1. CASE UNCHANGED <<lock, connections, link>>
  BY <1>1
<1>2. ASSUME NEW b \in Borrowers, GetCall(b) \/ ReturnCall(b) \/ Cancel(b) \/ TimeOut(b)
      PROVE  StopInv'
  BY <1>2 DEF GetCall, ReturnCall, Cancel, TimeOut
<1>3. ASSUME NEW b \in Borrowers, Get(b) PROVE StopInv'
  BY <1>3 DEF Get, GetReuse, GetCreate, GetCreated, GetFailed, GetSleep, GetAgain
<1>4. ASSUME NEW b \in Borrowers, Return(b) PROVE StopInv'
  <2>1. CASE ReturnDiscarded(b)
    BY <2>1 DEF ReturnDiscarded
  <2> QED
    BY <1>4, <2>1 DEF Return, ReturnKeep, ReturnDiscard, ReturnUnknown
<1>5. CASE Cleanup
  BY <1>5 DEF Cleanup, CleanupStart, CleanupNext, CleanupCancelled
<1>6. CASE StopClose
  BY <1>6 DEF StopClose
<1>7. CASE StopDone
  BY <1>7 DEF StopDone
<1>8. CASE CheckHealth \/ Start \/ StopCall
  BY <1>1, <1>8 DEF CheckHealth, Start, StopCall
<1>9. ASSUME NEW c \in Conns, GrowsStale(c) \/ WearsOut(c)
      PROVE  StopInv'
  BY <1>9 DEF GrowsStale, WearsOut
<1> QED
  BY <1>1, <1>2, <1>3, <1>4, <1>5, <1>6, <1>7, <1>8, <1>9
     DEF Next, Environment, Stop, poolVars

\* A connection that was closed stays so while a borrower has it.
LEMMA HeldStep ==
  ASSUME PoolType, LockInv, HandsInv, AccountInv, StopInv, Exclusive, HeldIsInUse,
         [Next]_poolVars
  PROVE  HeldIsInUse'
<1> USE PoolAssumption DEF PoolType, HeldIsInUse, Goto, taskVars, connVars
<1>1. CASE UNCHANGED <<pc, got, inUse, link>>
  BY <1>1
<1>2. ASSUME NEW b \in Borrowers, GetCall(b) \/ ReturnCall(b) \/ Cancel(b) \/ TimeOut(b)
      PROVE  HeldIsInUse'
  <2>1. CASE GetCall(b)
    BY <2>1 DEF GetCall
  <2>2. CASE ReturnCall(b)
    BY <2>2 DEF ReturnCall
  <2>3. CASE Cancel(b)
    BY <2>3 DEF Cancel
  <2>4. CASE TimeOut(b)
    BY <1>1, <2>4 DEF TimeOut
  <2> QED
    BY <1>2, <2>1, <2>2, <2>3, <2>4
<1>3. ASSUME NEW b \in Borrowers, Get(b) PROVE HeldIsInUse'
  <2>1. CASE GetReuse(b)
    <3>1. PICK c \in Available : inUse' = inUse \cup {c} /\ got' = [got EXCEPT ![b] = c]
      BY <2>1 DEF GetReuse
    <3>2. pc' = [pc EXCEPT ![b] = "using"] /\ UNCHANGED link
      BY <2>1 DEF GetReuse
    <3> QED
      BY <3>1, <3>2
  <2>2. CASE GetCreate(b)
    BY <2>2 DEF GetCreate
  <2>3. CASE GetCreated(b)
    <3>1. PICK c \in Fresh : /\ inUse' = inUse \cup {c}
                             /\ link' = [link EXCEPT ![c] = "open"]
                             /\ got' = [got EXCEPT ![b] = c]
      BY <2>3 DEF GetCreated
    <3>2. pc' = [pc EXCEPT ![b] = "using"] /\ \A x \in Borrowers : got[x] # c
      BY <2>3 DEF GetCreated, Fresh
    <3>3. \A x \in Borrowers \ {b} : pc'[x] = pc[x] /\ got'[x] = got[x] /\ got[x] # c
      BY <3>1, <3>2
    <3>4. \A x \in Borrowers \ {b} : got[x] \in Conns => link'[got[x]] = link[got[x]]
      BY <3>1, <3>3
    <3>5. \A x \in Borrowers \ {b} : pc[x] \in {"using", "returning"} => got[x] \in Conns
      BY DEF HandsInv
    <3> QED
      BY <3>1, <3>3, <3>4, <3>5
  <2>4. CASE GetFailed(b)
    BY <2>4 DEF GetFailed
  <2>5. CASE GetSleep(b)
    BY <2>5 DEF GetSleep
  <2>6. CASE GetAgain(b)
    BY <2>6 DEF GetAgain
  <2> QED
    BY <1>3, <2>1, <2>2, <2>3, <2>4, <2>5, <2>6 DEF Get
<1>4. ASSUME NEW b \in Borrowers, Return(b) PROVE HeldIsInUse'
  <2>0. pc[b] \in {"returning", "discarding"} =>
          \A x \in Borrowers \ {b} : got[x] # got[b]
    BY DEF Exclusive, HandsInv
  <2>1. CASE ReturnKeep(b)
    BY <2>0, <2>1 DEF ReturnKeep
  <2>2. CASE ReturnDiscard(b)
    <3>1. \A x \in Borrowers \ {b} : pc[x] \in {"using", "returning"} => got[x] \in Conns
      BY DEF HandsInv
    <3>2. /\ inUse' = inUse \ {got[b]} /\ link' = [link EXCEPT ![got[b]] = "closed"]
          /\ pc' = [pc EXCEPT ![b] = "discarding"] /\ UNCHANGED got
      BY <2>2 DEF ReturnDiscard
    <3> QED
      BY <2>0, <2>2, <3>1, <3>2 DEF ReturnDiscard
  <2>3. CASE ReturnDiscarded(b)
    BY <2>3 DEF ReturnDiscarded
  <2>4. CASE ReturnUnknown(b)
    BY <2>4 DEF ReturnUnknown
  <2> QED
    BY <1>4, <2>1, <2>2, <2>3, <2>4 DEF Return
<1>c. ASSUME \A d \in Conns : link[d] = "closed" => link'[d] = "closed",
             UNCHANGED <<pc, got, inUse>>
      PROVE  HeldIsInUse'
  <2>1. \A x \in Borrowers : pc[x] \in {"using", "returning"} => got[x] \in Conns
    BY DEF HandsInv
  <2> QED
    BY <1>c, <2>1
<1>5. CASE CleanupStart
  <2>1. \A d \in Conns : link[d] = "closed" => link'[d] = "closed"
    BY <1>5 DEF CleanupStart
  <2> QED
    BY <1>5, <1>c, <2>1 DEF CleanupStart
<1>6. CASE CleanupNext
  <2>1. \A d \in Conns : link[d] = "closed" => link'[d] = "closed"
    BY <1>6 DEF CleanupNext
  <2> QED
    BY <1>6, <1>c, <2>1 DEF CleanupNext
<1>7. CASE StopClose
  <2>1. \A d \in Conns : link[d] = "closed" => link'[d] = "closed"
    BY <1>7 DEF StopClose
  <2> QED
    BY <1>7, <1>c, <2>1 DEF StopClose
<1>8. CASE StopDone
  <2>1. \A c \in inUse : link[c] = "closed"
    BY <1>8 DEF StopDone, StopInv, AccountInv
  <2> QED
    BY <1>8, <2>1 DEF StopDone
<1>9. CASE CleanupCancelled \/ CheckHealth \/ Start \/ StopCall
  BY <1>1, <1>9 DEF CleanupCancelled, CheckHealth, Start, StopCall
<1>10. ASSUME NEW c \in Conns, GrowsStale(c) \/ WearsOut(c)
       PROVE  HeldIsInUse'
  <2>1. \A d \in Conns : link[d] = "closed" => link'[d] = "closed"
    BY <1>10 DEF GrowsStale, WearsOut
  <2> QED
    BY <1>10, <1>c, <2>1 DEF GrowsStale, WearsOut
<1> QED
  BY <1>1, <1>2, <1>3, <1>4, <1>5, <1>6, <1>7, <1>8, <1>9, <1>10
     DEF Next, Environment, Cleanup, Stop, poolVars

\* The list grows only where a task had room for it and the lock since.
LEMMA RoomStep ==
  ASSUME PoolType, LockInv, RoomInv, [Next]_poolVars
  PROVE  RoomInv'
<1> USE PoolAssumption DEF PoolType, taskVars, connVars
<1>0. /\ IsFiniteSet(connections) /\ Cardinality(connections) \in Nat
      /\ MaxConnections \in Nat /\ MaxConnections > 0
  BY FS_Subset, FS_CardinalityType
<1>1. CASE UNCHANGED <<pc, connections>>
  BY <1>1 DEF RoomInv
<1>2. ASSUME NEW D, connections' = connections \ D,
             \A x \in Borrowers : pc'[x] = "creating" => pc[x] = "creating"
      PROVE  RoomInv'
  <2>1. Cardinality(connections') <= Cardinality(connections)
    BY <1>0, <1>2, FS_Subset
  <2>2. Cardinality(connections') \in Nat
    BY <1>0, <1>2, FS_Subset, FS_CardinalityType
  <2> QED
    BY <1>0, <1>2, <2>1, <2>2 DEF RoomInv
<1>3. ASSUME connections' = connections,
             \A x \in Borrowers : pc'[x] = "creating" => pc[x] = "creating"
      PROVE  RoomInv'
  BY <1>3 DEF RoomInv
<1>4. ASSUME NEW b \in Borrowers, Get(b) PROVE RoomInv'
  <2>1. CASE GetReuse(b)
    BY <1>3, <2>1 DEF GetReuse, Goto
  <2>2. CASE GetCreate(b)
    <3>1. /\ UNCHANGED connections /\ Cardinality(connections) < MaxConnections
      BY <2>2 DEF GetCreate
    <3> QED
      BY <1>0, <3>1 DEF RoomInv
  <2>3. CASE GetCreated(b)
    <3>1. PICK c \in Fresh : connections' = connections \cup {c}
      BY <2>3 DEF GetCreated
    <3>2. c \notin connections
      BY DEF Fresh
    <3>3. Cardinality(connections') = Cardinality(connections) + 1
      BY <1>0, <3>1, <3>2, FS_AddElement
    <3>4. Cardinality(connections) < MaxConnections
      BY <2>3 DEF GetCreated, RoomInv
    <3>5. \A x \in Borrowers : pc'[x] # "creating"
      BY <2>3 DEF GetCreated, Goto, LockInv
    <3> QED
      BY <1>0, <3>3, <3>4, <3>5 DEF RoomInv
  <2>4. CASE GetFailed(b)
    BY <1>3, <2>4 DEF GetFailed, Goto
  <2>5. CASE GetSleep(b)
    BY <1>3, <2>5 DEF GetSleep, Goto
  <2>6. CASE GetAgain(b)
    BY <1>3, <2>6 DEF GetAgain, Goto
  <2> QED
    BY <1>4, <2>1, <2>2, <2>3, <2>4, <2>5, <2>6 DEF Get
<1>5. ASSUME NEW b \in Borrowers, Return(b) PROVE RoomInv'
  <2>1. CASE ReturnDiscarded(b)
    BY <1>2, <2>1 DEF ReturnDiscarded, Goto
  <2>2. CASE ReturnKeep(b) \/ ReturnDiscard(b) \/ ReturnUnknown(b)
    BY <1>3, <2>2 DEF ReturnKeep, ReturnDiscard, ReturnUnknown, Goto
  <2> QED
    BY <1>5, <2>1, <2>2 DEF Return
<1>6. ASSUME NEW b \in Borrowers, GetCall(b) \/ ReturnCall(b) \/ Cancel(b) \/ TimeOut(b)
      PROVE  RoomInv'
  BY <1>3, <1>6 DEF GetCall, ReturnCall, Cancel, TimeOut, Goto
<1>7. CASE CleanupNext
  BY <1>2, <1>7 DEF CleanupNext
<1>8. CASE StopDone
  <2>1. connections' = connections \ connections /\ UNCHANGED pc
    BY <1>8 DEF StopDone
  <2> QED
    BY <1>2, <2>1
<1>9. CASE CleanupStart \/ CleanupCancelled \/ StopClose \/ CheckHealth \/ Start \/ StopCall
  BY <1>1, <1>9 DEF CleanupStart, CleanupCancelled, StopClose, CheckHealth, Start, StopCall
<1>10. ASSUME NEW c \in Conns, GrowsStale(c) \/ WearsOut(c)
       PROVE  RoomInv'
  BY <1>1, <1>10 DEF GrowsStale, WearsOut
<1> QED
  BY <1>1, <1>4, <1>5, <1>6, <1>7, <1>8, <1>9, <1>10
     DEF Next, Environment, Cleanup, Stop, poolVars

LEMMA PoolInvCorrect == PoolSpec => []PoolInv
<1>1. Init => PoolInv
  <2> SUFFICES ASSUME Init PROVE PoolInv
    OBVIOUS
  <2>1. Cardinality(connections) = 0
    BY FS_EmptySet DEF Init
  <2>2. MaxConnections \in Nat \ {0}
    BY PoolAssumption
  <2>3. \A b \in Borrowers : b # "free"
    BY PoolAssumption
  <2>4. LockInv /\ HandsInv /\ StopInv
    BY <2>3 DEF Init, LockInv, HandsInv, StopInv
  <2>5. AccountInv /\ Exclusive /\ HeldIsInUse
    BY PoolAssumption DEF Init, AccountInv, Exclusive, HeldIsInUse
  <2>6. RoomInv
    BY <2>1, <2>2 DEF Init, RoomInv
  <2> QED
    BY <2>4, <2>5, <2>6 DEF PoolInv
<1>2. PoolType /\ PoolInv /\ [Next]_poolVars => PoolInv'
  BY LockStep, HandsStep, ExclusiveStep, AccountStep, StopStep, HeldStep, RoomStep
     DEF PoolInv
<1> QED
  BY <1>1, <1>2, PoolTypeCorrect, PTL DEF PoolSpec

\* A connection is in the hands of one borrower at a time, and the pool does not
\* outgrow max_connections, whatever is cancelled, stopped or restarted.
THEOREM PoolCorrect == PoolSpec => [](Exclusive /\ WithinCapacity /\ HeldIsInUse)
<1>1. PoolInv => Exclusive /\ WithinCapacity /\ HeldIsInUse
  BY DEF PoolInv, RoomInv, WithinCapacity
<1> QED
  BY <1>1, PoolInvCorrect, PTL

\* get_connection looks for room before it awaits create_connection, and the pool
\* still never has more than max_connections.
THEOREM CapacityCorrect == PoolSpec => []WithinCapacity
BY PoolCorrect, PTL

\* A connection of the pool that a borrower has is in use, also while calls are
\* cancelled and the pool stops and starts.
THEOREM HeldCorrect == PoolSpec => []HeldIsInUse
BY PoolCorrect, PTL

-----------------------------------------------------------------------------
\* What holds when no call is cancelled.

\* The uses of a connection: one more is left while it is idle.
UsageInv ==
  \A c \in connections :
    /\ usage[c] <= MaxUsage
    /\ c \notin inUse /\ (\A b \in Borrowers : got[b] # c) => usage[c] < MaxUsage

\* A closed connection that is still in the list is being discarded or cleaned up,
\* or stop is about to empty the list.
ClosedInv ==
  /\ stopping => ~running
  /\ lock = "stop" => stopping
  /\ lock = "cleanup" => running \/ stopping
  /\ \A c \in connections : link[c] = "closed" =>
       \/ \E b \in Borrowers : got[b] = c /\ pc[b] = "discarding"
       \/ lock = "cleanup" /\ c \in doomed
       \/ stopping

\* An idle connection is in nobody's hands while the lock is free.
LEMMA UnusedNotHeld ==
  ASSUME PoolType, LockInv, AccountInv, lock = "free", NEW c \in Unused, NEW b \in Borrowers
  PROVE  got[b] # c
<1>1. lock # b
  BY PoolAssumption
<1>2. pc[b] # "discarding"
  BY <1>1 DEF LockInv
<1> QED
  BY <1>2 DEF AccountInv, Unused

\* What is in use stays in somebody's hands: only a cancelled call lets it drop.
LEMMA InUseStep ==
  ASSUME ~MayCancel, PoolType, HandsInv, AccountInv, InUseIsHeld, [Next]_poolVars
  PROVE  InUseIsHeld'
<1> USE PoolAssumption DEF PoolType, taskVars, connVars
<1>1. CASE UNCHANGED <<got, inUse>>
  BY <1>1 DEF InUseIsHeld
<1>2. ASSUME NEW b \in Borrowers, NEW c \in Conns, got[b] = NoConn,
             got' = [got EXCEPT ![b] = c], inUse' = inUse \cup {c}
      PROVE  InUseIsHeld'
  <2>1. got'[b] = c /\ \A a \in Borrowers : a # b => got'[a] = got[a]
    BY <1>2
  <2>2. ASSUME NEW d \in inUse', d # c PROVE \E a \in Borrowers : got'[a] = d
    <3>1. PICK a \in Borrowers : got[a] = d
      BY <1>2, <2>2 DEF InUseIsHeld
    <3>2. a # b
      BY <1>2, <2>2, <3>1
    <3> QED
      BY <2>1, <3>1, <3>2
  <2> QED
    BY <2>1, <2>2 DEF InUseIsHeld
<1>3. ASSUME NEW b \in Borrowers, got' = [got EXCEPT ![b] = NoConn],
             inUse' \subseteq inUse, got[b] \notin inUse'
      PROVE  InUseIsHeld'
  <2>1. \A a \in Borrowers : a # b => got'[a] = got[a]
    BY <1>3
  <2>2. ASSUME NEW d \in inUse' PROVE \E a \in Borrowers : got'[a] = d
    <3>1. PICK a \in Borrowers : got[a] = d
      BY <1>3 DEF InUseIsHeld
    <3> QED
      BY <1>3, <2>1, <3>1
  <2> QED
    BY <2>2 DEF InUseIsHeld
<1>4. ASSUME NEW b \in Borrowers, Get(b) PROVE InUseIsHeld'
  <2>1. CASE GetReuse(b) \/ GetCreated(b)
    <3>1. got[b] = NoConn
      BY <2>1 DEF HandsInv, GetReuse, GetCreated
    <3>2. PICK c \in Conns : got' = [got EXCEPT ![b] = c] /\ inUse' = inUse \cup {c}
      BY <2>1 DEF GetReuse, GetCreated, Available, Unused, Fresh
    <3> QED
      BY <1>2, <3>1, <3>2
  <2> QED
    BY <1>1, <1>4, <2>1 DEF Get, GetCreate, GetFailed, GetSleep, GetAgain
<1>5. ASSUME NEW b \in Borrowers, Return(b) PROVE InUseIsHeld'
  <2>1. CASE ReturnKeep(b)
    BY <1>3, <2>1 DEF ReturnKeep
  <2>2. CASE ReturnDiscard(b)
    BY <2>2 DEF ReturnDiscard, InUseIsHeld
  <2>3. CASE ReturnDiscarded(b)
    BY <1>3, <2>3 DEF ReturnDiscarded, AccountInv
  <2>4. CASE ReturnUnknown(b)
    BY <1>3, <2>4 DEF ReturnUnknown
  <2> QED
    BY <1>5, <2>1, <2>2, <2>3, <2>4 DEF Return
<1>6. CASE StopDone
  BY <1>6 DEF StopDone, InUseIsHeld
<1>7. CASE Cleanup \/ StopClose \/ CheckHealth \/ Start \/ StopCall
  BY <1>1, <1>7 DEF Cleanup, CleanupStart, CleanupNext, CleanupCancelled, StopClose,
                    CheckHealth, Start, StopCall
<1>8. ASSUME NEW b \in Borrowers, GetCall(b) \/ ReturnCall(b) \/ Cancel(b) \/ TimeOut(b)
      PROVE  InUseIsHeld'
  BY <1>1, <1>8 DEF GetCall, ReturnCall, Cancel, TimeOut
<1>9. ASSUME NEW c \in Conns, GrowsStale(c) \/ WearsOut(c)
      PROVE  InUseIsHeld'
  BY <1>1, <1>9 DEF GrowsStale, WearsOut
<1> QED
  BY <1>1, <1>4, <1>5, <1>6, <1>7, <1>8, <1>9 DEF Next, Environment, Stop, poolVars

\* A connection is given back to the idle ones only if it may be used again.
LEMMA UsageStep ==
  ASSUME ~MayCancel, PoolType, LockInv, HandsInv, AccountInv, UsageInv, [Next]_poolVars
  PROVE  UsageInv'
<1> USE PoolAssumption DEF PoolType, taskVars, connVars
<1>1. CASE UNCHANGED <<got, inUse, connections, usage>>
  BY <1>1 DEF UsageInv
<1>2. CASE UNCHANGED <<got, inUse, usage>> /\ connections' \subseteq connections
  BY <1>2 DEF UsageInv
<1>3. ASSUME NEW b \in Borrowers, Get(b) PROVE UsageInv'
  <2>1. CASE GetReuse(b)
    <3>1. PICK c \in Available : /\ inUse' = inUse \cup {c}
                                 /\ usage' = [usage EXCEPT ![c] = OneMore(@)]
                                 /\ got' = [got EXCEPT ![b] = c]
      BY <2>1 DEF GetReuse
    <3>2. c \in Unused /\ c \in connections /\ c \in Conns
      BY DEF Available, Unused
    <3>3. usage[c] < MaxUsage
      BY <2>1, <3>2, UnusedNotHeld DEF GetReuse, UsageInv, Unused
    <3>4. usage'[c] <= MaxUsage
      BY <3>1, <3>2, <3>3 DEF OneMore
    <3>5. got[b] = NoConn /\ connections' = connections
      BY <2>1 DEF GetReuse, HandsInv
    <3>6. \A d \in Conns \ {c} :
            /\ usage'[d] = usage[d] /\ (d \in inUse' <=> d \in inUse)
            /\ (\A a \in Borrowers : got'[a] # d) => (\A a \in Borrowers : got[a] # d)
      BY <3>1, <3>2, <3>5
    <3> QED
      BY <3>1, <3>4, <3>5, <3>6 DEF UsageInv
  <2>2. CASE GetCreated(b)
    <3>1. PICK c \in Fresh : /\ connections' = connections \cup {c}
                             /\ inUse' = inUse \cup {c}
                             /\ usage' = [usage EXCEPT ![c] = 1]
                             /\ got' = [got EXCEPT ![b] = c]
      BY <2>2 DEF GetCreated
    <3>2. c \in Conns /\ got[b] = NoConn /\ usage'[c] <= MaxUsage
      BY <2>2, <3>1 DEF Fresh, GetCreated, HandsInv
    <3>3. \A d \in Conns \ {c} :
            /\ usage'[d] = usage[d] /\ (d \in inUse' <=> d \in inUse)
            /\ d \in connections' <=> d \in connections
            /\ (\A a \in Borrowers : got'[a] # d) => (\A a \in Borrowers : got[a] # d)
      BY <3>1, <3>2
    <3> QED
      BY <3>1, <3>2, <3>3 DEF UsageInv
  <2> QED
    BY <1>1, <1>3, <2>1, <2>2 DEF Get, GetCreate, GetFailed, GetSleep, GetAgain
<1>4. ASSUME NEW b \in Borrowers, Return(b) PROVE UsageInv'
  <2> DEFINE c == got[b]
  <2>1. CASE ReturnKeep(b)
    <3>1. /\ connections' = connections /\ usage' = usage /\ usage[c] < MaxUsage
          /\ c \in Conns
      BY <2>1 DEF ReturnKeep, MustDiscard
    <3>2. \A d \in Conns \ {c} :
            /\ d \in inUse' <=> d \in inUse
            /\ (\A a \in Borrowers : got'[a] # d) => (\A a \in Borrowers : got[a] # d)
      BY <2>1 DEF ReturnKeep
    <3> QED
      BY <3>1, <3>2 DEF UsageInv
  <2>2. CASE ReturnDiscard(b)
    <3>1. /\ connections' = connections /\ usage' = usage /\ got' = got
          /\ \A d \in Conns \ {c} : d \in inUse' <=> d \in inUse
      BY <2>2 DEF ReturnDiscard
    <3> QED
      BY <3>1 DEF UsageInv
  <2>3. CASE ReturnDiscarded(b)
    <3>1. /\ connections' = connections \ {c} /\ usage' = usage /\ inUse' = inUse
          /\ \A d \in Conns \ {c} :
               (\A a \in Borrowers : got'[a] # d) => (\A a \in Borrowers : got[a] # d)
      BY <2>3 DEF ReturnDiscarded
    <3> QED
      BY <3>1 DEF UsageInv
  <2>4. CASE ReturnUnknown(b)
    <3>1. pc[b] # "discarding" /\ c \notin connections
      BY <2>4 DEF ReturnUnknown, AccountInv
    <3>2. /\ connections' = connections /\ usage' = usage /\ inUse' = inUse
          /\ \A d \in Conns \ {c} :
               (\A a \in Borrowers : got'[a] # d) => (\A a \in Borrowers : got[a] # d)
      BY <2>4 DEF ReturnUnknown
    <3> QED
      BY <3>1, <3>2 DEF UsageInv
  <2> QED
    BY <1>4, <2>1, <2>2, <2>3, <2>4 DEF Return
<1>5. CASE StopDone
  BY <1>5 DEF StopDone, UsageInv
<1>6. CASE Cleanup
  BY <1>2, <1>6 DEF Cleanup, CleanupStart, CleanupNext, CleanupCancelled
<1>7. CASE StopClose \/ CheckHealth \/ Start \/ StopCall
  BY <1>1, <1>7 DEF StopClose, CheckHealth, Start, StopCall
<1>8. ASSUME NEW b \in Borrowers, GetCall(b) \/ ReturnCall(b) \/ Cancel(b) \/ TimeOut(b)
      PROVE  UsageInv'
  BY <1>1, <1>8 DEF GetCall, ReturnCall, Cancel, TimeOut
<1>9. ASSUME NEW c \in Conns, GrowsStale(c) \/ WearsOut(c)
      PROVE  UsageInv'
  BY <1>1, <1>9 DEF GrowsStale, WearsOut
<1> QED
  BY <1>1, <1>3, <1>4, <1>5, <1>6, <1>7, <1>8, <1>9 DEF Next, Environment, Stop, poolVars

\* Whoever closes a connection of the list takes it off the list before anybody
\* looks, or the pool is stopping.
LEMMA ClosedStep ==
  ASSUME ~MayCancel, PoolType, LockInv, HandsInv, AccountInv, ClosedInv, [Next]_poolVars
  PROVE  ClosedInv'
<1> USE PoolAssumption DEF PoolType, taskVars, connVars
<1> DEFINE Discarding(c) == \E b \in Borrowers : got[b] = c /\ pc[b] = "discarding"
<1>1. CASE UNCHANGED <<running, stopping, lock, connections, doomed, link, got, pc>>
  BY <1>1 DEF ClosedInv
\* A step of a borrower that was not discarding and closes nothing.
<1>2. ASSUME NEW b \in Borrowers, pc[b] # "discarding",
             \A a \in Borrowers : a # b => pc'[a] = pc[a] /\ got'[a] = got[a],
             UNCHANGED <<running, stopping, doomed>>,
             lock' # lock => lock # "cleanup" /\ lock' \notin {"stop", "cleanup"},
             \A c \in connections' : link'[c] = "closed" => c \in connections /\ link[c] = "closed"
      PROVE  ClosedInv'
  <2>1. \A c \in Conns : Discarding(c) => Discarding(c)'
    BY <1>2
  <2>2. lock = "cleanup" => lock' = "cleanup"
    BY <1>2
  <2> QED
    BY <1>2, <2>1, <2>2 DEF ClosedInv
<1>3. ASSUME NEW b \in Borrowers, Get(b) PROVE ClosedInv'
  <2>1. CASE GetReuse(b)
    BY <1>2, <2>1 DEF GetReuse, Goto
  <2>2. CASE GetCreate(b)
    BY <1>2, <2>2 DEF GetCreate, Goto
  <2>3. CASE GetCreated(b)
    <3>1. PICK c \in Fresh : connections' = connections \cup {c}
                             /\ link' = [link EXCEPT ![c] = "open"]
      BY <2>3 DEF GetCreated
    <3>2. \A d \in connections' : link'[d] = "closed" => d \in connections /\ link[d] = "closed"
      BY <3>1 DEF Fresh
    <3>3. lock = b /\ lock' = "free" /\ pc[b] = "creating"
      BY <2>3 DEF GetCreated, LockInv
    <3> QED
      BY <1>2, <2>3, <3>2, <3>3 DEF GetCreated, Goto
  <2>4. CASE GetFailed(b)
    <3>1. lock = b /\ lock' = "free" /\ pc[b] = "creating"
      BY <2>4 DEF GetFailed, LockInv
    <3> QED
      BY <1>2, <2>4, <3>1 DEF GetFailed, Goto
  <2>5. CASE GetSleep(b) \/ GetAgain(b)
    BY <1>2, <2>5 DEF GetSleep, GetAgain, Goto
  <2> QED
    BY <1>3, <2>1, <2>2, <2>3, <2>4, <2>5 DEF Get
<1>4. ASSUME NEW b \in Borrowers, Return(b) PROVE ClosedInv'
  <2>1. CASE ReturnKeep(b) \/ ReturnUnknown(b)
    BY <1>2, <2>1 DEF ReturnKeep, ReturnUnknown, Goto
  <2>2. CASE ReturnDiscard(b)
    <3>1. /\ UNCHANGED <<running, stopping, connections, doomed, got>>
          /\ lock = "free" /\ lock' = b
          /\ link' = [link EXCEPT ![got[b]] = "closed"]
          /\ pc' = [pc EXCEPT ![b] = "discarding"]
      BY <2>2 DEF ReturnDiscard, Goto
    <3>2. Discarding(got[b])'
      BY <3>1
    <3>3. \A c \in Conns : Discarding(c) => Discarding(c)'
      BY <3>1
    <3>4. \A c \in Conns : c # got[b] => link'[c] = link[c]
      BY <3>1
    <3> QED
      BY <3>1, <3>2, <3>3, <3>4 DEF ClosedInv
  <2>3. CASE ReturnDiscarded(b)
    <3>1. /\ UNCHANGED <<running, stopping, doomed, link>>
          /\ connections' = connections \ {got[b]}
          /\ lock = b /\ lock' = "free"
          /\ \A a \in Borrowers : a # b => got'[a] = got[a] /\ pc'[a] = pc[a]
      BY <2>3 DEF ReturnDiscarded, Goto, LockInv
    <3>2. \A c \in Conns : c # got[b] /\ Discarding(c) => Discarding(c)'
      BY <3>1
    <3> QED
      BY <3>1, <3>2 DEF ClosedInv
  <2> QED
    BY <1>4, <2>1, <2>2, <2>3 DEF Return
<1>5. CASE CleanupStart
  <2>1. /\ UNCHANGED <<running, stopping, connections, got, pc>>
        /\ running /\ lock = "free" /\ lock' = "cleanup"
    BY <1>5 DEF CleanupStart
  <2>2. \A c \in Conns : link'[c] = "closed" => link[c] = "closed" \/ c \in doomed'
    BY <1>5 DEF CleanupStart
  <2> QED
    BY <2>1, <2>2, ZenonT(60) DEF ClosedInv
<1>6. CASE CleanupNext
  <2>1. /\ UNCHANGED <<running, stopping, got, pc>> /\ running /\ lock = "cleanup"
        /\ lock' \in {"free", "cleanup"}
    BY <1>6 DEF CleanupNext
  <2>2. PICK c \in doomed : connections' = connections \ {c} /\ doomed' = doomed \ {c}
    BY <1>6 DEF CleanupNext
  <2>3. CASE doomed' = {} /\ link' = link
    BY <2>1, <2>2, <2>3 DEF ClosedInv
  <2>4. CASE lock' = "cleanup" /\ \E d \in doomed' : link' = [link EXCEPT ![d] = "closed"]
    <3>1. \A d \in Conns : link'[d] = "closed" => link[d] = "closed" \/ d \in doomed'
      BY <2>2, <2>4
    <3> QED
      BY <2>1, <2>2, <2>4, <3>1 DEF ClosedInv
  <2> QED
    BY <1>6, <2>1, <2>3, <2>4 DEF CleanupNext
<1>7. CASE CleanupCancelled
  BY <1>7 DEF CleanupCancelled, ClosedInv
<1>8. CASE StopClose
  BY <1>8 DEF StopClose, ClosedInv
<1>9. CASE StopDone
  BY <1>9 DEF StopDone, ClosedInv
<1>10. CASE Start \/ StopCall
  BY <1>10 DEF Start, StopCall, ClosedInv
<1>11. CASE CheckHealth
  BY <1>1, <1>11 DEF CheckHealth
<1>12. ASSUME NEW b \in Borrowers, GetCall(b) \/ ReturnCall(b) \/ Cancel(b) \/ TimeOut(b)
       PROVE  ClosedInv'
  BY <1>2, <1>12 DEF GetCall, ReturnCall, Cancel, TimeOut, Goto
<1>13. ASSUME NEW c \in Conns, GrowsStale(c) \/ WearsOut(c)
       PROVE  ClosedInv'
  <2>1. /\ UNCHANGED <<running, stopping, lock, connections, doomed, got, pc>>
        /\ \A d \in Conns : link'[d] = "closed" => link[d] = "closed"
    BY <1>13 DEF GrowsStale, WearsOut
  <2> QED
    BY <2>1 DEF ClosedInv
<1> QED
  BY <1>1, <1>3, <1>4, <1>5, <1>6, <1>7, <1>8, <1>9, <1>10, <1>11, <1>12, <1>13
     DEF Next, Environment, Cleanup, Stop, poolVars

\* With no call cancelled, whatever stops and restarts: every slot in use belongs
\* to a borrower, nobody is handed a connection that the pool has closed, and no
\* connection is used more often than it may be.
LEMMA CalmCorrect ==
  ASSUME ~MayCancel
  PROVE  PoolSpec => [](InUseIsHeld /\ NoClosedHandedOut /\ UsageBound)
<1>1. Init => InUseIsHeld /\ UsageInv /\ ClosedInv
  BY PoolAssumption DEF Init, InUseIsHeld, UsageInv, ClosedInv
<1>2. PoolType /\ PoolInv /\ InUseIsHeld /\ UsageInv /\ ClosedInv /\ [Next]_poolVars
        => InUseIsHeld' /\ UsageInv' /\ ClosedInv'
  BY InUseStep, UsageStep, ClosedStep DEF PoolInv
<1>3. PoolType /\ PoolInv /\ UsageInv /\ ClosedInv => NoClosedHandedOut /\ UsageBound
  <2>1. ASSUME PoolType, PoolInv, ClosedInv, running, lock = "free", NEW c \in Available
        PROVE  link[c] # "closed"
    <3>1. c \in Unused /\ c \in connections
      BY <2>1 DEF Available, Unused
    <3>2. \A b \in Borrowers : got[b] # c
      BY <2>1, <3>1, UnusedNotHeld DEF PoolInv
    <3> QED
      BY <2>1, <3>1, <3>2 DEF ClosedInv
  <2> QED
    BY <2>1 DEF NoClosedHandedOut, UsageBound, UsageInv
<1> QED
  BY <1>1, <1>2, <1>3, PoolTypeCorrect, PoolInvCorrect, PTL DEF PoolSpec

\* Under the same condition, what is in use is in the hands of a borrower.
THEOREM InUseCorrect ==
  ASSUME ~MayCancel
  PROVE  PoolSpec => []InUseIsHeld
BY CalmCorrect, PTL

\* Under the same condition, nobody is handed a connection that the pool closed.
THEOREM NoClosedCorrect ==
  ASSUME ~MayCancel
  PROVE  PoolSpec => []NoClosedHandedOut
BY CalmCorrect, PTL

\* Under the same condition, no connection is used more often than it may be.
THEOREM UsageCorrect ==
  ASSUME ~MayCancel
  PROVE  PoolSpec => []UsageBound
BY CalmCorrect, PTL

-----------------------------------------------------------------------------
\* One step of the pool is one step of the abstract pool, or none.
LEMMA CheckoutStep ==
  ASSUME PoolType, PoolInv, PoolInv', [Next]_poolVars
  PROVE  [Checkout!CheckoutNext]_(Checkout!checkoutVars)
<1> USE PoolAssumption DEF PoolType, Goto, taskVars, connVars
<1>0. LockInv /\ HandsInv /\ AccountInv /\ Exclusive
  BY DEF PoolInv
<1>1. ASSUME connections' = connections, Lent' = Lent
      PROVE  UNCHANGED Checkout!checkoutVars
  BY <1>1 DEF Checkout!checkoutVars
<1>2. ASSUME NEW b \in Borrowers, NEW c \in Conns,
             c \in Fresh \/ (lock = "free" /\ c \in Available),
             pc[b] \in {"getting", "creating"},
             got' = [got EXCEPT ![b] = c], pc' = [pc EXCEPT ![b] = "using"],
             connections' = connections \cup {c}
      PROVE  Checkout!CheckoutNext
  <2>1. \A x \in Borrowers : got[x] # c
    BY <1>0, <1>2, NotHeldTwice
  <2>2. c # NoConn /\ got[b] = NoConn
    BY <1>0, <1>2 DEF HandsInv
  <2>3. Lent[b] = NoConn /\ \A x \in Borrowers : Lent[x] # c
    BY <2>1, <2>2 DEF Lent
  <2>4. Lent' = [Lent EXCEPT ![b] = c]
    BY <1>2 DEF Lent
  <2>5. Cardinality(connections') <= MaxConnections
    BY DEF PoolInv, RoomInv
  <2>6. Checkout!Lend(b, c)
    <3> HIDE DEF PoolType
    <3>1. connections' = connections \cup {c}
      BY <1>2
    <3>2. Checkout!Cardinality(connections') = Cardinality(connections')
      BY DEF Cardinality, Checkout!Cardinality
    <3> QED
      BY <2>3, <2>4, <2>5, <3>1, <3>2, Zenon DEF Checkout!Lend
  <2> QED
    BY <2>6 DEF Checkout!CheckoutNext
<1>3. ASSUME NEW b \in Borrowers, connections' = connections,
             pc[b] = "returning",
             \/ got' = [got EXCEPT ![b] = NoConn] /\ pc' = [pc EXCEPT ![b] = "away"]
             \/ got' = got /\ pc' = [pc EXCEPT ![b] = "discarding"]
      PROVE  Checkout!CheckoutNext
  <2>1. Lent[b] # NoConn
    BY <1>0, <1>3 DEF Lent, HandsInv
  <2>2. Lent' = [Lent EXCEPT ![b] = NoConn]
    BY <1>3 DEF Lent
  <2>3. Checkout!GiveBack(b)
    BY <1>3, <2>1, <2>2 DEF Checkout!GiveBack
  <2> QED
    BY <2>3 DEF Checkout!CheckoutNext
<1>4. ASSUME NEW c \in Conns, \A x \in Borrowers : Lent[x] # c,
             connections' = connections \ {c}, Lent' = Lent
      PROVE  Checkout!CheckoutNext
  <2>1. Checkout!Discard(c)
    BY <1>4 DEF Checkout!Discard
  <2> QED
    BY <2>1 DEF Checkout!CheckoutNext
<1>5. ASSUME NEW b \in Borrowers, Get(b)
      PROVE  [Checkout!CheckoutNext]_(Checkout!checkoutVars)
  <2>1. CASE GetReuse(b)
    <3>1. PICK c \in Available : got' = [got EXCEPT ![b] = c]
      BY <2>1 DEF GetReuse
    <3>2. c \in Conns /\ connections' = connections \cup {c}
      BY <2>1 DEF Available, Unused, GetReuse
    <3>3. /\ lock = "free" /\ pc[b] = "getting"
          /\ pc' = [pc EXCEPT ![b] = "using"]
      BY <2>1 DEF GetReuse
    <3> QED
      BY <1>2, <3>1, <3>2, <3>3
  <2>2. CASE GetCreated(b)
    <3>1. PICK c \in Fresh : connections' = connections \cup {c} /\ got' = [got EXCEPT ![b] = c]
      BY <2>2 DEF GetCreated
    <3>2. c \in Conns /\ pc[b] = "creating" /\ pc' = [pc EXCEPT ![b] = "using"]
      BY <2>2 DEF Fresh, GetCreated
    <3> QED
      BY <1>2, <3>1, <3>2
  <2>3. CASE GetCreate(b) \/ GetFailed(b) \/ GetSleep(b) \/ GetAgain(b)
    <3>1. UNCHANGED <<connections, got>> /\ pc[b] # "discarding"
      BY <2>3 DEF GetCreate, GetFailed, GetSleep, GetAgain
    <3>2. \E place \in {"creating", "away", "asleep", "getting"} :
            pc' = [pc EXCEPT ![b] = place]
      BY <2>3 DEF GetCreate, GetFailed, GetSleep, GetAgain
    <3>3. Lent' = Lent
      BY <3>1, <3>2 DEF Lent
    <3> QED
      BY <1>1, <3>1, <3>3
  <2> QED
    BY <1>5, <2>1, <2>2, <2>3 DEF Get
<1>6. ASSUME NEW b \in Borrowers, Return(b)
      PROVE  [Checkout!CheckoutNext]_(Checkout!checkoutVars)
  <2>1. CASE ReturnKeep(b) \/ ReturnUnknown(b)
    BY <1>3, <2>1 DEF ReturnKeep, ReturnUnknown
  <2>2. CASE ReturnDiscard(b)
    BY <1>3, <2>2 DEF ReturnDiscard
  <2>3. CASE ReturnDiscarded(b)
    <3>1. /\ pc[b] = "discarding" /\ connections' = connections \ {got[b]}
          /\ got' = [got EXCEPT ![b] = NoConn] /\ pc' = [pc EXCEPT ![b] = "away"]
      BY <2>3 DEF ReturnDiscarded
    <3>2. got[b] \in Conns
      BY <1>0, <3>1 DEF HandsInv
    <3>3. \A x \in Borrowers : Lent[x] # got[b]
      BY <1>0, <3>1, <3>2 DEF Lent, Exclusive
    <3>4. Lent' = Lent
      BY <3>1 DEF Lent
    <3> QED
      BY <1>4, <3>1, <3>2, <3>3, <3>4
  <2> QED
    BY <1>6, <2>1, <2>2, <2>3 DEF Return
<1>7. ASSUME NEW b \in Borrowers, Cancel(b)
      PROVE  [Checkout!CheckoutNext]_(Checkout!checkoutVars)
  <2>1. /\ UNCHANGED connections /\ got' = [got EXCEPT ![b] = NoConn]
        /\ pc' = [pc EXCEPT ![b] = "away"]
        /\ pc[b] \in {"getting", "asleep", "creating", "returning", "discarding"}
    BY <1>7 DEF Cancel
  <2>2. CASE pc[b] = "returning"
    BY <1>3, <2>1, <2>2
  <2>3. CASE pc[b] # "returning"
    <3>1. Lent' = Lent
      BY <1>0, <2>1, <2>3 DEF Lent, HandsInv
    <3> QED
      BY <1>1, <2>1, <3>1
  <2> QED
    BY <2>2, <2>3
<1>8. ASSUME NEW b \in Borrowers, GetCall(b) \/ ReturnCall(b) \/ TimeOut(b)
      PROVE  [Checkout!CheckoutNext]_(Checkout!checkoutVars)
  <2>1. UNCHANGED <<connections, got>>
    BY <1>8 DEF GetCall, ReturnCall, TimeOut
  <2>2. \/ UNCHANGED pc
        \/ /\ pc[b] # "discarding"
           /\ \E place \in {"getting", "returning"} : pc' = [pc EXCEPT ![b] = place]
    BY <1>8 DEF GetCall, ReturnCall, TimeOut
  <2>3. Lent' = Lent
    BY <2>1, <2>2 DEF Lent
  <2> QED
    BY <1>1, <2>1, <2>3
<1>9. CASE CleanupNext
  <2>1. PICK c \in doomed : connections' = connections \ {c}
    BY <1>9 DEF CleanupNext
  <2>2. c \in Conns /\ lock = "cleanup" /\ UNCHANGED <<pc, got>>
    BY <1>9 DEF CleanupNext
  <2>3. \A x \in Borrowers : pc[x] # "discarding"
    BY <1>0, <2>2 DEF LockInv
  <2>4. CASE c \in connections
    <3>1. \A x \in Borrowers : got[x] # c
      BY <1>0, <2>2, <2>3, <2>4 DEF AccountInv
    <3>2. \A x \in Borrowers : Lent[x] # c
      BY <2>3, <3>1 DEF Lent
    <3>3. Lent' = Lent
      BY <2>2 DEF Lent
    <3> QED
      BY <1>4, <2>1, <2>2, <3>2, <3>3
  <2>5. CASE c \notin connections
    <3>1. connections' = connections /\ Lent' = Lent
      BY <2>1, <2>2, <2>5 DEF Lent
    <3> QED
      BY <1>1, <3>1
  <2> QED
    BY <2>4, <2>5
<1>10. CASE StopDone
  <2>1. connections' = {} /\ Lent' = Lent
    BY <1>10 DEF StopDone, Lent
  <2>2. Checkout!ShutDown
    BY <2>1 DEF Checkout!ShutDown
  <2> QED
    BY <2>2 DEF Checkout!CheckoutNext
<1>11. CASE \/ CleanupStart \/ CleanupCancelled \/ StopClose \/ CheckHealth
            \/ Start \/ StopCall \/ UNCHANGED poolVars
  <2>1. UNCHANGED <<connections, pc, got>>
    BY <1>11 DEF CleanupStart, CleanupCancelled, StopClose, CheckHealth, Start, StopCall,
                 poolVars
  <2>2. Lent' = Lent
    BY <2>1 DEF Lent
  <2> QED
    BY <1>1, <2>1, <2>2
<1>12. ASSUME NEW c \in Conns, GrowsStale(c) \/ WearsOut(c)
       PROVE  [Checkout!CheckoutNext]_(Checkout!checkoutVars)
  <2>1. UNCHANGED <<connections, pc, got>>
    BY <1>12 DEF GrowsStale, WearsOut
  <2>2. Lent' = Lent
    BY <2>1 DEF Lent
  <2> QED
    BY <1>1, <2>1, <2>2
<1> QED
  BY <1>5, <1>6, <1>7, <1>8, <1>9, <1>10, <1>11, <1>12
     DEF Next, Environment, Cleanup, Stop

\* The pool implements the abstract pool: what a task borrows is lent to it
\* alone, and nothing that is lent is thrown away, except by stop.
THEOREM CheckoutCorrect == PoolSpec => ImplementsCheckout
<1>1. Init => Checkout!CheckoutInit
  BY DEF Init, Lent, Checkout!CheckoutInit
<1>2. PoolType /\ PoolInv /\ PoolInv' /\ [Next]_poolVars
        => [Checkout!CheckoutNext]_(Checkout!checkoutVars)
  BY CheckoutStep
<1> QED
  BY <1>1, <1>2, PoolTypeCorrect, PoolInvCorrect, PTL
     DEF PoolSpec, ImplementsCheckout, Checkout!CheckoutSpec
===============================================================================
