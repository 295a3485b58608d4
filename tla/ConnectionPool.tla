---------------------------- MODULE ConnectionPool ----------------------------
(***************************************************************************)
(* ConnectionPool: tasks borrow connections and give them back, a health   *)
(* check and a cleanup task look after the idle ones, stop closes all.     *)
(* Everything runs on one event loop under one asyncio.Lock, so a step is  *)
(* what happens between two awaits; the lock is kept over the awaits of    *)
(* create_connection and wait_closed, and those are the steps of a holder. *)
(***************************************************************************)
EXTENDS Naturals, FiniteSets

CONSTANTS
  Conns,           \* Connection objects; one that nobody refers to is reused
  Borrowers,       \* tasks that call get_connection and return_connection
  NoConn,          \* stands for no connection
  MaxConnections,  \* max_connections
  MaxUsage,        \* max_usage_per_connection
  MayCancel,       \* may a borrower be cancelled inside a pool call?
  MayStop          \* may the pool be stopped?

ASSUME PoolAssumption ==
  /\ NoConn \notin Conns
  /\ IsFiniteSet(Conns)
  /\ Borrowers \cap {"free", "cleanup", "stop"} = {}
  /\ MaxConnections \in Nat \ {0}
  /\ MaxUsage \in Nat \ {0}
  /\ MayCancel \in BOOLEAN
  /\ MayStop \in BOOLEAN

VARIABLES
  running,      \* _running: the health check and cleanup tasks are alive
  stopping,     \* stop waits for the lock or has it
  lock,         \* "free", the borrower that has it, "cleanup" or "stop"
  pc,           \* where each borrower is in get_connection, return_connection
  got,          \* the connection each borrower has
  overdue,      \* the timeout of the borrower's get_connection is over
  connections,  \* _connections
  inUse,        \* _in_use
  doomed,       \* idle_connections of a cleanup that is under way
  usage,        \* usage_count of each connection
  healthy,      \* is_healthy of each connection
  idle,         \* last_used: 0 recent, 1 beyond 80% of max_idle_time, 2 beyond it
  link          \* "open" (whatever the peer did), "worn" (the transport
                \* is closing, or created_at is an hour ago) or "closed" (by us)

taskVars == <<running, stopping, pc, got, overdue>>
connVars == <<usage, healthy, idle, link>>
poolVars == <<taskVars, lock, connections, inUse, doomed, connVars>>

PoolType ==
  /\ running \in BOOLEAN /\ stopping \in BOOLEAN
  /\ lock \in Borrowers \cup {"free", "cleanup", "stop"}
  /\ pc \in [Borrowers -> {"away", "getting", "asleep", "creating", "using",
                           "returning", "discarding"}]
  /\ got \in [Borrowers -> Conns \cup {NoConn}]
  /\ overdue \in [Borrowers -> BOOLEAN]
  /\ connections \subseteq Conns
  /\ inUse \subseteq Conns
  /\ doomed \subseteq Conns
  /\ usage \in [Conns -> Nat]
  /\ healthy \in [Conns -> BOOLEAN]
  /\ idle \in [Conns -> 0 .. 2]
  /\ link \in [Conns -> {"open", "worn", "closed"}]

\* The pool after start.
Init ==
  /\ running = TRUE
  /\ stopping = FALSE
  /\ lock = "free"
  /\ pc = [b \in Borrowers |-> "away"]
  /\ got = [b \in Borrowers |-> NoConn]
  /\ overdue = [b \in Borrowers |-> FALSE]
  /\ connections = {}
  /\ inUse = {}
  /\ doomed = {}
  /\ usage = [c \in Conns |-> 0]
  /\ healthy = [c \in Conns |-> TRUE]
  /\ idle = [c \in Conns |-> 0]
  /\ link = [c \in Conns |-> "closed"]

Goto(b, place) == pc' = [pc EXCEPT ![b] = place]

Unused == connections \ inUse

\* Faulty: the connections in use are not left out.
AvailableAll == {c \in connections : healthy[c]}

\* What get_connection may hand out again.  It takes the first in the list;
\* which one that is makes no difference to what follows.
Available == {c \in Unused : healthy[c]}

\* A Connection object that no list and no task refers to.
Fresh == {c \in Conns \ (connections \cup inUse) : \A b \in Borrowers : got[b] # c}

\* usage_count goes on counting; beyond MaxUsage + 1 it makes no difference.
OneMore(n) == IF n > MaxUsage THEN n ELSE n + 1

-----------------------------------------------------------------------------
\* get_connection

GetCall(b) ==
  /\ pc[b] = "away"
  /\ Goto(b, "getting")
  /\ overdue' = [overdue EXCEPT ![b] = FALSE]
  /\ UNCHANGED <<running, stopping, got, lock, connections, inUse, doomed, connVars>>

\* An idle connection is marked as in use and handed out.
GetReuse(b) ==
  /\ pc[b] = "getting" /\ lock = "free"
  /\ \E c \in Available :
       /\ inUse' = inUse \cup {c}
       /\ idle' = [idle EXCEPT ![c] = 0]
       /\ usage' = [usage EXCEPT ![c] = OneMore(@)]
       /\ got' = [got EXCEPT ![b] = c]
  /\ Goto(b, "using")
  /\ UNCHANGED <<running, stopping, overdue, lock, connections, doomed, healthy, link>>

\* Faulty: the lock is given up while _create_connection is awaited.
GetCreateUnlocked(b) ==
  /\ pc[b] = "getting" /\ lock = "free" /\ Available = {}
  /\ Cardinality(connections) < MaxConnections
  /\ Goto(b, "creating")
  /\ UNCHANGED <<running, stopping, got, overdue, lock, connections, inUse, doomed, connVars>>

\* The pool is not full: _create_connection is awaited with the lock held.
GetCreate(b) ==
  /\ pc[b] = "getting" /\ lock = "free" /\ Available = {}
  /\ Cardinality(connections) < MaxConnections
  /\ lock' = b
  /\ Goto(b, "creating")
  /\ UNCHANGED <<running, stopping, got, overdue, connections, inUse, doomed, connVars>>

\* Faulty: a new connection is not entered in _in_use.
GetCreatedUnmarked(b) ==
  /\ pc[b] = "creating"
  /\ \E c \in Fresh :
       /\ connections' = connections \cup {c}
       /\ usage' = [usage EXCEPT ![c] = 1]
       /\ healthy' = [healthy EXCEPT ![c] = TRUE]
       /\ idle' = [idle EXCEPT ![c] = 0]
       /\ link' = [link EXCEPT ![c] = "open"]
       /\ got' = [got EXCEPT ![b] = c]
  /\ lock' = "free"
  /\ Goto(b, "using")
  /\ UNCHANGED <<running, stopping, overdue, inUse, doomed>>

GetCreated(b) ==
  /\ pc[b] = "creating"
  /\ \E c \in Fresh :
       /\ connections' = connections \cup {c}
       /\ inUse' = inUse \cup {c}
       /\ usage' = [usage EXCEPT ![c] = 1]
       /\ healthy' = [healthy EXCEPT ![c] = TRUE]
       /\ idle' = [idle EXCEPT ![c] = 0]
       /\ link' = [link EXCEPT ![c] = "open"]
       /\ got' = [got EXCEPT ![b] = c]
  /\ lock' = "free"
  /\ Goto(b, "using")
  /\ UNCHANGED <<running, stopping, overdue, doomed>>

\* Faulty: what is not there yet is entered in _in_use first.
GetFailedMarked(b) ==
  /\ pc[b] = "creating"
  /\ inUse' = inUse \cup {got[b]}
  /\ lock' = "free"
  /\ Goto(b, "away")
  /\ UNCHANGED <<running, stopping, got, overdue, connections, doomed, connVars>>

\* Faulty: an exception leaves the lock locked.
GetFailedLocked(b) ==
  /\ pc[b] = "creating"
  /\ Goto(b, "away")
  /\ UNCHANGED <<running, stopping, got, overdue, lock, connections, inUse, doomed, connVars>>

GetFailed(b) ==
  /\ pc[b] = "creating"
  /\ lock' = "free"
  /\ Goto(b, "away")
  /\ UNCHANGED <<running, stopping, got, overdue, connections, inUse, doomed, connVars>>

\* The pool is full: sleep for 0.1 seconds without the lock.
GetSleep(b) ==
  /\ pc[b] = "getting" /\ lock = "free" /\ Available = {}
  /\ Cardinality(connections) >= MaxConnections
  /\ Goto(b, "asleep")
  /\ UNCHANGED <<running, stopping, got, overdue, lock, connections, inUse, doomed, connVars>>

\* The loop condition after the sleep: try again, or raise TimeoutError.
GetAgain(b) ==
  /\ pc[b] = "asleep"
  /\ Goto(b, IF overdue[b] THEN "away" ELSE "getting")
  /\ UNCHANGED <<running, stopping, got, overdue, lock, connections, inUse, doomed, connVars>>

Get(b) ==
  \/ GetReuse(b) \/ GetCreate(b) \/ GetCreated(b) \/ GetFailed(b)
  \/ GetSleep(b) \/ GetAgain(b)

-----------------------------------------------------------------------------
\* return_connection

ReturnCall(b) ==
  /\ pc[b] = "using"
  /\ Goto(b, "returning")
  /\ UNCHANGED <<running, stopping, got, overdue, lock, connections, inUse, doomed, connVars>>

\* Faulty: one use too many.
MustDiscardLate(c) == usage[c] > MaxUsage \/ ~healthy[c]

MustDiscard(c) == usage[c] >= MaxUsage \/ ~healthy[c]

\* The connection goes back to the idle ones.
ReturnKeep(b) ==
  /\ pc[b] = "returning" /\ lock = "free" /\ got[b] \in inUse
  /\ ~MustDiscard(got[b])
  /\ inUse' = inUse \ {got[b]}
  /\ idle' = [idle EXCEPT ![got[b]] = 0]
  /\ got' = [got EXCEPT ![b] = NoConn]
  /\ Goto(b, "away")
  /\ UNCHANGED <<running, stopping, overdue, lock, connections, doomed, usage, healthy, link>>

\* Faulty: a discarded connection stays in _in_use.
ReturnDiscardMarked(b) ==
  /\ pc[b] = "returning" /\ lock = "free" /\ got[b] \in inUse
  /\ MustDiscard(got[b])
  /\ link' = [link EXCEPT ![got[b]] = "closed"]
  /\ lock' = b
  /\ Goto(b, "discarding")
  /\ UNCHANGED <<running, stopping, got, overdue, connections, inUse, doomed, usage, healthy, idle>>

\* It is closed instead; wait_closed is awaited with the lock held.
ReturnDiscard(b) ==
  /\ pc[b] = "returning" /\ lock = "free" /\ got[b] \in inUse
  /\ MustDiscard(got[b])
  /\ inUse' = inUse \ {got[b]}
  /\ idle' = [idle EXCEPT ![got[b]] = 0]
  /\ link' = [link EXCEPT ![got[b]] = "closed"]
  /\ lock' = b
  /\ Goto(b, "discarding")
  /\ UNCHANGED <<running, stopping, got, overdue, connections, doomed, usage, healthy>>

\* Faulty: the closed connection stays in the list.
ReturnDiscardedKept(b) ==
  /\ pc[b] = "discarding"
  /\ got' = [got EXCEPT ![b] = NoConn]
  /\ lock' = "free"
  /\ Goto(b, "away")
  /\ UNCHANGED <<running, stopping, overdue, connections, inUse, doomed, connVars>>

ReturnDiscarded(b) ==
  /\ pc[b] = "discarding"
  /\ connections' = connections \ {got[b]}
  /\ got' = [got EXCEPT ![b] = NoConn]
  /\ lock' = "free"
  /\ Goto(b, "away")
  /\ UNCHANGED <<running, stopping, overdue, inUse, doomed, connVars>>

\* The pool does not know it any more: only a warning.
ReturnUnknown(b) ==
  /\ pc[b] = "returning" /\ lock = "free" /\ got[b] \notin inUse
  /\ got' = [got EXCEPT ![b] = NoConn]
  /\ Goto(b, "away")
  /\ UNCHANGED <<running, stopping, overdue, lock, connections, inUse, doomed, connVars>>

Return(b) ==
  ReturnKeep(b) \/ ReturnDiscard(b) \/ ReturnDiscarded(b) \/ ReturnUnknown(b)

\* CancelledError at an await inside a pool call: the async with block releases
\* the lock, nothing else is undone.
Cancel(b) ==
  /\ MayCancel
  /\ pc[b] \in {"getting", "asleep", "creating", "returning", "discarding"}
  /\ lock' = IF lock = b THEN "free" ELSE lock
  /\ got' = [got EXCEPT ![b] = NoConn]
  /\ Goto(b, "away")
  /\ UNCHANGED <<running, stopping, overdue, connections, inUse, doomed, connVars>>

-----------------------------------------------------------------------------
\* The health check and cleanup tasks

\* _is_connection_healthy.  Transports have no set_read_timeout, and the
\* exception that raises skips the at_eof() test behind it, so what the peer did
\* makes no difference.
IsHealthy(c) ==
  /\ link[c] \notin {"worn", "closed"}
  /\ idle[c] = 0

CheckHealth ==
  /\ running /\ lock = "free"
  /\ healthy' = [c \in Conns |-> healthy[c] /\ (c \in Unused => IsHealthy(c))]
  /\ UNCHANGED <<taskVars, lock, connections, inUse, doomed, usage, idle, link>>

\* Faulty: a long-running use passes for idleness.
StaleInUseToo == {c \in connections : idle[c] = 2}

\* Faulty: unhealthy connections are left to the health check.
StaleHealthy == {c \in Unused : idle[c] = 2 /\ healthy[c]}

Stale == {c \in Unused : idle[c] = 2}

CleanupStart ==
  /\ running /\ lock = "free" /\ Stale # {}
  /\ doomed' = Stale
  /\ lock' = "cleanup"
  /\ \E c \in doomed' : link' = [link EXCEPT ![c] = "closed"]
  /\ UNCHANGED <<taskVars, connections, inUse, usage, healthy, idle>>

\* wait_closed returns: the connection goes, the next one is closed.
CleanupNext ==
  /\ running /\ lock = "cleanup"
  /\ \E c \in {d \in doomed : link[d] = "closed"} :
       /\ connections' = connections \ {c}
       /\ doomed' = doomed \ {c}
  /\ IF doomed' = {}
     THEN lock' = "free" /\ UNCHANGED link
     ELSE UNCHANGED lock /\ \E d \in doomed' : link' = [link EXCEPT ![d] = "closed"]
  /\ UNCHANGED <<taskVars, inUse, usage, healthy, idle>>

\* stop has cancelled the task in the middle of this.
CleanupCancelled ==
  /\ ~running /\ lock = "cleanup"
  /\ lock' = "free"
  /\ doomed' = {}
  /\ UNCHANGED <<taskVars, connections, inUse, connVars>>

Cleanup == CleanupStart \/ CleanupNext \/ CleanupCancelled

-----------------------------------------------------------------------------
\* start and stop

\* Whoever owns the pool awaits stop before start.
Start ==
  /\ ~running /\ ~stopping
  /\ running' = TRUE
  /\ UNCHANGED <<stopping, pc, got, overdue, lock, connections, inUse, doomed, connVars>>

StopCall ==
  /\ MayStop /\ running
  /\ running' = FALSE
  /\ stopping' = TRUE
  /\ UNCHANGED <<pc, got, overdue, lock, connections, inUse, doomed, connVars>>

\* Every connection is closed, used or not; nobody sees the order.
StopClose ==
  /\ stopping /\ lock = "free"
  /\ lock' = "stop"
  /\ link' = [c \in Conns |-> IF c \in connections \cup inUse THEN "closed" ELSE link[c]]
  /\ UNCHANGED <<taskVars, connections, inUse, doomed, usage, healthy, idle>>

StopDone ==
  /\ lock = "stop"
  /\ connections' = {}
  /\ inUse' = {}
  /\ lock' = "free"
  /\ stopping' = FALSE
  /\ UNCHANGED <<running, pc, got, overdue, doomed, connVars>>

Stop == StopClose \/ StopDone

-----------------------------------------------------------------------------
\* Time and the peers

TimeOut(b) ==
  /\ pc[b] \in {"getting", "asleep", "creating"}
  /\ ~overdue[b]
  /\ overdue' = [overdue EXCEPT ![b] = TRUE]
  /\ UNCHANGED <<running, stopping, pc, got, lock, connections, inUse, doomed, connVars>>

\* last_used is set when a connection is handed out and when it comes back.
GrowsStale(c) ==
  /\ c \in connections /\ idle[c] < 2
  /\ idle' = [idle EXCEPT ![c] = @ + 1]
  /\ UNCHANGED <<taskVars, lock, connections, inUse, doomed, usage, healthy, link>>

WearsOut(c) ==
  /\ c \in connections /\ link[c] = "open"
  /\ link' = [link EXCEPT ![c] = "worn"]
  /\ UNCHANGED <<taskVars, lock, connections, inUse, doomed, usage, healthy, idle>>

Environment ==
  \/ \E b \in Borrowers : GetCall(b) \/ ReturnCall(b) \/ Cancel(b) \/ TimeOut(b)
  \/ \E c \in Conns : GrowsStale(c) \/ WearsOut(c)
  \/ Start \/ StopCall

Next ==
  \/ Environment
  \/ \E b \in Borrowers : Get(b) \/ Return(b)
  \/ CheckHealth
  \/ Cleanup
  \/ Stop

PoolSpec == Init /\ [][Next]_poolVars

\* asyncio.Lock wakes its waiters in the order they came, so a getter or the
\* cleanup that keeps asking for it gets it (SF).  create_connection and
\* wait_closed return in the end, and time passes.  Nobody has to borrow, to give
\* back or to stop.
FairPoolSpec ==
  /\ PoolSpec
  /\ \A b \in Borrowers :
       /\ SF_poolVars(Get(b))
       /\ WF_poolVars(Return(b))
       /\ WF_poolVars(TimeOut(b))
  /\ SF_poolVars(Cleanup)
  /\ WF_poolVars(Stop)
  /\ \A c \in Conns : WF_poolVars(GrowsStale(c))

-----------------------------------------------------------------------------
\* No two borrowers have the same connection, through reuse, discards, cleanup,
\* restarts and cancelled calls (get_connection against all that gives
\* connections back or throws them away).
Exclusive ==
  \A a, b \in Borrowers : a # b /\ got[a] = got[b] => got[a] = NoConn

\* The pool never has more than max_connections, however many tasks find it
\* almost full at once: create_connection is awaited between the test of the
\* length and the append.
WithinCapacity == Cardinality(connections) <= MaxConnections

\* A connection that a borrower has is accounted for as in use, unless stop has
\* closed it under the borrower.
HeldIsInUse ==
  \A b \in Borrowers :
    pc[b] \in {"using", "returning"} => got[b] \in inUse \/ link[got[b]] = "closed"

\* No slot leaks: what is in use is in the hands of a borrower who will give it
\* back.
InUseIsHeld == \A c \in inUse : \E b \in Borrowers : got[b] = c

\* get_connection of a running pool does not hand out a connection that the
\* pool itself has closed (return_connection and the cleanup close a connection
\* first and take it off the list an await later).
NoClosedHandedOut ==
  running /\ lock = "free" => \A c \in Available : link[c] # "closed"

\* No connection is used more than max_usage_per_connection times.
UsageBound == \A c \in connections : usage[c] <= MaxUsage

\* Nobody waits for a connection for ever, with the pool full, the lock busy or
\* the pool stopped: get_connection returns or raises.
GetSettles ==
  \A b \in Borrowers : pc[b] = "getting" ~> pc[b] \in {"using", "away"}

\* A connection found unhealthy does not stay: nobody can borrow and thereby
\* discard it any more, so it takes the cleanup to free its slot.
UnhealthyEvicted ==
  \A c \in Conns :
    running /\ c \in connections /\ ~healthy[c] ~> c \notin connections \/ ~running

\* The pool seen by its borrowers: who is discarding a connection has none.
Lent == [b \in Borrowers |-> IF pc[b] = "discarding" THEN NoConn ELSE got[b]]

Checkout == INSTANCE CheckoutPool WITH
              Nothing <- NoConn,
              Capacity <- MaxConnections,
              kept <- connections,
              lent <- Lent

\* The pool lends like the abstract one, whatever is cancelled or stopped.
ImplementsCheckout == Checkout!CheckoutSpec
===============================================================================
