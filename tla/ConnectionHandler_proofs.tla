------------------------ MODULE ConnectionHandler_proofs ------------------------
(***************************************************************************)
(* Proofs about the connection handler, for any number of connections, any *)
(* limit on them, any buffer sizes and any traffic.                        *)
(***************************************************************************)
EXTENDS ConnectionHandler, FiniteSetTheorems, TLAPS

\* A set of connections has a number of elements.
LEMMA ActiveCounted ==
  ASSUME NEW S \in SUBSET Protocols
  PROVE  IsFiniteSet(S) /\ Cardinality(S) \in Nat
BY HandlerAssumption, FS_Subset, FS_CardinalityType

\* What the adjustment of the buffer size leaves is within its bounds.
LEMMA AdjustedInBounds ==
  ASSUME HandlerType, NEW p \in Protocols, NEW n \in Nat, NEW s \in Adjusted(p, n)
  PROVE  s \in MinBuffer .. MaxBuffer
<1>1. size[p] \in MinBuffer .. MaxBuffer /\ MinBuffer \in Nat /\ MaxBuffer \in Nat
  BY HandlerAssumption DEF HandlerType
<1>2. \/ s = size[p]
      \/ s = size[p] + 1 /\ s <= MaxBuffer
      \/ s = size[p] - 1 /\ s >= MinBuffer
  BY DEF Adjusted
<1> QED
  BY <1>1, <1>2

\* What a step of CopyUp changes, with the chunk and the size it picks.
LEMMA CopyUpPicks ==
  ASSUME HandlerType, NEW p \in Protocols, CopyUp(p)
  PROVE  \E n \in Chunks, s \in MinBuffer .. MaxBuffer :
           /\ size' = [size EXCEPT ![p] = s]
           /\ moved' = [moved EXCEPT ![p] = moved[p] + n]
           /\ pending' = [pending EXCEPT ![p] =
                             [pending[p] EXCEPT !["up"] = pending[p]["up"] + n]]
           /\ task' = [task EXCEPT ![p] = [task[p] EXCEPT !["up"] =
                         IF pending[p]["up"] + n >= s THEN "waiting" ELSE "copying"]]
           /\ UNCHANGED <<stage, active, notified, writing, clientUsed, used>>
<1>1. PICK n \in Chunks :
        /\ \E s \in Adjusted(p, n) : size' = [size EXCEPT ![p] = s]
        /\ moved' = [moved EXCEPT ![p] = moved[p] + n]
        /\ pending' = [pending EXCEPT ![p] =
                          [pending[p] EXCEPT !["up"] = pending[p]["up"] + n]]
  BY DEF CopyUp
<1>2. PICK s \in Adjusted(p, n) : size' = [size EXCEPT ![p] = s]
  BY <1>1
<1>3. n \in Nat /\ s \in MinBuffer .. MaxBuffer
  <2>1. n \in Nat
    BY HandlerAssumption
  <2> QED
    BY <2>1, AdjustedInBounds
<1>4. pending'[p]["up"] = pending[p]["up"] + n /\ size'[p] = s
  BY <1>1, <1>2 DEF HandlerType, Tasks
<1>5. task' = [task EXCEPT ![p] = [task[p] EXCEPT !["up"] =
                  IF pending[p]["up"] + n >= s THEN "waiting" ELSE "copying"]]
  BY <1>4 DEF CopyUp
<1> QED
  BY <1>1, <1>2, <1>3, <1>5 DEF CopyUp

\* The same for a step of CopyDown, which counts nothing.
LEMMA CopyDownPicks ==
  ASSUME HandlerType, NEW p \in Protocols, CopyDown(p)
  PROVE  \E n \in Chunks, s \in MinBuffer .. MaxBuffer :
           /\ size' = [size EXCEPT ![p] = s]
           /\ moved' = [moved EXCEPT ![p] = moved[p] + n]
           /\ writing' = [writing EXCEPT ![p] = n]
           /\ task' = [task EXCEPT ![p] = [task[p] EXCEPT !["down"] = "waiting"]]
           /\ UNCHANGED <<stage, active, notified, pending, clientUsed, used>>
<1>1. PICK n \in Chunks :
        /\ \E s \in Adjusted(p, n) : size' = [size EXCEPT ![p] = s]
        /\ moved' = [moved EXCEPT ![p] = moved[p] + n]
        /\ writing' = [writing EXCEPT ![p] = n]
  BY DEF CopyDown
<1>2. PICK s \in Adjusted(p, n) : size' = [size EXCEPT ![p] = s]
  BY <1>1
<1>3. n \in Nat
  BY HandlerAssumption
<1> QED
  BY <1>1, <1>2, <1>3, AdjustedInBounds DEF CopyDown

\* What a task has to report is a number.
LEMMA CountedType ==
  ASSUME HandlerType, NEW p \in Protocols, NEW t \in Tasks
  PROVE  Counted(p, t) \in Nat
BY DEF HandlerType, Counted, Tasks

\* Every variable keeps its type: the buffer size of a connection stays within
\* its bounds, whatever the packets of its two tasks do to it.
THEOREM HandlerTypeCorrect == HandlerSpec => []HandlerType
<1>1. Init => HandlerType
  BY HandlerAssumption DEF Init, HandlerType, Handled, Tasks
<1>2. HandlerType /\ [Next]_handlerVars => HandlerType'
  <2> SUFFICES ASSUME HandlerType, [Next]_handlerVars
               PROVE  HandlerType'
    OBVIOUS
  <2>1. ASSUME NEW p \in Protocols, Accept(p) \/ Reject(p) \/ Leave(p)
        PROVE  HandlerType'
    <3>1. active' \subseteq Protocols
      BY <2>1 DEF Accept, Reject, Leave, HandlerType
    <3>2. notified' \in Nat
      BY <2>1, <3>1, ActiveCounted DEF Accept, Reject, Leave, HandlerType
    <3> QED
      BY <2>1, <3>1, <3>2
         DEF Accept, Reject, Leave, HandlerType, Handled, relayVars
  <2>2. ASSUME NEW p \in Protocols, NEW from \in Handled, NEW to \in Handled,
               Move(p, from, to)
        PROVE  HandlerType'
    BY <2>2 DEF Move, HandlerType, Handled, relayVars
  <2>3. ASSUME NEW p \in Protocols, CopyUp(p)
        PROVE  HandlerType'
    <3>1. PICK n \in Chunks, s \in MinBuffer .. MaxBuffer :
           /\ size' = [size EXCEPT ![p] = s]
           /\ moved' = [moved EXCEPT ![p] = moved[p] + n]
           /\ pending' = [pending EXCEPT ![p] =
                             [pending[p] EXCEPT !["up"] = pending[p]["up"] + n]]
           /\ task' = [task EXCEPT ![p] = [task[p] EXCEPT !["up"] =
                         IF pending[p]["up"] + n >= s THEN "waiting" ELSE "copying"]]
           /\ UNCHANGED <<stage, active, notified, writing, clientUsed, used>>
      BY <2>3, CopyUpPicks
    <3>2. moved[p] + n \in Nat /\ pending[p]["up"] + n \in Nat
      BY HandlerAssumption DEF HandlerType, Tasks
    <3>3. task' \in [Protocols -> [Tasks -> {"copying", "waiting", "over"}]]
      BY <3>1 DEF HandlerType
    <3>4. pending' \in [Protocols -> [Tasks -> Nat]]
      BY <3>1, <3>2 DEF HandlerType
    <3> QED
      BY <3>1, <3>2, <3>3, <3>4 DEF HandlerType
  <2>7. ASSUME NEW p \in Protocols, CopyDown(p)
        PROVE  HandlerType'
    <3>1. PICK n \in Chunks, s \in MinBuffer .. MaxBuffer :
           /\ size' = [size EXCEPT ![p] = s]
           /\ moved' = [moved EXCEPT ![p] = moved[p] + n]
           /\ writing' = [writing EXCEPT ![p] = n]
           /\ task' = [task EXCEPT ![p] = [task[p] EXCEPT !["down"] = "waiting"]]
           /\ UNCHANGED <<stage, active, notified, pending, clientUsed, used>>
      BY <2>7, CopyDownPicks
    <3>2. moved[p] + n \in Nat /\ n \in Nat
      BY HandlerAssumption DEF HandlerType
    <3>3. task' \in [Protocols -> [Tasks -> {"copying", "waiting", "over"}]]
      BY <3>1 DEF HandlerType
    <3> QED
      BY <3>1, <3>2, <3>3 DEF HandlerType
  <2>4. ASSUME NEW p \in Protocols, NEW t \in Tasks, Report(p, t) \/ GoOn(p, t)
        PROVE  HandlerType'
    <3>1. Counted(p, t) \in Nat
      BY CountedType
    <3>2. Resume(p, t)
      BY <2>4 DEF Report, GoOn
    <3>3. /\ task' = [task EXCEPT ![p] = [task[p] EXCEPT ![t] = "copying"]]
          /\ writing' = IF t = "down" THEN [writing EXCEPT ![p] = 0] ELSE writing
          /\ UNCHANGED <<stage, active, notified, size, moved>>
      BY <3>2 DEF Resume
    <3>4. task' \in [Protocols -> [Tasks -> {"copying", "waiting", "over"}]]
      BY <3>3 DEF HandlerType
    <3>5. writing' \in [Protocols -> Nat]
      BY <3>3 DEF HandlerType
    <3>6. \/ pending' = [pending EXCEPT ![p] = [pending[p] EXCEPT ![t] = 0]]
          \/ pending' = [pending EXCEPT ![p] = [pending[p] EXCEPT ![t] = Counted(p, t)]]
      BY <2>4 DEF Report, GoOn
    <3>7. pending' \in [Protocols -> [Tasks -> Nat]]
      <4>1. PICK k \in Nat : pending' = [pending EXCEPT ![p] = [pending[p] EXCEPT ![t] = k]]
        BY <3>1, <3>6
      <4> QED
        BY <4>1 DEF HandlerType
    <3>8. \/ UNCHANGED <<clientUsed, used>>
          \/ /\ clientUsed' = [clientUsed EXCEPT ![p] = clientUsed[p] + Counted(p, t)]
             /\ used' = used + Counted(p, t)
      BY <2>4 DEF Report, GoOn
    <3>9. clientUsed' \in [Protocols -> Nat] /\ used' \in Nat
      BY <3>1, <3>8 DEF HandlerType
    <3> QED
      BY <3>3, <3>4, <3>5, <3>7, <3>9 DEF HandlerType
  <2>5. ASSUME NEW p \in Protocols, NEW t \in Tasks, EndTask(p, t)
        PROVE  HandlerType'
    <3>1. task' \in [Protocols -> [Tasks -> {"copying", "waiting", "over"}]]
      BY <2>5 DEF EndTask, HandlerType
    <3> QED
      BY <2>5, <3>1 DEF EndTask, HandlerType
  <2>6. CASE UNCHANGED handlerVars
    BY <2>6 DEF handlerVars, relayVars, HandlerType
  <2> QED
    BY <2>1, <2>2, <2>3, <2>4, <2>5, <2>6, <2>7
       DEF Next, Peers, Server, Close, Relay, SaltReceived, Admit, Connected, Associate,
           AssociationEnds, Fail, ReplyFails, EndRelay, Parted, Handled
<1> QED
  BY <1>1, <1>2, PTL DEF HandlerSpec

-----------------------------------------------------------------------------
\* The handler never serves more than max_connections, its slots are exactly the
\* connections it serves, and the callback was told their number.
THEOREM SlotsCorrect == HandlerSpec => []SlotsExact
<1>1. Init => SlotsExact
  <2>1. Cardinality({}) = 0
    BY FS_EmptySet
  <2> QED
    BY <2>1, HandlerAssumption DEF Init, SlotsExact, Handled
<1>2. HandlerType /\ SlotsExact /\ [Next]_handlerVars => SlotsExact'
  <2> SUFFICES ASSUME HandlerType, SlotsExact, [Next]_handlerVars
               PROVE  SlotsExact'
    OBVIOUS
  <2>f. IsFiniteSet(active) /\ Cardinality(active) \in Nat /\ MaxActive \in Nat
    BY ActiveCounted, HandlerAssumption DEF HandlerType
  <2>1. ASSUME NEW p \in Protocols, Accept(p) PROVE SlotsExact'
    <3>1. p \notin active
      BY <2>1 DEF Accept, SlotsExact, Handled
    <3>2. Cardinality(active \cup {p}) = Cardinality(active) + 1
      BY <2>f, <3>1, FS_AddElement
    <3>3. Cardinality(active') <= MaxActive
      BY <2>1, <2>f, <3>2 DEF Accept
    <3>4. active' = {q \in Protocols : stage'[q] \in Handled}
      BY <2>1 DEF Accept, SlotsExact, Handled, HandlerType
    <3> QED
      BY <2>1, <3>3, <3>4 DEF Accept, SlotsExact
  <2>2. ASSUME NEW p \in Protocols, Leave(p) PROVE SlotsExact'
    <3>1. p \in active
      BY <2>2 DEF Leave, SlotsExact, Handled
    <3>2. Cardinality(active \ {p}) = Cardinality(active) - 1
      BY <2>f, <3>1, FS_RemoveElement
    <3>3. Cardinality(active') <= MaxActive
      BY <2>2, <2>f, <3>2 DEF Leave, SlotsExact
    <3>4. active' = {q \in Protocols : stage'[q] \in Handled}
      BY <2>2 DEF Leave, SlotsExact, Handled, HandlerType
    <3> QED
      BY <2>2, <3>3, <3>4 DEF Leave, SlotsExact
  <2>3. ASSUME NEW p \in Protocols, Reject(p) PROVE SlotsExact'
    BY <2>3 DEF Reject, SlotsExact, Handled, HandlerType
  <2>4. ASSUME NEW p \in Protocols, NEW from \in Handled, NEW to \in Handled,
               Move(p, from, to)
        PROVE  SlotsExact'
    BY <2>4 DEF Move, SlotsExact, HandlerType
  <2>5. CASE UNCHANGED <<stage, active, notified>>
    BY <2>5 DEF SlotsExact
  <2> QED
    BY <2>1, <2>2, <2>3, <2>4, <2>5
       DEF Next, Peers, Server, Close, Relay, SaltReceived, Admit, Connected, Associate,
           AssociationEnds, Fail, ReplyFails, EndRelay, Parted, CopyUp, CopyDown, Report,
           GoOn, Resume, EndTask, Handled, handlerVars
<1> QED
  BY <1>1, <1>2, HandlerTypeCorrect, PTL DEF HandlerSpec

-----------------------------------------------------------------------------
\* Every step that is neither a copy nor the end of an await leaves the counters
\* alone, and no other step sets a task to copying.
LEMMA OthersKeepCounters ==
  ASSUME HandlerType, [Next]_handlerVars
  PROVE  \/ \E p \in Protocols : CopyUp(p) \/ CopyDown(p)
         \/ \E p \in Protocols, t \in Tasks : Report(p, t) \/ GoOn(p, t)
         \/ /\ UNCHANGED <<pending, writing, moved, clientUsed>>
            /\ \A q \in Protocols, u \in Tasks :
                 task'[q][u] = "copying" => task[q][u] = "copying"
<1>1. ASSUME NEW p \in Protocols, NEW t \in Tasks, EndTask(p, t)
      PROVE  /\ UNCHANGED <<pending, writing, moved, clientUsed>>
             /\ \A q \in Protocols, u \in Tasks :
                  task'[q][u] = "copying" => task[q][u] = "copying"
  BY <1>1 DEF EndTask, HandlerType
<1>2. \/ \E p \in Protocols : CopyUp(p) \/ CopyDown(p)
      \/ \E p \in Protocols, t \in Tasks : Report(p, t) \/ GoOn(p, t) \/ EndTask(p, t)
      \/ UNCHANGED relayVars
  BY DEF Next, Peers, Server, Close, Relay, Accept, Reject, Leave, Move, SaltReceived,
         Admit, Connected, Associate, AssociationEnds, Fail, ReplyFails, EndRelay, Parted,
         handlerVars
<1>3. CASE UNCHANGED relayVars
  BY <1>3 DEF relayVars
<1> QED
  BY <1>1, <1>2, <1>3

\* What a connection has carried is what the statistics have of it, what its two
\* tasks have counted and still to report, and at most one chunk whose write to
\* the client is awaited, or was awaited when the tunnel ended.
THEOREM CountCorrect == HandlerSpec => []CountedOnce
<1> DEFINE
      Balanced(q) ==
        moved[q] = clientUsed[q] + pending[q]["up"] + pending[q]["down"] + writing[q]
      InFlight(q) ==
        /\ task[q]["down"] = "copying" => writing[q] = 0
        /\ writing[q] \in Chunks \cup {0}
<1>1. Init => CountedOnce
  BY DEF Init, CountedOnce, Tasks
<1>2. HandlerType /\ CountedOnce /\ [Next]_handlerVars => CountedOnce'
  <2> SUFFICES ASSUME HandlerType, CountedOnce, [Next]_handlerVars,
                      NEW q \in Protocols
               PROVE  Balanced(q)' /\ InFlight(q)'
    BY DEF CountedOnce
  <2>t. /\ moved[q] \in Nat /\ clientUsed[q] \in Nat /\ writing[q] \in Nat
        /\ pending[q]["up"] \in Nat /\ pending[q]["down"] \in Nat
        /\ Balanced(q) /\ InFlight(q)
        /\ "up" \in Tasks /\ "down" \in Tasks
    BY DEF HandlerType, CountedOnce, Tasks
  <2>1. ASSUME NEW p \in Protocols, CopyUp(p)
        PROVE  Balanced(q)' /\ InFlight(q)'
    <3>1. PICK n \in Chunks, s \in MinBuffer .. MaxBuffer :
            /\ moved' = [moved EXCEPT ![p] = moved[p] + n]
            /\ pending' = [pending EXCEPT ![p] =
                              [pending[p] EXCEPT !["up"] = pending[p]["up"] + n]]
            /\ task' = [task EXCEPT ![p] = [task[p] EXCEPT !["up"] =
                          IF pending[p]["up"] + n >= s THEN "waiting" ELSE "copying"]]
            /\ UNCHANGED <<writing, clientUsed>>
      BY <2>1, CopyUpPicks
    <3>2. n \in Nat
      BY HandlerAssumption
    <3>3. InFlight(q)'
      BY <2>t, <3>1 DEF HandlerType, Tasks
    <3>4. CASE q # p
      BY <2>t, <3>1, <3>3, <3>4 DEF HandlerType
    <3>5. CASE q = p
      <4>1. moved'[q] = moved[q] + n
        BY <3>1, <3>5 DEF HandlerType
      <4>2. /\ pending'[q]["up"] = pending[q]["up"] + n
            /\ pending'[q]["down"] = pending[q]["down"]
        BY <3>1, <3>5 DEF HandlerType, Tasks
      <4> QED
        BY <2>t, <3>1, <3>2, <3>3, <4>1, <4>2
    <3> QED
      BY <3>4, <3>5
  <2>2. ASSUME NEW p \in Protocols, CopyDown(p)
        PROVE  Balanced(q)' /\ InFlight(q)'
    <3>1. PICK n \in Chunks :
            /\ moved' = [moved EXCEPT ![p] = moved[p] + n]
            /\ writing' = [writing EXCEPT ![p] = n]
            /\ task' = [task EXCEPT ![p] = [task[p] EXCEPT !["down"] = "waiting"]]
            /\ UNCHANGED <<pending, clientUsed>>
      BY <2>2, CopyDownPicks
    <3>2. n \in Nat
      BY HandlerAssumption
    <3>3. CASE q # p
      BY <2>t, <3>1, <3>3 DEF HandlerType
    <3>4. CASE q = p
      <4>1. writing[q] = 0
        BY <2>2, <2>t, <3>4 DEF CopyDown
      <4>2. moved'[q] = moved[q] + n /\ writing'[q] = n
        BY <3>1, <3>4 DEF HandlerType
      <4>3. task'[q]["down"] = "waiting"
        BY <2>t, <3>1, <3>4 DEF HandlerType
      <4> QED
        BY <2>t, <3>1, <3>2, <4>1, <4>2, <4>3
    <3> QED
      BY <3>3, <3>4
  <2>3. ASSUME NEW p \in Protocols, NEW t \in Tasks, Report(p, t) \/ GoOn(p, t)
        PROVE  Balanced(q)' /\ InFlight(q)'
    <3>1. /\ task' = [task EXCEPT ![p] = [task[p] EXCEPT ![t] = "copying"]]
          /\ writing' = IF t = "down" THEN [writing EXCEPT ![p] = 0] ELSE writing
          /\ UNCHANGED moved
      BY <2>3 DEF Report, GoOn, Resume
    <3>2. \/ /\ clientUsed' = [clientUsed EXCEPT ![p] = clientUsed[p] + Counted(p, t)]
             /\ pending' = [pending EXCEPT ![p] = [pending[p] EXCEPT ![t] = 0]]
          \/ /\ UNCHANGED clientUsed
             /\ pending' = [pending EXCEPT ![p] = [pending[p] EXCEPT ![t] = Counted(p, t)]]
      BY <2>3 DEF Report, GoOn
    <3>3. CASE q # p
      <4>1. task'[q] = task[q] /\ writing'[q] = writing[q]
        BY <3>1, <3>3 DEF HandlerType
      <4>2. clientUsed'[q] = clientUsed[q] /\ pending'[q] = pending[q]
        BY <3>2, <3>3 DEF HandlerType
      <4> QED
        BY <2>t, <3>1, <4>1, <4>2
    <3>4. CASE q = p /\ t = "up"
      <4>1. writing'[q] = writing[q] /\ task'[q]["down"] = task[q]["down"]
        BY <2>t, <3>1, <3>4 DEF HandlerType
      <4>2. Counted(p, t) = pending[q]["up"]
        BY <2>t, <3>4 DEF Counted
      <4>3. \/ /\ clientUsed'[q] = clientUsed[q] + pending[q]["up"]
               /\ pending'[q]["up"] = 0 /\ pending'[q]["down"] = pending[q]["down"]
            \/ clientUsed'[q] = clientUsed[q] /\ pending'[q]["up"] = pending[q]["up"]
               /\ pending'[q]["down"] = pending[q]["down"]
        BY <2>t, <3>2, <3>4, <4>2 DEF HandlerType
      <4> QED
        BY <2>t, <3>1, <4>1, <4>3
    <3>5. CASE q = p /\ t = "down"
      <4>1. writing'[q] = 0
        BY <3>1, <3>5 DEF HandlerType
      <4>2. Counted(p, t) = pending[q]["down"] + writing[q]
        BY <3>5 DEF Counted
      <4>3. \/ /\ clientUsed'[q] = clientUsed[q] + (pending[q]["down"] + writing[q])
               /\ pending'[q]["up"] = pending[q]["up"] /\ pending'[q]["down"] = 0
            \/ /\ clientUsed'[q] = clientUsed[q]
               /\ pending'[q]["up"] = pending[q]["up"]
               /\ pending'[q]["down"] = pending[q]["down"] + writing[q]
        BY <2>t, <3>2, <3>5, <4>2 DEF HandlerType
      <4> QED
        BY <2>t, <3>1, <4>1, <4>3
    <3> QED
      BY <3>3, <3>4, <3>5 DEF Tasks
  <2>4. CASE /\ UNCHANGED <<pending, writing, moved, clientUsed>>
             /\ task'[q]["down"] = "copying" => task[q]["down"] = "copying"
    BY <2>t, <2>4
  <2> QED
    BY <2>1, <2>2, <2>3, <2>4, <2>t, OthersKeepCounters
<1> QED
  BY <1>1, <1>2, HandlerTypeCorrect, PTL DEF HandlerSpec

-----------------------------------------------------------------------------
\* What is copied and not yet reported stays below a full buffer of the largest
\* size, or exceeds it by the one chunk that made the task wait, although the
\* other task may move the threshold at any time.
THEOREM LagCorrect == HandlerSpec => []LagBounded
<1> DEFINE
      Lag(q, u) ==
        \/ Counted(q, u) < MaxBuffer
        \/ task[q][u] # "copying" /\ \E c \in Chunks : Counted(q, u) - c < MaxBuffer
<1>m. MinBuffer \in Nat \ {0} /\ MaxBuffer \in Nat /\ 0 < MaxBuffer
  BY HandlerAssumption
<1>1. Init => LagBounded
  BY <1>m DEF Init, LagBounded, Counted, Tasks
<1>2. HandlerType /\ CountedOnce /\ LagBounded /\ [Next]_handlerVars => LagBounded'
  <2> SUFFICES ASSUME HandlerType, CountedOnce, LagBounded, [Next]_handlerVars,
                      NEW q \in Protocols, NEW u \in Tasks
               PROVE  Lag(q, u)'
    BY DEF LagBounded
  <2>t. /\ Counted(q, u) \in Nat /\ Lag(q, u)
        /\ "up" \in Tasks /\ "down" \in Tasks
    BY CountedType DEF LagBounded, Tasks
  <2>0. CASE Counted(q, u)' = Counted(q, u) /\ (task'[q][u] = "copying" => task[q][u] = "copying")
    BY <2>t, <2>0
  <2>1. ASSUME NEW p \in Protocols, CopyUp(p) PROVE Lag(q, u)'
    <3>1. PICK n \in Chunks, s \in MinBuffer .. MaxBuffer :
            /\ pending' = [pending EXCEPT ![p] =
                              [pending[p] EXCEPT !["up"] = pending[p]["up"] + n]]
            /\ task' = [task EXCEPT ![p] = [task[p] EXCEPT !["up"] =
                          IF pending[p]["up"] + n >= s THEN "waiting" ELSE "copying"]]
            /\ UNCHANGED writing
      BY <2>1, CopyUpPicks
    <3>2. CASE q # p \/ u # "up"
      <4>1. pending'[q][u] = pending[q][u] /\ task'[q][u] = task[q][u]
        BY <3>1, <3>2 DEF HandlerType
      <4> QED
        BY <2>0, <3>1, <4>1 DEF Counted
    <3>3. CASE q = p /\ u = "up"
      <4>1. /\ pending'[q]["up"] = pending[q]["up"] + n
            /\ task'[q]["up"] = IF pending[q]["up"] + n >= s THEN "waiting" ELSE "copying"
        BY <2>t, <3>1, <3>3 DEF HandlerType
      <4>2. Counted(q, u) = pending[q]["up"] /\ Counted(q, u)' = pending'[q]["up"]
        BY <2>t, <3>3, <4>1, HandlerAssumption DEF Counted, HandlerType
      <4>3. task[q]["up"] = "copying"
        BY <2>1, <3>3 DEF CopyUp
      <4>4. pending[q]["up"] < MaxBuffer
        BY <2>t, <3>3, <4>2, <4>3
      <4>5. n \in Nat /\ s <= MaxBuffer /\ s \in Nat /\ pending[q]["up"] \in Nat
        BY <1>m, <2>t, HandlerAssumption DEF HandlerType
      <4>6. CASE pending[q]["up"] + n >= s
        <5>1. task'[q][u] # "copying"
          BY <3>3, <4>1, <4>6
        <5>2. Counted(q, u)' - n < MaxBuffer
          BY <1>m, <4>1, <4>2, <4>4, <4>5
        <5> QED
          BY <5>1, <5>2
      <4>7. CASE ~(pending[q]["up"] + n >= s)
        BY <1>m, <4>1, <4>2, <4>5, <4>7
      <4> QED
        BY <4>6, <4>7
    <3> QED
      BY <3>2, <3>3
  <2>2. ASSUME NEW p \in Protocols, CopyDown(p) PROVE Lag(q, u)'
    <3>1. PICK n \in Chunks :
            /\ writing' = [writing EXCEPT ![p] = n]
            /\ task' = [task EXCEPT ![p] = [task[p] EXCEPT !["down"] = "waiting"]]
            /\ UNCHANGED pending
      BY <2>2, CopyDownPicks
    <3>2. CASE q # p \/ u # "down"
      <4>1. task'[q][u] = task[q][u] /\ (u = "down" => writing'[q] = writing[q])
        BY <3>1, <3>2 DEF HandlerType
      <4> QED
        BY <2>0, <3>1, <4>1 DEF Counted
    <3>3. CASE q = p /\ u = "down"
      <4>1. writing'[q] = n /\ task'[q]["down"] = "waiting"
        BY <2>t, <3>1, <3>3 DEF HandlerType
      <4>2. task[q]["down"] = "copying" /\ writing[q] = 0
        BY <2>2, <3>3 DEF CopyDown, CountedOnce
      <4>3. Counted(q, u)' = Counted(q, u) + n /\ n \in Nat
        BY <2>t, <3>1, <3>3, <4>1, <4>2, HandlerAssumption DEF Counted, HandlerType
      <4>4. Counted(q, u) < MaxBuffer
        BY <2>t, <3>3, <4>2
      <4>5. Counted(q, u)' - n < MaxBuffer
        BY <1>m, <2>t, <4>3, <4>4
      <4> QED
        BY <3>3, <4>1, <4>5
    <3> QED
      BY <3>2, <3>3
  <2>3. ASSUME NEW p \in Protocols, NEW t \in Tasks, Report(p, t) \/ GoOn(p, t)
        PROVE  Lag(q, u)'
    <3>1. /\ task' = [task EXCEPT ![p] = [task[p] EXCEPT ![t] = "copying"]]
          /\ writing' = IF t = "down" THEN [writing EXCEPT ![p] = 0] ELSE writing
      BY <2>3 DEF Report, GoOn, Resume
    <3>2. \/ pending' = [pending EXCEPT ![p] = [pending[p] EXCEPT ![t] = 0]]
          \/ /\ ~IsDue(p, t)
             /\ pending' = [pending EXCEPT ![p] = [pending[p] EXCEPT ![t] = Counted(p, t)]]
      BY <2>3 DEF Report, GoOn
    <3>3. CASE <<p, t>> # <<q, u>>
      <4>1. task'[q][u] = task[q][u] /\ (u = "down" => writing'[q] = writing[q])
        BY <3>1, <3>3 DEF HandlerType
      <4>2. pending'[q][u] = pending[q][u]
        BY <3>2, <3>3 DEF HandlerType
      <4> QED
        BY <2>0, <4>1, <4>2 DEF Counted
    <3>4. CASE <<p, t>> = <<q, u>>
      <4>1. u = "down" => writing'[q] = 0
        BY <3>1, <3>4 DEF HandlerType
      <4>2. \/ pending'[q][u] = 0
            \/ ~IsDue(q, u) /\ pending'[q][u] = Counted(q, u)
        BY <3>2, <3>4 DEF HandlerType
      <4>3. pending'[q][u] \in Nat /\ Counted(q, u)' = pending'[q][u]
        BY <2>t, <4>1, <4>2 DEF Counted, Tasks
      <4>4. ~IsDue(q, u) => Counted(q, u) < MaxBuffer
        <5>1. size[q] \in Nat /\ size[q] <= MaxBuffer
          BY <1>m DEF HandlerType
        <5> QED
          BY <1>m, <2>t, <5>1 DEF IsDue
      <4> QED
        BY <1>m, <4>2, <4>3, <4>4
    <3> QED
      BY <3>3, <3>4
  <2>4. CASE /\ UNCHANGED <<pending, writing>>
             /\ task'[q][u] = "copying" => task[q][u] = "copying"
    BY <2>0, <2>4 DEF Counted
  <2> QED
    BY <2>1, <2>2, <2>3, <2>4, OthersKeepCounters
<1> QED
  BY <1>1, <1>2, HandlerTypeCorrect, CountCorrect, PTL DEF HandlerSpec
===============================================================================
