--------------------------- MODULE SecureKeys_proofs ---------------------------
(***************************************************************************)
(* Proofs about the secure key manager, for any set of key ids and any     *)
(* usages, with saves that fail, crashes and restarts.                     *)
(***************************************************************************)
EXTENDS SecureKeys, SequenceTheorems, TLAPS

-----------------------------------------------------------------------------
\* What a ring is to be, given whose keys have been made and what has lapsed.

Owners == [Ids -> Usages \cup {NoKey}]

\* The outcomes a call may have.
Outs == [what : {"none", "key", "KeyError", "InvalidTag"},
         key : Ids \cup {NoKey}, late : BOOLEAN]

\* The active key of u is one made for u, and sound.
SoundFor(r, u, owner, passed) ==
  r.active[u] # NoKey =>
    /\ owner[r.active[u]] = u
    /\ r.status[r.active[u]] = "active" /\ r.deadline[r.active[u]] = "lifetime"
    /\ \/ r.where[r.active[u]] = "keys"
       \/ r.where[r.active[u]] = "history" /\ <<r.active[u], "lifetime">> \in passed

\* A key not made yet has left no trace.
Unmade(r, owner) ==
  \A k \in Ids : owner[k] = NoKey =>
    r.where[k] = "none" /\ r.status[k] = "active" /\ r.deadline[k] = "lifetime"

SoundIn(r, owner, passed) ==
  /\ r \in Rings
  /\ \A u \in Usages : SoundFor(r, u, owner, passed)
  /\ Unmade(r, owner)

\* The rings a running call has still to save are sound, have the active keys of
\* the memory, and the last one is the memory.
TodoInv ==
  /\ \A i \in 1..Len(todo) :
       SoundIn(todo[i], usageOf, lapsed) /\ todo[i].active = ring.active
  /\ todo # <<>> => todo[Len(todo)] = ring
  /\ writing => disk = Torn /\ todo # <<>>
  /\ ~up => todo = <<>> /\ ~writing /\ out.what # "key"

\* The file that a restart would find.
DiskInv ==
  /\ disk # Torn => SoundIn(disk, usageOf, lapsed)
  /\ up /\ todo = <<>> /\ disk # Torn /\ ~stale =>
       disk = ring \/ \E u \in Usages : ring.active[u] = NoKey

\* Retired keys are old ones, and active neither in memory nor in the file.
RetiredInv ==
  /\ \A k \in retired : usageOf[k] # NoKey /\ k \notin Active(ring)
  /\ disk # Torn /\ ~stale => \A k \in retired : k \notin Active(disk)

LateInv == out.what = "key" /\ out.late => out.key \notin Active(ring)

KeysInv ==
  /\ CallsType
  /\ SoundIn(ring, usageOf, lapsed)
  /\ TodoInv
  /\ DiskInv
  /\ RetiredInv
  /\ LateInv

-----------------------------------------------------------------------------
\* What the calls make of a ring is a ring.
LEMMA GeneratedType ==
  ASSUME NEW r \in Rings, NEW u \in Usages, NEW k \in Ids
  PROVE  Generated(r, u, k) \in Rings
  BY DEF Rings, Generated

\* Marking a key leaves a ring.
LEMMA RingTypes ==
  ASSUME NEW r \in Rings, NEW k \in Ids
  PROVE  /\ Rotating(r, k) \in Rings /\ Revoked(r, k) \in Rings
         /\ [r EXCEPT !.status[k] = "expired"] \in Rings
  BY DEF Rings, Rotating, Revoked, Deadlines

\* Moving keys leaves a ring with the same active keys.
LEMMA MovedType ==
  ASSUME NEW r \in Rings, NEW K
  PROVE  Moved(r, K) \in Rings /\ Moved(r, K).active = r.active
  BY DEF Rings, Moved

\* A process that has just started has a sound ring.
LEMMA EmptySound ==
  ASSUME NEW owner, NEW passed
  PROVE  SoundIn(EmptyRing, owner, passed)
  BY DEF SoundIn, SoundFor, Unmade, EmptyRing, Rings, Deadlines

\* A sound ring stays sound when keys are made and lifetimes end.
LEMMA SoundStays ==
  ASSUME NEW r, NEW owner, NEW owner2, NEW passed, NEW passed2,
         SoundIn(r, owner, passed),
         \A k \in Ids : owner[k] # NoKey => owner2[k] = owner[k],
         \A k \in Ids : <<k, "lifetime">> \in passed => <<k, "lifetime">> \in passed2
  PROVE  SoundIn(r, owner2, passed2)
<1>1. \A u \in Usages : SoundFor(r, u, owner2, passed2)
  <2> SUFFICES ASSUME NEW u \in Usages, r.active[u] # NoKey
               PROVE SoundFor(r, u, owner2, passed2)
    BY DEF SoundFor
  <2>1. SoundFor(r, u, owner, passed) /\ r.active[u] \in Ids
    BY DEF SoundIn, Rings
  <2>2. owner[r.active[u]] = u /\ u # NoKey
    BY <2>1, KeysAssumption DEF SoundFor
  <2> QED
    BY <2>1, <2>2 DEF SoundFor
<1>2. Unmade(r, owner2)
  BY DEF SoundIn, Unmade
<1> QED
  BY <1>1, <1>2 DEF SoundIn

\* In a sound ring no key is active twice.
LEMMA ActiveOnce ==
  ASSUME NEW r, NEW owner, NEW passed, SoundIn(r, owner, passed),
         NEW u \in Usages, NEW v \in Usages, r.active[u] # NoKey,
         r.active[v] = r.active[u]
  PROVE  v = u
<1>1. SoundFor(r, u, owner, passed) /\ SoundFor(r, v, owner, passed)
  BY DEF SoundIn
<1> QED
  BY <1>1 DEF SoundFor

\* A made key that is marked as expired, rotating or revoked spoils no usage
\* but the one it is active for, and a new key for that one makes up for it.
LEMMA MarkedSound ==
  ASSUME NEW r, NEW r2, NEW owner, NEW passed, NEW old \in Ids,
         SoundIn(r, owner, passed), r2 \in Rings, owner[old] # NoKey,
         r2.where = r.where, r2.active = r.active,
         \A k \in Ids \ {old} :
           r2.status[k] = r.status[k] /\ r2.deadline[k] = r.deadline[k]
  PROVE  /\ \A v \in Usages : r.active[v] # old => SoundFor(r2, v, owner, passed)
         /\ Unmade(r2, owner)
<1>1. ASSUME NEW v \in Usages, r.active[v] # old PROVE SoundFor(r2, v, owner, passed)
  <2>1. SoundFor(r, v, owner, passed) /\ r.active[v] \in Ids \cup {NoKey}
    BY DEF SoundIn, Rings
  <2> QED
    BY <1>1, <2>1 DEF SoundFor
<1>2. Unmade(r2, owner)
  BY DEF SoundIn, Unmade
<1> QED
  BY <1>1, <1>2

\* A new key for u makes a ring sound that was sound for every other usage.
LEMMA GeneratedSound ==
  ASSUME NEW r \in Rings, NEW u \in Usages, NEW k \in Ids,
         NEW owner \in Owners, NEW made, NEW passed,
         owner[k] = NoKey, made = [owner EXCEPT ![k] = u],
         \A v \in Usages \ {u} : SoundFor(r, v, owner, passed),
         Unmade(r, owner)
  PROVE  SoundIn(Generated(r, u, k), made, passed)
<1> DEFINE g == Generated(r, u, k)
<1>1. g \in Rings
  BY GeneratedType
<1>2. /\ g.active = [r.active EXCEPT ![u] = k] /\ g.where = [r.where EXCEPT ![k] = "keys"]
      /\ g.status = r.status /\ g.deadline = r.deadline
  BY DEF Generated, Rings
<1>3. /\ made[k] = u /\ \A j \in Ids \ {k} : made[j] = owner[j]
  BY DEF Owners
<1>4. SoundFor(g, u, made, passed)
  <2>1. g.active[u] = k /\ g.where[k] = "keys"
    BY <1>2 DEF Rings
  <2>2. g.status[k] = "active" /\ g.deadline[k] = "lifetime"
    BY <1>2 DEF Unmade
  <2> QED
    BY <1>3, <2>1, <2>2 DEF SoundFor
<1>5. ASSUME NEW v \in Usages \ {u}, g.active[v] # NoKey
      PROVE SoundFor(g, v, made, passed)
  <2>1. g.active[v] = r.active[v] /\ r.active[v] \in Ids
    BY <1>2, <1>5 DEF Rings
  <2>2. owner[r.active[v]] = v /\ v # NoKey
    BY <1>5, <2>1, KeysAssumption DEF SoundFor
  <2>3. r.active[v] # k
    BY <2>2
  <2>4. g.where[r.active[v]] = r.where[r.active[v]]
    BY <1>2, <2>1, <2>3 DEF Rings
  <2> QED
    BY <1>2, <1>3, <1>5, <2>1, <2>3, <2>4 DEF SoundFor
<1>6. Unmade(g, made)
  <2> SUFFICES ASSUME NEW j \in Ids, made[j] = NoKey
               PROVE g.where[j] = "none" /\ g.status[j] = "active"
                     /\ g.deadline[j] = "lifetime"
    BY DEF Unmade
  <2>1. j # k /\ owner[j] = NoKey
    BY <1>3, KeysAssumption
  <2> QED
    BY <1>2, <2>1 DEF Unmade, Rings
<1>7. \A v \in Usages : SoundFor(g, v, made, passed)
  BY <1>4, <1>5 DEF SoundFor
<1> QED
  BY <1>1, <1>2, <1>6, <1>7 DEF SoundIn

\* Keys may go to the history when they are not active, or their life is over.
LEMMA MovedSound ==
  ASSUME NEW r, NEW owner, NEW passed, NEW K \in SUBSET Ids,
         SoundIn(r, owner, passed),
         \A k \in K : owner[k] # NoKey,
         \A u \in Usages : r.active[u] \in K => <<r.active[u], "lifetime">> \in passed
  PROVE  SoundIn(Moved(r, K), owner, passed)
<1> DEFINE m == Moved(r, K)
<1>1. r \in Rings /\ m \in Rings /\ m.active = r.active
  BY MovedType DEF SoundIn
<1>2. /\ m.status = r.status /\ m.deadline = r.deadline
      /\ m.where = [k \in Ids |-> IF k \in K THEN "history" ELSE r.where[k]]
  BY <1>1 DEF Moved, Rings
<1>3. ASSUME NEW u \in Usages, m.active[u] # NoKey PROVE SoundFor(m, u, owner, passed)
  <2>1. r.active[u] \in Ids /\ SoundFor(r, u, owner, passed)
    BY <1>1, <1>3 DEF Rings, SoundIn
  <2> QED
    BY <1>1, <1>2, <1>3, <2>1 DEF SoundFor
<1>4. Unmade(m, owner)
  BY <1>2 DEF Unmade, SoundIn
<1>5. \A u \in Usages : SoundFor(m, u, owner, passed)
  BY <1>3 DEF SoundFor
<1> QED
  BY <1>1, <1>4, <1>5 DEF SoundIn

-----------------------------------------------------------------------------
\* What a call may end with.
LEMMA OutcomeType ==
  ASSUME NEW what \in {"none", "key", "KeyError", "InvalidTag"}, NEW k \in Ids \cup {NoKey}
  PROVE  Outcome(what, k) \in Outs
<1>1. (Expired(k) \/ k \in due) \in BOOLEAN
  OBVIOUS
<1> QED
  BY <1>1 DEF Outcome, Outs

\* A call keeps the invariant when the rings it saves are sound and agree on the
\* active keys, and when it brings no retired key back.
LEMMA CallKeeps ==
  ASSUME KeysInv, Idle, NEW saves \in Seq(Rings), Len(saves) \in {1, 2}, Perform(saves),
         usageOf' \in Owners, lapsed' \subseteq Ids \X Deadlines, out' \in Outs,
         \A i \in 1..Len(saves) : SoundIn(saves[i], usageOf', lapsed'),
         \A i \in 1..Len(saves) : saves[i].active = ring'.active,
         \A k \in Ids : usageOf[k] # NoKey => usageOf'[k] = usageOf[k],
         \A k \in Ids : <<k, "lifetime">> \in lapsed => <<k, "lifetime">> \in lapsed',
         \A k \in retired : k \notin Active(ring'),
         LateInv'
  PROVE  KeysInv'
<1>1. /\ todo' = saves /\ ring' = saves[Len(saves)] /\ ring' \in Rings
      /\ UNCHANGED <<disk, writing, up, given, foreign, due, stale, retired>>
  BY DEF Perform
<1>2. up /\ todo = <<>> /\ ~writing
  BY DEF Idle, KeysInv, TodoInv
<1>3. CallsType'
  BY <1>1 DEF KeysInv, CallsType, Owners, Outs
<1>4. SoundIn(ring', usageOf', lapsed')
  BY <1>1
<1>5. TodoInv'
  BY <1>1, <1>2 DEF TodoInv
<1>6. DiskInv'
  <2>1. ASSUME disk # Torn PROVE SoundIn(disk, usageOf', lapsed')
    <3>1. SoundIn(disk, usageOf, lapsed)
      BY <2>1 DEF KeysInv, DiskInv
    <3> QED
      BY <3>1, SoundStays
  <2>2. todo' # <<>>
    BY <1>1
  <2> QED
    BY <1>1, <2>1, <2>2 DEF DiskInv
<1>7. RetiredInv'
  <2>1. \A k \in retired : usageOf'[k] # NoKey
    BY DEF KeysInv, RetiredInv, CallsType
  <2>2. disk # Torn /\ ~stale => \A k \in retired : k \notin Active(disk)
    BY DEF KeysInv, RetiredInv
  <2> QED
    BY <1>1, <2>1, <2>2 DEF RetiredInv
<1> QED
  BY <1>3, <1>4, <1>5, <1>6, <1>7 DEF KeysInv

\* What drawing an id for a new key of u does to the owners and active keys.
LEMMA DrawFacts ==
  ASSUME KeysInv, NEW u \in Usages, NEW k \in Ids, Draw(k, u)
  PROVE  /\ usageOf \in Owners /\ usageOf' \in Owners
         /\ usageOf[k] = NoKey /\ usageOf' = [usageOf EXCEPT ![k] = u]
         /\ \A j \in Ids : usageOf[j] # NoKey => usageOf'[j] = usageOf[j]
         /\ \A v \in Usages : ring.active[v] # k
         /\ \A j \in retired : j # k /\ j \notin Active(ring)
<1>1. usageOf \in Owners /\ ring \in Rings
  BY DEF KeysInv, CallsType, Owners
<1>2. usageOf[k] = NoKey /\ usageOf' = [usageOf EXCEPT ![k] = u]
  BY DEF Draw, Fresh
<1>3. ASSUME NEW v \in Usages PROVE ring.active[v] # k
  <2>1. SoundFor(ring, v, usageOf, lapsed)
    BY DEF KeysInv, SoundIn
  <2> QED
    BY <1>2, <2>1, KeysAssumption DEF SoundFor
<1>4. \A j \in retired : j # k /\ j \notin Active(ring)
  BY <1>2 DEF KeysInv, RetiredInv
<1> QED
  BY <1>1, <1>2, <1>3, <1>4 DEF Owners

\* The same for an id drawn by the running call.
LEMMA DrawnSound ==
  ASSUME KeysInv, NEW u \in Usages, NEW k \in Ids, Draw(k, u), NEW r \in Rings,
         \A v \in Usages \ {u} : SoundFor(r, v, usageOf, lapsed),
         Unmade(r, usageOf)
  PROVE  SoundIn(Generated(r, u, k), usageOf', lapsed)
<1>1. usageOf \in Owners /\ usageOf[k] = NoKey /\ usageOf' = [usageOf EXCEPT ![k] = u]
  BY DrawFacts
<1> QED
  BY <1>1, GeneratedSound

\* A call that gives u a new key on a ring that is sound but for u.
LEMMA ReplaceKeeps ==
  ASSUME KeysInv, Idle, NEW u \in Usages, NEW k \in Ids, Draw(k, u),
         NEW r \in Rings, r.active = ring.active,
         \A v \in Usages \ {u} : SoundFor(r, v, usageOf, lapsed),
         Unmade(r, usageOf),
         NEW K \in SUBSET Ids,
         \A j \in K : usageOf[j] # NoKey /\ \A v \in Usages \ {u} : ring.active[v] # j,
         NEW saves, Perform(saves),
         LET g == Generated(r, u, k)
         IN saves \in {<<g>>, <<g, g>>, <<g, Moved(g, K)>>},
         lapsed' \subseteq Ids \X Deadlines, out' \in Outs,
         \A j \in Ids : <<j, "lifetime">> \in lapsed <=> <<j, "lifetime">> \in lapsed',
         out'.what = "key" => out'.key = ring.active[u]
  PROVE  KeysInv'
<1> DEFINE g == Generated(r, u, k)
           m == Moved(g, K)
<1>1. /\ SoundIn(g, usageOf', lapsed) /\ g.active = [ring.active EXCEPT ![u] = k]
      /\ g \in Rings
  <2>1. SoundIn(g, usageOf', lapsed)
    BY DrawnSound
  <2>2. g.active = [ring.active EXCEPT ![u] = k]
    BY DEF Generated, Rings
  <2> QED
    BY <2>1, <2>2 DEF SoundIn
<1>2. \A j \in Ids : usageOf[j] # NoKey => usageOf'[j] = usageOf[j]
  BY DrawFacts
<1>3. SoundIn(m, usageOf', lapsed) /\ m \in Rings /\ m.active = g.active
  <2>1. \A v \in Usages : g.active[v] \notin K
    BY <1>1, DrawFacts DEF KeysInv, CallsType, Rings
  <2>2. \A j \in K : usageOf'[j] # NoKey
    BY <1>2
  <2> QED
    BY <1>1, <2>1, <2>2, MovedSound, MovedType
<1>4. SoundIn(g, usageOf', lapsed') /\ SoundIn(m, usageOf', lapsed')
  BY <1>1, <1>3, SoundStays
<1>5. /\ saves \in Seq(Rings) /\ Len(saves) \in {1, 2}
      /\ \A i \in 1..Len(saves) : saves[i] \in {g, m}
  <2>1. saves = <<g>> \/ saves = <<g, g>> \/ saves = <<g, m>>
    OBVIOUS
  <2> HIDE DEF g, m
  <2>2. g \in Rings /\ m \in Rings
    BY <1>1, <1>3
  <2>3. CASE saves = <<g>>
    BY <2>2, <2>3
  <2>4. CASE saves = <<g, g>>
    BY <2>2, <2>4
  <2>5. CASE saves = <<g, m>>
    BY <2>2, <2>5
  <2> QED
    BY <2>1, <2>3, <2>4, <2>5
<1>6. ring' \in {g, m} /\ ring'.active = [ring.active EXCEPT ![u] = k]
  BY <1>1, <1>3, <1>5 DEF Perform
<1>7. \A i \in 1..Len(saves) :
        SoundIn(saves[i], usageOf', lapsed') /\ saves[i].active = ring'.active
  BY <1>1, <1>3, <1>4, <1>5, <1>6
<1>8. \A j \in Active(ring') : j = k \/ j \in Active(ring)
  BY <1>6 DEF Active, KeysInv, CallsType, Rings
<1>9. \A j \in retired : j \notin Active(ring')
  BY <1>8, DrawFacts
<1>10. LateInv'
  <2> SUFFICES ASSUME out'.what = "key", out'.key \in Active(ring') PROVE FALSE
    BY DEF LateInv
  <2>1. PICK v \in Usages : ring'.active[v] = ring.active[u] /\ ring.active[u] # NoKey
    BY DEF Active
  <2>2. v # u
    BY <1>6, <2>1, DrawFacts DEF KeysInv, CallsType, Rings
  <2>3. ring.active[v] = ring.active[u]
    BY <1>6, <2>1, <2>2 DEF KeysInv, CallsType, Rings
  <2> QED
    BY <2>1, <2>2, <2>3, ActiveOnce DEF KeysInv
<1> HIDE DEF g, m
<1> QED
  BY <1>2, <1>5, <1>7, <1>9, <1>10, CallKeeps, DrawFacts

-----------------------------------------------------------------------------
\* The calls keep the invariant.

\* An active key was made, for its usage, and is active for no other.
LEMMA ActiveFacts ==
  ASSUME KeysInv, NEW u \in Usages, ring.active[u] # NoKey
  PROVE  /\ ring \in Rings /\ ring.active[u] \in Ids
         /\ SoundFor(ring, u, usageOf, lapsed) /\ usageOf[ring.active[u]] = u
         /\ usageOf[ring.active[u]] # NoKey
         /\ \A v \in Usages \ {u} : ring.active[v] # ring.active[u]
<1>1. ring \in Rings /\ SoundFor(ring, u, usageOf, lapsed)
  BY DEF KeysInv, SoundIn
<1>2. ring.active[u] \in Ids
  BY <1>1 DEF Rings
<1>3. usageOf[ring.active[u]] = u
  BY <1>1 DEF SoundFor
<1>4. ASSUME NEW v \in Usages \ {u} PROVE ring.active[v] # ring.active[u]
  BY ActiveOnce DEF KeysInv
<1> QED
  BY <1>1, <1>2, <1>3, <1>4, KeysAssumption

\* A call that hands out nothing has an outcome all the same.
LEMMA NoOutcomeType == NoOutcome \in Outs /\ NoOutcome.what # "key"
  BY DEF NoOutcome, Outs

\* generate_key keeps the invariant.
LEMMA GenerateKeeps ==
  ASSUME KeysInv, NEW u \in Usages, GenerateKey(u)
  PROVE  KeysInv'
<1>1. Idle
  BY DEF GenerateKey, Ready
<1>2. PICK k \in Ids : Draw(k, u) /\ Perform(<<Generated(ring, u, k)>>)
  BY DEF GenerateKey
<1>3. out' \in Outs /\ out'.what # "key" /\ lapsed' = lapsed
  BY NoOutcomeType DEF GenerateKey
<1>4. /\ ring \in Rings /\ Unmade(ring, usageOf)
      /\ \A v \in Usages \ {u} : SoundFor(ring, v, usageOf, lapsed)
  BY DEF KeysInv, SoundIn
<1>5. lapsed' \subseteq Ids \X Deadlines
  BY <1>3 DEF KeysInv, CallsType
<1> DEFINE none == {}
<1>6. /\ none \in SUBSET Ids
      /\ \A j \in none : usageOf[j] # NoKey /\ \A v \in Usages \ {u} : ring.active[v] # j
  OBVIOUS
<1> HIDE DEF none
<1> QED
  BY <1>1, <1>2, <1>3, <1>4, <1>5, <1>6, ReplaceKeeps

\* What a call that marks an active key and replaces it has to show.
LEMMA MarkKeeps ==
  ASSUME KeysInv, Ready, NEW u \in Usages, NEW k \in Ids, Draw(k, u),
         NEW r \in Rings, r.where = ring.where, r.active = ring.active,
         \A j \in Ids \ {ring.active[u]} :
           r.status[j] = ring.status[j] /\ r.deadline[j] = ring.deadline[j],
         NEW saves, Perform(saves),
         LET g == Generated(r, u, k)
         IN saves \in {<<g>>, <<g, g>>, <<g, Moved(g, {ring.active[u]})>>},
         lapsed' \subseteq Ids \X Deadlines, out' \in Outs,
         \A j \in Ids : <<j, "lifetime">> \in lapsed <=> <<j, "lifetime">> \in lapsed',
         out'.what = "key" => out'.key = ring.active[u]
  PROVE  KeysInv'
<1> DEFINE old == ring.active[u]
<1>1. Idle /\ old # NoKey
  BY DEF Ready
<1>2. /\ ring \in Rings /\ old \in Ids /\ usageOf[old] # NoKey
      /\ \A v \in Usages \ {u} : ring.active[v] # old
  BY <1>1, ActiveFacts
<1>3. SoundIn(ring, usageOf, lapsed)
  BY DEF KeysInv
<1>4. /\ \A v \in Usages : ring.active[v] # old => SoundFor(r, v, usageOf, lapsed)
      /\ Unmade(r, usageOf)
  BY <1>2, <1>3, MarkedSound
<1>5. \A v \in Usages \ {u} : SoundFor(r, v, usageOf, lapsed)
  BY <1>2, <1>4
<1>6. /\ {old} \in SUBSET Ids
      /\ \A j \in {old} : usageOf[j] # NoKey /\ \A v \in Usages \ {u} : ring.active[v] # j
  BY <1>2
<1> QED
  BY <1>1, <1>4, <1>5, <1>6, ReplaceKeeps

\* rotate_key does, also when get_key calls it.
LEMMA RotateKeeps ==
  ASSUME KeysInv, Ready, NEW u \in Usages, NEW k \in Ids, Rotate(k, u), out' \in Outs,
         out'.what = "key" => out'.key = ring.active[u]
  PROVE  KeysInv'
<1> DEFINE old == ring.active[u]
           r == Rotating(ring, old)
           new == Generated(r, u, k)
<1>1. Draw(k, u) /\ Perform(<<new, new>>) /\ lapsed' = lapsed \ {<<old, "grace">>}
  BY DEF Rotate
<1>2. ring \in Rings /\ old \in Ids
  BY ActiveFacts DEF Ready
<1>3. /\ r \in Rings /\ r.where = ring.where /\ r.active = ring.active
      /\ \A j \in Ids \ {old} :
           r.status[j] = ring.status[j] /\ r.deadline[j] = ring.deadline[j]
  <2>1. r \in Rings
    BY <1>2, RingTypes
  <2> QED
    BY <1>2, <2>1 DEF Rotating, Rings
<1>4. /\ lapsed' \subseteq Ids \X Deadlines
      /\ \A j \in Ids : <<j, "lifetime">> \in lapsed <=> <<j, "lifetime">> \in lapsed'
  BY <1>1 DEF KeysInv, CallsType
<1> HIDE DEF r
<1> QED
  BY <1>1, <1>3, <1>4, MarkKeeps

\* get_key does when the key it looks at has expired.
LEMMA ExpiredKeeps ==
  ASSUME KeysInv, Ready, NEW u \in Usages, NEW k \in Ids,
         CheckExpired(k, ring.active[u]), out' \in Outs,
         out'.what = "key" => out'.key = ring.active[u]
  PROVE  KeysInv'
<1> DEFINE old == ring.active[u]
           r == [ring EXCEPT !.status[old] = "expired"]
<1>1. ring \in Rings /\ old \in Ids /\ usageOf[old] = u
  BY ActiveFacts DEF Ready
<1>2. Draw(k, u) /\ Perform(<<Generated(r, u, k)>>) /\ lapsed' = lapsed
  BY <1>1 DEF CheckExpired
<1>3. /\ r \in Rings /\ r.where = ring.where /\ r.active = ring.active
      /\ \A j \in Ids \ {old} :
           r.status[j] = ring.status[j] /\ r.deadline[j] = ring.deadline[j]
  <2>1. r \in Rings
    BY <1>1, RingTypes
  <2> QED
    BY <1>1, <2>1 DEF Rings
<1>4. lapsed' \subseteq Ids \X Deadlines
  BY <1>2 DEF KeysInv, CallsType
<1> HIDE DEF r
<1> QED
  BY <1>2, <1>3, <1>4, MarkKeeps

\* A call on keys that are not active, or whose life is over, moves them away.
LEMMA MoveKeeps ==
  ASSUME KeysInv, Ready, NEW r, NEW K \in SUBSET Ids, r.active = ring.active,
         SoundIn(r, usageOf, lapsed),
         \A j \in K : usageOf[j] # NoKey,
         \A u \in Usages : r.active[u] \in K => <<r.active[u], "lifetime">> \in lapsed,
         Perform(<<Moved(r, K)>>), out' = NoOutcome, usageOf' = usageOf,
         lapsed' \subseteq Ids \X Deadlines,
         \A j \in Ids : <<j, "lifetime">> \in lapsed <=> <<j, "lifetime">> \in lapsed'
  PROVE  KeysInv'
<1> DEFINE m == Moved(r, K)
<1>1. SoundIn(m, usageOf, lapsed) /\ m.active = ring.active /\ m \in Rings
  BY MovedSound, MovedType DEF SoundIn
<1>2. SoundIn(m, usageOf', lapsed')
  BY <1>1, SoundStays
<1> HIDE DEF m
<1>3. <<m>> \in Seq(Rings) /\ Len(<<m>>) = 1 /\ <<m>>[1] = m
  BY <1>1
<1>4. ring' = m
  BY <1>3 DEF Perform, m
<1>5. \A i \in 1..Len(<<m>>) :
        SoundIn(<<m>>[i], usageOf', lapsed') /\ <<m>>[i].active = ring'.active
  BY <1>2, <1>3, <1>4
<1>6. \A k \in retired : k \notin Active(ring')
  BY <1>1, <1>4 DEF Active, KeysInv, RetiredInv
<1>7. Perform(<<m>>) /\ Idle
  BY DEF m, Ready
<1>8. usageOf' \in Owners
  BY DEF KeysInv, CallsType, Owners
<1>9. out' \in Outs /\ LateInv'
  BY NoOutcomeType DEF LateInv
<1> QED
  BY <1>3, <1>5, <1>6, <1>7, <1>8, <1>9, CallKeeps

\* A key in _keys or _key_history has been made.
LEMMA KnownMade ==
  ASSUME KeysInv, NEW k \in Ids, ring.where[k] # "none"
  PROVE  usageOf[k] # NoKey
  BY DEF KeysInv, SoundIn, Unmade

\* revoke_key keeps the invariant, of an active key or another.
LEMMA RevokeKeeps ==
  ASSUME KeysInv, NEW k \in Ids, RevokeKey(k)
  PROVE  KeysInv'
<1> DEFINE gone == Revoked(ring, k)
<1>1. /\ Ready /\ ring.where[k] = "keys" /\ out' = NoOutcome
      /\ lapsed' = lapsed \ {<<k, "revoked">>}
  BY DEF RevokeKey
<1>2. SoundIn(ring, usageOf, lapsed) /\ ring \in Rings /\ usageOf[k] # NoKey
  BY <1>1, KnownMade DEF KeysInv, SoundIn
<1>3. /\ gone \in Rings /\ gone.where = ring.where /\ gone.active = ring.active
      /\ \A j \in Ids \ {k} :
           gone.status[j] = ring.status[j] /\ gone.deadline[j] = ring.deadline[j]
  <2>1. gone \in Rings
    BY <1>2, RingTypes
  <2> QED
    BY <1>2, <2>1 DEF Revoked, Rings
<1>4. /\ lapsed' \subseteq Ids \X Deadlines
      /\ \A j \in Ids : <<j, "lifetime">> \in lapsed <=> <<j, "lifetime">> \in lapsed'
  BY <1>1 DEF KeysInv, CallsType
<1>5. CASE k \notin Active(ring) /\ Perform(<<Moved(gone, {k})>>) /\ usageOf' = usageOf
  <2>1. \A v \in Usages : ring.active[v] # k
    BY <1>5, KeysAssumption DEF Active
  <2>2. SoundIn(gone, usageOf, lapsed)
    <3>1. /\ \A v \in Usages : ring.active[v] # k => SoundFor(gone, v, usageOf, lapsed)
          /\ Unmade(gone, usageOf)
      BY <1>2, <1>3, MarkedSound
    <3> QED
      BY <1>3, <2>1, <3>1 DEF SoundIn
  <2>3. /\ {k} \in SUBSET Ids /\ \A j \in {k} : usageOf[j] # NoKey
        /\ \A u \in Usages : gone.active[u] \in {k}
                           => <<gone.active[u], "lifetime">> \in lapsed
    BY <1>2, <1>3, <2>1
  <2> HIDE DEF gone
  <2> QED
    BY <1>1, <1>3, <1>4, <1>5, <2>2, <2>3, MoveKeeps
<1>6. CASE \E u \in Usages, new \in Ids :
             /\ ring.active[u] = k
             /\ Draw(new, u)
             /\ Perform(<<Generated(gone, u, new), Moved(Generated(gone, u, new), {k})>>)
  <2>1. PICK u \in Usages, new \in Ids :
             /\ ring.active[u] = k
             /\ Draw(new, u)
             /\ Perform(<<Generated(gone, u, new), Moved(Generated(gone, u, new), {k})>>)
    BY <1>6
  <2>2. out' \in Outs /\ out'.what # "key"
    BY <1>1, NoOutcomeType
  <2> HIDE DEF gone
  <2> QED
    BY <1>1, <1>3, <1>4, <2>1, <2>2, MarkKeeps
<1> QED
  BY <1>5, <1>6 DEF RevokeKey

\* cleanup_expired_keys does: what it moves away has lapsed.
LEMMA CleanupKeeps ==
  ASSUME KeysInv, CleanupExpiredKeys
  PROVE  KeysInv'
<1>1. /\ Ready /\ Perform(<<Moved(ring, Overdue)>>) /\ out' = NoOutcome
      /\ usageOf' = usageOf /\ lapsed' = lapsed
  BY DEF CleanupExpiredKeys
<1>2. SoundIn(ring, usageOf, lapsed) /\ Overdue \in SUBSET Ids
  BY DEF KeysInv, Overdue
<1>3. \A j \in Overdue : usageOf[j] # NoKey
  BY KnownMade DEF Overdue
<1>4. ASSUME NEW u \in Usages, ring.active[u] \in Overdue
      PROVE <<ring.active[u], "lifetime">> \in lapsed
  <2>1. ring.active[u] # NoKey /\ SoundFor(ring, u, usageOf, lapsed)
    BY <1>1, <1>2 DEF Ready, SoundIn
  <2> QED
    BY <1>4, <2>1 DEF SoundFor, Overdue, Expired
<1>5. lapsed' \subseteq Ids \X Deadlines
  BY <1>1 DEF KeysInv, CallsType
<1> QED
  BY <1>1, <1>2, <1>3, <1>4, <1>5, MoveKeeps

\* A call that fails, or finds nothing to change, only has its outcome.
LEMMA UntouchedKeeps ==
  ASSUME KeysInv, Untouched, Idle, out' \in Outs, LateInv'
  PROVE  KeysInv'
<1>1. UNCHANGED <<ring, disk, todo, writing, up, given, usageOf, foreign, lapsed, due,
                  stale, retired>>
  BY DEF Untouched
<1>2. CallsType'
  BY <1>1 DEF KeysInv, CallsType, Outs
<1>3. SoundIn(ring, usageOf, lapsed)'
  BY <1>1 DEF KeysInv
<1>4. TodoInv'
  BY <1>1 DEF KeysInv, TodoInv, Idle
<1>5. DiskInv' /\ RetiredInv'
  BY <1>1 DEF KeysInv, DiskInv, RetiredInv
<1> QED
  BY <1>2, <1>3, <1>4, <1>5 DEF KeysInv

\* A call that finds the active key moved away keeps it.
LEMMA MissingKeeps ==
  ASSUME KeysInv, NEW u \in Usages, MissingKey(u)
  PROVE  KeysInv'
<1>1. Idle /\ Untouched /\ ring.active[u] \in Ids
  BY ActiveFacts DEF MissingKey, Ready
<1>2. out' \in Outs /\ out'.what # "key"
  <2>1. out' = Outcome("KeyError", ring.active[u])
    BY DEF MissingKey
  <2> QED
    BY <1>1, <2>1, OutcomeType DEF Outs, Outcome
<1> QED
  BY <1>1, <1>2, UntouchedKeeps DEF LateInv

\* get_key does, whether it replaces the key or not.
LEMMA GetKeeps ==
  ASSUME KeysInv, NEW u \in Usages, GetKey(u)
  PROVE  KeysInv'
<1> DEFINE k == ring.active[u]
<1>1. Ready /\ Idle /\ HandOut(k) /\ k \in Ids /\ usageOf[k] = u
  BY ActiveFacts DEF GetKey, Ready
<1>2. /\ out' \in Outs /\ out'.key = k
      /\ out'.late <=> Expired(k) \/ k \in due
  <2>1. out' = Outcome(IF k \in foreign THEN "InvalidTag" ELSE "key", k)
    BY <1>1 DEF HandOut
  <2>2. out'.key = k /\ (out'.late <=> Expired(k) \/ k \in due)
    BY <2>1 DEF Outcome
  <2>3. (IF k \in foreign THEN "InvalidTag" ELSE "key")
          \in {"none", "key", "KeyError", "InvalidTag"}
    OBVIOUS
  <2> QED
    BY <1>1, <2>1, <2>2, <2>3, OutcomeType DEF Outs
<1>3. CASE ~Expired(k) /\ k \notin due /\ Untouched
  BY <1>1, <1>2, <1>3, UntouchedKeeps DEF LateInv
<1>4. CASE \E new \in Ids : CheckExpired(new, k)
  BY <1>1, <1>2, <1>4, ExpiredKeeps
<1>5. CASE \E new \in Ids : Rotate(new, usageOf[k])
  BY <1>1, <1>2, <1>5, RotateKeeps
<1> QED
  BY <1>3, <1>4, <1>5 DEF GetKey

-----------------------------------------------------------------------------
\* Saving, crashes, restarts and the passing of time keep it.

\* The rings left to save after the first are as sound, and end in the memory.
LEMMA TailFacts ==
  ASSUME KeysInv, todo # <<>>
  PROVE  /\ Tail(todo) \in Seq(Rings) /\ Len(Tail(todo)) = Len(todo) - 1
         /\ \A i \in 1..Len(Tail(todo)) : Tail(todo)[i] = todo[i + 1]
         /\ Len(todo) \in 1..2 /\ Head(todo) = todo[1]
         /\ Tail(todo) = <<>> => todo[1] = ring
         /\ Tail(todo) # <<>> => Tail(todo)[Len(Tail(todo))] = ring
         /\ SoundIn(todo[1], usageOf, lapsed) /\ todo[1].active = ring.active
<1>1. todo \in Seq(Rings) /\ Len(todo) \in 1..2
  <2>1. todo \in Seq(Rings) /\ Len(todo) <= 2
    BY DEF KeysInv, CallsType
  <2>2. Len(todo) \in Nat \ {0}
    BY <2>1, EmptySeq
  <2>3. \A n \in Nat \ {0} : n <= 2 => n \in 1..2
    OBVIOUS
  <2> QED
    BY <2>1, <2>2, <2>3, Zenon
<1>2. todo[Len(todo)] = ring
  BY DEF KeysInv, TodoInv
<1>3. SoundIn(todo[1], usageOf, lapsed) /\ todo[1].active = ring.active
  BY <1>1 DEF KeysInv, TodoInv
<1>4. /\ Tail(todo) \in Seq(Rings) /\ Len(Tail(todo)) = Len(todo) - 1
      /\ \A i \in 1..Len(Tail(todo)) : Tail(todo)[i] = todo[i + 1]
      /\ Head(todo) = todo[1]
  BY <1>1
<1>5. Tail(todo) = <<>> => Len(todo) = 1
  BY <1>1, <1>4
<1>6. Tail(todo) # <<>> => Len(todo) = 2 /\ Len(Tail(todo)) = 1
  BY <1>1, <1>4
<1> QED
  BY <1>1, <1>2, <1>3, <1>4, <1>5, <1>6

\* What is left of the saves after one of them, and the keys it retires.
LEMMA SavedKeeps ==
  ASSUME KeysInv, todo # <<>>, Saved, ~writing', stale' \in BOOLEAN,
         disk' \in Rings \cup {Torn},
         disk' # Torn => SoundIn(disk', usageOf, lapsed),
         todo' = <<>> /\ disk' # Torn /\ ~stale' => disk' = ring,
         disk' # Torn /\ ~stale' => disk'.active = ring.active
  PROVE  KeysInv'
<1>1. /\ todo' = Tail(todo)
      /\ retired' = IF todo' = <<>> THEN Known(ring) \ Active(ring) ELSE retired
      /\ UNCHANGED <<ring, up, given, usageOf, foreign, lapsed, due, out>>
  BY DEF Saved
<1>2. /\ todo' \in Seq(Rings) /\ Len(todo') <= 2
      /\ \A i \in 1..Len(todo') : i + 1 \in 1..Len(todo) /\ todo'[i] = todo[i + 1]
      /\ todo' # <<>> => todo'[Len(todo')] = ring
  BY <1>1, TailFacts
<1>3. CallsType'
  <2>1. retired' \subseteq Ids
    BY <1>1 DEF Known, KeysInv, CallsType
  <2>2. writing' = FALSE \/ writing' \in BOOLEAN
    OBVIOUS
  <2> QED
    BY <1>1, <1>2, <2>1, <2>2 DEF KeysInv, CallsType
<1>4. SoundIn(ring, usageOf, lapsed)'
  BY <1>1 DEF KeysInv
<1>5. TodoInv'
  BY <1>1, <1>2 DEF KeysInv, TodoInv
<1>6. DiskInv'
  BY <1>1 DEF DiskInv
<1>7. RetiredInv'
  <2>1. \A k \in retired' : usageOf[k] # NoKey /\ k \notin Active(ring)
    BY <1>1, KnownMade DEF KeysInv, RetiredInv, Known
  <2> QED
    BY <1>1, <2>1 DEF RetiredInv, Active
<1>8. LateInv'
  BY <1>1 DEF KeysInv, LateInv
<1> QED
  BY <1>3, <1>4, <1>5, <1>6, <1>7, <1>8 DEF KeysInv

\* Every step of a save keeps it, through or failed.
LEMMA SaveKeeps ==
  ASSUME KeysInv, Save
  PROVE  KeysInv'
<1>1. CASE SaveOpens
  <2>1. /\ todo # <<>> /\ disk' = Torn /\ writing' = TRUE /\ stale' = FALSE
        /\ UNCHANGED <<ring, todo, up, given, usageOf, foreign, lapsed, due, out, retired>>
    BY <1>1 DEF SaveOpens
  <2>2. CallsType' /\ SoundIn(ring, usageOf, lapsed)'
    BY <2>1 DEF KeysInv, CallsType
  <2>3. TodoInv' /\ DiskInv' /\ RetiredInv' /\ LateInv'
    BY <2>1 DEF KeysInv, TodoInv, DiskInv, RetiredInv, LateInv
  <2> QED
    BY <2>2, <2>3 DEF KeysInv
<1>2. CASE SaveWrites
  <2>1. /\ writing /\ disk' = Head(todo) /\ writing' = FALSE /\ Saved /\ stale' = stale
    BY <1>2 DEF SaveWrites
  <2>2. todo # <<>>
    BY <2>1 DEF KeysInv, TodoInv
  <2>3. /\ disk' = todo[1] /\ SoundIn(todo[1], usageOf, lapsed)
        /\ todo[1].active = ring.active
        /\ Tail(todo) = <<>> => todo[1] = ring
    BY <2>1, <2>2, TailFacts
  <2>4. disk' \in Rings \cup {Torn} /\ disk'.active = ring.active
        /\ SoundIn(disk', usageOf, lapsed)
    BY <2>3 DEF SoundIn
  <2>5. todo' = <<>> => disk' = ring
    BY <2>1, <2>3 DEF Saved
  <2>6. stale' \in BOOLEAN /\ ~writing'
    BY <2>1 DEF KeysInv, CallsType
  <2> QED
    BY <2>1, <2>2, <2>4, <2>5, <2>6, SavedKeeps
<1>3. CASE SaveOpenFails
  <2>1. /\ todo # <<>> /\ ~writing /\ Saved /\ disk' = disk /\ ~writing'
        /\ stale' = (disk # Torn /\ disk # Head(todo))
    BY <1>3 DEF SaveOpenFails
  <2>2. /\ Head(todo) = todo[1] /\ todo[1].active = ring.active
        /\ Tail(todo) = <<>> => todo[1] = ring
    BY <2>1, TailFacts
  <2>3. stale' \in BOOLEAN
    BY <2>1
  <2>4. disk' \in Rings \cup {Torn} /\ (disk' # Torn => SoundIn(disk', usageOf, lapsed))
    BY <2>1 DEF KeysInv, CallsType, DiskInv
  <2>5. disk' # Torn /\ ~stale' => disk' = todo[1]
    BY <2>1, <2>2
  <2>6. todo' = Tail(todo)
    BY <2>1 DEF Saved
  <2> QED
    BY <2>1, <2>2, <2>3, <2>4, <2>5, <2>6, SavedKeeps
<1>4. CASE SaveWriteFails
  <2>1. writing /\ writing' = FALSE /\ Saved /\ disk' = disk /\ stale' = stale
    BY <1>4 DEF SaveWriteFails
  <2>2. disk = Torn /\ todo # <<>> /\ stale' \in BOOLEAN
    BY <2>1 DEF KeysInv, TodoInv, CallsType
  <2> QED
    BY <2>1, <2>2, SavedKeeps
<1> QED
  BY <1>1, <1>2, <1>3, <1>4 DEF Save

\* A crash at any point does.
LEMMA CrashKeeps ==
  ASSUME KeysInv, Crash
  PROVE  KeysInv'
<1>1. /\ up' = FALSE /\ ring' = EmptyRing /\ todo' = <<>> /\ writing' = FALSE
      /\ out' = NoOutcome
      /\ UNCHANGED <<disk, given, usageOf, foreign, lapsed, due, stale, retired>>
  BY DEF Crash
<1>2. SoundIn(ring', usageOf', lapsed') /\ ring' \in Rings
  BY <1>1, EmptySound DEF SoundIn
<1>3. out' \in Outs /\ out'.what # "key"
  BY <1>1, NoOutcomeType
<1>4. CallsType'
  <2>1. todo' \in Seq(Rings) /\ Len(todo') <= 2
    BY <1>1
  <2>2. out' \in [what : {"none", "key", "KeyError", "InvalidTag"},
                 key : Ids \cup {NoKey}, late : BOOLEAN]
    BY <1>3 DEF Outs
  <2> QED
    BY <1>1, <1>2, <2>1, <2>2 DEF KeysInv, CallsType
<1>5. TodoInv'
  BY <1>1, <1>3 DEF TodoInv
<1>6. DiskInv'
  BY <1>1 DEF KeysInv, DiskInv
<1>7. Active(ring') = {}
  BY <1>1 DEF Active, EmptyRing
<1>8. RetiredInv'
  BY <1>1, <1>7 DEF KeysInv, RetiredInv
<1>9. LateInv'
  BY <1>3 DEF LateInv
<1> QED
  BY <1>2, <1>4, <1>5, <1>6, <1>8, <1>9 DEF KeysInv

\* What a restart reads is sound, and has no active keys but the file's; it is the
\* file itself, or a usage is left without a key.
LEMMA LoadedFacts ==
  ASSUME KeysInv
  PROVE  /\ SoundIn(Loaded, usageOf, lapsed)
         /\ disk = Torn => Active(Loaded) = {}
         /\ disk # Torn => Active(Loaded) \subseteq Active(disk)
         /\ disk # Torn => Loaded = disk \/ \E u \in Usages : Loaded.active[u] = NoKey
<1>1. CASE disk = Torn
  <2>1. Loaded = EmptyRing
    BY <1>1 DEF Loaded
  <2> QED
    BY <1>1, <2>1, EmptySound DEF Active, EmptyRing
<1>2. CASE disk # Torn
  <2>1. SoundIn(disk, usageOf, lapsed) /\ disk \in Rings
    BY <1>2 DEF KeysInv, DiskInv, SoundIn
  <2>2. /\ Loaded \in Rings /\ Loaded.where = disk.where
        /\ Loaded.status = disk.status /\ Loaded.deadline = disk.deadline
        /\ \A u \in Usages : Loaded.active[u] \in {disk.active[u], NoKey}
    BY <1>2, <2>1 DEF Loaded, Rings
  <2>3. Active(Loaded) \subseteq Active(disk)
    BY <2>2 DEF Active
  <2>4. SoundIn(Loaded, usageOf, lapsed)
    <3>1. \A u \in Usages : SoundFor(Loaded, u, usageOf, lapsed)
      BY <2>1, <2>2 DEF SoundIn, SoundFor
    <3>2. Unmade(Loaded, usageOf)
      BY <2>1, <2>2 DEF SoundIn, Unmade
    <3> QED
      BY <2>2, <3>1, <3>2 DEF SoundIn
  <2>5. ASSUME \A u \in Usages : Loaded.active[u] # NoKey PROVE Loaded = disk
    <3>1. \A u \in Usages : Loaded.active[u] = disk.active[u]
      BY <2>2, <2>5
    <3>2. Loaded.active = disk.active
      BY <2>1, <2>2, <3>1 DEF Rings
    <3> QED
      BY <2>1, <2>2, <3>2 DEF Rings
  <2> QED
    BY <1>2, <2>3, <2>4, <2>5
<1> QED
  BY <1>1, <1>2

\* A restart does, and makes a retired key active only from a stale file.
LEMMA RestartKeeps ==
  ASSUME KeysInv, Restart
  PROVE  KeysInv' /\ \A k \in retired : k \in Active(ring') => stale
<1>1. /\ ~up /\ up' = TRUE /\ ring' = Loaded
      /\ foreign' = IF given THEN foreign ELSE {k \in Ids : usageOf[k] # NoKey}
      /\ retired' = retired \ Active(ring')
      /\ UNCHANGED <<disk, todo, writing, given, usageOf, lapsed, due, out, stale>>
  BY DEF Restart
<1>2. todo = <<>> /\ ~writing /\ out.what # "key"
  BY <1>1 DEF KeysInv, TodoInv
<1>3. SoundIn(ring', usageOf', lapsed') /\ ring' \in Rings
  BY <1>1, LoadedFacts DEF SoundIn
<1>4. CallsType'
  BY <1>1, <1>3 DEF KeysInv, CallsType
<1>5. TodoInv'
  BY <1>1, <1>2 DEF TodoInv
<1>6. DiskInv'
  BY <1>1, LoadedFacts DEF KeysInv, DiskInv
<1>7. RetiredInv'
  BY <1>1 DEF KeysInv, RetiredInv
<1>8. LateInv'
  BY <1>1, <1>2 DEF LateInv
<1>9. \A k \in retired : k \in Active(ring') => stale
  BY <1>1, LoadedFacts DEF KeysInv, RetiredInv
<1> QED
  BY <1>3, <1>4, <1>5, <1>6, <1>7, <1>8, <1>9 DEF KeysInv

\* A deadline that passes or a rotation that falls due does.
LEMMA TimeKeeps ==
  ASSUME KeysInv, Time
  PROVE  KeysInv'
<1>1. /\ UNCHANGED <<ring, disk, todo, writing, up, given, usageOf, foreign, stale, retired>>
      /\ out' = NoOutcome /\ lapsed \subseteq lapsed' /\ CallsType'
  <2>1. ASSUME NEW k \in Ids, FallDue(k) PROVE <1>1!:
    BY <2>1 DEF FallDue, KeysInv, CallsType, NoOutcome
  <2>2. ASSUME NEW k \in Ids, NEW d \in Deadlines, Lapse(k, d) PROVE <1>1!:
    BY <2>2 DEF Lapse, KeysInv, CallsType, NoOutcome
  <2> QED
    BY <2>1, <2>2 DEF Time
<1>2. SoundIn(ring', usageOf', lapsed')
  BY <1>1, SoundStays DEF KeysInv
<1>3. out'.what # "key"
  BY <1>1, NoOutcomeType
<1>4. TodoInv'
  <2>1. \A i \in 1..Len(todo) : SoundIn(todo[i], usageOf', lapsed')
    BY <1>1, SoundStays DEF KeysInv, TodoInv
  <2> QED
    BY <1>1, <1>3, <2>1 DEF KeysInv, TodoInv
<1>5. DiskInv'
  <2>1. disk # Torn => SoundIn(disk, usageOf', lapsed')
    BY <1>1, SoundStays DEF KeysInv, DiskInv
  <2> QED
    BY <1>1, <2>1 DEF KeysInv, DiskInv
<1>6. RetiredInv' /\ LateInv'
  BY <1>1, <1>3 DEF KeysInv, RetiredInv, LateInv
<1> QED
  BY <1>1, <1>2, <1>4, <1>5, <1>6 DEF KeysInv

-----------------------------------------------------------------------------
\* The invariant of every behaviour, and what follows from it.

\* The invariant holds at the start.
LEMMA KeysInitInv == KeysInit => KeysInv
<1> SUFFICES ASSUME KeysInit PROVE KeysInv
  OBVIOUS
<1>1. /\ ring = EmptyRing /\ disk = Torn /\ todo = <<>> /\ writing = FALSE /\ up = TRUE
      /\ given \in BOOLEAN /\ usageOf = [k \in Ids |-> NoKey] /\ foreign = {}
      /\ lapsed = {} /\ due = {} /\ out = NoOutcome /\ stale = FALSE /\ retired = {}
  BY DEF KeysInit
<1>2. SoundIn(ring, usageOf, lapsed) /\ ring \in Rings
  BY <1>1, EmptySound DEF SoundIn
<1>3. out \in Outs /\ out.what # "key"
  BY <1>1, NoOutcomeType
<1>4. CallsType
  <2>1. todo \in Seq(Rings) /\ Len(todo) <= 2
    BY <1>1
  <2>2. out \in [what : {"none", "key", "KeyError", "InvalidTag"},
                key : Ids \cup {NoKey}, late : BOOLEAN]
    BY <1>3 DEF Outs
  <2> QED
    BY <1>1, <1>2, <2>1, <2>2 DEF CallsType
<1>5. TodoInv
  BY <1>1, <1>3 DEF TodoInv
<1>6. DiskInv /\ RetiredInv
  BY <1>1 DEF DiskInv, RetiredInv
<1>7. LateInv
  BY <1>3 DEF LateInv
<1> QED
  BY <1>2, <1>4, <1>5, <1>6, <1>7 DEF KeysInv

\* Every step keeps it.
LEMMA KeysNextInv == KeysInv /\ [KeysNext]_keysVars => KeysInv'
<1> SUFFICES ASSUME KeysInv, [KeysNext]_keysVars PROVE KeysInv'
  OBVIOUS
<1>1. ASSUME NEW u \in Usages, GenerateKey(u) PROVE KeysInv'
  BY <1>1, GenerateKeeps
<1>2. ASSUME NEW u \in Usages, RotateKey(u) PROVE KeysInv'
  <2>1. PICK k \in Ids : Rotate(k, u)
    BY <1>2 DEF RotateKey
  <2>2. Ready /\ out' \in Outs /\ out'.what # "key"
    BY <1>2, NoOutcomeType DEF RotateKey
  <2> QED
    BY <2>1, <2>2, RotateKeeps
<1>3. ASSUME NEW u \in Usages, GetKey(u) PROVE KeysInv'
  BY <1>3, GetKeeps
<1>4. ASSUME NEW u \in Usages, MissingKey(u) PROVE KeysInv'
  BY <1>4, MissingKeeps
<1>5. ASSUME NEW k \in Ids, RevokeKey(k) PROVE KeysInv'
  BY <1>5, RevokeKeeps
<1>6. CASE CleanupExpiredKeys
  BY <1>6, CleanupKeeps
<1>7. CASE Save
  BY <1>7, SaveKeeps
<1>8. CASE Crash
  BY <1>8, CrashKeeps
<1>9. CASE Restart
  BY <1>9, RestartKeeps
<1>10. CASE Time
  BY <1>10, TimeKeeps
<1>11. CASE UNCHANGED keysVars
  <2>1. CallsType' /\ SoundIn(ring, usageOf, lapsed)'
    BY <1>11 DEF keysVars, KeysInv, CallsType
  <2>2. TodoInv' /\ DiskInv' /\ RetiredInv' /\ LateInv'
    BY <1>11 DEF keysVars, KeysInv, TodoInv, DiskInv, RetiredInv, LateInv
  <2> QED
    BY <2>1, <2>2 DEF KeysInv
<1> QED
  BY <1>1, <1>2, <1>3, <1>4, <1>5, <1>6, <1>7, <1>8, <1>9, <1>10, <1>11
     DEF KeysNext, Call

\* So every behaviour keeps it.
LEMMA KeysInvHolds == KeysSpec => []KeysInv
  BY KeysInitInv, KeysNextInv, PTL DEF KeysSpec

\* A key that was handed out is used, and its use in no file.
UsesInv ==
  /\ unsaved \in BOOLEAN
  /\ out.what = "key" => unsaved /\ out.key # NoKey

\* Every step keeps that too: a save only writes the uses of earlier calls.
LEMMA UsesNextInv == KeysInv /\ UsesInv /\ [KeysNext]_keysVars => UsesInv'
<1> SUFFICES ASSUME KeysInv, UsesInv, [KeysNext]_keysVars PROVE UsesInv'
  OBVIOUS
<1>1. CASE out' = NoOutcome /\ unsaved' \in {unsaved, FALSE}
  BY <1>1, NoOutcomeType DEF UsesInv
<1>2. CASE UNCHANGED <<out, unsaved>>
  BY <1>2 DEF UsesInv
<1>3. ASSUME NEW u \in Usages, MissingKey(u) PROVE UsesInv'
  BY <1>3 DEF MissingKey, Outcome, UsesInv
<1>4. ASSUME NEW u \in Usages, GetKey(u) PROVE UsesInv'
  <2>1. ring.active[u] # NoKey /\ HandOut(ring.active[u])
    BY <1>4 DEF GetKey, Ready
  <2> QED
    BY <2>1 DEF HandOut, Outcome, UsesInv
<1>5. CASE SaveWrites
  <2>1. out' = out /\ unsaved' = (out.key # NoKey)
    BY <1>5 DEF SaveWrites, Saved
  <2> QED
    BY <2>1 DEF UsesInv
<1>6. CASE KeysNext
  <2>1. CASE \E u \in Usages : GenerateKey(u) \/ RotateKey(u)
    BY <1>1, <2>1 DEF GenerateKey, RotateKey
  <2>2. CASE (\E k \in Ids : RevokeKey(k)) \/ CleanupExpiredKeys
    BY <1>1, <2>2 DEF RevokeKey, CleanupExpiredKeys
  <2>3. CASE SaveOpens \/ SaveOpenFails \/ SaveWriteFails \/ Restart
    BY <1>2, <2>3 DEF SaveOpens, SaveOpenFails, SaveWriteFails, Saved, Restart
  <2>4. CASE Crash
    BY <1>1, <2>4 DEF Crash
  <2>5. CASE Time
    BY <1>1, <2>5 DEF Time, FallDue, Lapse
  <2> QED
    BY <1>3, <1>4, <1>5, <1>6, <2>1, <2>2, <2>3, <2>4, <2>5 DEF KeysNext, Call, Save
<1> QED
  BY <1>2, <1>6 DEF keysVars

\* So every behaviour keeps it.
LEMMA UsesInvHolds == KeysSpec => []UsesInv
<1>1. KeysInit => UsesInv
  BY NoOutcomeType DEF KeysInit, UsesInv
<1> QED
  BY <1>1, UsesNextInv, KeysInvHolds, PTL DEF KeysSpec

\* Every variable keeps its type.
THEOREM KeysTypeCorrect == KeysSpec => []KeysType
<1>1. KeysInv /\ UsesInv => KeysType
  BY DEF KeysInv, UsesInv, KeysType
<1> QED
  BY <1>1, KeysInvHolds, UsesInvHolds, PTL

\* Whatever mixture of generating, rotating, revoking, looking up, cleaning up,
\* failing saves, crashes and restarts: the active key of a usage was made for it
\* and is neither revoked nor rotated out, in memory and in the file, and a key
\* handed out late is not the active one any more.
THEOREM ActiveCorrect == KeysSpec => []ActiveSound
<1>1. KeysInv => ActiveSound
  <2> SUFFICES ASSUME KeysInv PROVE ActiveSound
    OBVIOUS
  <2>1. ASSUME NEW r \in Held PROVE RingSound(r)
    <3>1. SoundIn(r, usageOf, lapsed)
      BY DEF Held, KeysInv, DiskInv
    <3>2. \A u \in Usages : SoundFor(r, u, usageOf, lapsed)
      BY <3>1 DEF SoundIn
    <3> QED
      BY <3>2 DEF RingSound, SoundFor
  <2>2. Ready /\ out.what = "key" /\ out.late => out.key \notin Active(ring)
    BY DEF KeysInv, LateInv
  <2> QED
    BY <2>1, <2>2 DEF ActiveSound
<1> QED
  BY <1>1, KeysInvHolds, PTL

\* Keys, deadlines and active keys are in the file as a finished call left them,
\* unless saving failed, and the use of the key that was handed out last is not.
THEOREM DurableCorrect == KeysSpec => []Durable
<1>1. KeysInv /\ UsesInv => Durable
  BY DEF KeysInv, DiskInv, UsesInv, Durable, Ready, Idle
<1> QED
  BY <1>1, KeysInvHolds, UsesInvHolds, PTL

\* A key that a finished call replaced or revoked comes back only by a restart
\* from a file that a failed save had left behind.
THEOREM NeverBackCorrect == KeysSpec => NeverBack
<1> DEFINE NoReturn == \A k \in retired : k \in Active(ring') \ Active(ring) => stale
<1>1. KeysInv /\ [KeysNext]_keysVars => [NoReturn]_keysVars
  <2> SUFFICES ASSUME KeysInv, KeysNext PROVE NoReturn
    OBVIOUS
  <2>1. CASE Restart
    BY <2>1, RestartKeeps
  <2>2. CASE ring' = ring
    BY <2>2
  <2>3. CASE retired' = retired
    <3>1. RetiredInv'
      BY KeysNextInv DEF KeysInv
    <3>2. \A k \in retired' : k \notin Active(ring')
      BY <3>1, SMTT(30) DEF RetiredInv, Active
    <3> QED
      BY <2>3, <3>2
  <2>4. ASSUME Call PROVE retired' = retired
    BY <2>4 DEF Call, GenerateKey, RotateKey, Rotate, GetKey, CheckExpired, MissingKey,
                RevokeKey, CleanupExpiredKeys, Perform, Untouched
  <2>5. ASSUME Save PROVE ring' = ring
    BY <2>5 DEF Save, SaveOpens, SaveWrites, SaveOpenFails, SaveWriteFails, Saved
  <2>6. ASSUME Crash PROVE retired' = retired
    BY <2>6 DEF Crash
  <2>7. ASSUME Time PROVE ring' = ring
    BY <2>7 DEF Time, FallDue, Lapse
  <2> QED
    BY <2>1, <2>2, <2>3, <2>4, <2>5, <2>6, <2>7 DEF KeysNext
<1> QED
  BY <1>1, KeysInvHolds, PTL DEF KeysSpec, NeverBack

-----------------------------------------------------------------------------
\* The manager implements the abstract key store.

\* What is still to be saved serves the keys that the memory serves, and so does a
\* file that no failed save has left behind.
StoreInv ==
  /\ \A i \in 1..Len(todo) : Serving(todo[i]) = Serving(ring)
  /\ Settled => Serving(disk) = Serving(ring)
\* Serving looks at where the keys are and which are active, and at nothing else.
LEMMA ServingSame ==
  ASSUME NEW r, NEW r2, r2.where = r.where, r2.active = r.active
  PROVE  Serving(r2) = Serving(r)
  BY DEF Serving

\* A new key for u, active for no usage before, is the only change.
LEMMA ServingGenerated ==
  ASSUME NEW r \in Rings, NEW u \in Usages, NEW k \in Ids,
         \A v \in Usages : r.active[v] # k
  PROVE  Serving(Generated(r, u, k)) = [Serving(r) EXCEPT ![u] = k]
<1> DEFINE g == Generated(r, u, k)
<1>1. /\ g.active = [r.active EXCEPT ![u] = k] /\ g.where = [r.where EXCEPT ![k] = "keys"]
  BY DEF Generated, Rings
<1>2. Serving(g)[u] = k
  BY <1>1 DEF Serving, Rings
<1>3. ASSUME NEW v \in Usages \ {u} PROVE Serving(g)[v] = Serving(r)[v]
  <2>1. g.active[v] = r.active[v] /\ r.active[v] # k
    BY <1>1 DEF Rings
  <2>2. r.active[v] \in Ids => g.where[r.active[v]] = r.where[r.active[v]]
    BY <1>1, <2>1 DEF Rings
  <2> QED
    BY <2>1, <2>2 DEF Serving
<1>4. /\ Serving(g) = [v \in Usages |-> Serving(g)[v]]
      /\ Serving(r) = [v \in Usages |-> Serving(r)[v]]
  BY DEF Serving
<1> HIDE DEF g
<1>5. Serving(g) = [Serving(r) EXCEPT ![u] = k]
  BY <1>2, <1>3, <1>4
<1> QED
  BY <1>5 DEF g

\* Moving keys away takes the usages they are active for out of service.
LEMMA ServingMoved ==
  ASSUME NEW r \in Rings, NEW K \in SUBSET Ids
  PROVE  Serving(Moved(r, K)) =
           [u \in Usages |-> IF u \in {v \in Usages : r.active[v] \in K}
                             THEN NoKey ELSE Serving(r)[u]]
<1> DEFINE m == Moved(r, K)
<1>1. /\ m.active = r.active
      /\ m.where = [k \in Ids |-> IF k \in K THEN "history" ELSE r.where[k]]
  BY DEF Moved, Rings
<1>2. ASSUME NEW u \in Usages
      PROVE  Serving(m)[u] = IF r.active[u] \in K THEN NoKey ELSE Serving(r)[u]
  BY <1>1 DEF Serving
<1>3. Serving(m) = [u \in Usages |-> Serving(m)[u]]
  BY DEF Serving
<1> HIDE DEF m
<1>4. Serving(m) = [u \in Usages |-> IF u \in {v \in Usages : r.active[v] \in K}
                                     THEN NoKey ELSE Serving(r)[u]]
  BY <1>2, <1>3
<1> QED
  BY <1>4 DEF m

\* Moving keys that are not active away takes none.
LEMMA ServingKept ==
  ASSUME NEW r \in Rings, NEW K \in SUBSET Ids, \A v \in Usages : r.active[v] \notin K
  PROVE  Serving(Moved(r, K)) = Serving(r)
<1>1. \A u \in Usages : Serving(Moved(r, K))[u] = Serving(r)[u]
  BY ServingMoved DEF Serving
<1> QED
  BY <1>1 DEF Serving

\* A process that has just started serves nothing.
LEMMA ServingEmpty == Serving(EmptyRing) = [u \in Usages |-> NoKey]
  BY KeysAssumption DEF Serving, EmptyRing

\* A restart serves what the file kept.
LEMMA ServingLoaded ==
  ASSUME KeysInv
  PROVE  Serving(Loaded) = Kept
<1>1. CASE disk = Torn
  BY <1>1, ServingEmpty DEF Loaded, Kept
<1>2. CASE disk # Torn
  <2>1. disk \in Rings
    BY <1>2 DEF KeysInv, CallsType
  <2>2. /\ Loaded.where = disk.where
        /\ Loaded.active = [u \in Usages |->
              IF disk.active[u] \in Ids /\ disk.where[disk.active[u]] = "keys"
              THEN disk.active[u] ELSE NoKey]
    BY <1>2, <2>1 DEF Loaded, Rings
  <2>3. \A u \in Usages : Serving(Loaded)[u] = Serving(disk)[u]
    BY <2>2, KeysAssumption DEF Serving
  <2> QED
    BY <1>2, <2>3 DEF Serving, Kept
<1> QED
  BY <1>1, <1>2

\* A call that gives u a new key maps to a replacement, whatever else it marks,
\* and whichever keys of no other usage it moves away.
LEMMA ReplaceServes ==
  ASSUME KeysInv, Idle, NEW u \in Usages, NEW k \in Ids, Draw(k, u),
         NEW r \in Rings, r.where = ring.where, r.active = ring.active,
         NEW K \in SUBSET Ids, k \notin K,
         \A j \in K : \A v \in Usages \ {u} : ring.active[v] # j,
         NEW saves, Perform(saves),
         LET g == Generated(r, u, k)
         IN saves \in {<<g>>, <<g, g>>, <<g, Moved(g, K)>>}
  PROVE  Store!Replace(u, k) /\ StoreInv'
<1> DEFINE g == Generated(r, u, k)
           m == Moved(g, K)
           new == [Serving(ring) EXCEPT ![u] = k]
<1>1. Serving(g) = new
  <2>1. Serving(r) = Serving(ring)
    BY ServingSame
  <2>2. \A v \in Usages : r.active[v] # k
    BY DrawFacts
  <2> QED
    BY <2>1, <2>2, ServingGenerated
<1>2. Serving(m) = new
  <2>1. g \in Rings /\ g.active = [ring.active EXCEPT ![u] = k]
    BY GeneratedType DEF Generated, Rings
  <2>2. ring \in Rings
    BY DEF KeysInv, CallsType
  <2>3. \A v \in Usages : g.active[v] \notin K
    BY <2>1, <2>2 DEF Rings
  <2> QED
    BY <1>1, <2>1, <2>3, ServingKept
<1>3. /\ Len(saves) \in 1..2 /\ saves # <<>>
      /\ \A i \in 1..Len(saves) : Serving(saves[i]) = new
  <2>1. saves = <<g>> \/ saves = <<g, g>> \/ saves = <<g, m>>
    OBVIOUS
  <2> HIDE DEF g, m, new
  <2>2. CASE saves = <<g>>
    BY <1>1, <2>2
  <2>3. CASE saves = <<g, g>>
    BY <1>1, <2>3
  <2>4. CASE saves = <<g, m>>
    BY <1>1, <1>2, <2>4
  <2> QED
    BY <2>1, <2>2, <2>3, <2>4
<1>4. /\ todo' = saves /\ ring' = saves[Len(saves)]
      /\ UNCHANGED <<disk, up, stale>>
  BY DEF Perform
<1>5. Serving(ring)' = new
  <2>1. Len(saves) \in 1..Len(saves)
    BY <1>3
  <2>2. Serving(saves[Len(saves)]) = new
    BY <1>3, <2>1
  <2>3. Serving(ring)' = Serving(saves[Len(saves)])
    BY <1>4 DEF Serving
  <2> QED
    BY <2>2, <2>3
<1>6. Settled' = FALSE
  BY <1>3, <1>4 DEF Settled
<1>7. StoreInv'
  BY <1>3, <1>4, <1>5, <1>6 DEF StoreInv
<1>8. Kept' = Kept
  BY <1>4 DEF Kept, Serving
<1>9. up /\ up' = up /\ usageOf[k] = NoKey /\ usageOf' = [usageOf EXCEPT ![k] = u]
  BY <1>4, DrawFacts DEF Idle
<1>10. Store!Replace(u, k)
  BY <1>5, <1>6, <1>8, <1>9 DEF Store!Replace
<1> QED
  BY <1>7, <1>10

\* A call that moves keys away maps to the expiry of the usages they serve.
LEMMA MoveServes ==
  ASSUME KeysInv, Idle, NEW r \in Rings, r.where = ring.where, r.active = ring.active,
         NEW K \in SUBSET Ids, Perform(<<Moved(r, K)>>), usageOf' = usageOf
  PROVE  (\E U \in SUBSET Usages : Store!Expire(U)) /\ StoreInv'
<1> DEFINE m == Moved(r, K)
           U == {v \in Usages : r.active[v] \in K}
<1>1. Serving(m) = [u \in Usages |-> IF u \in U THEN NoKey ELSE Serving(ring)[u]]
  <2>1. Serving(r) = Serving(ring)
    BY ServingSame
  <2> QED
    BY <2>1, ServingMoved
<1>2. U \in SUBSET Usages
  OBVIOUS
<1> HIDE DEF m, U
<1>3. todo' = <<m>> /\ ring' = m /\ UNCHANGED <<disk, up, stale>>
  BY DEF Perform, m
<1>4. Settled' = FALSE
  BY <1>3 DEF Settled
<1>5. StoreInv'
  BY <1>3, <1>4 DEF StoreInv
<1>6. Kept' = Kept
  BY <1>3 DEF Kept, Serving
<1>7. Store!Expire(U)
  BY <1>1, <1>3, <1>4, <1>6 DEF Store!Expire, Idle
<1> QED
  BY <1>2, <1>5, <1>7

\* What the store knows does not change.
LEMMA StoreStutters ==
  ASSUME StoreInv, UNCHANGED <<ring, disk, todo, up, usageOf, stale>>
  PROVE  UNCHANGED Store!storeVars /\ StoreInv'
<1>1. Serving(ring)' = Serving(ring) /\ Kept' = Kept /\ Settled' = Settled
  BY DEF Kept, Serving, Settled
<1>2. StoreInv'
  BY <1>1 DEF StoreInv, Serving
<1> QED
  BY <1>1, <1>2 DEF Store!storeVars

\* The replacement of an active key, which may be moved away.
LEMMA MarkServes ==
  ASSUME KeysInv, Ready, NEW u \in Usages, NEW k \in Ids, Draw(k, u),
         NEW r \in Rings, r.where = ring.where, r.active = ring.active,
         NEW saves, Perform(saves),
         LET g == Generated(r, u, k)
         IN saves \in {<<g>>, <<g, g>>, <<g, Moved(g, {ring.active[u]})>>}
  PROVE  Store!Replace(u, k) /\ StoreInv'
<1>1. Idle /\ ring.active[u] # NoKey
  BY DEF Ready
<1>2. /\ {ring.active[u]} \in SUBSET Ids /\ k \notin {ring.active[u]}
      /\ \A j \in {ring.active[u]} : \A v \in Usages \ {u} : ring.active[v] # j
  BY <1>1, ActiveFacts, DrawFacts
<1> QED
  BY <1>1, <1>2, ReplaceServes

\* A step of the store, and what is kept by it.
StoreStep == [Store!StoreNext]_(Store!storeVars) /\ StoreInv'

\* A replacement is such a step.
LEMMA ReplaceSteps ==
  ASSUME NEW u \in Usages, NEW k \in Ids, Store!Replace(u, k), StoreInv'
  PROVE  StoreStep
  BY DEF Store!StoreNext, StoreStep

\* generate_key maps to a replacement.
LEMMA GenerateServes ==
  ASSUME KeysInv, NEW u \in Usages, GenerateKey(u)
  PROVE  StoreStep
<1>1. PICK k \in Ids : Draw(k, u) /\ Perform(<<Generated(ring, u, k)>>)
  BY DEF GenerateKey
<1>2. Idle /\ ring \in Rings
  BY DEF GenerateKey, Ready, KeysInv, CallsType
<1> DEFINE none == {}
<1>3. /\ none \in SUBSET Ids /\ k \notin none
      /\ \A j \in none : \A v \in Usages \ {u} : ring.active[v] # j
  OBVIOUS
<1> HIDE DEF none
<1>4. Store!Replace(u, k) /\ StoreInv'
  BY <1>1, <1>2, <1>3, ReplaceServes
<1> QED
  BY <1>4, ReplaceSteps

\* rotate_key does, also when get_key calls it.
LEMMA RotateServes ==
  ASSUME KeysInv, Ready, NEW u \in Usages, NEW k \in Ids, Rotate(k, u)
  PROVE  StoreStep
<1> DEFINE old == ring.active[u]
           r == Rotating(ring, old)
           new == Generated(r, u, k)
<1>1. Draw(k, u) /\ Perform(<<new, new>>)
  BY DEF Rotate
<1>2. ring \in Rings /\ old \in Ids
  BY ActiveFacts DEF Ready
<1>3. r \in Rings /\ r.where = ring.where /\ r.active = ring.active
  BY <1>2, RingTypes DEF Rotating, Rings
<1> HIDE DEF r
<1>4. Store!Replace(u, k) /\ StoreInv'
  BY <1>1, <1>3, MarkServes
<1> QED
  BY <1>4, ReplaceSteps

\* get_key maps to a replacement, or changes nothing.
LEMMA GetServes ==
  ASSUME KeysInv, StoreInv, NEW u \in Usages, GetKey(u)
  PROVE  StoreStep
<1> DEFINE old == ring.active[u]
           r == [ring EXCEPT !.status[old] = "expired"]
<1>1. Ready /\ ring \in Rings /\ old \in Ids /\ usageOf[old] = u
  BY ActiveFacts DEF GetKey, Ready
<1>2. CASE Untouched
  BY <1>2, StoreStutters DEF Untouched, StoreStep
<1>3. CASE \E k \in Ids : CheckExpired(k, old)
  <2>1. PICK k \in Ids : Draw(k, u) /\ Perform(<<Generated(r, u, k)>>)
    BY <1>1, <1>3 DEF CheckExpired
  <2>2. r \in Rings /\ r.where = ring.where /\ r.active = ring.active
    BY <1>1, RingTypes DEF Rings
  <2> HIDE DEF r
  <2>3. Store!Replace(u, k) /\ StoreInv'
    BY <1>1, <2>1, <2>2, MarkServes
  <2> QED
    BY <2>3, ReplaceSteps
<1>4. CASE \E k \in Ids : Rotate(k, usageOf[old])
  BY <1>1, <1>4, RotateServes
<1> QED
  BY <1>2, <1>3, <1>4 DEF GetKey

\* An expiry is a step of the store too.
LEMMA ExpireSteps ==
  ASSUME \E U \in SUBSET Usages : Store!Expire(U), StoreInv'
  PROVE  StoreStep
  BY DEF Store!StoreNext, StoreStep

\* revoke_key maps to a replacement, or to an expiry when the key is not active.
LEMMA RevokeServes ==
  ASSUME KeysInv, NEW k \in Ids, RevokeKey(k)
  PROVE  StoreStep
<1> DEFINE gone == Revoked(ring, k)
<1>1. Ready /\ Idle /\ ring \in Rings
  BY DEF RevokeKey, Ready, KeysInv, CallsType
<1>2. gone \in Rings /\ gone.where = ring.where /\ gone.active = ring.active
  BY <1>1, RingTypes DEF Revoked, Rings
<1> HIDE DEF gone
<1>3. CASE Perform(<<Moved(gone, {k})>>) /\ usageOf' = usageOf
  <2>1. (\E U \in SUBSET Usages : Store!Expire(U)) /\ StoreInv'
    BY <1>1, <1>2, <1>3, MoveServes
  <2> QED
    BY <2>1, ExpireSteps
<1>4. CASE \E u \in Usages, new \in Ids :
             /\ ring.active[u] = k
             /\ Draw(new, u)
             /\ Perform(<<Generated(gone, u, new), Moved(Generated(gone, u, new), {k})>>)
  <2>1. PICK u \in Usages, new \in Ids :
             /\ ring.active[u] = k
             /\ Draw(new, u)
             /\ Perform(<<Generated(gone, u, new), Moved(Generated(gone, u, new), {k})>>)
    BY <1>4
  <2>2. Store!Replace(u, new) /\ StoreInv'
    BY <1>1, <1>2, <2>1, MarkServes
  <2> QED
    BY <2>2, ReplaceSteps
<1> QED
  BY <1>3, <1>4 DEF RevokeKey, gone

\* cleanup_expired_keys maps to the expiry of the usages whose keys are overdue.
LEMMA CleanupServes ==
  ASSUME KeysInv, CleanupExpiredKeys
  PROVE  StoreStep
<1>1. /\ Idle /\ ring \in Rings /\ Overdue \in SUBSET Ids
      /\ Perform(<<Moved(ring, Overdue)>>) /\ usageOf' = usageOf
  BY DEF CleanupExpiredKeys, Ready, KeysInv, CallsType, Overdue
<1>2. (\E U \in SUBSET Usages : Store!Expire(U)) /\ StoreInv'
  BY <1>1, MoveServes
<1> QED
  BY <1>2, ExpireSteps

\* A save, through or failed, maps to Keep.
LEMMA SaveServes ==
  ASSUME KeysInv, StoreInv, Save
  PROVE  StoreStep
<1>1. todo # <<>> /\ up /\ UNCHANGED <<ring, up, usageOf>>
  BY DEF KeysInv, TodoInv, Save, SaveOpens, SaveWrites, SaveOpenFails, SaveWriteFails, Saved
<1>2. /\ Len(todo) \in 1..2 /\ Head(todo) = todo[1]
      /\ Serving(Head(todo)) = Serving(ring)
      /\ \A i \in 1..Len(Tail(todo)) : Serving(Tail(todo)[i]) = Serving(ring)
  BY <1>1, TailFacts DEF StoreInv
<1>3. \/ disk' = Torn
      \/ disk' = Head(todo)
      \/ disk' = disk /\ (disk # Torn /\ ~stale' => disk = Head(todo))
  BY DEF KeysInv, TodoInv, Save, SaveOpens, SaveWrites, SaveOpenFails, SaveWriteFails
<1>4. Serving(ring)' = Serving(ring) /\ todo' \in {todo, Tail(todo)}
  BY <1>1 DEF Serving, Save, SaveOpens, SaveWrites, SaveOpenFails, SaveWriteFails, Saved
<1>5. disk' # Torn /\ ~stale' => Serving(disk') = Serving(ring)
  BY <1>2, <1>3
<1>6. Kept' \in {Serving(ring), Store!Nothing, Kept}
  BY <1>2, <1>3 DEF Kept, Store!Nothing, Serving
<1>7. Settled' \in BOOLEAN /\ (Settled' => Kept' = Serving(ring))
  BY <1>5 DEF Settled, Kept, Serving
<1>8. StoreInv'
  <2>1. \A i \in 1..Len(todo') : Serving(todo'[i]) = Serving(ring)
    BY <1>2, <1>4 DEF StoreInv
  <2> QED
    BY <1>4, <1>5, <2>1 DEF StoreInv, Settled, Serving
<1>9. Store!Keep
  BY <1>1, <1>4, <1>6, <1>7 DEF Store!Keep
<1> QED
  BY <1>8, <1>9 DEF Store!StoreNext, StoreStep

\* The process dies in both.
LEMMA CrashServes ==
  ASSUME Crash
  PROVE  StoreStep
<1>1. /\ up /\ up' = FALSE /\ ring' = EmptyRing /\ todo' = <<>>
      /\ UNCHANGED <<disk, usageOf>>
  BY DEF Crash
<1>2. Serving(ring)' = Store!Nothing
  BY <1>1, ServingEmpty DEF Serving, Store!Nothing
<1>3. Settled' = FALSE /\ Kept' = Kept
  BY <1>1 DEF Settled, Kept, Serving
<1>4. StoreInv'
  BY <1>1, <1>3 DEF StoreInv
<1>5. Store!Die
  BY <1>1, <1>2, <1>3 DEF Store!Die
<1> QED
  BY <1>4, <1>5 DEF Store!StoreNext, StoreStep

\* A restart brings back what the file kept.
LEMMA RestartServes ==
  ASSUME KeysInv, Restart
  PROVE  StoreStep
<1>1. /\ ~up /\ up' = TRUE /\ ring' = Loaded /\ todo' = <<>>
      /\ UNCHANGED <<disk, usageOf, stale>>
  BY DEF Restart, KeysInv, TodoInv
<1>2. Serving(ring)' = Kept /\ Kept' = Kept
  BY <1>1, ServingLoaded DEF Serving, Kept
<1>3. Settled' \in BOOLEAN
  BY DEF Settled
<1>4. StoreInv'
  BY <1>1, <1>2 DEF StoreInv, Settled, Kept, Serving
<1>5. Store!Recover
  BY <1>1, <1>2, <1>3 DEF Store!Recover
<1> QED
  BY <1>4, <1>5 DEF Store!StoreNext, StoreStep

\* Every step of the manager maps to a step of the store or to a stutter.
LEMMA StoreNextStep == KeysInv /\ StoreInv /\ [KeysNext]_keysVars => StoreStep
<1> SUFFICES ASSUME KeysInv, StoreInv, [KeysNext]_keysVars PROVE StoreStep
  OBVIOUS
<1>1. ASSUME NEW u \in Usages, GenerateKey(u) PROVE StoreStep
  BY <1>1, GenerateServes
<1>2. ASSUME NEW u \in Usages, RotateKey(u) PROVE StoreStep
  BY <1>2, RotateServes DEF RotateKey
<1>3. ASSUME NEW u \in Usages, GetKey(u) PROVE StoreStep
  BY <1>3, GetServes
<1>4. ASSUME NEW u \in Usages, MissingKey(u) PROVE StoreStep
  BY <1>4, StoreStutters DEF MissingKey, Untouched, StoreStep
<1>5. ASSUME NEW k \in Ids, RevokeKey(k) PROVE StoreStep
  BY <1>5, RevokeServes
<1>6. CASE CleanupExpiredKeys
  BY <1>6, CleanupServes
<1>7. CASE Save
  BY <1>7, SaveServes
<1>8. CASE Crash
  BY <1>8, CrashServes
<1>9. CASE Restart
  BY <1>9, RestartServes
<1>10. CASE Time
  <2>1. UNCHANGED <<ring, disk, todo, up, usageOf, stale>>
    BY <1>10 DEF Time, FallDue, Lapse
  <2> QED
    BY <2>1, StoreStutters DEF StoreStep
<1>11. CASE UNCHANGED keysVars
  BY <1>11, StoreStutters DEF keysVars, StoreStep
<1> QED
  BY <1>1, <1>2, <1>3, <1>4, <1>5, <1>6, <1>7, <1>8, <1>9, <1>10, <1>11
     DEF KeysNext, Call

\* The store starts empty, as the manager does.
LEMMA StoreInitStep == KeysInit => Store!StoreInit /\ StoreInv
<1> SUFFICES ASSUME KeysInit PROVE Store!StoreInit /\ StoreInv
  OBVIOUS
<1>1. /\ ring = EmptyRing /\ disk = Torn /\ todo = <<>> /\ up = TRUE
      /\ usageOf = [k \in Ids |-> NoKey]
  BY DEF KeysInit
<1>2. Settled = FALSE
  BY <1>1 DEF Settled
<1>3. Store!StoreInit
  BY <1>1, <1>2, ServingEmpty DEF Store!StoreInit, Store!Nothing, Kept
<1>4. StoreInv
  BY <1>1, <1>2 DEF StoreInv
<1> QED
  BY <1>3, <1>4

\* The secure key manager implements the abstract key store: whatever mixture of
\* calls, failing saves, crashes and restarts, a usage only ever gets a key made for
\* it that nobody had before, and a restart brings back what the file holds, which
\* is what the memory held when the last call was through.
THEOREM StoreCorrect == KeysSpec => ImplementsStore
<1>1. KeysInv /\ StoreInv /\ [KeysNext]_keysVars
        => StoreInv' /\ [Store!StoreNext]_(Store!storeVars)
  BY StoreNextStep DEF StoreStep
<1> QED
  BY <1>1, StoreInitStep, KeysInvHolds, PTL DEF KeysSpec, ImplementsStore, Store!StoreSpec
=============================================================================
