------------------------------- MODULE SecureKeys -------------------------------
(***************************************************************************)
(* SecureKeyManager: keys with one active key per usage, replaced when     *)
(* they expire, fall due for rotation or are revoked, and a storage file   *)
(* that every change rewrites in place.                                    *)
(*                                                                         *)
(* A call changes the memory at once and then saves, some calls twice; the *)
(* process may die at any point of a save and starts again from what the   *)
(* file holds.  A save that fails is logged and the call goes on.          *)
(***************************************************************************)
EXTENDS Naturals, Sequences

CONSTANTS
  Ids,      \* the key ids that may be drawn, a bound on the keys ever made
  Usages,   \* KeyUsage
  NoKey,    \* no mapping in _active_keys, and no usage yet
  Torn      \* a file json.load refuses: none, or one cut off in the middle

ASSUME KeysAssumption == NoKey \notin Ids /\ NoKey \notin Usages

VARIABLES
  ring,     \* _keys, _key_history and _active_keys of the process
  disk,     \* the storage file: a ring, or Torn
  todo,     \* the rings the running call has still to save
  writing,  \* the file is open and truncated, and json.dump not through
  up,       \* the process runs
  given,    \* the caller passes a master key, the same one at every start
  usageOf,  \* metadata.usage of the keys made so far
  foreign,  \* keys encrypted under a master key the process does not have
  lapsed,   \* the deadlines that lie in the past
  due,      \* keys older than their rotation_schedule
  out,      \* how the running or last call ended, until something else happens
  unsaved,  \* usage_count and last_used of some key are ahead of the file
  stale,    \* (history) the file holds an older ring: a save failed to open it
  retired   \* (history) keys that some finished call left inactive

keysVars == <<ring, disk, todo, writing, up, given, usageOf, foreign, lapsed,
              due, out, unsaved, stale, retired>>

\* What expires_at was set from: generate_key, rotate_key, or revoke_key.
Deadlines == {"lifetime", "grace", "revoked"}

Rings ==
  [where    : [Ids -> {"none", "keys", "history"}],
   status   : [Ids -> {"active", "expired", "rotating", "revoked"}],
   deadline : [Ids -> Deadlines],
   active   : [Usages -> Ids \cup {NoKey}]]

EmptyRing ==
  [where    |-> [k \in Ids |-> "none"],
   status   |-> [k \in Ids |-> "active"],
   deadline |-> [k \in Ids |-> "lifetime"],
   active   |-> [u \in Usages |-> NoKey]]

Known(r) == {k \in Ids : r.where[k] # "none"}
Active(r) == {r.active[u] : u \in Usages} \ {NoKey}
Fresh == {k \in Ids : usageOf[k] = NoKey}
Expired(k) == <<k, ring.deadline[k]>> \in lapsed

NoOutcome == [what |-> "none", key |-> NoKey, late |-> FALSE]
Outcome(what, k) == [what |-> what, key |-> k, late |-> (Expired(k) \/ k \in due)]

KeysInit ==
  /\ ring = EmptyRing
  /\ disk = Torn
  /\ todo = <<>>
  /\ writing = FALSE
  /\ up = TRUE
  /\ given \in BOOLEAN
  /\ usageOf = [k \in Ids |-> NoKey]
  /\ foreign = {}
  /\ lapsed = {}
  /\ due = {}
  /\ out = NoOutcome
  /\ unsaved = FALSE
  /\ stale = FALSE
  /\ retired = {}

-----------------------------------------------------------------------------
\* The calls.  Each leaves the memory as it is in the end and the rings it saves.

Idle == up /\ todo = <<>>

\* The constructor is through: every usage has its active key.
Ready == Idle /\ \A u \in Usages : ring.active[u] # NoKey

Perform(saves) ==
  /\ todo' = saves
  /\ ring' = saves[Len(saves)]
  /\ UNCHANGED <<disk, writing, up, given, foreign, due, stale, retired>>

Untouched ==
  UNCHANGED <<ring, disk, todo, writing, up, given, usageOf, foreign, lapsed,
              due, stale, retired>>

Generated(r, u, k) == [r EXCEPT !.where[k] = "keys", !.active[u] = k]
Moved(r, K) ==
  [r EXCEPT !.where = [k \in Ids |-> IF k \in K THEN "history" ELSE r.where[k]]]
Rotating(r, k) == [r EXCEPT !.status[k] = "rotating", !.deadline[k] = "grace"]
Revoked(r, k) == [r EXCEPT !.status[k] = "revoked", !.deadline[k] = "revoked"]

Draw(k, u) == k \in Fresh /\ usageOf' = [usageOf EXCEPT ![k] = u]

\* By a caller, at any time, or by the constructor for a usage without a key.
GenerateKey(u) ==
  /\ Ready \/ (Idle /\ ring.active[u] = NoKey)
  /\ \E k \in Ids : Draw(k, u) /\ Perform(<<Generated(ring, u, k)>>)
  /\ out' = NoOutcome
  /\ UNCHANGED <<lapsed, unsaved>>

\* The checked key has expired: k takes its place, once.
CheckExpired(k, old) ==
  /\ Expired(old)
  /\ Draw(k, usageOf[old])
  /\ Perform(<<Generated([ring EXCEPT !.status[old] = "expired"], usageOf[old], k)>>)
  /\ UNCHANGED lapsed

\* Faulty: the first save comes before the new key.
RotateSavesEarly(k, u) ==
  LET old == ring.active[u]
      marked == Rotating(ring, old)
  IN /\ ring.where[old] = "keys"
     /\ Draw(k, u)
     /\ Perform(<<marked, Generated(marked, u, k)>>)
     /\ lapsed' = lapsed \ {<<old, "grace">>}

\* rotate_key: the old key gets a period of grace, whether it had expired or
\* not; generate_key saves, and rotate_key saves again.
Rotate(k, u) ==
  LET old == ring.active[u]
      new == Generated(Rotating(ring, old), u, k)
  IN /\ ring.where[old] = "keys"
     /\ Draw(k, u)
     /\ Perform(<<new, new>>)
     /\ lapsed' = lapsed \ {<<old, "grace">>}

RotateKey(u) ==
  /\ Ready
  /\ \E k \in Ids : Rotate(k, u)
  /\ out' = NoOutcome
  /\ UNCHANGED unsaved

\* rotate_key or get_key, when cleanup_expired_keys has moved the key away.
MissingKey(u) ==
  /\ Ready
  /\ ring.where[ring.active[u]] # "keys"
  /\ out' = Outcome("KeyError", ring.active[u])
  /\ Untouched
  /\ UNCHANGED unsaved

\* The key that was looked up is the one returned, also when the check has
\* just replaced it, and decrypted under the process's master key.  Before that,
\* and after the saves of the check, _update_key_usage counts its use.
HandOut(k) ==
  /\ out' = Outcome(IF k \in foreign THEN "InvalidTag" ELSE "key", k)
  /\ unsaved' = TRUE

GetKey(u) ==
  LET k == ring.active[u] IN
  /\ Ready
  /\ ring.where[k] = "keys"
  /\ HandOut(k)
  /\ \/ ~Expired(k) /\ k \notin due /\ Untouched
     \/ \E new \in Ids : CheckExpired(new, k)
     \/ ~Expired(k) /\ k \in due /\ \E new \in Ids : Rotate(new, usageOf[k])

\* Faulty: the key goes to the history and stays the active one.
RevokeKeepsActive(k) ==
  /\ Ready
  /\ ring.where[k] = "keys"
  /\ lapsed' = lapsed \ {<<k, "revoked">>}
  /\ Perform(<<Moved(Revoked(ring, k), {k})>>)
  /\ out' = NoOutcome
  /\ UNCHANGED <<usageOf, unsaved>>

\* An active key is replaced first, and saved as revoked but not yet moved.
RevokeKey(k) ==
  LET gone == Revoked(ring, k) IN
  /\ Ready
  /\ ring.where[k] = "keys"
  /\ lapsed' = lapsed \ {<<k, "revoked">>}
  /\ \/ /\ k \notin Active(ring)
        /\ Perform(<<Moved(gone, {k})>>)
        /\ UNCHANGED usageOf
     \/ \E u \in Usages, new \in Ids :
          /\ ring.active[u] = k
          /\ Draw(new, u)
          /\ Perform(<<Generated(gone, u, new), Moved(Generated(gone, u, new), {k})>>)
  /\ out' = NoOutcome
  /\ UNCHANGED unsaved

Overdue == {k \in Ids : ring.where[k] = "keys" /\ Expired(k)}

\* Faulty: the storage is left as it was.
CleanupUnsaved ==
  /\ Ready
  /\ Overdue # {}
  /\ ring' = Moved(ring, Overdue)
  /\ out' = NoOutcome
  /\ UNCHANGED <<disk, todo, writing, up, given, usageOf, foreign, lapsed, due,
                 unsaved, stale, retired>>

\* An expired key moves to the history even when it is the active one.
CleanupExpiredKeys ==
  /\ Ready
  /\ Overdue # {}
  /\ Perform(<<Moved(ring, Overdue)>>)
  /\ out' = NoOutcome
  /\ UNCHANGED <<usageOf, lapsed, unsaved>>

-----------------------------------------------------------------------------
\* _save_keys: open truncates, json.dump writes, either may fail.

Saved ==
  /\ todo' = Tail(todo)
  /\ retired' = IF todo' = <<>> THEN Known(ring) \ Active(ring) ELSE retired
  /\ UNCHANGED <<ring, up, given, usageOf, foreign, lapsed, due, out>>

SaveOpens ==
  /\ todo # <<>> /\ ~writing
  /\ disk' = Torn
  /\ writing' = TRUE
  /\ stale' = FALSE
  /\ UNCHANGED <<ring, todo, up, given, usageOf, foreign, lapsed, due, out, unsaved,
                 retired>>

\* The file has every use but the one the running get_key has still to count.
SaveWrites ==
  /\ writing
  /\ disk' = Head(todo)
  /\ writing' = FALSE
  /\ unsaved' = (out.key # NoKey)
  /\ Saved
  /\ UNCHANGED stale

SaveOpenFails ==
  /\ todo # <<>> /\ ~writing
  /\ Saved
  /\ stale' = (disk # Torn /\ disk # Head(todo))
  /\ UNCHANGED <<disk, writing, unsaved>>

SaveWriteFails ==
  /\ writing
  /\ writing' = FALSE
  /\ Saved
  /\ UNCHANGED <<disk, stale, unsaved>>

-----------------------------------------------------------------------------
\* The process dies and starts again, and time passes.

Crash ==
  /\ up
  /\ up' = FALSE
  /\ ring' = EmptyRing
  /\ todo' = <<>>
  /\ writing' = FALSE
  /\ out' = NoOutcome
  /\ unsaved' = FALSE
  /\ UNCHANGED <<disk, given, usageOf, foreign, lapsed, due, stale, retired>>

\* Faulty: the mapping is made up again from the status of the keys.
LoadedByStatus ==
  IF disk = Torn THEN EmptyRing
  ELSE LET live(u) == {k \in Ids : /\ disk.where[k] = "keys" /\ usageOf[k] = u
                                   /\ disk.status[k] = "active"}
       IN [disk EXCEPT !.active = [u \in Usages |->
             IF live(u) = {} THEN NoKey ELSE CHOOSE k \in live(u) : TRUE]]

\* _load_keys: a mapping to a key that is not in _keys is left out.
Loaded ==
  IF disk = Torn THEN EmptyRing
  ELSE [disk EXCEPT !.active = [u \in Usages |->
          IF disk.active[u] \in Ids /\ disk.where[disk.active[u]] = "keys"
          THEN disk.active[u] ELSE NoKey]]

\* Without a master key given, the new process has drawn another one.
Restart ==
  /\ ~up
  /\ up' = TRUE
  /\ ring' = Loaded
  /\ foreign' = IF given THEN foreign ELSE {k \in Ids : usageOf[k] # NoKey}
  /\ retired' = retired \ Active(ring')
  /\ UNCHANGED <<disk, todo, writing, given, usageOf, lapsed, due, out, unsaved, stale>>

Held == {ring, disk} \ {Torn}

\* Time passes between two calls: a call does not wait, and reads the clock first.
\* A deadline passes of a key that can still be looked up, in memory or file.
Lapse(k, d) ==
  /\ todo = <<>>
  /\ <<k, d>> \notin lapsed
  /\ \E r \in Held : r.where[k] = "keys" /\ r.deadline[k] = d
  /\ lapsed' = lapsed \cup {<<k, d>>}
  /\ out' = NoOutcome
  /\ UNCHANGED <<ring, disk, todo, writing, up, given, usageOf, foreign, due,
                 unsaved, stale, retired>>

FallDue(k) ==
  /\ todo = <<>>
  /\ k \notin due
  /\ \E r \in Held : k \in Active(r)
  /\ due' = due \cup {k}
  /\ out' = NoOutcome
  /\ UNCHANGED <<ring, disk, todo, writing, up, given, usageOf, foreign, lapsed,
                 unsaved, stale, retired>>

Save == SaveOpens \/ SaveWrites \/ SaveOpenFails \/ SaveWriteFails
Call ==
  \/ \E u \in Usages : GenerateKey(u) \/ RotateKey(u) \/ GetKey(u) \/ MissingKey(u)
  \/ \E k \in Ids : RevokeKey(k)
  \/ CleanupExpiredKeys
Time == \E k \in Ids : FallDue(k) \/ \E d \in Deadlines : Lapse(k, d)

KeysNext == Call \/ Save \/ Crash \/ Restart \/ Time
KeysSpec == KeysInit /\ [][KeysNext]_keysVars

-----------------------------------------------------------------------------

\* The type of what the calls read and write, and of the uses they count.
CallsType ==
  /\ ring \in Rings
  /\ disk \in Rings \cup {Torn}
  /\ todo \in Seq(Rings) /\ Len(todo) <= 2
  /\ writing \in BOOLEAN /\ up \in BOOLEAN /\ given \in BOOLEAN
  /\ usageOf \in [Ids -> Usages \cup {NoKey}]
  /\ foreign \subseteq Ids /\ due \subseteq Ids /\ retired \subseteq Ids
  /\ lapsed \subseteq Ids \X Deadlines
  /\ out \in [what : {"none", "key", "KeyError", "InvalidTag"},
             key : Ids \cup {NoKey}, late : BOOLEAN]
  /\ stale \in BOOLEAN

KeysType == CallsType /\ unsaved \in BOOLEAN

RingSound(r) ==
  \A u \in Usages : r.active[u] # NoKey =>
    LET k == r.active[u] IN
    /\ usageOf[k] = u
    /\ r.status[k] = "active" /\ r.deadline[k] = "lifetime"
    /\ r.where[k] = "keys" \/ (r.where[k] = "history" /\ <<k, "lifetime">> \in lapsed)

\* The active key of a usage was made for it and is neither revoked nor being
\* rotated out, in memory and in the file, whatever mixture of generate_key,
\* rotate_key, revoke_key, get_key and restarts led there; get_key runs into a
\* key that is not in _keys only when that key's life is over; and a key it hands
\* out past its expiry or rotation time it hands out once, another one is active.
ActiveSound ==
  /\ \A r \in Held : RingSound(r)
  /\ Ready /\ out.what = "key" /\ out.late => out.key \notin Active(ring)

\* When no call is running the file holds the keys, deadlines and active keys that
\* the memory holds, unless saving failed: a crash undoes nothing that a finished
\* call did to them.  The uses that get_key counts are not among it: it saves, if
\* at all, before it counts, so what it has handed out last is in no file yet.
Durable ==
  /\ Ready /\ disk # Torn /\ ~stale => disk = ring
  /\ Ready /\ out.what = "key" => unsaved

\* A key that a finished call replaced or revoked becomes active again only by
\* a restart from a file that a failed save had left behind.
NeverBack ==
  [][\A k \in retired : k \in Active(ring') \ Active(ring) => stale]_keysVars

\* The keys of a ring that can be handed out.
Serving(r) ==
  [u \in Usages |-> IF r.active[u] \in Ids /\ r.where[r.active[u]] = "keys"
                    THEN r.active[u] ELSE NoKey]

\* What a restart would find of them in the file.
Kept == IF disk = Torn THEN [u \in Usages |-> NoKey] ELSE Serving(disk)

Settled == up /\ todo = <<>> /\ disk # Torn /\ ~stale

Store == INSTANCE KeyStore WITH
           current <- Serving(ring), kept <- Kept, owner <- usageOf,
           running <- up, settled <- Settled

\* The manager implements the abstract key store: whatever the calls, the failing
\* saves, the crashes and the restarts, a usage only ever gets a key made for it
\* that nobody had before, loses it only by a replacement or by its expiry, and a
\* restart brings back the keys that the file holds, which are those of the memory
\* once a call and its saves are through.
ImplementsStore == Store!StoreSpec
=============================================================================
