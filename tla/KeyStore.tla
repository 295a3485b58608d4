-------------------------------- MODULE KeyStore --------------------------------
(***************************************************************************)
(* What the secure key manager promises to those who ask it for keys: a    *)
(* usage has one current key or none; it only ever gets a key that nobody  *)
(* had before; and a restart brings back, usage by usage, what the storage *)
(* kept, which is what was current when it was written.                    *)
(***************************************************************************)

CONSTANTS Ids, Usages, NoKey

VARIABLES
  current,  \* for each usage the key that is handed out
  kept,     \* for each usage the key that a restart would find
  owner,    \* for each key the usage it was made for
  running,
  settled   \* the last call is through and the storage has it

storeVars == <<current, kept, owner, running, settled>>

Nothing == [u \in Usages |-> NoKey]

StoreInit ==
  /\ current = Nothing /\ kept = Nothing
  /\ owner = [k \in Ids |-> NoKey]
  /\ running = TRUE
  /\ settled = FALSE

\* A usage gets a new key.
Replace(u, k) ==
  /\ running
  /\ owner[k] = NoKey
  /\ owner' = [owner EXCEPT ![k] = u]
  /\ current' = [current EXCEPT ![u] = k]
  /\ settled' = FALSE
  /\ UNCHANGED <<kept, running>>

\* The keys of some usages, perhaps of none, are taken out of service.
Expire(U) ==
  /\ running
  /\ current' = [u \in Usages |-> IF u \in U THEN NoKey ELSE current[u]]
  /\ settled' = FALSE
  /\ UNCHANGED <<kept, owner, running>>

\* The storage has what is current, has nothing, or still has what it had.
Keep ==
  /\ running
  /\ kept' \in {current, Nothing, kept}
  /\ settled' \in BOOLEAN /\ (settled' => kept' = current)
  /\ UNCHANGED <<current, owner, running>>

Die ==
  /\ running
  /\ running' = FALSE
  /\ current' = Nothing
  /\ settled' = FALSE
  /\ UNCHANGED <<kept, owner>>

Recover ==
  /\ ~running
  /\ running' = TRUE
  /\ current' = kept
  /\ settled' \in BOOLEAN
  /\ UNCHANGED <<kept, owner>>

StoreNext ==
  \/ \E u \in Usages, k \in Ids : Replace(u, k)
  \/ \E U \in SUBSET Usages : Expire(U)
  \/ Keep \/ Die \/ Recover

StoreSpec == StoreInit /\ [][StoreNext]_storeVars
=============================================================================
