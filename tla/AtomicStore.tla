----------------------------- MODULE AtomicStore -----------------------------
(***************************************************************************)
(* What the credential store (server/token_store.py) promises its callers: *)
(* a map that each save changes as a whole and nowhere else, that loses at *)
(* most what was not yet durable, and that no save ever replaces when it   *)
(* is unusable. Once a lock could not be had, a save may also bring back   *)
(* other entries, and still stores a whole map.                            *)
(***************************************************************************)
CONSTANTS
  Keys,    \* a key is what one kind of save sets: a token pair, a metadata field, ...
  Values,
  Absent,  \* no entry
  Corrupt, \* a store that is not JSON
  Changes  \* what a save may do: a new value, or Absent, for some of the keys

Stores == [Keys -> Values \cup {Absent}]
Empty == [k \in Keys |-> Absent]

\* change over base.
Applied(change, base) == [k \in Keys |-> IF k \in DOMAIN change THEN change[k] ELSE base[k]]

VARIABLES
  store,    \* the map as readers find it
  durable,  \* the maps one of which is there after a power failure
  ordered   \* every lock has been had so far

Init ==
  /\ store \in Stores \cup {Corrupt}
  /\ durable = {store}
  /\ ordered = TRUE

\* A save takes effect, all of it at once.
Save(change) ==
  /\ store # Corrupt
  /\ \E base \in IF ordered THEN {store} ELSE Stores : store' = Applied(change, base)
  /\ durable' = durable \cup {store'}
  /\ UNCHANGED ordered

\* The last save is durable.
Settle == durable' = {store} /\ UNCHANGED <<store, ordered>>

LosePower ==
  /\ store' \in durable /\ durable' = {store'}
  /\ UNCHANGED ordered

\* A human replaces an unusable store.
MoveAside ==
  /\ store = Corrupt
  /\ store' = Empty /\ durable' = {Empty}
  /\ UNCHANGED ordered

LoseOrder == ordered' = FALSE /\ UNCHANGED <<store, durable>>

Next == Settle \/ LosePower \/ MoveAside \/ LoseOrder \/ \E change \in Changes : Save(change)

Spec == Init /\ [][Next]_<<store, durable, ordered>>
=============================================================================
