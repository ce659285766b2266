-------------------------------- MODULE ForkDb -------------------------------
(***************************************************************************)
(* A ForkDb (db/fork_db.rs): changes kept over an inner database.          *)
(*                                                                         *)
(* A layer holds what the fork has of each account: its info, the slots in *)
(* ForkStorageMap.map and dont_read_from_inner_db, and the code it has by  *)
(* hash.  None marks what a map has no entry for; an account without a     *)
(* ForkStorageMap reads as one whose map is empty and whose flag is unset. *)
(* A database is given by what it answers: basic, storage and code.  An    *)
(* info carries the hash of the account's code and the code or None.       *)
(***************************************************************************)
CONSTANTS
    Addresses, Slots, Hashes,
    Zero,               \* the value of a slot that was never written
    None

\* ForkDb::new
Empty ==
    [basic |-> [a \in Addresses |-> None],
     map   |-> [a \in Addresses |-> [s \in Slots |-> None]],
     code  |-> [h \in Hashes |-> None],
     dont_read_from_inner_db |-> [a \in Addresses |-> FALSE]]

BasicRef(layer, inner, a) ==
    IF layer.basic[a] # None THEN layer.basic[a] ELSE inner.basic[a]

StorageRef(layer, inner, a, s) ==
    IF layer.map[a][s] # None THEN layer.map[a][s]
    ELSE IF layer.dont_read_from_inner_db[a] THEN Zero
    ELSE inner.storage[a][s]

CodeByHashRef(layer, inner, h) ==
    IF layer.code[h] # None THEN layer.code[h] ELSE inner.code[h]

\* What the database answers that reads through the layer.
Over(layer, inner) ==
    [basic   |-> [a \in Addresses |-> BasicRef(layer, inner, a)],
     storage |-> [a \in Addresses |-> [s \in Slots |-> StorageRef(layer, inner, a, s)]],
     code    |-> [h \in Hashes |-> CodeByHashRef(layer, inner, h)]]

\* Changes map an address to None or to an account: touched, selfdestructed,
\* info and storage (slot -> present value, or None if it was not loaded).
Touched(changes, a)   == changes[a] # None /\ changes[a].touched
Destroyed(changes, a) == Touched(changes, a) /\ changes[a].selfdestructed
Kept(changes, a)      == Touched(changes, a) /\ ~ changes[a].selfdestructed

\* The codes that a commit inserts under a hash.
CodesAt(changes, h) ==
    {changes[a].info.code : a \in {b \in Addresses :
        Kept(changes, b) /\ changes[b].info.code # None /\ changes[b].info.code_hash = h}}

\* Mutant: the info of an account is kept if there is one.
Commit_InfoIfAbsent(layer, changes) ==
    [basic |-> [a \in Addresses |->
        IF Touched(changes, a) /\ layer.basic[a] = None THEN changes[a].info ELSE layer.basic[a]],
     map |-> [a \in Addresses |-> [s \in Slots |->
        IF Destroyed(changes, a) THEN None
        ELSE IF Touched(changes, a) /\ changes[a].storage[s] # None
             THEN changes[a].storage[s] ELSE layer.map[a][s]]],
     code |-> [h \in Hashes |->
        IF CodesAt(changes, h) # {} THEN CHOOSE c \in CodesAt(changes, h) : TRUE
        ELSE layer.code[h]],
     dont_read_from_inner_db |-> [a \in Addresses |->
        layer.dont_read_from_inner_db[a] \/ Destroyed(changes, a)]]

\* DatabaseCommit::commit.  A destroyed account keeps its info and loses its
\* slots; any other extends what the layer has, and leaves the flag as it is.
Commit(layer, changes) ==
    [basic |-> [a \in Addresses |->
        IF Touched(changes, a) THEN changes[a].info ELSE layer.basic[a]],
     map |-> [a \in Addresses |-> [s \in Slots |->
        IF Destroyed(changes, a) THEN None
        ELSE IF Touched(changes, a) /\ changes[a].storage[s] # None
             THEN changes[a].storage[s] ELSE layer.map[a][s]]],
     code |-> [h \in Hashes |->
        IF CodesAt(changes, h) # {} THEN CHOOSE c \in CodesAt(changes, h) : TRUE
        ELSE layer.code[h]],
     dont_read_from_inner_db |-> [a \in Addresses |->
        layer.dont_read_from_inner_db[a] \/ Destroyed(changes, a)]]

\* Mutant: the earlier status is kept.
MergeState_KeepsStatus(changes, later) ==
    [a \in Addresses |->
        IF later[a] = None THEN changes[a]
        ELSE IF changes[a] = None THEN later[a]
        ELSE [changes[a] EXCEPT !.info = later[a].info,
              !.storage = [s \in Slots |-> IF later[a].storage[s] # None THEN later[a].storage[s] ELSE @[s]]]]

\* BlockChanges::merge_state: later infos and statuses replace earlier ones,
\* storage is extended.
MergeState(changes, later) ==
    [a \in Addresses |->
        IF later[a] = None THEN changes[a]
        ELSE IF changes[a] = None THEN later[a]
        ELSE [touched |-> later[a].touched, selfdestructed |-> later[a].selfdestructed,
              info    |-> later[a].info,
              storage |-> [s \in Slots |->
                IF later[a].storage[s] # None THEN later[a].storage[s]
                ELSE changes[a].storage[s]]]]
==============================================================================
