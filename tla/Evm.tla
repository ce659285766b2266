--------------------------------- MODULE Evm ---------------------------------
(***************************************************************************)
(* revm as the executor uses it (external): what executing a transaction   *)
(* leaves in its journaled state and in the state changes it returns.      *)
(*                                                                         *)
(* A transaction is [caller, outcome, ops].  Its operations are those it   *)
(* runs, in order: [kind, at, key, value, reverted], where reverted says   *)
(* that a call around it was undone.                                       *)
(*   "call"      calls `at' with selector `key' (None: less than 4 bytes)  *)
(*   "sload"     loads slot `key' of `at'                                  *)
(*   "sstore"    stores `value' in slot `key' of `at'                      *)
(*   "transfer"  moves one unit of balance from `at' to `key'              *)
(*   "destroy"   destroys `at' at the end of the transaction and moves its *)
(*               balance to `key' now: before Cancun, or after it if `at'  *)
(*               was created in the transaction (otherwise a SELFDESTRUCT  *)
(*               only transfers, and is journaled as a transfer)           *)
(* The outcome is "Success", "Revert" (a halt, too) or "Error" (EVMError). *)
(* A database is [basic, storage, code], as in ForkDb.                     *)
(***************************************************************************)
EXTENDS Naturals, Sequences, FiniteSets

CONSTANTS
    Addresses, Slots, Hashes,
    Zero,            \* the value of a slot that was never written
    NoCode,          \* the hash of no code
    None

\* The operations of a kind whose effect lasts.
Live(tx, kind) ==
    {n \in DOMAIN tx.ops :
        tx.outcome = "Success" /\ tx.ops[n].kind = kind /\ ~ tx.ops[n].reverted}

WritesTo(tx, a, s) ==
    {n \in Live(tx, "sstore") : tx.ops[n].at = a /\ tx.ops[n].key = s}

\* The last of some operations.
IsLast(n, N) == n \in N /\ \A m \in N : m <= n

\* The value of a slot when operation n begins.
ValueAt(tx, storage, n, a, s) ==
    LET earlier == {m \in WritesTo(tx, a, s) : m < n}
    IN  IF earlier = {} THEN storage[a][s]
        ELSE tx.ops[CHOOSE m \in earlier : IsLast(m, earlier)].value

Present(tx, storage, a, s) == ValueAt(tx, storage, Len(tx.ops) + 1, a, s)

SelfDestructed(tx) == {tx.ops[n].at : n \in Live(tx, "destroy")}

\* Loading a slot, or an account, is not undone by a revert.
IsLoaded(tx, a, s) ==
    \E n \in DOMAIN tx.ops :
        tx.ops[n].kind \in {"sload", "sstore"} /\ tx.ops[n].at = a /\ tx.ops[n].key = s

\* The account that an operation works on, and the one it moves balance to.
Involves(op, a) == op.at = a \/ (op.kind \in {"transfer", "destroy"} /\ op.key = a)

IsTouched(tx, a) ==
    \/ a = tx.caller
    \/ \E kind \in {"call", "sload", "sstore", "transfer", "destroy"} :
        \E n \in Live(tx, kind) : Involves(tx.ops[n], a)

Accessed(tx, a) ==
    IsTouched(tx, a) \/ \E n \in DOMAIN tx.ops : Involves(tx.ops[n], a)

DefaultInfo == [nonce |-> 0, balance |-> 0, code_hash |-> NoCode, code |-> None]

InfoBefore(basic, a) == IF basic[a] = None THEN DefaultInfo ELSE basic[a]

\* The balances after an operation.  A destruction moves all that the account
\* has at that moment, which is lost if the account is its own beneficiary.
Moved(balances, op) ==
    LET amount   == IF op.kind = "transfer" THEN 1 ELSE balances[op.at]
        credited == IF op.kind = "destroy" /\ op.key = op.at THEN 0 ELSE amount
    IN  IF op.kind \notin {"transfer", "destroy"} THEN balances
        ELSE [[balances EXCEPT ![op.at] = @ - amount] EXCEPT ![op.key] = @ + credited]

\* The balances after a transaction: its operations that last, one by one.
Balances(tx, basic) ==
    LET after[n \in 0..Len(tx.ops)] ==
            IF n = 0 THEN [a \in Addresses |-> InfoBefore(basic, a).balance]
            ELSE IF n \in Live(tx, tx.ops[n].kind) THEN Moved(after[n - 1], tx.ops[n])
            ELSE after[n - 1]
    IN  after[Len(tx.ops)]

InfoAfter(tx, basic, a) ==
    LET info == InfoBefore(basic, a)
    IN  [nonce     |-> info.nonce + (IF a = tx.caller THEN 1 ELSE 0),
         balance   |-> Balances(tx, basic)[a],
         code_hash |-> info.code_hash,
         code      |-> info.code]

\* ResultAndState.state: the accounts that were loaded, with their status, and
\* of their storage the slots that were loaded.
StateAfter(tx, db) ==
    [a \in Addresses |->
        IF ~ Accessed(tx, a) THEN None
        ELSE [touched        |-> IsTouched(tx, a),
              selfdestructed |-> a \in SelfDestructed(tx),
              info           |-> InfoAfter(tx, db.basic, a),
              storage        |-> [s \in Slots |->
                    IF IsLoaded(tx, a, s) THEN Present(tx, db.storage, a, s) ELSE None]]]

\* The journal, flattened, by the operations its entries come from: balance
\* transfers (BalanceTransfer), destructions with the balance they moved
\* (AccountDestroyed), and the writes that changed a slot, with the value it
\* had (StorageChanged).  What was undone is no longer in it.
Changing(tx, storage) ==
    {n \in Live(tx, "sstore") :
        ValueAt(tx, storage, n, tx.ops[n].at, tx.ops[n].key) # tx.ops[n].value}

Journal(tx, storage) ==
    [n \in Changing(tx, storage) \cup Live(tx, "transfer") \cup Live(tx, "destroy") |->
        [kind |-> tx.ops[n].kind, at |-> tx.ops[n].at, key |-> tx.ops[n].key,
         had  |-> IF tx.ops[n].kind = "sstore"
                  THEN ValueAt(tx, storage, n, tx.ops[n].at, tx.ops[n].key) ELSE None]]

\* The storage a transaction leaves.
StorageAfter(tx, storage) ==
    [a \in Addresses |-> [s \in Slots |->
        IF a \in SelfDestructed(tx) THEN Zero ELSE Present(tx, storage, a, s)]]

\* The caller's database commits state changes, as revm's databases do: an
\* account that was destroyed does not exist any more.
Committed(db, changes) ==
    [basic   |-> [a \in Addresses |->
        IF changes[a] = None \/ ~ changes[a].touched THEN db.basic[a]
        ELSE IF changes[a].selfdestructed THEN None ELSE changes[a].info],
     storage |-> [a \in Addresses |-> [s \in Slots |->
        IF changes[a] = None \/ ~ changes[a].touched THEN db.storage[a][s]
        ELSE IF changes[a].selfdestructed THEN Zero
        ELSE IF changes[a].storage[s] # None THEN changes[a].storage[s]
        ELSE db.storage[a][s]]],
     code    |-> db.code]
==============================================================================
