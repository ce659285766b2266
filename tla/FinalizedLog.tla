---------------------------- MODULE FinalizedLog -----------------------------
(***************************************************************************)
(* What the indexer promises the assertion store: each adopter is handed   *)
(* the events of the finalized chain, in chain order, none left out and    *)
(* none twice.  Adopters are served separately.                            *)
(***************************************************************************)
EXTENDS Naturals, Sequences

CONSTANTS Blocks, Genesis, Number, Chain, Adopters, Touches

VARIABLES final, store

\* s lists the finalized events of adopter aa up to block number n, in chain order.
IsLogOf(s, aa, n) ==
    /\ \A j, k \in DOMAIN s : j < k => Number[s[j]] < Number[s[k]]
    /\ {s[k] : k \in DOMAIN s} = {b \in Chain[final] : aa \in Touches[b] /\ Number[b] <= n}

\* t is s and more.
Continues(t, s) == Len(s) < Len(t) /\ SubSeq(t, 1, Len(s)) = s

Init ==
    /\ final = Genesis
    /\ store = [aa \in Adopters |-> <<>>]

Finalize ==
    /\ \E b \in Blocks : final \in Chain[b] /\ final' = b
    /\ UNCHANGED store

Deliver(aa) ==
    /\ \E n \in 0..Number[final] : IsLogOf(store'[aa], aa, n)
    /\ Continues(store'[aa], store[aa])
    /\ store' = [store EXCEPT ![aa] = store'[aa]]
    /\ UNCHANGED final

Next == Finalize \/ \E aa \in Adopters : Deliver(aa)

Spec == Init /\ [][Next]_<<final, store>>
==============================================================================
