---------------------------- MODULE MCTimerHeap ----------------------------
(***************************************************************************)
(* TimerHeap with interchangeable callers, from a heap that is empty and   *)
(* too small, or from one with every entry in it.  Six entries make a heap *)
(* with a slot whose successor comes from another branch and goes up.      *)
(***************************************************************************)
EXTENDS TimerHeap, TLC

CONSTANT MaxChanges   \* entries put in or taken out after the start, at most

VARIABLE changes

Interchangeable == Permutations(Callers)

N == Cardinality(Entries)

Order == CHOOSE f \in [0..N - 1 -> Entries] : \A i, j \in 0..N - 1 : f[i] = f[j] => i = j

\* max_size after n entries.
Grown[n \in 0..N] ==
    IF n = 0 THEN Size + 2
    ELSE LET m == Grown[n - 1] IN IF n + 1 >= m THEN 2 * m ELSE m

\* The heap when its entries were put in one after the other, each not earlier
\* than its parent, so that none moved.
Filled ==
    /\ heap = [s \in Slots |-> IF s < N THEN Order[s] ELSE None]
    /\ cur = N /\ max = Grown[N] /\ free = N + 1
    /\ ids = [i \in Slots |-> IF 0 < i /\ i <= N THEN i - 1
                              ELSE IF i < max THEN -(i + 1) ELSE 0]
    /\ tid = [e \in Entries |-> 1 + CHOOSE s \in 0..N - 1 : Order[s] = e]
    /\ when \in [Entries -> 0..MaxTime]
    /\ HeapOrdered

\* The entries of an empty heap start zeroed; those that leave a full one have -1.
Start == /\ changes = 0
         /\ \/ Init /\ \A e \in Entries : tid[e] = 0
            \/ /\ op = NoLoop
               /\ Filled
               /\ call = [c \in Callers |-> Idle]
               /\ poll = [p \in Pollers |-> Resting]
               /\ clock = 0
               /\ failed = FALSE

Changed == tid' # tid

BoundedNext == /\ Next
               /\ changes' = IF Changed THEN changes + 1 ELSE changes
               /\ changes' <= MaxChanges

BoundedSpec == Start /\ [][BoundedNext]_<<vars, changes>>
=============================================================================
