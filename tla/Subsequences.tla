---------------------------- MODULE Subsequences ----------------------------
(***************************************************************************)
(* Choosing from sequences: the list comprehensions [x for x in seq if ..] *)
(* of vrp/epochs.py and vrp/replay.py and the loops of allocate.rs that    *)
(* sort stops into lists; min() and sorted() under a key.                  *)
(***************************************************************************)
EXTENDS Integers, Sequences, FiniteSets

(* The entries of seq that are wanted, in their order.                     *)
Kept(seq, wanted) ==
    LET kept[n \in 0..Len(seq)] ==
            IF n = 0 THEN <<>>
            ELSE IF seq[n] \in wanted THEN Append(kept[n - 1], seq[n])
            ELSE kept[n - 1]
    IN kept[Len(seq)]

(* Tuples in the order Python compares them.                               *)
Precedes(a, b) ==
    \E i \in DOMAIN a : a[i] < b[i] /\ \A j \in 1..(i - 1) : a[j] = b[j]

(* min() and sorted() under a key that tells any two apart.                *)
FirstBy(S, key) ==
    CHOOSE x \in S : \A y \in S \ {x} : Precedes(key[x], key[y])
Ranked(S, key) ==
    [k \in 1..Cardinality(S) |-> CHOOSE x \in S :
        Cardinality({y \in S : Precedes(key[y], key[x])}) = k - 1]

(* sorted() of distinct numbers: smallest first.                           *)
Ascending(S) ==
    CHOOSE f \in [1..Cardinality(S) -> S] :
        \A i, j \in DOMAIN f : i < j => f[i] < f[j]
=============================================================================
