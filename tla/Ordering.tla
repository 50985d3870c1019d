------------------------------ MODULE Ordering ------------------------------
(* Sorted rows: ORDER BY of the database and Array.prototype.sort, for     *)
(* keys that differ.  Neither sorts by recursion here: the k-th element is *)
(* the one that k elements do not come after.                              *)
EXTENDS Integers, FiniteSets, Sequences

\* The elements of S that do not come after x, in descending order of key.
Upto(S, key, x) == {y \in S : key[y] >= key[x]}

\* The elements of S in descending order of key.
Descending(S, key) ==
    [k \in 1..Cardinality(S) |-> CHOOSE x \in S : Cardinality(Upto(S, key, x)) = k]

\* Array.prototype.filter: what s has at the positions D, in the order of s.
Filtered(s, D) ==
    LET position == Descending(D, [i \in D |-> -i])
    IN  [k \in 1..Cardinality(D) |-> s[position[k]]]
=============================================================================
