------------------------------ MODULE Ranking ------------------------------
(***************************************************************************)
(* Ranking the members of a finite set by an integer key, the way          *)
(* pickVictims ranks slots and the manager enumerates missing experts:     *)
(* the rank of x counts the members with a smaller key.                    *)
(***************************************************************************)
EXTENDS Integers, FiniteSets

Rank(V, key, x) == Cardinality({y \in V : key[y] < key[x]})

(* The member of rank i. *)
Nth(V, key, i) == CHOOSE x \in V : Rank(V, key, x) = i

(* The members in the order of the key; numbers in their own.              *)
Sorted(V, key) == [i \in 1 .. Cardinality(V) |-> Nth(V, key, i - 1)]
ById(V) == Sorted(V, [x \in V |-> x])

(* A key that tells the members of V apart. *)
KeyOf(V, key) ==
  /\ key \in [V -> Int]
  /\ \A x, y \in V : key[x] = key[y] => x = y
============================================================================
