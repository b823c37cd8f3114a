-------------------------------- MODULE QList --------------------------------
(***************************************************************************)
(* The operations of Qt's QList that the server's bookkeeping rests on.    *)
(* Lists are sequences; an index, as in C++, counts from 0.                *)
(***************************************************************************)
EXTENDS Integers, Sequences, FiniteSets

\* The i-th, in increasing order, of the positions K.
Position(K, i) == CHOOSE k \in K : Cardinality({j \in K : j <= k}) = i

\* The entries of a list at the positions K, in their order.
Keep(list, K) == [i \in 1 .. Cardinality(K) |-> list[Position(K, i)]]

removeAll(list, value) == Keep(list, {i \in DOMAIN list : list[i] # value})

\* The first index of a value, -1 when the list does not hold it.
indexOf(list, value) ==
  LET K == {i \in DOMAIN list : list[i] = value}
  IN  IF K = {} THEN -1 ELSE Position(K, 1) - 1

InRange(list, index) == index + 1 \in DOMAIN list

\* What at(index) may return: out of range it is undefined, and may be any of
\* the values that stale memory holds.
at(list, index, stale) == IF InRange(list, index) THEN {list[index + 1]} ELSE stale
=============================================================================
