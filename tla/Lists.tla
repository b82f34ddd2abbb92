--------------------------------- MODULE Lists ---------------------------------
(***************************************************************************)
(* What Python's sum, sorted and the comprehensions with a condition make  *)
(* of a list.  They are recursive functions and choices of one element, so *)
(* that what they compute can be proved for lists of any length.           *)
(***************************************************************************)
EXTENDS Integers, Sequences, FiniteSets

(* The sums of the first n of the numbers, n = 0..Len(numbers).            *)
Sums(numbers) ==
  LET sum[n \in 0..Len(numbers)] == IF n = 0 THEN 0 ELSE sum[n - 1] + numbers[n] IN sum
Total(numbers) == Sums(numbers)[Len(numbers)]

(* [x for x in items if ...], where S are the positions of those x.        *)
FirstOfThose(items, S) ==
  LET kept[n \in 0..Len(items)] ==
        IF n = 0 THEN <<>> ELSE IF n \in S THEN Append(kept[n - 1], items[n]) ELSE kept[n - 1]
  IN  kept
Those(items, S) == FirstOfThose(items, S)[Len(items)]

(* Tuples are compared as Python compares them.                            *)
Less(x, y) == \E k \in DOMAIN x : x[k] < y[k] /\ \A j \in 1..(k - 1) : x[j] = y[j]

(* sorted(items, key): the positions of the items in the order of their    *)
(* keys; the sort is stable.  The n-th is the one that n - 1 go before.    *)
Precedes(keys, i, j) == Less(keys[i], keys[j]) \/ (keys[i] = keys[j] /\ i < j)
Sorted(keys) ==
  [n \in DOMAIN keys |->
     CHOOSE i \in DOMAIN keys : Cardinality({j \in DOMAIN keys : Precedes(keys, j, i)}) = n - 1]
=============================================================================
