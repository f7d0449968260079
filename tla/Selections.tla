------------------------------ MODULE Selections ------------------------------
(***************************************************************************)
(* Lists that are filtered or sorted, by the places of their elements and  *)
(* not by recursion: what Array.filter and Array.sort return, in a form    *)
(* that theorems can be stated about.                                      *)
(***************************************************************************)
EXTENDS Integers, Sequences, FiniteSets

\* The elements of a finite set in the order of before, a strict total order.
InOrder(S, before(_, _)) ==
  [n \in 1..Cardinality(S) |-> CHOOSE x \in S : Cardinality({y \in S : before(y, x)}) = n - 1]

\* The elements of s at the places in at, in their order.
Kept(s, at) == LET places == InOrder(at, LAMBDA i, j : i < j) IN [n \in DOMAIN places |-> s[places[n]]]

\* Each element of s once, where it stands first.
Once(s) == Kept(s, {i \in DOMAIN s : \A j \in 1..(i - 1) : s[j] # s[i]})
=============================================================================
