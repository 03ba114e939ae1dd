------------------------------- MODULE Sums -------------------------------
(***************************************************************************)
(* Totals of amounts.  An amount is a number of indivisible units          *)
(* (config.UnitsPerCoin in the node), so the total of a function from      *)
(* holders to amounts is the number of pairs <<holder, unit>> it contains. *)
(* Written as a cardinality the total needs no recursion, and the          *)
(* cardinality theorems of the library are enough to reason about it.      *)
(***************************************************************************)
EXTENDS Integers, FiniteSets

CONSTANT MaxUint    \* the largest value of the integer type, 2^64 - 1 in the node

ASSUME MaxUintAssumption == MaxUint \in Nat \ {0}

Uint == 0..MaxUint

\* The individual units held under f, a function into Uint.
UnitsOf(f) == {u \in (DOMAIN f) \X (1..MaxUint) : u[2] <= f[u[1]]}

SumOf(f) == Cardinality(UnitsOf(f))
===========================================================================
