-------------------------------- MODULE Sums --------------------------------
(***************************************************************************)
(* Sums over a finite set and along a sequence: recursive functions, and    *)
(* not folds with an operator, so that they can be reasoned about.          *)
(***************************************************************************)
EXTENDS Integers, Sequences

\* What the values of f add up to.
Total(f) ==
  LET sum[S \in SUBSET DOMAIN f] ==
        IF S = {} THEN 0 ELSE LET x == CHOOSE x \in S : TRUE IN f[x] + sum[S \ {x}]
  IN sum[DOMAIN f]

\* The sum of a sequence of numbers.
SumOf(values) ==
  LET sum[i \in 0..Len(values)] == IF i = 0 THEN 0 ELSE sum[i - 1] + values[i]
  IN  sum[Len(values)]
=============================================================================
