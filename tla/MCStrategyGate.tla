--------------------------- MODULE MCStrategyGate ---------------------------
(* StrategyGate for TLC: the orders are interchangeable.                   *)
EXTENDS StrategyGate, TLC

OrderSymmetry == Permutations(Orders)
=============================================================================
