---------------------------- MODULE MCValueFolds ----------------------------
(* Instances of ValueFolds, in which engines and folds are interchangeable. *)
EXTENDS ValueFolds, TLC

CONSTANTS e1, e2, v1, f1, f2, f3

Interchangeable == Permutations(Engines) \cup Permutations(Folds)
=============================================================================
