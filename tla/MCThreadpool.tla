----------------------------- MODULE MCThreadpool -----------------------------
(* Instances of Threadpool for TLC. *)
EXTENDS Threadpool, TLC

\* The workers run the same code and no property tells them apart.
WorkerSymmetry == Permutations(Workers)
==============================================================================
