------------------------------ MODULE MCTracing ------------------------------
(* Instances of Tracing for model checking.                                 *)
EXTENDS Tracing, TLC

MCThreads  == Handlers \cup Greeters \cup Testers
MCSymmetry == Permutations(Handlers) \cup Permutations(Calls)
=============================================================================
