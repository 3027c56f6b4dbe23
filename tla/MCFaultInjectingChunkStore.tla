---------------------- MODULE MCFaultInjectingChunkStore ----------------------
(* A small instance of FaultInjectingChunkStore for TLC.                    *)
EXTENDS FaultInjectingChunkStore, TLC

MCSymmetry == Permutations(Threads)
===============================================================================
