------------------------ MODULE MCLocalDiskChunkStore ------------------------
(* Small instances of LocalDiskChunkStore for TLC.                          *)
EXTENDS LocalDiskChunkStore, TLC

CONSTANT c1

MCSize         == [c \in Chunks |-> IF c = c1 THEN 1 ELSE 2]
MCOneStripe    == [c \in Chunks |-> 0]
MCTwoStripes   == MCSize
MCOneShard     == [c \in Chunks |-> 0]
MCTempFaults   == FaultPoints \ {"tmpremove"}
MCNoStatFaults == FaultPoints \ {"stat"}
MCSyncFaults   == FaultPoints \ {"stat", "dirsync"}
MCNoFaults     == {}
MCStatFault    == {"stat"}
MCThreads      == Permutations(Threads)
=============================================================================
