------------------------- MODULE MCStorageNodeService -------------------------
(* Small instances of StorageNodeService for TLC: two nodes, the first with  *)
(* the larger limit, and a chunk of three blocks, two frames.                *)
EXTENDS StorageNodeService, TLC

CONSTANTS n1, n2, w1, w2, c3

MCOneEach   == w1 :> n1 @@ w2 :> n2
MCLimits    == n1 :> 3 @@ n2 :> 2
MCThree     == c3 :> <<"x", "x", "y">>
MCFrames    == {<<"x">>, <<"x", "y">>}
MCAll       == {"PutChunk", "GetChunk", "ReplicateChunk", "DeleteChunk", "VerifyChunk", "GetNodeStats",
                "ServerReflectionInfo"}
===============================================================================
