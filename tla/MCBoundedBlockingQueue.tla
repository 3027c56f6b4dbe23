------------------------ MODULE MCBoundedBlockingQueue ------------------------
(* BoundedBlockingQueue for TLC; Queue.cfg gives the instance.              *)
EXTENDS BoundedBlockingQueue
===============================================================================
