----------------------------- MODULE MCNanoFSStore -----------------------------
(* The instances of MCNanoFS for the refinement of FileStore.              *)
EXTENDS NanoFSStore, MCNanoFS
===============================================================================
