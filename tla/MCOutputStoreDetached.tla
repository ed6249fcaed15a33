----------------------- MODULE MCOutputStoreDetached ------------------------
(* The tree of MCOutputStore, for the store with detached writer threads.  *)
EXTENDS MCOutputStore, OutputStoreDetached
=============================================================================
