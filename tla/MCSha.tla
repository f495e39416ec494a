-------------------------------- MODULE MCSha --------------------------------
(* An instance of Sha: two tasks after one that runs at start-up, SHA-1    *)
(* and SHA-256.                                                            *)
EXTENDS Sha

CONSTANTS boot, t1, t2

MCLockNames == Engines \cup {"state_change_lock", "memory_block_lock"}
=============================================================================
