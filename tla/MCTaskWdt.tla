----------------------------- MODULE MCTaskWdt -----------------------------
(* Three tasks that come and go: one may be first, in the middle and last. *)
EXTENDS TaskWdt

CONSTANTS t1, t2, t3
=============================================================================
