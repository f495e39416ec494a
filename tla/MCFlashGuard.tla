---------------------------- MODULE MCFlashGuard ----------------------------
(***************************************************************************)
(* Instances of FlashGuard for TLC: t1 is pinned to the PRO CPU, t2 to the *)
(* APP CPU, t3 starts on the PRO CPU and has no affinity.                  *)
(***************************************************************************)
EXTENDS FlashGuard

CONSTANTS t1, t2, t3

TwoPinnedOneFree == {t1, t2, t3}
TwoPinned == {t1, t2}
OnePinned == {t1}

Free == {t3}
AllPinned == {}

HomeOf == [t \in Tasks |-> IF t = t2 THEN 1 ELSE 0]
=============================================================================
