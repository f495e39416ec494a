------------------------------- MODULE MCNvs -------------------------------
(* Instances of Nvs: one or two keys, with distinct or equal hashes and addresses. *)
EXTENDS Nvs

CONSTANTS k1, k2
TwoKeys == {k1, k2}
OneKey == {k1}
Distinct == (k1 :> 1) @@ (k2 :> 2)
Same == (k1 :> 1) @@ (k2 :> 1)
BothTypes == [k \in Keys |-> Types]
OneAndTwo == [t \in Types |-> {1, 2}]
TwoOnly == [t \in Types |-> {2}]

\* Sizes of values 1 and 2 as blobs, in half entries.
OneEntryEach == <<1, 2>>
OneAndTwoEntries == <<1, 3>>

TwoSectors == 0 .. 1
ThreeSectors == 0 .. 2
=============================================================================
