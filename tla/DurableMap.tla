----------------------------- MODULE DurableMap -----------------------------
(***************************************************************************)
(* What the non-volatile storage promises its callers: a map from slots    *)
(* (a key and a type) to values that changes only by the calls made, one   *)
(* call at a time, and that power failures leave alone, "expect for the    *)
(* new key-value pair if it was being written at the moment of power off"  *)
(* (components/nvs_flash/README.rst).                                      *)
(*                                                                         *)
(* call is the last API call: its operation, slot, value and outcome.      *)
(* The outcome "POWER_OFF" is a call cut short by a power failure.         *)
(***************************************************************************)
CONSTANTS Slots, Values, None

VARIABLES map, call

Call(op, slot, val, rc) == [op |-> op, slot |-> slot, val |-> val, rc |-> rc]

Init ==
  /\ map = [s \in Slots |-> None]
  /\ call = Call("off", None, None, "OK")

\* An update takes effect if it succeeds, and may if the power fails during it.
Update(op, s, v) ==
  LET new == [map EXCEPT ![s] = v]
  IN \/ map' = new /\ call' = Call(op, s, v, "OK")
     \/ map' \in {map, new} /\ call' = Call(op, s, v, "POWER_OFF")

Set(s, v) ==
  \/ Update("set", s, v)
  \/ map' = map /\ call' = Call("set", s, v, "NOT_ENOUGH_SPACE")

Erase(s) ==
  \/ map[s] # None /\ Update("erase", s, None)
  \/ map[s] = None /\ map' = map /\ call' = Call("erase", s, None, "NOT_FOUND")

\* Cut short, it may have erased some of the slots.
EraseAll ==
  \/ map' = [s \in Slots |-> None] /\ call' = Call("erase_all", None, None, "OK")
  \/ /\ \E left \in SUBSET Slots : map' = [s \in Slots |-> IF s \in left THEN map[s] ELSE None]
     /\ call' = Call("erase_all", None, None, "POWER_OFF")

Get(s) ==
  /\ map' = map
  /\ call' = Call("get", s, map[s], IF map[s] = None THEN "NOT_FOUND" ELSE "OK")

PowerOn == map' = map /\ \E rc \in {"OK", "POWER_OFF"} : call' = Call("on", None, None, rc)
PowerOff == map' = map /\ call' = Call("off", None, None, "OK")

Next ==
  \/ PowerOn \/ PowerOff \/ EraseAll
  \/ \E s \in Slots : Erase(s) \/ Get(s) \/ \E v \in Values : Set(s, v)

Spec == Init /\ [][Next]_<<map, call>>
=============================================================================
