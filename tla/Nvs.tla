-------------------------------- MODULE Nvs --------------------------------
(***************************************************************************)
(* The non-volatile storage library in operation: calls of its API on a    *)
(* device whose power may fail at any flash write.  Every call is one      *)
(* action, the operators of NvsStorage run to their end, to an assertion   *)
(* (the device reboots) or to one of the flash images in which a power     *)
(* failure can leave the device.                                           *)
(***************************************************************************)
EXTENDS NvsStorage

CONSTANTS
  Types,       \* item types used: "U8" (one entry) and "BLOB"
  CallTypes,   \* [Keys -> SUBSET Types]: types the callers use with a key
  ValuesOf,    \* [Types -> SUBSET Nat]: values written
  EraseAllUsed,\* whether nvs_erase_all is called
  MaxSeq,      \* bound: pages started
  MaxLosses    \* bound: power failures

None == 0
Values == UNION {ValuesOf[t] : t \in Types}
Slots == {<<k, t>> \in Keys \X Types : t \in CallTypes[k]}

VARIABLES
  st,      \* the storage object, its flash included; only the flash counts while off
  on,      \* nvs_flash_init has succeeded
  call,    \* the last API call and its outcome
  map,     \* what a power-on from the present flash finds in every slot
  losses   \* power failures so far

vars == <<st, on, call, map, losses>>

Order == [i \in 1 .. Cardinality(Sectors) |-> i - 1]
Boot(fl) == pmLoad(fl, Order)

\* The scratch fields of a storage state mean nothing between calls.
Settle(s) == [s EXCEPT !.cuts = {}, !.idx = 0, !.item = Blank, !.val = 0, !.rc = "OK"]

\* The value that read r found; one nobody wrote if the read could not be made.
Found(r) == CASE r.failed # "" -> -1 [] r.rc = "OK" -> r.val [] OTHER -> None

\* Every slot as a storage s that has just been loaded has it.
Reads(s) ==
  [x \in Slots |-> IF s.failed # "" \/ s.rc # "OK" THEN -1
                   ELSE Found(storageRead(Settle(s), x[1], x[2]))]

Contents(fl) == Reads(Boot(fl))

Call(op, slot, val, rc) == [op |-> op, slot |-> slot, val |-> val, rc |-> rc]

Init ==
  /\ st = NewStorage([p \in Sectors |-> ErasedPage])
  /\ on = FALSE
  /\ call = Call("off", None, None, "OK")
  /\ map = [x \in Slots |-> None]
  /\ losses = 0

\* Call c ends as r does, or the power fails on the way.
Runs(c, r) ==
  /\ \/ /\ r.failed = ""
        /\ st' = Settle(r) /\ on' = (c.op # "on" \/ r.rc = "OK")
        /\ call' = [c EXCEPT !.rc = r.rc]
        /\ UNCHANGED losses
     \/ /\ r.failed # ""
        /\ st' = NewStorage(r.fl) /\ on' = FALSE
        /\ call' = [c EXCEPT !.rc = r.failed]
        /\ UNCHANGED losses
     \/ /\ losses < MaxLosses /\ losses' = losses + 1
        /\ \E fl \in r.cuts : st' = NewStorage(fl)
        /\ on' = FALSE
        /\ call' = [c EXCEPT !.rc = "POWER_OFF"]
  /\ map' = Contents(st'.fl)

PowerOn == ~on /\ Runs(Call("on", None, None, ""), Boot(st.fl))

\* Power fails, or the application restarts, between two calls.
PowerOff ==
  /\ on /\ losses < MaxLosses
  /\ losses' = losses + 1 /\ on' = FALSE
  /\ st' = NewStorage(st.fl) /\ call' = Call("off", None, None, "OK")
  /\ UNCHANGED map

Set(x, v) ==
  /\ on /\ v \in ValuesOf[x[2]] /\ st.seqNo <= MaxSeq
  /\ Runs(Call("set", x, v, ""), storageWrite(st, x[1], x[2], v))

GetReturns(x, r) == Runs(Call("get", x, IF r.rc = "OK" THEN r.val ELSE None, ""), r)
Get(x) == on /\ GetReturns(x, storageRead(st, x[1], x[2]))

Erase(x) == on /\ Runs(Call("erase", x, None, ""), storageErase(st, x[1], x[2]))

EraseAll == on /\ EraseAllUsed /\ Runs(Call("erase_all", None, None, ""), eraseNamespace(st))

Next ==
  \/ PowerOn \/ PowerOff \/ EraseAll
  \/ \E x \in Slots : Get(x) \/ Erase(x) \/ \E v \in Values : Set(x, v)

Spec == Init /\ [][Next]_vars

-----------------------------------------------------------------------------
(* Properties. *)

KV == INSTANCE DurableMap WITH Slots <- Slots, Values <- Values, None <- None, map <- map, call <- call

\* Whatever the interleaving of calls and power failures, the storage is a
\* durable map: a call that returns ESP_OK took effect in full, a refused one
\* not at all, one cut short by a power failure in full or not at all, reads
\* return what was last written, nothing else changes what a power-on finds, and
\* no call ends in an assertion (Storage::writeItem, PageManager::load, Page::mLoadEntryTable).
Durable == KV!Spec

\* The assertion at the end of requestNewPage: all entries that the page to be
\* freed counts as used have been moved (nvs_pagemanager.cpp:166).  The code
\* does not keep it for an item whose states lie in two words of the table
\* (Page::alterEntryRangeState): its erasure on a full page, cut between the
\* words, leaves a first entry that moveItem follows for the whole span and
\* a count that is short of it.
UsedEntriesMoved == call.rc # "requestNewPage"

\* Power-on succeeds from whatever a power failure left in flash: a page being
\* freed has been moved and erased, and the storage is usable (PageManager::load).
BootSucceeds == call.op = "on" => call.rc \in {"OK", "POWER_OFF"}

\* When a call has returned no page is left half-way through being freed, and a
\* page is still free to move items to (PageManager::requestNewPage, load).
NoFreeingAtRest ==
  on => (\A p \in Sectors : st.fl[p].state # "FREEING") /\ st.free # <<>>

ItemsOf(p) == {i \in Entries : st.fl[p].tab[i] = "WRITTEN" /\ st.fl[p].ent[i].kind = "item"}
Live == UNION {{<<p, i>> : i \in ItemsOf(p)} : p \in Sectors}
ItemAt(x) == st.fl[x[1]].ent[x[2]]

\* Storage::debugCheck: no two items with one key and type, and the count of
\* used entries of a page, which chooses what is moved, is the true one.
DebugCheck ==
  on => /\ \A x, y \in Live :
             x # y => <<ItemAt(x).key, ItemAt(x).type>> # <<ItemAt(y).key, ItemAt(y).type>>
        /\ \A p \in Sectors :
             st.pg[p].used = Cardinality({i \in Entries : st.fl[p].tab[i] = "WRITTEN"})
=============================================================================
