------------------------------ MODULE NvsPage ------------------------------
(***************************************************************************)
(* A page of the non-volatile storage library: class Page and HashList of  *)
(* components/nvs_flash/src (nvs_page.cpp, nvs_item_hash_list.cpp).        *)
(*                                                                         *)
(* Every method is an operator from a storage state s to the state after   *)
(* the call.  s.fl is the flash image, s.pg the Page objects in RAM, s.rc  *)
(* the returned code, and s.cuts the flash images at which a power failure *)
(* may leave the device during the call: one before each spi_flash_write   *)
(* or erase and, for writes of several words, one with the write begun and *)
(* not finished.  s.failed is the assertion that stopped the call, if any: *)
(* from then on nothing is written.                                        *)
(*                                                                         *)
(* An item is its type, key (the namespace index included), span and       *)
(* value; a torn entry is one whose CRC does not match.  mEntryTable, the  *)
(* RAM copy of the entry state table, always equals the table in flash.    *)
(***************************************************************************)
EXTENDS Naturals, Integers, Sequences, FiniteSets, SequencesExt

CONSTANTS
  Sectors,         \* the sectors of the partition
  ENTRY_COUNT,     \* entries per page (126 in the code)
  ITEMS_PER_WORD,  \* entry states per word of the table (16 in the code)
  Keys,            \* namespace index and key name
  Hash,            \* [Keys -> Nat]: 24 bits of the CRC of namespace and key
  KeyPtr,          \* [Keys -> Nat]: address of the string the caller passes
  DataSize         \* [Values -> Nat]: size of a value as a blob, ENTRY_SIZE = 2

ENTRY_SIZE == 2
INVALID_ENTRY == 1000000
Entries == 0 .. ENTRY_COUNT - 1

ASSUME NvsAssumption ==
  /\ ENTRY_COUNT \in Nat \ {0}
  /\ ITEMS_PER_WORD \in Nat \ {0}
  /\ ENTRY_COUNT < INVALID_ENTRY

-----------------------------------------------------------------------------
(* Contents of an entry. *)

Entry(kind, key, type, span, val) ==
  [kind |-> kind, key |-> key, type |-> type, span |-> span, val |-> val]
Blank == Entry("blank", "", "", 0, 0)
Torn == Entry("torn", "", "", 0, 0)
ItemEntry(key, type, span, val) == Entry("item", key, type, span, val)
DataEntry(val, n) == Entry("data", "", "", n, val)

CrcOk(e) == e.kind = "item"
VarLength(type) == type = "BLOB"
RoundUp(size) == (size + ENTRY_SIZE - 1) \div ENTRY_SIZE
SpanOf(type, val) == 1 + (IF VarLength(type) THEN RoundUp(DataSize[val]) ELSE 0)

ErasedPage == [state |-> "UNINITIALIZED", seq |-> 0, ok |-> FALSE,
               tab |-> [i \in Entries |-> "EMPTY"], ent |-> [i \in Entries |-> Blank]]

\* CachedFindInfo(): a null key pointer compares equal to nothing.
NoFind == [ptr |-> 0, type |-> "", idx |-> 0]

\* A Page object as its constructor leaves it.
NewPage == [state |-> "INVALID", seq |-> 0, next |-> INVALID_ENTRY, first |-> INVALID_ENTRY,
            used |-> 0, erased |-> 0, find |-> NoFind, hash |-> <<>>]

-----------------------------------------------------------------------------
(* Flash writes and assertions. *)

Min2(a, b) == IF a < b THEN a ELSE b

\* Sector p becomes image; power may fail before, or in one of the part images.
Flash(s, p, image, parts) ==
  IF s.failed # "" THEN s
  ELSE [s EXCEPT !.fl[p] = image,
                 !.cuts = @ \cup {s.fl} \cup {[s.fl EXCEPT ![p] = i] : i \in parts}]

Assert_(s, cond, name) == IF cond \/ s.failed # "" THEN s ELSE [s EXCEPT !.failed = name]

Ret(s, code) == [s EXCEPT !.rc = code]

\* What a method goes on to do in the state t that its steps so far have led to:
\* nothing once an assertion has failed or, for IfOk, after an error.
Then(t, Rest(_)) == IF t.failed # "" THEN t ELSE Rest(t)
IfOk(t, Rest(_)) == IF t.failed # "" \/ t.rc # "OK" THEN t ELSE Rest(t)

\* Writing over bits that are already cleared garbles the entry.
Over(old, new) == IF old = Blank THEN new ELSE Torn

WordIndex(i) == i \div ITEMS_PER_WORD

alterEntryState(s, p, i, state) ==
  Then(Assert_(s, i < ENTRY_COUNT, "alterEntryState"), LAMBDA t :
    Flash(t, p, [t.fl[p] EXCEPT !.tab[i] = state], {}))

\* Entries begin .. end-1, written word by word from the last word to the first.
alterEntryRangeState(s, p, begin, end, state) ==
  LET image(w) == [s.fl[p] EXCEPT !.tab =
                     [i \in Entries |-> IF i \in begin .. end - 1 /\ WordIndex(i) >= w
                                        THEN state ELSE @[i]]]
  IN Then(Assert_(s, end <= ENTRY_COUNT /\ end > begin, "alterEntryRangeState"), LAMBDA t :
       Flash(t, p, image(WordIndex(begin)),
             {image(w) : w \in WordIndex(begin) + 1 .. WordIndex(end - 1)}))

\* alterPageState writes the first word of the header.
alterPageState(s, p, state) ==
  Then(Flash(s, p, [s.fl[p] EXCEPT !.state = state], {}), LAMBDA t :
    [t EXCEPT !.pg[p].state = state, !.rc = "OK"])

markFreeing(s, p) ==
  IF s.pg[p].state \in {"FULL", "ACTIVE"} THEN alterPageState(s, p, "FREEING")
  ELSE Ret(s, "INVALID_STATE")

markFull(s, p) ==
  IF s.pg[p].state = "ACTIVE" THEN alterPageState(s, p, "FULL") ELSE Ret(s, "INVALID_STATE")

-----------------------------------------------------------------------------
(* HashList: nodes <<hash, index>> in insertion order. *)

hashInsert(s, p, e, i) ==
  LET h == IF e.kind = "item" THEN Hash[e.key] ELSE -1
  IN [s EXCEPT !.pg[p].hash = Append(@, <<h, i>>)]

hashErase(s, p, i) ==
  LET nodes == {n \in DOMAIN s.pg[p].hash : s.pg[p].hash[n][2] = i}
  IN Then(Assert_(s, nodes # {}, "HashList::erase"), LAMBDA t :
       [t EXCEPT !.pg[p].hash = RemoveAt(@, CHOOSE n \in nodes : \A m \in nodes : n <= m)])

\* First node, in insertion order, with the hash of key and an index >= start.
hashFind(page, start, key) ==
  LET hits == {n \in DOMAIN page.hash : page.hash[n][1] = Hash[key] /\ page.hash[n][2] >= start}
  IN IF hits = {} THEN INVALID_ENTRY
     ELSE page.hash[CHOOSE n \in hits : \A m \in hits : n <= m][2]

-----------------------------------------------------------------------------
(* Erasing an item. *)

updateFirstUsedEntry(s, p, i, span) ==
  LET end == Min2(s.pg[p].next, ENTRY_COUNT)
      used == {j \in i + span .. end - 1 : s.fl[p].tab[j] = "WRITTEN"}
  IN [s EXCEPT !.pg[p].first =
        IF used = {} THEN INVALID_ENTRY ELSE CHOOSE j \in used : \A k \in used : j <= k]

eraseEntryAndSpan(s, p, i) ==
  LET e == s.fl[p].ent[i]
      written == s.fl[p].tab[i] = "WRITTEN"
      span == IF written /\ CrcOk(e) THEN e.span ELSE 1
      freed == Cardinality({j \in i .. i + span - 1 : s.fl[p].tab[j] = "WRITTEN"})
  IN Then(Assert_(hashErase(Assert_(s, s.fl[p].tab[i] # "ERASED", "eraseEntryAndSpan"), p, i),
                  i + span <= ENTRY_COUNT, "CompressedEnumTable::get"), LAMBDA t1 :
     Then(IF written THEN [t1 EXCEPT !.pg[p].used = @ - freed, !.pg[p].erased = @ + span]
          ELSE t1, LAMBDA t2 :
     Then(IF span = 1 THEN alterEntryState(t2, p, i, "ERASED")
          ELSE alterEntryRangeState(t2, p, i, i + span, "ERASED"), LAMBDA t3 :
     Then(IF t3.pg[p].first = i THEN updateFirstUsedEntry(t3, p, i, span) ELSE t3, LAMBDA t4 :
       [t4 EXCEPT !.pg[p].next = IF i + span > @ THEN i + span ELSE @, !.rc = "OK"]))))

-----------------------------------------------------------------------------
(* findItem.  key or type ANY match everything; found items are in s.idx   *)
(* and s.item, the out parameters.                                         *)

ANY == "any"

RECURSIVE findLoop(_, _, _, _, _, _)
findLoop(s, p, key, type, i, end) ==
  IF i >= end \/ s.failed # "" THEN Ret(s, "NOT_FOUND")
  ELSE IF s.fl[p].tab[i] # "WRITTEN" THEN findLoop(s, p, key, type, i + 1, end)
  ELSE LET e == s.fl[p].ent[i]
           s1 == [s EXCEPT !.item = e]
           next == IF VarLength(e.type) THEN i + e.span ELSE i + 1
       IN IF ~CrcOk(e) THEN findLoop(eraseEntryAndSpan(s1, p, i), p, key, type, i + 1, end)
          ELSE IF key # ANY /\ e.key # key THEN findLoop(s1, p, key, type, next, end)
          ELSE IF type # ANY /\ e.type # type THEN Ret(s1, "TYPE_MISMATCH")
          ELSE [s1 EXCEPT !.rc = "OK", !.idx = i,
                  !.pg[p].find = [ptr |-> IF key = ANY THEN 0 ELSE KeyPtr[key],
                                  type |-> type, idx |-> i]]

findItem(s, p, key, type, begin) ==
  LET page == s.pg[p]
      cached == key # ANY /\ page.find.ptr = KeyPtr[key] /\ page.find.type = type
      from == IF cached THEN page.find.idx ELSE begin
      start0 == IF from > page.first /\ from < ENTRY_COUNT THEN from ELSE page.first
      exact == key # ANY /\ type # ANY
      start == IF exact THEN hashFind(page, start0, key) ELSE start0
  IN IF \/ page.state \in {"CORRUPT", "INVALID", "UNINITIALIZED"}
        \/ begin >= ENTRY_COUNT
        \/ exact /\ start >= ENTRY_COUNT
     THEN Ret(s, "NOT_FOUND")
     ELSE findLoop(s, p, key, type, start, Min2(page.next, ENTRY_COUNT))

eraseItem(s, p, key, type) ==
  IfOk(findItem(s, p, key, type, 0), LAMBDA t :
    LET cached == key # ANY /\ t.pg[p].find.ptr = KeyPtr[key] /\ t.pg[p].find.type = type
    IN eraseEntryAndSpan(IF cached THEN [t EXCEPT !.pg[p].find = NoFind] ELSE t, p, t.idx))

\* A blob whose data does not match its checksum is erased.
readItem(s, p, key, type) ==
  IfOk(findItem(s, p, key, type, 0), LAMBDA t :
    LET e == t.item
        intact == \A n \in 1 .. e.span - 1 : t.fl[p].ent[t.idx + n] = DataEntry(e.val, n)
    IN IF VarLength(type) /\ ~intact THEN Ret(eraseEntryAndSpan(t, p, t.idx), "NOT_FOUND")
       ELSE [t EXCEPT !.val = e.val])

-----------------------------------------------------------------------------
(* Writing an item. *)

\* The header goes out state word first and CRC word last.
initialize(s, p) ==
  LET image(ok) == [s.fl[p] EXCEPT !.state = "ACTIVE", !.seq = s.pg[p].seq, !.ok = ok]
  IN Then(Flash(s, p, image(TRUE), {image(FALSE)}), LAMBDA t :
       [t EXCEPT !.pg[p].state = "ACTIVE", !.pg[p].next = 0, !.pg[p].find = NoFind])

writeEntry(s, p, e) ==
  LET i == s.pg[p].next
      image(new) == [s.fl[p] EXCEPT !.ent[i] = new]
  IN Then(Assert_(s, i < ENTRY_COUNT, "getEntryAddress"), LAMBDA t1 :
     Then(alterEntryState(Flash(t1, p, image(Over(s.fl[p].ent[i], e)), {image(Torn)}), p, i, "WRITTEN"),
          LAMBDA t2 :
       [t2 EXCEPT !.pg[p].first = IF @ = INVALID_ENTRY THEN i ELSE @,
                  !.pg[p].used = @ + 1, !.pg[p].next = @ + 1]))

\* Mutant: mUsedEntryCount is not advanced.
writeEntryData_Uncounted(s, p, val, count) ==
  LET i == s.pg[p].next
      s1 == Flash(s, p, [s.fl[p] EXCEPT !.ent =
              [j \in Entries |-> IF j \in i .. i + count - 1 THEN DataEntry(val, j - i + 1) ELSE @[j]]], {})
  IN [alterEntryRangeState(s1, p, i, i + count, "WRITTEN") EXCEPT !.pg[p].next = @ + count]

\* count entries of data in one write, then their states.
writeEntryData(s, p, val, count) ==
  LET i == s.pg[p].next
      image(n) == [s.fl[p] EXCEPT !.ent =
                     [j \in Entries |-> IF j \in i .. i + n - 1
                                        THEN Over(@[j], DataEntry(val, j - i + 1)) ELSE @[j]]]
  IN Then(alterEntryRangeState(Flash(s, p, image(count), {image(n) : n \in 1 .. count - 1}),
                               p, i, i + count, "WRITTEN"), LAMBDA t :
       [t EXCEPT !.pg[p].used = @ + count, !.pg[p].next = @ + count])

writeItem(s, p, key, type, val) ==
  LET span == SpanOf(type, val)
      full == DataSize[val] \div ENTRY_SIZE
      tail == DataSize[val] % ENTRY_SIZE
      item == ItemEntry(key, type, span, val)
  IN IF s.pg[p].state = "INVALID" THEN Ret(s, "INVALID_STATE")
     ELSE Then(IF s.pg[p].state = "UNINITIALIZED" THEN initialize(s, p) ELSE s, LAMBDA t1 :
       IF t1.pg[p].state = "FULL" \/ t1.pg[p].next + span > ENTRY_COUNT THEN Ret(t1, "PAGE_FULL")
       ELSE
       Then(writeEntry(hashInsert(t1, p, item, t1.pg[p].next), p, item), LAMBDA t2 :
       Then(IF VarLength(type) /\ full > 0 THEN writeEntryData(t2, p, val, full) ELSE t2, LAMBDA t3 :
       Ret(IF VarLength(type) /\ tail > 0 THEN writeEntry(t3, p, DataEntry(val, full + 1)) ELSE t3,
           "OK"))))

-----------------------------------------------------------------------------
(* Moving the first item of page p to page q, and erasing a page. *)

RECURSIVE copyEntries(_, _, _, _, _)
copyEntries(s, p, q, i, end) ==
  IF i >= end \/ s.failed # "" THEN s
  ELSE copyEntries(writeEntry(s, q, s.fl[p].ent[i]), p, q, i + 1, end)

moveItem(s, p, q) ==
  LET i == s.pg[p].first
      e == s.fl[p].ent[i]
  IN IF i = INVALID_ENTRY THEN Ret(s, "NOT_FOUND")
     ELSE Then(IF s.pg[p].find.idx = i THEN [s EXCEPT !.pg[p].find = NoFind] ELSE s, LAMBDA t1 :
          Then(IF t1.pg[q].state = "UNINITIALIZED" THEN initialize(t1, q) ELSE t1, LAMBDA t2 :
          Then(writeEntry(hashInsert(t2, q, e, t2.pg[q].next), q, e), LAMBDA t3 :
            eraseEntryAndSpan(copyEntries(t3, p, q, i + 1, i + e.span), p, i))))

\* spi_flash_erase_sector is taken to be atomic.
erase(s, p) ==
  Then(Flash(s, p, ErasedPage, {}), LAMBDA t :
    [t EXCEPT !.rc = "OK",
       !.pg[p] = [@ EXCEPT !.state = "UNINITIALIZED", !.next = INVALID_ENTRY,
                           !.first = INVALID_ENTRY, !.used = 0, !.erased = 0, !.hash = <<>>]])

-----------------------------------------------------------------------------
(* Loading a page. *)

\* Half-written entries after the last one the table knows of are erased.
RECURSIVE skipHalfWritten(_, _)
skipHalfWritten(s, p) ==
  LET i == s.pg[p].next
      lost == IF s.fl[p].tab[i] = "WRITTEN" THEN 1 ELSE 0
  IN IF i >= ENTRY_COUNT \/ s.fl[p].ent[i] = Blank THEN s
     ELSE Then(alterEntryState(s, p, i, "ERASED"), LAMBDA t :
            skipHalfWritten([t EXCEPT !.pg[p].next = i + 1, !.pg[p].erased = @ + 1,
                                      !.pg[p].used = @ - lost], p))

\* Every item of an active page: complete, CRC intact, and the only one of its
\* hash.  last is lastItemIndex; end was fixed before the loop.
RECURSIVE checkItems(_, _, _, _, _)
checkItems(s, p, i, last, end) ==
  LET e == s.fl[p].ent[i]
      span == IF VarLength(e.type) THEN e.span ELSE 1
      whole == \A j \in i .. Min2(i + span, ENTRY_COUNT) - 1 : s.fl[p].tab[j] = "WRITTEN"
  IN IF i >= end \/ s.failed # "" THEN [s EXCEPT !.idx = last]
     ELSE IF s.fl[p].tab[i] = "ERASED" THEN checkItems(s, p, i + 1, INVALID_ENTRY, end)
     ELSE Then(hashInsert([s EXCEPT !.item = e], p, e, i), LAMBDA t :
       LET dup == hashFind(t.pg[p], 0, e.key)
           fits == Assert_(t, i + span <= ENTRY_COUNT, "CompressedEnumTable::get")
       IN IF ~CrcOk(e) THEN checkItems(eraseEntryAndSpan(t, p, i), p, i + 1, i, end)
          ELSE IF ~whole THEN checkItems(eraseEntryAndSpan(t, p, i), p, i + span, INVALID_ENTRY, end)
          ELSE checkItems(IF dup < i THEN eraseEntryAndSpan(fits, p, dup) ELSE fits, p, i + span, i, end))

\* Full and freeing pages only fill the hash list.
RECURSIVE hashItems(_, _, _)
hashItems(s, p, i) ==
  LET e == s.fl[p].ent[i]
  IN IF i >= ENTRY_COUNT THEN s
     ELSE IF s.fl[p].tab[i] # "WRITTEN" THEN hashItems(s, p, i + 1)
     ELSE hashItems(hashInsert([s EXCEPT !.item = e], p, e, i), p, i + (IF e.span = 0 THEN 1 ELSE e.span))

mLoadEntryTable(s, p) ==
  LET with(state) == {i \in Entries : s.fl[p].tab[i] = state}
      least(set) == IF set = {} THEN INVALID_ENTRY ELSE CHOOSE i \in set : \A j \in set : i <= j
  IN Then([s EXCEPT !.pg[p].first = least(with("WRITTEN")),
                    !.pg[p].used = Cardinality(with("WRITTEN")),
                    !.pg[p].erased = Cardinality(with("ERASED"))], LAMBDA t1 :
     IF s.pg[p].state # "ACTIVE"
     THEN IF t1.pg[p].first = INVALID_ENTRY THEN t1 ELSE hashItems(t1, p, t1.pg[p].first)
     ELSE
     Then(skipHalfWritten([t1 EXCEPT !.pg[p].next = least(with("EMPTY"))], p), LAMBDA t2 :
     Then(checkItems(t2, p, 0, INVALID_ENTRY, Min2(t2.pg[p].next, ENTRY_COUNT)), LAMBDA t3 :
     IF t3.idx = INVALID_ENTRY \/ ~CrcOk(t3.item) THEN t3
     ELSE
     Then(findItem(t3, p, t3.item.key, t3.item.type, 0), LAMBDA t4 :
       IF t4.rc = "OK" /\ t4.idx < t3.idx THEN eraseEntryAndSpan(t4, p, t4.idx) ELSE t4))))

load(s, p) ==
  LET f == s.fl[p]
      state == IF f.state = "UNINITIALIZED"
               THEN IF f = ErasedPage THEN "UNINITIALIZED" ELSE "CORRUPT"
               ELSE IF f.ok THEN f.state ELSE "CORRUPT"
  IN Then([s EXCEPT !.pg[p] = [NewPage EXCEPT !.state = state, !.seq = IF f.ok THEN f.seq ELSE 0]],
          LAMBDA t : IF state \in {"FULL", "ACTIVE", "FREEING"} THEN mLoadEntryTable(t, p) ELSE t)

getSeqNumber(s, p) == s.pg[p].state \notin {"UNINITIALIZED", "INVALID", "CORRUPT"}
=============================================================================
