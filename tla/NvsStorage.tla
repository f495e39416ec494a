----------------------------- MODULE NvsStorage -----------------------------
(***************************************************************************)
(* The list of pages and the key-value operations on it: PageManager and   *)
(* Storage of components/nvs_flash/src (nvs_pagemanager.cpp,               *)
(* nvs_storage.cpp), in the style of NvsPage: operators from a storage     *)
(* state to the state after the call.                                      *)
(***************************************************************************)
EXTENDS NvsPage

\* Before Storage::init: no Page objects, empty lists.
NewStorage(fl) ==
  [fl |-> fl, pg |-> [p \in Sectors |-> NewPage], pages |-> <<>>, free |-> <<>>, seqNo |-> 0,
   rc |-> "OK", failed |-> "", cuts |-> {}, idx |-> 0, item |-> Blank, val |-> 0]

back(s) == s.pages[Len(s.pages)]     \* getCurrentPage

-----------------------------------------------------------------------------
(* PageManager. *)

activatePage(s) ==
  LET p == Head(s.free)
  IN IF s.free = <<>> THEN Ret(s, "NOT_ENOUGH_SPACE")
     ELSE Then(IF s.pg[p].state = "CORRUPT" THEN erase(s, p) ELSE s, LAMBDA t :
       [t EXCEPT !.free = Tail(@), !.pages = Append(@, p), !.rc = "OK", !.seqNo = @ + 1,
                 !.pg[p].seq = IF t.pg[p].state = "UNINITIALIZED" THEN s.seqNo ELSE @])

RECURSIVE moveAll(_, _, _)
moveAll(s, p, q) == IfOk(moveItem(s, p, q), LAMBDA t : moveAll(t, p, q))

\* The emptied page leaves the list of pages for the list of free ones.
release(s, p) ==
  Then(s, LAMBDA t : [t EXCEPT !.pages = SelectSeq(@, LAMBDA x : x # p), !.free = Append(@, p)])

\* First page with the most erased entries.
mostErased(s) ==
  LET n(i) == s.pg[s.pages[i]].erased
  IN s.pages[CHOOSE i \in DOMAIN s.pages :
       /\ \A j \in DOMAIN s.pages : n(j) <= n(i)
       /\ \A j \in 1 .. i - 1 : n(j) < n(i)]

requestNewPage(s) ==
  LET victim == mostErased(s)
  IN CASE s.free = <<>> -> Ret(s, "INVALID_STATE")
       [] Len(s.free) >= 2 -> activatePage(s)
       [] Len(s.free) = 1 /\ s.pg[victim].erased = 0 -> Ret(s, "NOT_ENOUGH_SPACE")
       [] OTHER ->
          IfOk(activatePage(s), LAMBDA t1 :
          IfOk(markFreeing(t1, victim), LAMBDA t2 :
          Then(erase(moveAll(t2, victim, back(t2)), victim), LAMBDA t3 :
            release(Assert_(t3, t3.pg[back(t3)].used = t1.pg[victim].used, "requestNewPage"), victim))))

\* Pages ordered by sequence number; the others are free.
insertPage(s, p) ==
  LET later == {i \in DOMAIN s.pages : s.pg[s.pages[i]].seq > s.pg[p].seq}
      pos == IF later = {} THEN Len(s.pages) + 1 ELSE CHOOSE i \in later : \A j \in later : i <= j
  IN IF getSeqNumber(s, p) THEN [s EXCEPT !.pages = InsertAt(@, pos, p)]
     ELSE [s EXCEPT !.free = Append(@, p)]

RECURSIVE loadPages(_, _)
loadPages(s, todo) ==
  IF todo = <<>> \/ s.failed # "" THEN s
  ELSE loadPages(insertPage(load(s, Head(todo)), Head(todo)), Tail(todo))

\* All items of the last page are enumerated; s.item ends as the last one.
RECURSIVE lastItem(_, _, _, _)
lastItem(s, p, begin, any) ==
  Then(findItem(s, p, ANY, ANY, begin), LAMBDA t :
    IF t.rc # "OK" THEN Ret(t, any) ELSE lastItem(t, p, t.idx + t.item.span, "OK"))

\* Mutant: the older copy stays.
eraseOlder_Skipped(s, i) == s

\* An older copy of the last item is erased from the first page that has one.
RECURSIVE eraseOlder(_, _)
eraseOlder(s, i) ==
  IF i >= Len(s.pages) THEN s
  ELSE Then(eraseItem(s, s.pages[i], s.item.key, s.item.type), LAMBDA t :
         IF t.rc = "OK" THEN t ELSE eraseOlder([t EXCEPT !.item = s.item], i + 1))

\* Mutant: an interrupted move is left alone.
finishFreeing_Skipped(s) == Ret(s, "OK")

\* Mutant: the move is completed into a new page although one was already started.
finishFreeing_NewPage(s) ==
  LET freeing == SelectSeq(s.pages, LAMBDA p : s.pg[p].state = "FREEING")
  IN IF freeing = <<>> \/ s.failed # "" THEN Ret(s, "OK")
     ELSE IfOk(activatePage(s), LAMBDA t :
            release(erase(moveAll(t, Head(freeing), back(t)), Head(freeing)), Head(freeing)))

\* A move interrupted by a power failure is completed.
finishFreeing(s) ==
  LET freeing == SelectSeq(s.pages, LAMBDA p : s.pg[p].state = "FREEING")
      victim == Head(freeing)
  IN IF freeing = <<>> \/ s.failed # "" THEN Ret(s, "OK")
     ELSE IfOk(IF s.pg[back(s)].state # "ACTIVE" THEN activatePage(s) ELSE Ret(s, "OK"), LAMBDA t :
            release(erase(moveAll(t, victim, back(t)), victim), victim))

pmLoad(fl, order) ==
  Then(loadPages(NewStorage(fl), order), LAMBDA t1 :
    IF t1.pages = <<>> THEN activatePage(t1)
    ELSE
    Then(lastItem([t1 EXCEPT !.seqNo = t1.pg[back(t1)].seq + 1], back(t1), 0, "NOT_FOUND"), LAMBDA t2 :
      finishFreeing(IF t2.rc = "OK" /\ CrcOk(t2.item) THEN eraseOlder(t2, 1) ELSE t2)))

-----------------------------------------------------------------------------
(* Storage. *)

RECURSIVE findFrom(_, _, _, _)
findFrom(s, key, type, i) ==
  IF i > Len(s.pages) THEN Ret(s, "NOT_FOUND")
  ELSE Then(findItem(s, s.pages[i], key, type, 0), LAMBDA t :
         IF t.rc = "OK" THEN [t EXCEPT !.val = s.pages[i]] ELSE findFrom(t, key, type, i + 1))

\* The page that has the item is left in s.val.
storageFind(s, key, type) == findFrom(s, key, type, 1)

storageRead(s, key, type) ==
  IfOk(storageFind(s, key, type), LAMBDA t : readItem(t, t.val, key, type))

storageErase(s, key, type) ==
  IfOk(storageFind(s, key, type), LAMBDA t : eraseItem(t, t.val, key, type))

\* All the keys of the model are in one namespace; its items go page by page.
RECURSIVE eraseAllOf(_, _)
eraseAllOf(s, i) ==
  IF i > Len(s.pages) THEN Ret(s, "OK")
  ELSE Then(eraseItem(s, s.pages[i], ANY, ANY), LAMBDA t :
         eraseAllOf(t, IF t.rc = "OK" THEN i ELSE i + 1))

eraseNamespace(s) == eraseAllOf(s, 1)

\* Write the new item; on a full page, ask for another one first.
writeSomewhere(s, key, type, val) ==
  LET p == back(s)
  IN Then(writeItem(s, p, key, type, val), LAMBDA t1 :
     IF t1.rc # "PAGE_FULL" THEN t1
     ELSE
     IfOk(IF t1.pg[p].state # "FULL" THEN markFull(t1, p) ELSE Ret(t1, "OK"), LAMBDA t2 :
     IfOk(requestNewPage(t2), LAMBDA t3 :
     Then(writeItem(t3, back(t3), key, type, val), LAMBDA t4 :
       IF t4.rc = "PAGE_FULL" THEN Ret(t4, "NOT_ENOUGH_SPACE") ELSE t4))))

\* Mutant: the old item is erased before the new one is written.
storageWrite_EraseFirst(s, key, type, val) ==
  writeSomewhere(storageErase(s, key, type), key, type, val)

\* The old item is erased last, wherever it is by then.
storageWrite(s, key, type, val) ==
  Then(storageFind(s, key, type), LAMBDA t1 :
  IfOk(writeSomewhere(t1, key, type, val), LAMBDA t2 :
    LET moved == t2.pg[t1.val].state \in {"UNINITIALIZED", "INVALID"}
    IN IF t1.rc # "OK" THEN t2
       ELSE IF ~moved THEN eraseItem(t2, t1.val, key, type)
       ELSE Then(storageFind(t2, key, type), LAMBDA t3 :
              IfOk(Assert_(t3, t3.rc = "OK", "ESP_ERROR_CHECK"), LAMBDA t4 :
                eraseItem(t4, t4.val, key, type)))))
=============================================================================
