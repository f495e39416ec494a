--------------------------- MODULE TaskWdtProofs ---------------------------
(***************************************************************************)
(* Proofs about TaskWdt, for every set of tasks and every timeout.  The    *)
(* flags and the history of calls are an inductive invariant together with *)
(* the types.                                                              *)
(***************************************************************************)
EXTENDS TaskWdt, TLAPS

Inv == TypeOK /\ FlagsAreTrue

\* An empty list, a counter at zero and no history.
LEMMA PowerOnInv ==
  ASSUME wdt_task_list = <<>>, counter = 0, inIsr = FALSE, bark = FALSE,
         hung = {}, since = {}, skipped = {}
  PROVE  Inv
<1>1. wdt_task_list \in Seq(Entry)
  OBVIOUS
<1>2. counter \in 0 .. 2 * TIMEOUT
  BY TimeoutAssumption
<1>3. TypeOK
  BY <1>1, <1>2 DEF TypeOK
<1>4. DOMAIN wdt_task_list = {}
  OBVIOUS
<1>5. FlagsAreTrue
  BY <1>4 DEF FlagsAreTrue
<1> QED
  BY <1>3, <1>5 DEF Inv

LEMMA InitInv == Init => Inv
  BY PowerOnInv DEF Init, PowerOn

\* What esp_task_wdt_feed makes of the list before it feeds the hardware.
LEMMA WalkedList ==
  ASSUME TypeOK, NEW t \in Tasks
  PROVE  /\ Walked(t) \in Seq(Entry)
         /\ Len(Walked(t)) = Len(wdt_task_list)
         /\ \A i \in 1 .. Len(wdt_task_list) :
              /\ Walked(t)[i].task_handle = wdt_task_list[i].task_handle
              /\ Walked(t)[i].fed_watchdog
                 <=> (wdt_task_list[i].task_handle = t \/ wdt_task_list[i].fed_watchdog)
<1>1. \A i \in 1 .. Len(wdt_task_list) : wdt_task_list[i] \in Entry
  BY DEF TypeOK
<1>2. DOMAIN wdt_task_list = 1 .. Len(wdt_task_list) /\ Len(wdt_task_list) \in Nat
  BY DEF TypeOK
<1>3. \A i \in 1 .. Len(wdt_task_list) : Walked(t)[i] \in Entry
  BY <1>1, <1>2 DEF Walked, Entry
<1>4. Walked(t) \in Seq(Entry) /\ Len(Walked(t)) = Len(wdt_task_list)
  BY <1>2, <1>3 DEF Walked
<1>5. \A i \in 1 .. Len(wdt_task_list) :
        /\ Walked(t)[i].task_handle = wdt_task_list[i].task_handle
        /\ Walked(t)[i].fed_watchdog
           <=> (wdt_task_list[i].task_handle = t \/ wdt_task_list[i].fed_watchdog)
  BY <1>1, <1>2 DEF Walked, Entry
<1> QED
  BY <1>4, <1>5

\* A task that was not on the list is appended to it, as fed.
LEMMA ListWithTask ==
  ASSUME TypeOK, NEW t \in Tasks
  PROVE  /\ WithTask(t) \in Seq(Entry)
         /\ Len(WithTask(t)) \in {Len(wdt_task_list), Len(wdt_task_list) + 1}
         /\ \A i \in 1 .. Len(WithTask(t)) :
              IF i <= Len(wdt_task_list) THEN WithTask(t)[i] = Walked(t)[i]
              ELSE WithTask(t)[i] = [task_handle |-> t, fed_watchdog |-> TRUE]
<1>1. [task_handle |-> t, fed_watchdog |-> TRUE] \in Entry
  BY DEF Entry
<1>2. CASE On(t)
  BY <1>2, WalkedList DEF WithTask
<1>3. CASE ~ On(t)
  BY <1>1, <1>3, WalkedList DEF WithTask
<1> QED
  BY <1>2, <1>3

LEMMA FeedInv == ASSUME Inv, NEW t \in Tasks, esp_task_wdt_feed(t) PROVE Inv'
<1> DEFINE l == WithTask(t)
<1>1. TypeOK /\ FlagsAreTrue
  BY DEF Inv
<1>2. /\ l \in Seq(Entry) /\ DOMAIN l = 1 .. Len(l) /\ Len(l) \in Nat
      /\ \A i \in 1 .. Len(l) : l[i] \in Entry
  <2>1. l \in Seq(Entry)
    BY <1>1, ListWithTask
  <2> HIDE DEF l
  <2> QED
    BY <2>1
<1>3. CASE do_feed_wdt(t)
  <2>1. /\ wdt_task_list' = ResetFed(l) /\ counter' = 0 /\ bark' = FALSE /\ since' = {}
        /\ skipped' = LastOf(l) /\ inIsr' = inIsr /\ hung' = hung
    BY <1>3 DEF esp_task_wdt_feed
  <2>2. /\ ResetFed(l) \in Seq(Entry) /\ Len(ResetFed(l)) = Len(l)
        /\ DOMAIN ResetFed(l) = 1 .. Len(l)
        /\ \A i \in 1 .. Len(l) : ResetFed(l)[i].task_handle = l[i].task_handle
        /\ \A i \in 1 .. Len(l) : i < Len(l) => ~ ResetFed(l)[i].fed_watchdog
    <3> HIDE DEF l
    <3>1. \A i \in 1 .. Len(l) : /\ ResetFed(l)[i] \in Entry
                                 /\ ResetFed(l)[i].task_handle = l[i].task_handle
                                 /\ i < Len(l) => ~ ResetFed(l)[i].fed_watchdog
      BY <1>2 DEF ResetFed, Entry
    <3>2. ResetFed(l) = [i \in 1 .. Len(l) |-> ResetFed(l)[i]]
      BY <1>2 DEF ResetFed
    <3>3. ResetFed(l) \in Seq(Entry) /\ Len(ResetFed(l)) = Len(l)
      <4> DEFINE r == ResetFed(l)
      <4> HIDE DEF r
      <4>1. r = [i \in 1 .. Len(l) |-> r[i]] /\ \A i \in 1 .. Len(l) : r[i] \in Entry
        BY <3>1, <3>2 DEF r
      <4>2. r \in Seq(Entry) /\ Len(r) = Len(l)
        BY <1>2, <4>1
      <4> QED
        BY <4>2 DEF r
    <3> QED
      BY <3>1, <3>2, <3>3
  <2>3. LastOf(l) \subseteq Tasks
    <3> HIDE DEF l
    <3> QED
      BY <1>2 DEF LastOf, Entry
  <2>4. TypeOK'
    <3>1. 0 \in 0 .. 2 * TIMEOUT
      BY TimeoutAssumption
    <3> HIDE DEF l
    <3> QED
      BY <1>1, <2>1, <2>2, <2>3, <3>1 DEF TypeOK
  <2>5. FlagsAreTrue'
    <3>1. \A i \in 1 .. Len(l) : i < Len(l) \/ i = Len(l)
      <4> HIDE DEF l
      <4>1. Len(l) \in Nat
        BY <1>2
      <4> QED
        BY <4>1
    <3> SUFFICES ASSUME NEW i \in 1 .. Len(l), ResetFed(l)[i].fed_watchdog
                 PROVE  ResetFed(l)[i].task_handle \in LastOf(l)
      BY <2>1, <2>2 DEF FlagsAreTrue
    <3> HIDE DEF l
    <3>2. i = Len(l)
      BY <2>2, <3>1, Zenon
    <3> QED
      BY <1>2, <2>2, <3>2 DEF LastOf
  <2> QED
    BY <2>4, <2>5 DEF Inv
<1>4. CASE ~ do_feed_wdt(t)
  <2>1. /\ wdt_task_list' = l /\ since' = since \cup {t} /\ counter' = counter /\ bark' = bark
        /\ skipped' = skipped /\ inIsr' = inIsr /\ hung' = hung
    BY <1>4 DEF esp_task_wdt_feed
  <2>2. TypeOK'
    BY <1>1, <1>2, <2>1 DEF TypeOK
  <2>3. FlagsAreTrue'
    <3> SUFFICES ASSUME NEW i \in 1 .. Len(l)
                 PROVE  /\ ~ l[i].fed_watchdog => l[i].task_handle \notin since \cup {t}
                        /\ l[i].fed_watchdog => l[i].task_handle \in (since \cup {t}) \cup skipped
      BY <1>2, <2>1 DEF FlagsAreTrue
    <3>1. CASE i <= Len(wdt_task_list)
      <4>1. i \in 1 .. Len(wdt_task_list) /\ i \in DOMAIN wdt_task_list
        BY <1>1, <3>1 DEF TypeOK
      <4>2. /\ l[i].task_handle = wdt_task_list[i].task_handle
            /\ l[i].fed_watchdog <=> (wdt_task_list[i].task_handle = t \/ wdt_task_list[i].fed_watchdog)
        BY <1>1, <3>1, <4>1, ListWithTask, WalkedList
      <4> QED
        BY <1>1, <4>1, <4>2 DEF FlagsAreTrue
    <3>2. CASE ~ (i <= Len(wdt_task_list))
      <4>1. l[i] = [task_handle |-> t, fed_watchdog |-> TRUE]
        BY <1>1, <3>2, ListWithTask
      <4>2. l[i].task_handle = t /\ l[i].fed_watchdog = TRUE
        BY <4>1
      <4> QED
        BY <4>2, Zenon
    <3> QED
      BY <3>1, <3>2
  <2> QED
    BY <2>2, <2>3 DEF Inv
<1> QED
  BY <1>3, <1>4

LEMMA DeleteInv == ASSUME Inv, NEW t \in Tasks, esp_task_wdt_delete(t) PROVE Inv'
<1> DEFINE p == FirstOf(t)
           l == Unlinked(wdt_task_list, p)
<1>1. /\ TypeOK /\ FlagsAreTrue
      /\ wdt_task_list' = l /\ since' = since /\ counter' = counter /\ bark' = bark
      /\ skipped' = skipped /\ inIsr' = inIsr /\ hung' = hung
  BY DEF Inv, esp_task_wdt_delete
<1>2. DOMAIN wdt_task_list = 1 .. Len(wdt_task_list) /\ Len(wdt_task_list) \in Nat \ {0}
  BY <1>1 DEF esp_task_wdt_delete, On, TypeOK
<1>3. DOMAIN l = 1 .. Len(wdt_task_list) - 1
  BY DEF Unlinked
<1>4. \A i \in DOMAIN l : \E j \in DOMAIN wdt_task_list : l[i] = wdt_task_list[j]
  <2> SUFFICES ASSUME NEW i \in 1 .. Len(wdt_task_list) - 1
               PROVE  \E j \in DOMAIN wdt_task_list : l[i] = wdt_task_list[j]
    BY <1>3
  <2>1. i \in DOMAIN wdt_task_list /\ i + 1 \in DOMAIN wdt_task_list
    BY <1>2
  <2>2. l[i] = wdt_task_list[i] \/ l[i] = wdt_task_list[i + 1]
    BY DEF Unlinked
  <2> QED
    BY <2>1, <2>2
<1>5. l \in Seq(Entry)
  <2>1. \A j \in DOMAIN wdt_task_list : wdt_task_list[j] \in Entry
    BY <1>1, <1>2 DEF TypeOK
  <2>2. \A i \in 1 .. Len(wdt_task_list) - 1 : l[i] \in Entry
    BY <1>3, <1>4, <2>1
  <2> QED
    BY <1>2, <2>2 DEF Unlinked
<1>6. TypeOK'
  BY <1>1, <1>5 DEF TypeOK
<1>7. FlagsAreTrue'
  <2> HIDE DEF l
  <2> QED
    BY <1>1, <1>4 DEF FlagsAreTrue
<1> QED
  BY <1>6, <1>7 DEF Inv

LEMMA NextInv == Inv /\ [Next]_vars => Inv'
<1> SUFFICES ASSUME Inv, [Next]_vars PROVE Inv'
  OBVIOUS
<1>1. ASSUME NEW t \in Tasks, esp_task_wdt_feed(t) PROVE Inv'
  BY <1>1, FeedInv
<1>2. ASSUME NEW t \in Tasks, esp_task_wdt_delete(t) PROVE Inv'
  BY <1>2, DeleteInv
<1>3. ASSUME NEW t \in Tasks, Hang(t) PROVE Inv'
  BY <1>3 DEF Hang, Inv, TypeOK, FlagsAreTrue
<1>4. CASE Tick
  BY <1>4, TimeoutAssumption DEF Tick, Inv, TypeOK, FlagsAreTrue
<1>5. CASE IsrFeed
  BY <1>5, TimeoutAssumption DEF IsrFeed, Inv, TypeOK, FlagsAreTrue
<1>6. CASE IsrReport
  BY <1>6 DEF IsrReport, Inv, TypeOK, FlagsAreTrue
<1>7. CASE SystemReset
  <2>1. Inv' <=> TypeOK' /\ FlagsAreTrue'
    BY DEF Inv
  <2>2. wdt_task_list' \in Seq(Entry) /\ DOMAIN wdt_task_list' = {}
    BY <1>7 DEF SystemReset, PowerOn
  <2>3. counter' \in 0 .. 2 * TIMEOUT
    BY <1>7, TimeoutAssumption DEF SystemReset, PowerOn
  <2> QED
    BY <1>7, <2>1, <2>2, <2>3 DEF SystemReset, TypeOK, FlagsAreTrue
<1>8. CASE UNCHANGED vars
  BY <1>8 DEF vars, Inv, TypeOK, FlagsAreTrue
<1> QED
  BY <1>1, <1>2, <1>3, <1>4, <1>5, <1>6, <1>7, <1>8 DEF Next

(***************************************************************************)
(* For every set of tasks the flags of the list are true: a task that      *)
(* task_wdt_isr names has not called esp_task_wdt_feed since the hardware  *)
(* was last fed, and one it does not name has, or was last on the list.    *)
(***************************************************************************)
THEOREM FlagsTheorem == Spec => []FlagsAreTrue
<1>1. Inv => FlagsAreTrue
  BY DEF Inv
<1> QED
  BY <1>1, InitInv, NextInv, PTL DEF Spec
=============================================================================
