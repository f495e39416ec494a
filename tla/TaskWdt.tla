------------------------------ MODULE TaskWdt ------------------------------
(***************************************************************************)
(* The task watchdog, components/esp32/task_wdt.c: tasks that call         *)
(* esp_task_wdt_feed are put on a list, and the hardware watchdog is fed   *)
(* when all of them have called.  When it is not fed in time its interrupt *)
(* names the tasks that are late; when even that does not run the chip is  *)
(* reset.                                                                  *)
(*                                                                         *)
(* The bodies of feed and delete and the walk in the interrupt are under   *)
(* taskwdt_spinlock and are one step each.  Idle tasks feed through        *)
(* idle_hook and are tasks like the others.  CONFIG_TASK_WDT_PANIC is off. *)
(***************************************************************************)
EXTENDS Naturals, Sequences

CONSTANTS
  Tasks,
  TIMEOUT       \* CONFIG_TASK_WDT_TIMEOUT_S, in ticks of the model

ASSUME TimeoutAssumption == TIMEOUT \in Nat \ {0}

VARIABLES
  wdt_task_list,  \* sequence of [task_handle, fed_watchdog]
  counter,        \* of the hardware watchdog of timer group 0
  inIsr,          \* task_wdt_isr has fed the hardware and not yet looked at the list
  hung,           \* tasks that will not call again
  bark,           \* the last thing to feed the hardware was the interrupt
  since,          \* history: tasks that called feed since it last fed the hardware
  skipped         \* history: the last task of the list at that time

vars == <<wdt_task_list, counter, inIsr, hung, bark, since, skipped>>

Entry == [task_handle : Tasks, fed_watchdog : BOOLEAN]
On(t) == \E i \in DOMAIN wdt_task_list : wdt_task_list[i].task_handle = t

TypeOK ==
  /\ wdt_task_list \in Seq(Entry)
  /\ counter \in 0 .. 2 * TIMEOUT
  /\ inIsr \in BOOLEAN /\ bark \in BOOLEAN
  /\ hung \subseteq Tasks /\ since \subseteq Tasks /\ skipped \subseteq Tasks

\* esp_task_wdt_init, and the variables of a chip that was reset.
PowerOn(list, n) == list = <<>> /\ n = 0

Init ==
  /\ PowerOn(wdt_task_list, counter)
  /\ inIsr = FALSE /\ bark = FALSE
  /\ hung = {} /\ since = {} /\ skipped = {}

-----------------------------------------------------------------------------
(* esp_task_wdt_feed. *)

Walked(t) ==
  [i \in DOMAIN wdt_task_list |->
     IF wdt_task_list[i].task_handle = t
     THEN [wdt_task_list[i] EXCEPT !.fed_watchdog = TRUE] ELSE wdt_task_list[i]]

\* Mutant: one task that has checked in is enough.
do_feed_wdt_Any(t) ==
  wdt_task_list = <<>> \/ \E i \in DOMAIN wdt_task_list : Walked(t)[i].fed_watchdog

\* All tasks on the list, before a new one is added, have checked in.
do_feed_wdt(t) == \A i \in DOMAIN wdt_task_list : Walked(t)[i].fed_watchdog

WithTask(t) ==
  IF On(t) THEN Walked(t)
  ELSE Append(Walked(t), [task_handle |-> t, fed_watchdog |-> TRUE])

\* Mutant: the flags are not reset.
ResetFed_Not(list) == list

\* The loop stops at the entry without a successor: the last one keeps its flag.
ResetFed(list) ==
  [i \in DOMAIN list |-> IF i < Len(list) THEN [list[i] EXCEPT !.fed_watchdog = FALSE] ELSE list[i]]

LastOf(list) == {list[i].task_handle : i \in {Len(list)} \cap DOMAIN list}

esp_task_wdt_feed(t) ==
  /\ t \notin hung
  /\ \/ /\ do_feed_wdt(t)
        /\ wdt_task_list' = ResetFed(WithTask(t))
        /\ counter' = 0
        /\ bark' = FALSE
        /\ since' = {}
        /\ skipped' = LastOf(WithTask(t))
     \/ /\ ~ do_feed_wdt(t)
        /\ wdt_task_list' = WithTask(t)
        /\ since' = since \cup {t}
        /\ UNCHANGED <<counter, bark, skipped>>
  /\ UNCHANGED <<inIsr, hung>>

-----------------------------------------------------------------------------
(* esp_task_wdt_delete; of a task that is not on the list it changes       *)
(* nothing.  The hardware is not fed, though the others may all be in.     *)

FirstOf(t) ==
  CHOOSE p \in DOMAIN wdt_task_list :
    /\ wdt_task_list[p].task_handle = t
    /\ \A q \in 1 .. p - 1 : wdt_task_list[q].task_handle # t

Unlinked(list, p) == [i \in 1 .. Len(list) - 1 |-> IF i < p THEN list[i] ELSE list[i + 1]]

esp_task_wdt_delete(t) ==
  /\ t \notin hung
  /\ On(t)
  /\ wdt_task_list' = Unlinked(wdt_task_list, FirstOf(t))
  /\ UNCHANGED <<counter, inIsr, hung, bark, since, skipped>>

-----------------------------------------------------------------------------
(* The hardware and its interrupt. *)

Tick ==
  /\ counter < 2 * TIMEOUT
  /\ counter' = counter + 1
  /\ UNCHANGED <<wdt_task_list, inIsr, hung, bark, since, skipped>>

\* First stage: task_wdt_isr feeds the hardware before it takes the spinlock.
IsrFeed ==
  /\ counter >= TIMEOUT /\ ~ inIsr
  /\ counter' = 0
  /\ inIsr' = TRUE
  /\ UNCHANGED <<wdt_task_list, hung, bark, since, skipped>>

\* Without tasks it returns silently; otherwise it prints its warning.
IsrReport ==
  /\ inIsr
  /\ inIsr' = FALSE
  /\ bark' = (bark \/ wdt_task_list # <<>>)
  /\ UNCHANGED <<wdt_task_list, counter, hung, since, skipped>>

\* Second stage.
SystemReset ==
  /\ counter = 2 * TIMEOUT
  /\ PowerOn(wdt_task_list', counter')
  /\ inIsr' = FALSE /\ bark' = FALSE
  /\ hung' = {} /\ since' = {} /\ skipped' = {}

\* A task is stuck: it starves, or loops, and will not call again.
Hang(t) ==
  /\ t \notin hung
  /\ hung' = hung \cup {t}
  /\ UNCHANGED <<wdt_task_list, counter, inIsr, bark, since, skipped>>

Next ==
  \/ \E t \in Tasks : esp_task_wdt_feed(t) \/ esp_task_wdt_delete(t) \/ Hang(t)
  \/ Tick \/ IsrFeed \/ IsrReport \/ SystemReset

\* Time passes and interrupts are served; nothing is asked of the tasks.
Fairness == WF_vars(Tick) /\ WF_vars(IsrFeed) /\ WF_vars(IsrReport) /\ WF_vars(SystemReset)

Spec == Init /\ [][Next]_vars
FairSpec == Spec /\ Fairness

-----------------------------------------------------------------------------
(* Properties. *)

(***************************************************************************)
(* The flags tell who has called since the hardware was last fed, whatever *)
(* tasks came and went: a task the interrupt names has not called, and one *)
(* it does not name has, unless it was the one line 134 leaves out.        *)
(***************************************************************************)
FlagsAreTrue ==
  \A i \in DOMAIN wdt_task_list :
    LET e == wdt_task_list[i] IN
      /\ ~ e.fed_watchdog => e.task_handle \notin since
      /\ e.fed_watchdog => e.task_handle \in since \cup skipped

Behind(t) == On(t) /\ t \notin LastOf(wdt_task_list)

(***************************************************************************)
(* When a watched task is stuck the watchdog barks, or the chip is reset,  *)
(* however busily the other tasks feed it, as long as it is not the last   *)
(* of the list.                                                            *)
(***************************************************************************)
StuckTaskBarks == \A t \in Tasks : t \in hung /\ Behind(t) ~> bark \/ ~ Behind(t)

(***************************************************************************)
(* esp_task_wdt.h:33: "the watchdog will bark if one or more tasks haven't *)
(* fed the watchdog within the specified time", wherever they are listed.  *)
(***************************************************************************)
AnyStuckTaskBarks == \A t \in Tasks : t \in hung /\ On(t) ~> bark \/ ~ On(t)
=============================================================================
