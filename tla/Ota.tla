-------------------------------- MODULE Ota --------------------------------
(***************************************************************************)
(* Over-the-air updates: esp_ota_begin/write/end and the choice of the app *)
(* to boot, kept in two flash sectors (components/app_update/              *)
(* esp_ota_ops.c), with the bootloader that reads it                       *)
(* (components/bootloader/src/main/bootloader_start.c).                    *)
(*                                                                         *)
(* Power may fail between any two flash operations and in the middle of    *)
(* the write of a sector.  job holds the sector operations that the call   *)
(* in progress, of the application or of the bootloader, has still to do.  *)
(***************************************************************************)
EXTENDS Integers, Sequences, FiniteSets

CONSTANTS
  AppCount,    \* OTA app partitions in the partition table
  UINT_MAX,    \* largest ota_seq (2^32 - 1 in the code), the erased value
  Chunks,      \* bound: esp_ota_write calls that make a whole image
  MaxSeq       \* bound: ota_seq up to which new selections are made

ASSUME OtaAssumption ==
  /\ AppCount \in 1 .. 16
  /\ MaxSeq \in Nat /\ UINT_MAX \in Nat /\ MaxSeq + 2 * AppCount < UINT_MAX
  /\ Chunks \in Nat \ {0}

VARIABLES
  factory,   \* whether there is a factory app partition
  sel,       \* the ota_select structures in the two sectors of the OTA data partition
  job,       \* sector operations left: <<sector, new contents>>
  run,       \* the partition of the running app, OFF, BOOT or DEAD
  img,       \* whether an OTA partition holds a whole image
  wrote,     \* per OTA partition: chunks written through its handle, or NoHandle
  asked,     \* partition of the last esp_ota_set_boot_partition, NONE if interrupted
  cut        \* history: some selection was interrupted

vars == <<factory, sel, job, run, img, wrote, asked, cut>>

Slot == 0 .. AppCount - 1
Sector == {0, 1}
NoHandle == -1
OFF == -1
BOOT == -2
DEAD == -3      \* the bootloader gave up; also the NULL of esp_ota_get_boot_partition
FACTORY == -4
NONE == -5

-----------------------------------------------------------------------------
(* The selection structure. *)

Erased == [seq |-> UINT_MAX, crcOk |-> FALSE]
Select(n) == [seq |-> n, crcOk |-> TRUE]
Torn(n) == [seq |-> n, crcOk |-> FALSE]

ota_select_valid(s) == s.seq # UINT_MAX /\ s.crcOk
InitStatus(s) == s[0].seq = UINT_MAX /\ s[1].seq = UINT_MAX
OTA_MAX(a, b) == IF a >= b THEN a ELSE b

\* The app of sequence number n: (n - 1) % app_count in unsigned arithmetic.
SlotOf(n) == ((n + UINT_MAX) % (UINT_MAX + 1)) % AppCount

\* The sequence number that counts, or UINT_MAX if neither sector is valid.
Current(s) ==
  CASE ota_select_valid(s[0]) /\ ota_select_valid(s[1]) -> OTA_MAX(s[0].seq, s[1].seq)
    [] ota_select_valid(s[0]) /\ ~ota_select_valid(s[1]) -> s[0].seq
    [] ~ota_select_valid(s[0]) /\ ota_select_valid(s[1]) -> s[1].seq
    [] OTHER -> UINT_MAX

\* What bootloader_main loads.
BootChoice(s) ==
  IF InitStatus(s) THEN IF factory THEN FACTORY ELSE 0
  ELSE IF Current(s) = UINT_MAX THEN DEAD ELSE SlotOf(Current(s))

\* Mutant: the second sector is looked at only if the first one is invalid.
GetBoot_First(s) ==
  IF InitStatus(s) THEN IF factory THEN FACTORY ELSE DEAD
  ELSE IF ota_select_valid(s[0]) THEN SlotOf(s[0].seq)
  ELSE IF Current(s) = UINT_MAX THEN DEAD ELSE SlotOf(Current(s))

\* esp_ota_get_boot_partition.
GetBoot(s) ==
  IF InitStatus(s) THEN IF factory THEN FACTORY ELSE DEAD
  ELSE IF Current(s) = UINT_MAX THEN DEAD ELSE SlotOf(Current(s))

\* Mutant: the number is chosen as if it selected partition seq % app_count.
NewSeq_NoResidue(s, p) ==
  IF InitStatus(s) THEN p + 1
  ELSE CHOOSE n \in Current(s) .. Current(s) + AppCount - 1 : n % AppCount = p

\* The first number from the current one on that selects p, as the loops find it.
NewSeq(s, p) ==
  IF InitStatus(s) THEN p + 1
  ELSE CHOOSE n \in Current(s) .. Current(s) + AppCount - 1 : n % AppCount = (p + 1) % AppCount

\* Mutant: the valid sector is rewritten instead of the other one.
RewriteSector_Valid(s) ==
  IF ota_select_valid(s[0]) /\ (ota_select_valid(s[1]) => s[0].seq >= s[1].seq) THEN 0 ELSE 1

\* The sector to rewrite: with two valid ones, that of the current number.
RewriteSector(s) ==
  IF ota_select_valid(s[0]) /\ (ota_select_valid(s[1]) => s[0].seq < s[1].seq) THEN 1 ELSE 0

-----------------------------------------------------------------------------
Init ==
  /\ factory \in BOOLEAN
  /\ sel = [i \in Sector |-> Erased]
  /\ job = <<>>
  /\ run = OFF
  /\ img = [p \in Slot |-> ~factory /\ p = 0]   \* the app the device was flashed with
  /\ wrote = [p \in Slot |-> NoHandle]
  /\ asked = NONE
  /\ cut = FALSE

\* bootloader_main.  Without a factory app it first writes the selection of
\* ota[0].  An image that is not whole fails its verification.
Bootloader ==
  /\ run = OFF
  /\ IF InitStatus(sel) /\ ~factory
     THEN /\ run' = BOOT
          /\ job' = << <<0, Erased>>, <<1, Erased>>, <<0, Select(1)>>, <<1, Select(0)>> >>
     ELSE LET p == BootChoice(sel)
          IN run' = (IF p \in Slot /\ ~img[p] THEN DEAD ELSE p) /\ UNCHANGED job
  /\ UNCHANGED <<factory, sel, img, wrote, asked, cut>>

\* One erase or write of a sector; the last one ends the call.
FlashStep ==
  /\ job # <<>>
  /\ sel' = [sel EXCEPT ![Head(job)[1]] = Head(job)[2]]
  /\ job' = Tail(job)
  /\ run' = IF run # BOOT \/ Len(job) > 1 THEN run ELSE IF img[0] THEN 0 ELSE DEAD
  /\ UNCHANGED <<factory, img, wrote, asked, cut>>

\* The device restarts: by esp_restart between two calls, or because power fails.
\* Handles are lost, and a selection being written is undetermined.
PowerOff ==
  /\ run # OFF
  /\ run' = OFF /\ job' = <<>>
  /\ wrote' = [p \in Slot |-> NoHandle]
  /\ asked' = IF job = <<>> THEN asked ELSE NONE
  /\ cut' = (cut \/ job # <<>>)
  /\ UNCHANGED <<factory, img>>
  /\ \/ UNCHANGED sel
     \/ /\ job # <<>> /\ Head(job)[2] # Erased
        /\ sel' = [sel EXCEPT ![Head(job)[1]] = Torn(Head(job)[2].seq)]

-----------------------------------------------------------------------------
(* The application, between calls that are in progress. *)

AppReady == run \in Slot \cup {FACTORY} /\ job = <<>>

\* esp_ota_begin erases the partition; an application does not do that to itself
\* nor to the partition esp_ota_get_boot_partition names.
OtaBegin(p) ==
  /\ AppReady /\ p \notin {run, GetBoot(sel)} /\ wrote[p] = NoHandle
  /\ img' = [img EXCEPT ![p] = FALSE]
  /\ wrote' = [wrote EXCEPT ![p] = 0]
  /\ UNCHANGED <<factory, sel, job, run, asked, cut>>

OtaWrite(p) ==
  /\ AppReady /\ wrote[p] \in 0 .. Chunks - 1
  /\ wrote' = [wrote EXCEPT ![p] = @ + 1]
  /\ img' = [img EXCEPT ![p] = wrote[p] + 1 = Chunks]
  /\ UNCHANGED <<factory, sel, job, run, asked, cut>>

\* esp_ota_end refuses a handle nothing was written through.
OtaEnd(p) ==
  /\ AppReady /\ wrote[p] > 0
  /\ wrote' = [wrote EXCEPT ![p] = NoHandle]
  /\ UNCHANGED <<factory, sel, job, run, img, asked, cut>>

\* esp_ota_set_boot_partition with an OTA partition.  Applications select an
\* image they have finished writing.
SetBoot(p) ==
  /\ AppReady /\ img[p] /\ wrote[p] = NoHandle
  /\ InitStatus(sel) \/ Current(sel) <= MaxSeq
  /\ job' = LET i == RewriteSector(sel) IN << <<i, Erased>>, <<i, Select(NewSeq(sel, p))>> >>
  /\ asked' = p
  /\ UNCHANGED <<factory, sel, run, img, wrote, cut>>

\* esp_ota_set_boot_partition with the factory partition: both sectors are erased.
SetBootFactory ==
  /\ AppReady /\ factory
  /\ job' = << <<0, Erased>>, <<1, Erased>> >>
  /\ asked' = FACTORY
  /\ UNCHANGED <<factory, sel, run, img, wrote, cut>>

Next ==
  \/ Bootloader \/ FlashStep \/ PowerOff \/ SetBootFactory
  \/ \E p \in Slot : OtaBegin(p) \/ OtaWrite(p) \/ OtaEnd(p) \/ SetBoot(p)

Spec == Init /\ [][Next]_vars

-----------------------------------------------------------------------------
(* Properties. *)

TypeOK ==
  /\ factory \in BOOLEAN
  /\ sel \in [Sector -> [seq : 0 .. UINT_MAX, crcOk : BOOLEAN]]
  /\ job \in Seq(Sector \X [seq : 0 .. UINT_MAX, crcOk : BOOLEAN])
  /\ run \in Slot \cup {OFF, BOOT, DEAD, FACTORY}
  /\ img \in [Slot -> BOOLEAN]
  /\ wrote \in [Slot -> NoHandle .. Chunks]
  /\ asked \in Slot \cup {NONE, FACTORY}
  /\ cut \in BOOLEAN

\* Once esp_ota_set_boot_partition has returned, every restart runs that
\* partition until another is selected: the number the application computes and
\* the partition the bootloader derives from it agree (esp_ota_ops.c:250-277,
\* bootloader_start.c:309-314).
SetBootSelects == (asked # NONE /\ job = <<>>) => BootChoice(sel) = asked

\* The application's view of the selection is the bootloader's, also after
\* interrupted selections (esp_ota_ops.c:352-380, bootloader_start.c:281-317).
GetBootAgrees == AppReady => GetBoot(sel) = BootChoice(sel)

\* Except while the application goes back to the factory app, a power failure at
\* any point of any number of selections leaves a valid sector once there was one
\* (rewrite_ota_seq rewrites one sector, the other one is valid).
Selectable == ota_select_valid(sel[0]) \/ ota_select_valid(sel[1])
StaysBootable == [][Selectable /\ asked # FACTORY => Selectable']_vars

\* A device fails to boot only if a selection was once cut short: updates that
\* are interrupted, abandoned or started over any number of times never leave it
\* without an app, provided they spare the partition that
\* esp_ota_get_boot_partition names (esp_ota_ops.c:66-168, 326-381).
UpdatesAreSafe == run = DEAD => cut
=============================================================================
