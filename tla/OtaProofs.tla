----------------------------- MODULE OtaProofs -----------------------------
(***************************************************************************)
(* Proofs about the choice of the app to boot, for every number of OTA     *)
(* apps, every width of the sequence number and every length of an image.  *)
(*                                                                         *)
(* The inductive invariant says where the call in progress stands: the     *)
(* sector operations it has left, and what the bootloader would choose if  *)
(* the last of them were done.  What holds only on a device where no       *)
(* selection was ever cut short is kept apart (~ cut => ...), since the    *)
(* sectors of the others may hold the number 0.                            *)
(***************************************************************************)
EXTENDS Ota, TLAPS

\* What may run: an OTA app or the factory app.
App == Slot \cup {FACTORY}

\* What the bootloader chooses once sector i holds number n.
ChoiceWith(i, n) == BootChoice([sel EXCEPT ![i] = Select(n)])

\* The number of OTA apps divides 2^32, that is, it is a power of two: then number
\* 0, which the bootloader derives from (0 - 1) % AppCount, selects the last app.
Divides == (UINT_MAX + 1) % AppCount = 0

\* esp_ota_set_boot_partition(p) is rewriting sector i with number n; the other
\* sector is valid if one is.
SetJob(p, i, n) ==
  /\ run \in App /\ asked = p /\ img[p] /\ wrote[p] = NoHandle
  /\ Divides \/ n > 0 => ChoiceWith(i, n) = p
  /\ ~ cut => n > 0
  /\ Selectable => ota_select_valid(sel[1 - i])
  /\ \/ job = << <<i, Erased>>, <<i, Select(n)>> >>
     \/ job = << <<i, Select(n)>> >> /\ sel[i] = Erased

\* It is erasing both sectors, to go back to the factory app.
FactoryJob ==
  /\ run \in App /\ asked = FACTORY /\ factory
  /\ \/ job = << <<0, Erased>>, <<1, Erased>> >>
     \/ job = << <<1, Erased>> >> /\ sel[0] = Erased

\* The bootloader is writing the first selection: no sector is valid until it has
\* written the first one.
BootJob ==
  /\ run = BOOT /\ ~ factory
  /\ Divides \/ ~ cut => asked \in {0, NONE}
  /\ ~ cut => img[0] /\ wrote[0] = NoHandle
  /\ \/ job = << <<0, Erased>>, <<1, Erased>>, <<0, Select(1)>>, <<1, Select(0)>> >> /\ ~ Selectable
     \/ job = << <<1, Erased>>, <<0, Select(1)>>, <<1, Select(0)>> >> /\ ~ Selectable
     \/ job = << <<0, Select(1)>>, <<1, Select(0)>> >> /\ ~ Selectable
     \/ job = << <<1, Select(0)>> >> /\ sel[0] = Select(1)

\* Nothing is in progress.
Rest ==
  /\ job = <<>> /\ run # BOOT
  /\ Divides \/ ~ cut => (asked # NONE => BootChoice(sel) = asked)
  /\ run \in App => factory \/ ~ InitStatus(sel)
  /\ ~ cut => /\ BootChoice(sel) \in App /\ Current(sel) > 0
              /\ BootChoice(sel) \in Slot => img[BootChoice(sel)] /\ wrote[BootChoice(sel)] = NoHandle

\* The numbers a valid sector can hold.
Seqs == 0 .. UINT_MAX - 1

\* The inductive invariant.
Inv ==
  /\ TypeOK /\ UpdatesAreSafe
  /\ Rest \/ FactoryJob \/ BootJob \/ \E p \in Slot, i \in Sector, n \in Seqs : SetJob(p, i, n)
-----------------------------------------------------------------------------
USE OtaAssumption

(* Among AppCount numbers in a row one has a given residue, and the number *)
(* before one that is as p + 1 is as p.  AppCount is at most 16, so that   *)
(* the residues are those of constants.                                    *)
LEMMA Residues ==
  /\ \A c \in Nat, r \in 0 .. AppCount - 1 :
       (c + ((r - c) % AppCount)) % AppCount = r /\ (r - c) % AppCount \in 0 .. AppCount - 1
  /\ \A p \in 0 .. AppCount - 1 : (p + 1) % AppCount \in 0 .. AppCount - 1
  /\ \A n \in Nat, p \in 0 .. AppCount - 1 :
       n % AppCount = (p + 1) % AppCount /\ n > 0 => (n - 1) % AppCount = p
  /\ \A n \in Nat, p \in 0 .. AppCount - 1 :
       (n + 1) % AppCount = 0 /\ 0 = (p + 1) % AppCount => n % AppCount = p
  /\ 0 % AppCount = 0
<1>1. CASE AppCount = 1
  BY <1>1
<1>2. CASE AppCount = 2
  BY <1>2
<1>3. CASE AppCount = 3
  BY <1>3
<1>4. CASE AppCount = 4
  BY <1>4
<1>5. CASE AppCount = 5
  BY <1>5
<1>6. CASE AppCount = 6
  BY <1>6
<1>7. CASE AppCount = 7
  BY <1>7
<1>8. CASE AppCount = 8
  BY <1>8
<1>9. CASE AppCount = 9
  BY <1>9
<1>10. CASE AppCount = 10
  BY <1>10
<1>11. CASE AppCount = 11
  BY <1>11
<1>12. CASE AppCount = 12
  BY <1>12
<1>13. CASE AppCount = 13
  BY <1>13
<1>14. CASE AppCount = 14
  BY <1>14
<1>15. CASE AppCount = 15
  BY <1>15
<1>16. CASE AppCount = 16
  BY <1>16
<1> QED
  BY <1>1, <1>2, <1>3, <1>4, <1>5, <1>6, <1>7, <1>8, <1>9, <1>10, <1>11, <1>12, <1>13, <1>14, <1>15, <1>16

(* The app the bootloader derives from a number (bootloader_start.c:310-315). *)
LEMMA SlotOfNumber ==
  ASSUME NEW n \in Seqs
  PROVE  SlotOf(n) = IF n = 0 THEN UINT_MAX % AppCount ELSE (n - 1) % AppCount
<1>1. UINT_MAX \in Nat /\ n \in 0 .. UINT_MAX - 1
  BY DEF Seqs
<1>2. n > 0 => (n + UINT_MAX) % (UINT_MAX + 1) = n - 1
  BY <1>1
<1>3. n = 0 => (n + UINT_MAX) % (UINT_MAX + 1) = UINT_MAX
  BY <1>1
<1> QED
  BY <1>1, <1>2, <1>3 DEF SlotOf

\* What the two sectors may hold.
SelType == [Sector -> [seq : 0 .. UINT_MAX, crcOk : BOOLEAN]]

(* An erased sector does not count, one that was written whole does        *)
(* (ota_select_valid, esp_ota_ops.c:175-178).                              *)
LEMMA ValidFacts ==
  /\ ~ ota_select_valid(Erased) /\ Erased.seq = UINT_MAX /\ Erased \in [seq : 0 .. UINT_MAX, crcOk : BOOLEAN]
  /\ \A n \in Seqs : /\ ota_select_valid(Select(n)) /\ Select(n).seq = n /\ Select(n) # Erased
                     /\ Select(n) \in [seq : 0 .. UINT_MAX, crcOk : BOOLEAN]
                     /\ Torn(n) \in [seq : 0 .. UINT_MAX, crcOk : BOOLEAN]
  BY DEF ota_select_valid, Erased, Select, Torn, Seqs

(* The number that counts is the larger valid one (OTA_MAX).               *)
LEMMA CurrentFacts ==
  ASSUME NEW s \in SelType
  PROVE  /\ Current(s) \in 0 .. UINT_MAX
         /\ Current(s) = UINT_MAX <=> ~ ota_select_valid(s[0]) /\ ~ ota_select_valid(s[1])
         /\ InitStatus(s) => Current(s) = UINT_MAX
         /\ \A i \in Sector : ota_select_valid(s[i]) => s[i].seq \in Seqs /\ Current(s) >= s[i].seq
         /\ \A i \in Sector : ~ ota_select_valid(s[i]) /\ ota_select_valid(s[1 - i]) => Current(s) = s[1 - i].seq
<1>1. \A i \in Sector : s[i].seq \in 0 .. UINT_MAX /\ (ota_select_valid(s[i]) => s[i].seq # UINT_MAX)
  BY DEF SelType, ota_select_valid
<1>2. 0 \in Sector /\ 1 \in Sector /\ \A i \in Sector : i = 0 \/ i = 1
  BY DEF Sector
<1>3. InitStatus(s) => ~ ota_select_valid(s[0]) /\ ~ ota_select_valid(s[1])
  BY DEF InitStatus, ota_select_valid
<1> QED
  BY <1>1, <1>2, <1>3 DEF Current, OTA_MAX, Seqs

(* What a new selection computes: a number that is not less than the       *)
(* current one and selects p, for a sector that leaves a valid one alone   *)
(* (esp_ota_ops.c:250-275).                                                *)
LEMMA NewSelection ==
  ASSUME NEW s \in SelType, NEW p \in Slot, InitStatus(s) \/ Current(s) <= MaxSeq
  PROVE  /\ RewriteSector(s) \in Sector /\ NewSeq(s, p) \in Seqs
         /\ Current([s EXCEPT ![RewriteSector(s)] = Select(NewSeq(s, p))]) = NewSeq(s, p)
         /\ ~ InitStatus([s EXCEPT ![RewriteSector(s)] = Select(NewSeq(s, p))])
         /\ Divides \/ NewSeq(s, p) > 0 => SlotOf(NewSeq(s, p)) = p
         /\ Current(s) > 0 => NewSeq(s, p) > 0
         /\ ota_select_valid(s[0]) \/ ota_select_valid(s[1]) => ota_select_valid(s[1 - RewriteSector(s)])
<1> DEFINE i == RewriteSector(s)
           n == NewSeq(s, p)
           u == [s EXCEPT ![i] = Select(n)]
           c == Current(s)
<1>1. p \in 0 .. AppCount - 1 /\ c \in 0 .. UINT_MAX
  BY CurrentFacts DEF Slot
<1>2. n \in Seqs /\ n % AppCount = (p + 1) % AppCount /\ (c > 0 => n > 0) /\ (~ InitStatus(s) => n >= c)
  <2>1. CASE InitStatus(s)
    BY <1>1, <2>1 DEF NewSeq, Seqs
  <2>2. CASE ~ InitStatus(s)
    <3> DEFINE r == (p + 1) % AppCount
               w == c + ((r - c) % AppCount)
    <3>1. c \in Nat /\ c <= MaxSeq /\ r \in 0 .. AppCount - 1
      BY <1>1, <2>2, Residues
    <3>2. w \in c .. c + AppCount - 1 /\ w % AppCount = r
      <4>1. w % AppCount = r /\ (r - c) % AppCount \in 0 .. AppCount - 1
        BY <3>1, Residues
      <4> QED
        BY <3>1, <4>1
    <3>3. n = CHOOSE k \in c .. c + AppCount - 1 : k % AppCount = r
      BY <2>2 DEF NewSeq
    <3> HIDE DEF w, r, n, c
    <3>4. n \in c .. c + AppCount - 1 /\ n % AppCount = r
      BY <3>2, <3>3
    <3>5. n \in Seqs /\ n >= c
      BY <3>1, <3>4 DEF Seqs
    <3> QED
      BY <1>1, <3>1, <3>4, <3>5 DEF r, Seqs
  <2> QED
    BY <2>1, <2>2
<1>3. Divides \/ n > 0 => SlotOf(n) = p
  <2> HIDE DEF n, c, i
  <2>1. CASE n > 0
    <3>1. SlotOf(n) = (n - 1) % AppCount
      BY <1>2, <2>1, SlotOfNumber
    <3>2. n \in Nat
      BY <1>2 DEF Seqs
    <3>3. (n - 1) % AppCount = p
      BY <1>1, <1>2, <2>1, <3>2, Residues
    <3> QED
      BY <3>1, <3>3
  <2>2. CASE n = 0 /\ Divides
    <3>1. 0 = (p + 1) % AppCount
      BY <1>2, <2>2, Residues
    <3>2. UINT_MAX % AppCount = p
      BY <1>1, <2>2, <3>1, Residues DEF Divides
    <3> QED
      BY <1>2, <2>2, <3>2, SlotOfNumber
  <2> QED
    BY <1>2, <2>1, <2>2 DEF Seqs
<1>4. i \in Sector /\ \A k \in Sector : k = i \/ k = 1 - i
  BY DEF RewriteSector, Sector
<1>5. ota_select_valid(s[0]) \/ ota_select_valid(s[1]) => ota_select_valid(s[1 - i])
  BY DEF RewriteSector
<1>6. ota_select_valid(s[1 - i]) => s[1 - i].seq <= c /\ ~ InitStatus(s) /\ 1 - i \in Sector
  <2>1. 1 - i \in Sector
    BY <1>4 DEF Sector
  <2> HIDE DEF i
  <2>2. ota_select_valid(s[1 - i]) => s[1 - i].seq \in Seqs /\ Current(s) >= s[1 - i].seq
    BY <2>1, CurrentFacts
  <2>3. ota_select_valid(s[1 - i]) => ~ InitStatus(s)
    BY <2>1 DEF InitStatus, ota_select_valid, Sector
  <2> QED
    BY <1>1, <2>1, <2>2, <2>3 DEF Seqs
<1> HIDE DEF n, i
<1>7. u[i] = Select(n) /\ u[1 - i] = s[1 - i] /\ u \in SelType
  BY <1>2, <1>4, ValidFacts DEF SelType, Sector
<1>8. ota_select_valid(u[i]) /\ u[i].seq = n
  BY <1>2, <1>7, ValidFacts
<1> HIDE DEF u
<1>9. /\ ota_select_valid(u[1 - i]) => u[1 - i].seq <= n /\ u[1 - i].seq \in Nat
  BY <1>1, <1>2, <1>4, <1>6, <1>7, CurrentFacts DEF Seqs
<1>10. Current(u) = n
  BY <1>2, <1>4, <1>8, <1>9 DEF Current, OTA_MAX, Sector, Seqs
<1>11. ~ InitStatus(u)
  BY <1>2, <1>4, <1>8 DEF InitStatus, Sector, Seqs
<1> QED
  BY <1>2, <1>3, <1>4, <1>5, <1>10, <1>11 DEF n, i, u

(* Every number selects an app there is (bootloader_start.c:310-315).          *)
LEMMA SlotsAreSlots == \A n \in Seqs : SlotOf(n) \in Slot
<1> SUFFICES ASSUME NEW n \in Seqs PROVE SlotOf(n) \in Slot
  OBVIOUS
<1>1. (n + UINT_MAX) % (UINT_MAX + 1) \in Nat
  BY DEF Seqs
<1> QED
  BY <1>1 DEF SlotOf, Slot

(* The bootloader's choice is an app or none; the names of the partitions  *)
(* and of the other states of the device are distinct.                     *)
LEMMA ChoiceFacts ==
  ASSUME TypeOK
  PROVE  /\ BootChoice(sel) \in App \cup {DEAD}
         /\ Current(sel) = UINT_MAX \/ Current(sel) \in Seqs
         /\ 0 \in Slot /\ FACTORY \notin Slot /\ DEAD \notin App /\ OFF \notin App /\ BOOT \notin App
         /\ BOOT # DEAD /\ OFF # DEAD /\ OFF # BOOT /\ NONE \notin App
<1>1. sel \in SelType
  BY DEF TypeOK, SelType
<1>2. Current(sel) = UINT_MAX \/ Current(sel) \in Seqs
  BY <1>1, CurrentFacts DEF Seqs
<1>3. 0 \in Slot /\ FACTORY \notin Slot
  BY DEF Slot, FACTORY
<1>4. BootChoice(sel) \in App \cup {DEAD}
  BY <1>2, <1>3, SlotsAreSlots DEF BootChoice, App
<1>5. /\ DEAD \notin App /\ OFF \notin App /\ BOOT \notin App /\ NONE \notin App
      /\ BOOT # DEAD /\ OFF # DEAD /\ OFF # BOOT
  BY DEF Slot, App, FACTORY, DEAD, OFF, BOOT, NONE
<1> QED
  BY <1>2, <1>3, <1>4, <1>5

(* A device as it leaves the factory satisfies the invariant.              *)
LEMMA InitInv == Init => Inv
<1> SUFFICES ASSUME Init PROVE Inv
  OBVIOUS
<1>1. TypeOK
  <2>1. Erased \in [seq : 0 .. UINT_MAX, crcOk : BOOLEAN]
    BY ValidFacts
  <2>2. sel \in [Sector -> [seq : 0 .. UINT_MAX, crcOk : BOOLEAN]]
    BY <2>1 DEF Init
  <2>3. img \in [Slot -> BOOLEAN]
    BY DEF Init
  <2>4. wrote \in [Slot -> NoHandle .. Chunks]
    BY DEF Init, NoHandle
  <2>5. job \in Seq(Sector \X [seq : 0 .. UINT_MAX, crcOk : BOOLEAN])
    BY DEF Init
  <2> QED
    BY <2>2, <2>3, <2>4, <2>5 DEF Init, TypeOK
<1>2. InitStatus(sel)
  BY DEF Init, InitStatus, Sector, Erased
<1>3. Current(sel) > 0
  <2>1. sel \in SelType
    BY <1>1 DEF TypeOK, SelType
  <2>2. Current(sel) = UINT_MAX
    BY <1>2, <2>1, CurrentFacts
  <2> QED
    BY <2>2
<1>4. BootChoice(sel) = IF factory THEN FACTORY ELSE 0
  BY <1>2 DEF BootChoice
<1>5. Rest
  BY <1>1, <1>3, <1>4, ChoiceFacts DEF Rest, Init, App
<1>6. UpdatesAreSafe
  BY <1>1, ChoiceFacts DEF Init, UpdatesAreSafe
<1> QED
  BY <1>1, <1>5, <1>6 DEF Inv

(* Every step keeps the types: the sectors only ever hold structures.      *)
LEMMA TypeStep ==
  ASSUME TypeOK, Next
  PROVE  TypeOK'
<1> DEFINE S == [seq : 0 .. UINT_MAX, crcOk : BOOLEAN]
<1>0. /\ 0 \in Sector /\ 1 \in Sector /\ Erased \in S /\ Select(1) \in S /\ Select(0) \in S
  BY DEF Sector, Erased, Select
<1>1. CASE Bootloader
  <2>1. job' \in Seq(Sector \X S)
    <3>1. job \in Seq(Sector \X S)
      BY DEF TypeOK
    <3>2. job' = job \/ job' = << <<0, Erased>>, <<1, Erased>>, <<0, Select(1)>>, <<1, Select(0)>> >>
      BY <1>1 DEF Bootloader
    <3> HIDE DEF S
    <3>3. << <<0, Erased>>, <<1, Erased>>, <<0, Select(1)>>, <<1, Select(0)>> >> \in Seq(Sector \X S)
      BY <1>0
    <3> QED
      BY <3>1, <3>2, <3>3
  <2>2. run' \in Slot \cup {OFF, BOOT, DEAD, FACTORY}
    BY <1>1, ChoiceFacts DEF Bootloader, App
  <2> QED
    BY <1>1, <2>1, <2>2 DEF Bootloader, TypeOK
<1>2. CASE FlashStep
  <2>1. Head(job) \in Sector \X S /\ Tail(job) \in Seq(Sector \X S)
    BY <1>2 DEF FlashStep, TypeOK
  <2>2. run' \in Slot \cup {OFF, BOOT, DEAD, FACTORY}
    BY <1>2, ChoiceFacts DEF FlashStep, TypeOK
  <2>3. sel' \in [Sector -> S]
    BY <1>2, <2>1 DEF FlashStep, TypeOK
  <2> QED
    BY <1>2, <2>1, <2>2, <2>3 DEF FlashStep, TypeOK
<1>3. CASE PowerOff
  <2>1. sel' \in [Sector -> S]
    <3>1. CASE job # <<>>
      <4>1. Head(job) \in Sector \X S
        BY <3>1 DEF TypeOK
      <4>2. Torn(Head(job)[2].seq) \in S
        BY <4>1 DEF Torn
      <4> QED
        BY <1>3, <4>1, <4>2 DEF PowerOff, TypeOK
    <3> QED
      BY <1>3, <3>1 DEF PowerOff, TypeOK
  <2>2. wrote' \in [Slot -> NoHandle .. Chunks] /\ job' \in Seq(Sector \X S)
    BY <1>3 DEF PowerOff, NoHandle
  <2> QED
    BY <1>3, <2>1, <2>2 DEF PowerOff, TypeOK
<1>4. CASE SetBootFactory
  <2>1. job' \in Seq(Sector \X S)
    <3> HIDE DEF S
    <3> QED
      BY <1>0, <1>4 DEF SetBootFactory
  <2> QED
    BY <1>4, <2>1 DEF SetBootFactory, TypeOK
<1>5. ASSUME NEW p \in Slot, OtaBegin(p) PROVE TypeOK'
  BY <1>5 DEF OtaBegin, TypeOK, NoHandle
<1>6. ASSUME NEW p \in Slot, OtaWrite(p) PROVE TypeOK'
  <2>1. wrote[p] + 1 \in NoHandle .. Chunks
    BY <1>6 DEF OtaWrite, NoHandle
  <2> QED
    BY <1>6, <2>1 DEF OtaWrite, TypeOK
<1>7. ASSUME NEW p \in Slot, OtaEnd(p) PROVE TypeOK'
  BY <1>7 DEF OtaEnd, TypeOK, NoHandle
<1>8. ASSUME NEW p \in Slot, SetBoot(p) PROVE TypeOK'
  <2> DEFINE i == RewriteSector(sel)
             n == NewSeq(sel, p)
  <2>1. sel \in SelType
    BY DEF TypeOK, SelType
  <2>2. i \in Sector /\ Select(n) \in S
    BY <1>8, <2>1, NewSelection, ValidFacts DEF SetBoot
  <2>3. job' \in Seq(Sector \X S)
    <3> HIDE DEF S, i, n
    <3>1. job' = << <<i, Erased>>, <<i, Select(n)>> >>
      BY <1>8 DEF SetBoot, i, n
    <3> QED
      BY <1>0, <2>2, <3>1
  <2> QED
    BY <1>8, <2>3 DEF SetBoot, TypeOK
<1> QED
  BY <1>1, <1>2, <1>3, <1>4, <1>5, <1>6, <1>7, <1>8 DEF Next

(* GetBoot differs from the bootloader's choice only without a factory app *)
(* and with both sectors erased: then the bootloader writes a selection    *)
(* before it starts an app (bootloader_start.c:281-306).                   *)
LEMMA Agrees == Inv => GetBootAgrees
<1> SUFFICES ASSUME Inv, AppReady PROVE GetBoot(sel) = BootChoice(sel)
  BY DEF GetBootAgrees
<1>1. Rest
  BY DEF Inv, AppReady, FactoryJob, BootJob, SetJob
<1> QED
  BY <1>1 DEF Rest, AppReady, App, GetBoot, BootChoice

(* The bootloader starts what is chosen or begins the first selection.     *)
LEMMA BootloaderInv ==
  ASSUME Inv, Bootloader, TypeOK'
  PROVE  Inv'
<1>1. TypeOK
  BY DEF Inv
<1>2. Rest
  BY <1>1, ChoiceFacts DEF Inv, Bootloader, FactoryJob, BootJob, SetJob
<1>3. (BootChoice(sel))' = BootChoice(sel)
  BY DEF Bootloader, BootChoice, InitStatus, Current
<1>4. CASE InitStatus(sel) /\ ~ factory
  <2>1. BootChoice(sel) = 0
    BY <1>4 DEF BootChoice
  <2>2. ~ Selectable
    BY <1>4 DEF InitStatus, Selectable, ota_select_valid
  <2>3. BootJob'
    BY <1>1, <1>2, <1>4, <2>1, <2>2, ChoiceFacts DEF Bootloader, Rest, BootJob, Selectable, Divides
  <2>4. UpdatesAreSafe'
    BY <1>1, <1>4, ChoiceFacts DEF Bootloader, UpdatesAreSafe
  <2> QED
    BY <2>3, <2>4 DEF Inv
<1>5. CASE ~ (InitStatus(sel) /\ ~ factory)
  <2> DEFINE p == BootChoice(sel)
  <2>1. run' = IF p \in Slot /\ ~ img[p] THEN DEAD ELSE p
    BY <1>5 DEF Bootloader
  <2>2. run' \in App \cup {DEAD} /\ run' # BOOT
    BY <1>1, <2>1, ChoiceFacts
  <2>3. UpdatesAreSafe'
    BY <1>1, <1>2, <2>1, ChoiceFacts DEF Rest, UpdatesAreSafe, Bootloader
  <2>4. job' = <<>> /\ sel' = sel /\ factory' = factory /\ img' = img /\ wrote' = wrote /\ asked' = asked /\ cut' = cut
    BY <1>2, <1>5 DEF Bootloader, Rest
  <2> HIDE DEF p
  <2>5. Rest'
    BY <1>2, <1>3, <1>5, <2>2, <2>4 DEF Rest, Divides, InitStatus, Current
  <2> QED
    BY <2>3, <2>5 DEF Inv
<1> QED
  BY <1>4, <1>5

(* A restart between calls keeps the choice; during one it sets cut.       *)
LEMMA PowerOffInv ==
  ASSUME Inv, PowerOff, TypeOK'
  PROVE  Inv'
<1>1. TypeOK
  BY DEF Inv
<1>2. UpdatesAreSafe' /\ run' # BOOT /\ run' \notin App /\ job' = <<>>
  BY <1>1, ChoiceFacts DEF PowerOff, UpdatesAreSafe
<1>3. CASE job # <<>>
  BY <1>2, <1>3 DEF PowerOff, Rest, Inv
<1>4. CASE job = <<>>
  <2>1. Rest
    BY <1>4 DEF Inv, FactoryJob, BootJob, SetJob
  <2>2. sel' = sel /\ factory' = factory /\ img' = img /\ asked' = asked /\ cut' = cut
    BY <1>1, <1>4 DEF PowerOff, TypeOK
  <2>3. (BootChoice(sel))' = BootChoice(sel) /\ Current(sel)' = Current(sel)
    BY <2>2 DEF BootChoice, InitStatus, Current
  <2>4. wrote' = [p \in Slot |-> NoHandle]
    BY DEF PowerOff
  <2>5. Rest'
    BY <1>2, <2>1, <2>2, <2>3, <2>4 DEF Rest, Divides
  <2> QED
    BY <1>2, <2>5 DEF Inv
<1> QED
  BY <1>3, <1>4

(* esp_ota_begin, _write and _end spare the app that is chosen.            *)
LEMMA UpdateInv ==
  ASSUME Inv, NEW p \in Slot, OtaBegin(p) \/ OtaWrite(p) \/ OtaEnd(p), TypeOK'
  PROVE  Inv'
<1>1. TypeOK /\ UpdatesAreSafe /\ AppReady
  BY DEF Inv, OtaBegin, OtaWrite, OtaEnd
<1>2. Rest
  BY <1>1 DEF Inv, AppReady, FactoryJob, BootJob, SetJob
<1>3. sel' = sel /\ factory' = factory /\ job' = job /\ run' = run /\ asked' = asked /\ cut' = cut
  BY DEF OtaBegin, OtaWrite, OtaEnd
<1>4. (BootChoice(sel))' = BootChoice(sel) /\ Current(sel)' = Current(sel)
  BY <1>3 DEF BootChoice, InitStatus, Current
<1>5. \A q \in Slot \ {p} : img'[q] = img[q] /\ wrote'[q] = wrote[q]
  BY <1>1 DEF OtaBegin, OtaWrite, OtaEnd, TypeOK
<1>6. ~ cut => p # BootChoice(sel)
  <2>1. CASE OtaBegin(p)
    BY <1>1, <2>1, Agrees DEF OtaBegin, GetBootAgrees
  <2>2. CASE OtaWrite(p) \/ OtaEnd(p)
    BY <1>2, <2>2 DEF OtaWrite, OtaEnd, Rest, NoHandle
  <2> QED
    BY <2>1, <2>2
<1>7. Rest'
  BY <1>2, <1>3, <1>4, <1>5, <1>6 DEF Rest, Divides, InitStatus
<1> QED
  BY <1>1, <1>3, <1>7 DEF Inv, UpdatesAreSafe

(* A new selection begins with the facts of NewSelection.                  *)
LEMMA SetBootInv ==
  ASSUME Inv, NEW p \in Slot, SetBoot(p), TypeOK'
  PROVE  Inv'
<1>1. TypeOK /\ UpdatesAreSafe /\ AppReady /\ sel \in SelType
  BY DEF Inv, SetBoot, TypeOK, SelType
<1>2. Rest
  BY <1>1 DEF Inv, AppReady, FactoryJob, BootJob, SetJob
<1>3. PICK i \in Sector, n \in Seqs :
        /\ i = RewriteSector(sel) /\ n = NewSeq(sel, p)
        /\ Current([sel EXCEPT ![i] = Select(n)]) = n /\ ~ InitStatus([sel EXCEPT ![i] = Select(n)])
        /\ Divides \/ n > 0 => SlotOf(n) = p
        /\ Current(sel) > 0 => n > 0
        /\ Selectable => ota_select_valid(sel[1 - i])
  BY <1>1, NewSelection DEF SetBoot, Selectable
<1>4. job' = << <<i, Erased>>, <<i, Select(n)>> >>
  BY <1>3 DEF SetBoot
<1>5. n # UINT_MAX
  BY <1>3 DEF Seqs
<1>6. /\ sel' = sel /\ factory' = factory /\ run' = run /\ cut' = cut /\ img' = img /\ wrote' = wrote
      /\ asked' = p /\ img[p] /\ wrote[p] = NoHandle /\ run \in App
  BY <1>1 DEF SetBoot, AppReady, App
<1>7. ChoiceWith(i, n) = SlotOf(n)
  BY <1>3, <1>5 DEF ChoiceWith, BootChoice
<1>8. ChoiceWith(i, n)' = ChoiceWith(i, n) /\ Selectable' = Selectable
  BY <1>6 DEF ChoiceWith, BootChoice, InitStatus, Current, Selectable
<1>9. ~ cut => n > 0
  BY <1>2, <1>3 DEF Rest
<1>10. SetJob(p, i, n)'
  BY <1>3, <1>4, <1>6, <1>7, <1>8, <1>9 DEF SetJob, Divides
<1>11. UpdatesAreSafe'
  BY <1>1, <1>6 DEF UpdatesAreSafe
<1> QED
  BY <1>3, <1>10, <1>11 DEF Inv

(* So does the way back to the factory app.                                *)
LEMMA SetBootFactoryInv ==
  ASSUME Inv, SetBootFactory, TypeOK'
  PROVE  Inv'
  BY DEF Inv, SetBootFactory, FactoryJob, AppReady, App, UpdatesAreSafe

(* Each sector operation takes a call to its next stage, the last one to   *)
(* Rest with the app that was asked for.                                   *)
LEMMA FlashStepInv ==
  ASSUME Inv, FlashStep, TypeOK'
  PROVE  Inv'
<1>1. TypeOK /\ UpdatesAreSafe /\ job # <<>>
  BY DEF Inv, FlashStep
<1>2. /\ sel' = [sel EXCEPT ![Head(job)[1]] = Head(job)[2]] /\ job' = Tail(job)
      /\ run' = IF run # BOOT \/ Len(job) > 1 THEN run ELSE IF img[0] THEN 0 ELSE DEAD
      /\ factory' = factory /\ img' = img /\ wrote' = wrote /\ asked' = asked /\ cut' = cut
  BY DEF FlashStep
<1>3. sel \in SelType /\ sel' \in SelType /\ DOMAIN sel = {0, 1}
  BY <1>1 DEF TypeOK, SelType, Sector
<1>4. CASE FactoryJob
  <2>0. run' = run /\ run \in App /\ run # BOOT /\ asked = FACTORY /\ factory
    BY <1>1, <1>2, <1>4, ChoiceFacts DEF FactoryJob
  <2>1. CASE job = << <<0, Erased>>, <<1, Erased>> >>
    <3>1. job' = << <<1, Erased>> >> /\ sel'[0] = Erased
      BY <1>2, <1>3, <2>1
    <3>2. FactoryJob'
      BY <1>2, <2>0, <3>1 DEF FactoryJob
    <3> QED
      BY <1>1, <1>2, <2>0, <3>2 DEF Inv, UpdatesAreSafe
  <2>2. CASE job = << <<1, Erased>> >> /\ sel[0] = Erased
    <3>1. job' = <<>> /\ sel'[0] = Erased /\ sel'[1] = Erased
      BY <1>2, <1>3, <2>2
    <3>2. InitStatus(sel')
      BY <3>1, ValidFacts DEF InitStatus
    <3>3. BootChoice(sel)' = FACTORY
      BY <1>2, <2>0, <3>2 DEF BootChoice, InitStatus
    <3>4. Current(sel') = UINT_MAX
      BY <1>3, <3>2, CurrentFacts
    <3>5. Rest'
      BY <1>1, <1>2, <2>0, <3>1, <3>3, <3>4, ChoiceFacts DEF Rest, App
    <3> QED
      BY <1>1, <1>2, <2>0, <3>5 DEF Inv, UpdatesAreSafe
  <2> QED
    BY <1>4, <2>1, <2>2 DEF FactoryJob
<1>5. CASE BootJob
  <2>0. run = BOOT /\ ~ factory /\ run # DEAD
    BY <1>1, <1>5, ChoiceFacts DEF BootJob
  <2>1. CASE job = << <<0, Erased>>, <<1, Erased>>, <<0, Select(1)>>, <<1, Select(0)>> >> /\ ~ Selectable
    <3>1. job' = << <<1, Erased>>, <<0, Select(1)>>, <<1, Select(0)>> >> /\ run' = BOOT
      BY <1>2, <2>0, <2>1
    <3>2. ~ Selectable'
      BY <1>2, <1>3, <2>1, ValidFacts DEF Selectable
    <3>3. BootJob'
      BY <1>2, <1>5, <3>1, <3>2 DEF BootJob, Divides
    <3> QED
      BY <2>0, <3>1, <3>3 DEF Inv, UpdatesAreSafe
  <2>2. CASE job = << <<1, Erased>>, <<0, Select(1)>>, <<1, Select(0)>> >> /\ ~ Selectable
    <3>1. job' = << <<0, Select(1)>>, <<1, Select(0)>> >> /\ run' = BOOT
      BY <1>2, <2>0, <2>2
    <3>2. ~ Selectable'
      BY <1>2, <1>3, <2>2, ValidFacts DEF Selectable
    <3>3. BootJob'
      BY <1>2, <1>5, <3>1, <3>2 DEF BootJob, Divides
    <3> QED
      BY <2>0, <3>1, <3>3 DEF Inv, UpdatesAreSafe
  <2>3. CASE job = << <<0, Select(1)>>, <<1, Select(0)>> >> /\ ~ Selectable
    <3>1. job' = << <<1, Select(0)>> >> /\ run' = BOOT /\ sel'[0] = Select(1)
      BY <1>2, <1>3, <2>0, <2>3
    <3>2. BootJob'
      BY <1>2, <1>5, <3>1 DEF BootJob, Divides
    <3> QED
      BY <2>0, <3>1, <3>2 DEF Inv, UpdatesAreSafe
  <2>4. CASE job = << <<1, Select(0)>> >> /\ sel[0] = Select(1)
    <3>1. job' = <<>> /\ sel'[0] = Select(1) /\ sel'[1] = Select(0) /\ run' = IF img[0] THEN 0 ELSE DEAD
      BY <1>2, <1>3, <2>0, <2>4
    <3>2. 0 \in Seqs /\ 1 \in Seqs
      BY DEF Seqs
    <3>3. ~ InitStatus(sel')
      BY <3>1, <3>2, ValidFacts DEF InitStatus, Seqs
    <3>4. Current(sel') = 1
      BY <3>1, <3>2, ValidFacts DEF Current, OTA_MAX
    <3>5. SlotOf(1) = 0
      BY <3>2, SlotOfNumber, Residues
    <3>6. BootChoice(sel)' = 0
      <4>1. 1 # UINT_MAX
        OBVIOUS
      <4> QED
        BY <3>3, <3>4, <3>5, <4>1 DEF BootChoice, InitStatus, Current
    <3>7. 0 \in App /\ 0 # BOOT /\ DEAD # BOOT /\ DEAD \notin App
      BY <1>1, ChoiceFacts DEF App
    <3>8. Rest'
      BY <1>2, <1>5, <3>1, <3>3, <3>4, <3>6, <3>7 DEF Rest, BootJob, Divides
    <3>9. UpdatesAreSafe'
      BY <1>2, <1>5, <3>1, <3>7 DEF BootJob, UpdatesAreSafe
    <3> QED
      BY <3>8, <3>9 DEF Inv
  <2> QED
    BY <1>5, <2>1, <2>2, <2>3, <2>4 DEF BootJob
<1>6. ASSUME NEW p \in Slot, NEW i \in Sector, NEW n \in Seqs, SetJob(p, i, n) PROVE Inv'
  <2>0. run' = run /\ run \in App /\ run # BOOT /\ asked = p /\ img[p] /\ wrote[p] = NoHandle
    BY <1>1, <1>2, <1>6, ChoiceFacts DEF SetJob
  <2>1. UpdatesAreSafe'
    BY <1>1, <1>2, <2>0 DEF UpdatesAreSafe
  <2>2. 1 - i \in Sector /\ 1 - i # i /\ {0, 1} = {i, 1 - i}
    BY DEF Sector
  <2>3. CASE job = << <<i, Erased>>, <<i, Select(n)>> >>
    <3>1. job' = << <<i, Select(n)>> >> /\ sel' = [sel EXCEPT ![i] = Erased]
      <4>1. Head(job) = <<i, Erased>> /\ Tail(job) = << <<i, Select(n)>> >>
        BY <2>3
      <4>2. Head(job)[1] = i /\ Head(job)[2] = Erased
        BY <4>1
      <4> QED
        BY <1>2, <4>1, <4>2
    <3>2. sel'[i] = Erased /\ [sel' EXCEPT ![i] = Select(n)] = [sel EXCEPT ![i] = Select(n)]
      BY <1>3, <3>1 DEF SelType
    <3>3. ChoiceWith(i, n)' = ChoiceWith(i, n)
      BY <1>2, <3>2 DEF ChoiceWith, BootChoice
    <3>4. Selectable' => ota_select_valid(sel'[1 - i])
      BY <2>2, <3>2, ValidFacts DEF Selectable, Sector
    <3>5. SetJob(p, i, n)'
      BY <1>2, <1>6, <2>0, <3>1, <3>2, <3>3, <3>4 DEF SetJob, Divides
    <3> QED
      BY <2>1, <3>5 DEF Inv
  <2>4. CASE job = << <<i, Select(n)>> >>
    <3>1. job' = <<>> /\ sel' = [sel EXCEPT ![i] = Select(n)]
      <4>1. Head(job) = <<i, Select(n)>> /\ Tail(job) = <<>>
        BY <2>4
      <4>2. Head(job)[1] = i /\ Head(job)[2] = Select(n)
        BY <4>1
      <4> QED
        BY <1>2, <4>1, <4>2
    <3>2. BootChoice(sel)' = ChoiceWith(i, n)
      BY <1>2, <3>1 DEF ChoiceWith, BootChoice, InitStatus, Current
    <3>3. ota_select_valid(sel'[i]) /\ sel'[i].seq = n
      BY <1>3, <3>1, ValidFacts DEF SelType
    <3>4. Current(sel') >= n /\ Current(sel') \in Nat /\ n \in Nat
      BY <1>3, <3>3, CurrentFacts DEF Seqs
    <3>5. ~ InitStatus(sel')
      BY <3>3 DEF InitStatus, Seqs, Sector
    <3>6. Divides \/ ~ cut => BootChoice(sel)' = p
      BY <1>6, <3>2 DEF SetJob
    <3>7. ~ cut => Current(sel') > 0
      BY <1>6, <3>4 DEF SetJob
    <3>8. Rest'
      BY <1>2, <2>0, <3>1, <3>5, <3>6, <3>7 DEF Rest, App, Divides
    <3> QED
      BY <2>1, <3>8 DEF Inv
  <2> QED
    BY <1>6, <2>3, <2>4 DEF SetJob
<1> QED
  BY <1>1, <1>4, <1>5, <1>6 DEF Inv, Rest

(* The invariant is inductive.                                             *)
LEMMA NextInv == Inv /\ [Next]_vars => Inv'
<1> SUFFICES ASSUME Inv, [Next]_vars PROVE Inv'
  OBVIOUS
<1>1. CASE Next
  <2>1. TypeOK'
    BY <1>1, TypeStep DEF Inv
  <2> QED
    BY <1>1, <2>1, BootloaderInv, FlashStepInv, PowerOffInv, UpdateInv, SetBootInv, SetBootFactoryInv DEF Next
<1>2. CASE UNCHANGED vars
  <2>1. /\ sel' = sel /\ factory' = factory /\ run' = run /\ cut' = cut /\ img' = img /\ wrote' = wrote
        /\ asked' = asked /\ job' = job
    BY <1>2 DEF vars
  <2>2. BootChoice(sel)' = BootChoice(sel) /\ \A i \in Sector, n \in Seqs : ChoiceWith(i, n)' = ChoiceWith(i, n)
    BY <2>1 DEF ChoiceWith, BootChoice
  <2>3. TypeOK' /\ UpdatesAreSafe'
    BY <2>1 DEF Inv, TypeOK, UpdatesAreSafe
  <2>4. (Rest => Rest') /\ (FactoryJob => FactoryJob') /\ (BootJob => BootJob')
    BY <2>1, <2>2 DEF Rest, FactoryJob, BootJob, Selectable
  <2>5. ASSUME NEW p \in Slot, NEW i \in Sector, NEW n \in Seqs, SetJob(p, i, n) PROVE SetJob(p, i, n)'
    BY <2>1, <2>2, <2>5 DEF SetJob, Selectable
  <2> QED
    BY <2>3, <2>4, <2>5 DEF Inv
<1> QED
  BY <1>1, <1>2

(* The invariant holds of every state of the device.                       *)
THEOREM Invariance == Spec => []Inv
  BY InitInv, NextInv, PTL DEF Spec

(* esp_ota_set_boot_partition selects what the bootloader loads, over any  *)
(* number of selections, updates and power failures, if the number of OTA  *)
(* apps divides 2^32.  Without that it is false: with three apps, a        *)
(* selection cut short after its erase can leave the number 0 as the       *)
(* current one, which esp_rewrite_ota_data takes for ota[2] and the        *)
(* bootloader for ota[0] (esp_ota_ops.c:250-275, bootloader_start.c:310-315). *)
THEOREM Selects == ASSUME Divides PROVE Spec => []SetBootSelects
<1>1. Inv => SetBootSelects
  BY DEF Inv, SetBootSelects, Rest, FactoryJob, BootJob, SetJob
<1> QED
  BY <1>1, Invariance, PTL

(* esp_ota_get_boot_partition and the bootloader agree whenever an         *)
(* application runs (esp_ota_ops.c:352-380, bootloader_start.c:281-317).   *)
THEOREM GetBoot_Agrees == Spec => []GetBootAgrees
  BY Agrees, Invariance, PTL

(* Interrupted updates alone never leave the device without an app         *)
(* (esp_ota_ops.c:66-168, bootloader_start.c:281-317).                     *)
THEOREM UpdateSafety == Spec => []UpdatesAreSafe
<1>1. Inv => UpdatesAreSafe
  BY DEF Inv
<1> QED
  BY <1>1, Invariance, PTL

(* No step, torn writes included, leaves no valid sector.                  *)
LEMMA StepStaysBootable ==
  ASSUME Inv, Next, Selectable, asked # FACTORY
  PROVE  Selectable'
<1>1. TypeOK /\ DOMAIN sel = {0, 1} /\ (sel' = sel => Selectable')
  BY DEF Inv, TypeOK, Sector, Selectable
<1>2. CASE sel' # sel
  <2>1. PICK k \in Sector, v \in [seq : 0 .. UINT_MAX, crcOk : BOOLEAN] :
          /\ job # <<>> /\ Head(job)[1] = k /\ sel' = [sel EXCEPT ![k] = v]
          /\ v # Head(job)[2] => Head(job)[2] # Erased
    <3>1. FlashStep \/ PowerOff
      BY <1>2 DEF Next, Bootloader, SetBootFactory, OtaBegin, OtaWrite, OtaEnd, SetBoot
    <3>2. job # <<>>
      BY <1>2, <3>1 DEF FlashStep, PowerOff
    <3>3. Head(job) \in Sector \X [seq : 0 .. UINT_MAX, crcOk : BOOLEAN]
      BY <1>1, <3>2 DEF TypeOK
    <3>4. Torn(Head(job)[2].seq) \in [seq : 0 .. UINT_MAX, crcOk : BOOLEAN]
      BY <3>3 DEF Torn
    <3>5. CASE FlashStep
      BY <3>2, <3>3, <3>5 DEF FlashStep
    <3>6. CASE PowerOff
      BY <1>2, <3>2, <3>3, <3>4, <3>6 DEF PowerOff
    <3> QED
      BY <3>1, <3>5, <3>6
  <2>2. CASE BootJob
    <3>1. job = << <<1, Select(0)>> >> /\ sel[0] = Select(1)
      BY <2>2 DEF BootJob
    <3>2. sel'[0] = Select(1)
      BY <1>1, <2>1, <3>1
    <3>3. 1 \in Seqs
      BY DEF Seqs
    <3> QED
      BY <3>2, <3>3, ValidFacts DEF Selectable
  <2>3. ASSUME NEW p \in Slot, NEW i \in Sector, NEW n \in Seqs, SetJob(p, i, n) PROVE Selectable'
    <3>1. ota_select_valid(sel[1 - i]) /\ Head(job)[1] = i
      BY <2>3 DEF SetJob
    <3>2. sel'[1 - i] = sel[1 - i]
      BY <1>1, <2>1, <3>1 DEF Sector
    <3> QED
      BY <3>1, <3>2 DEF Selectable, Sector
  <2> QED
    BY <2>1, <2>2, <2>3 DEF Inv, Rest, FactoryJob
<1> QED
  BY <1>1, <1>2

(* No power failure during a selection, torn writes included, loses both   *)
(* sectors (rewrite_ota_seq, esp_ota_ops.c:180-196).                       *)
THEOREM Bootable == Spec => StaysBootable
<1>1. Inv /\ [Next]_vars => [Selectable /\ asked # FACTORY => Selectable']_vars
  BY StepStaysBootable
<1> QED
  BY <1>1, Invariance, PTL DEF Spec, StaysBootable
=============================================================================
