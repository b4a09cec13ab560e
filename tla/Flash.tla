------------------------------- MODULE Flash -------------------------------
(***************************************************************************)
(* The settings in flash memory (flash.c): a sector of pages, each a copy  *)
(* of param behind a magic word, written one after the other; the last of  *)
(* the unbroken run of pages with the magic word counts.  A full sector is *)
(* erased and begun anew.  PERM (cmd_perm) writes, tnc_init reads.         *)
(*                                                                         *)
(* Power can fail at any moment.  Erasing sets all bits, programming only  *)
(* clears bits, so programming a page that is not blank leaves the AND of  *)
(* the two contents.  A program operation cut off leaves some bits         *)
(* uncleared; an erase cut off leaves each word as it was, erased, or in   *)
(* between, each page for itself.  PERM on the USB console runs in an      *)
(* interrupt, and so between any two steps of a PERM given on the UART     *)
(* console; erase and program have interrupts disabled.                    *)
(***************************************************************************)
EXTENDS Integers, FiniteSets, FiniteSetsExt

CONSTANTS
    Pages,          \* FLASH_SECTOR_SIZE / FLASH_PAGE_SIZE
    MaxWrites       \* bound: calls of flash_write

ASSUME FlashAssumption == Pages \in Nat \ {0} /\ MaxWrites \in Nat

Page == 0 .. Pages - 1
NoPage == -1
Version == 1 .. MaxWrites       \* the contents of param, by the call that wrote it
Blank == 0
Mixed == -1                     \* bits of several contents
Unknown == -2

VARIABLES
    id,             \* each page's first word: blank, PICO_MAGIC, or in between
    data,           \* what follows it
    pc,             \* flash_write on the main loop: out, erase, program, compare
    dst,            \* its page
    version,        \* its data
    writes,         \* calls of flash_write
    saved,          \* history: what the last call, or the last two that
                    \*   overlapped, wrote and returned true for
    older,          \* history: what was saved before that
    left            \* history: pages an erase that was cut off has not left
                    \*   blank, until they are erased or hold a call's data

vars == <<id, data, pc, dst, version, writes, saved, older, left>>
sector == <<id, data, left>>
ghost == <<saved, older>>

TypeOK ==
    /\ id \in [Page -> {"blank", "partial", "magic"}]
    /\ data \in [Page -> Version \cup {Blank, Mixed}]
    /\ pc \in {"out", "erase", "program", "compare"}
    /\ dst \in Page
    /\ version \in 0 .. MaxWrites
    /\ writes \in 0 .. MaxWrites
    /\ saved \subseteq Version
    /\ older \subseteq Version
    /\ left \subseteq Page

Init ==
    /\ id = [p \in Page |-> "blank"] /\ data = [p \in Page |-> Blank]
    /\ pc = "out" /\ dst = 0 /\ version = 0 /\ writes = 0
    /\ saved = {} /\ older = {} /\ left = {}
-----------------------------------------------------------------------------
(* The sector *)

\* flash_find_id looks at pages until one has no magic word.
Run == {p \in Page : \A q \in 0 .. p : id[q] = "magic"}

flash_find_id == IF Run = {} THEN NoPage ELSE Max(Run)

\* What flash_read returns.
flash_read == IF flash_find_id = NoPage THEN Unknown ELSE data[flash_find_id]

\* The page to write, and whether the sector is erased first.
EraseFirstLate == flash_find_id = NoPage \/ flash_find_id + 1 > Pages
EraseFirst == flash_find_id = NoPage \/ flash_find_id + 1 >= Pages
Target == IF EraseFirst THEN 0 ELSE flash_find_id + 1

AfterEraseOnePage ==
    [id |-> [id EXCEPT ![0] = "blank"], data |-> [data EXCEPT ![0] = Blank]]

\* The sector after an erase.
AfterErase ==
    [id |-> [p \in Page |-> "blank"], data |-> [p \in Page |-> Blank]]

\* What programming v leaves where d was: one of these.
And(d, v) == IF d \in {Blank, v} THEN {v} ELSE {v, Mixed}

\* Page p of a sector with ids i, data d and pages l left is programmed with v.
Programmed(i, d, l, p, v) ==
    /\ id' = [i EXCEPT ![p] = "magic"]
    /\ \E w \in And(d[p], v) :
          /\ data' = [d EXCEPT ![p] = w]
          /\ left' = IF w = v THEN l \ {p} ELSE l

\* A call returns: it has written v, after or (beside) while others did, or failed.
Return(ok, v, beside) ==
    /\ saved' = CASE ~ok -> {} [] ok /\ beside -> saved \cup {v} [] OTHER -> {v}
    /\ older' = IF ok /\ ~beside THEN older \cup saved ELSE older
-----------------------------------------------------------------------------
(* flash_write on the main loop *)

FlashWrite ==
    /\ pc = "out"
    /\ writes < MaxWrites
    /\ writes' = writes + 1
    /\ version' = writes + 1
    /\ dst' = Target
    /\ pc' = IF EraseFirst THEN "erase" ELSE "program"
    /\ UNCHANGED <<sector, ghost>>

FlashErase ==
    /\ pc = "erase"
    /\ id' = AfterErase.id /\ data' = AfterErase.data /\ left' = {}
    /\ pc' = "program"
    /\ UNCHANGED <<dst, version, writes, ghost>>

FlashProgram ==
    /\ pc = "program"
    /\ Programmed(id, data, left, dst, version)
    /\ pc' = "compare"
    /\ UNCHANGED <<dst, version, writes, ghost>>

CompareNothing ==
    /\ pc = "compare"
    /\ Return(TRUE, version, writes > version)
    /\ pc' = "out"
    /\ UNCHANGED <<sector, dst, version, writes>>

\* memcmp, and the return.
Compare ==
    /\ pc = "compare"
    /\ Return(id[dst] = "magic" /\ data[dst] = version, version, writes > version)
    /\ pc' = "out"
    /\ UNCHANGED <<sector, dst, version, writes>>
-----------------------------------------------------------------------------
(* The interrupt and the power *)

\* flash_write in the USB interrupt, from call to return; bound: one during a
\* call of the main loop.
UsbFlashWrite ==
    /\ writes < MaxWrites
    /\ pc # "out" => writes = version
    /\ writes' = writes + 1
    /\ IF EraseFirst
         THEN Programmed(AfterErase.id, AfterErase.data, {}, 0, writes + 1)
         ELSE Programmed(id, data, left, Target, writes + 1)
    /\ Return(data'[Target] = writes + 1, writes + 1, FALSE)
    /\ UNCHANGED <<pc, dst, version>>

\* Power fails while nothing is being erased or programmed.
Crash ==
    /\ pc # "out"
    /\ pc' = "out"
    /\ saved' = IF pc = "compare" \/ (pc = "program" /\ dst = 0) THEN {} ELSE saved
    /\ UNCHANGED <<sector, dst, version, writes, older>>

\* ... while page dst is being programmed: the magic word, the data, both or
\* neither are not whole.
CrashProgramming ==
    /\ pc = "program"
    /\ \E i \in {id[dst], "partial", "magic"}, d \in {data[dst], Mixed} \cup And(data[dst], version) :
          /\ id[dst] = "magic" => i = "magic"
          /\ id' = [id EXCEPT ![dst] = i]
          /\ data' = [data EXCEPT ![dst] = d]
    /\ pc' = "out"
    /\ saved' = {}
    /\ UNCHANGED <<dst, version, writes, older, left>>

\* ... while the sector is being erased: any page may still be what it was.
CrashErasing ==
    /\ pc = "erase"
    /\ id' \in [Page -> {"blank", "partial", "magic"}]
    /\ \A p \in Page : id'[p] \in {id[p], "partial", "blank"}
    /\ data' \in [Page -> Range(data) \cup {Blank, Mixed}]
    /\ \A p \in Page : data'[p] \in {data[p], Mixed, Blank}
    /\ left' = {p \in Page : id'[p] # "blank" \/ data'[p] # Blank}
    /\ pc' = "out"
    /\ saved' = {}
    /\ UNCHANGED <<dst, version, writes, older>>

Next ==
    \/ FlashWrite \/ FlashErase \/ FlashProgram \/ Compare
    \/ UsbFlashWrite
    \/ Crash \/ CrashProgramming \/ CrashErasing

Spec == Init /\ [][Next]_vars
-----------------------------------------------------------------------------
(* Properties *)

\* What a PERM that reported success has written is what a restart reads, as
\* long as no write after it has failed or was cut off once it had begun to
\* change the sector; whatever cut-off writes have left in the sector before,
\* and when the PERMs of two terminals overlap, it is what one of them wrote.
\* Not claimed when the search (flash_find_id) ends at a page that an erase cut
\* off has not left blank: it takes such a page for the newest one.
ReadBack == (pc = "out" /\ saved # {}) => (flash_read \in saved \/ flash_find_id \in left)

\* Settings that an acknowledged PERM has replaced come back, between the steps
\* of a write and after any crash, from one place only: a page that an erase cut
\* off has left there.
NothingOlder == flash_read \in older => flash_find_id \in left
=============================================================================
