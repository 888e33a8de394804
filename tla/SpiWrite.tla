------------------------------ MODULE SpiWrite ------------------------------
(***************************************************************************)
(* The SPI flash commands of the monitor in the build that uses DDR        *)
(* memory (INTERNAL_MEMORY_ONLY = 0): XLS2 and XLS3, XCS, XINFO_BP and     *)
(* XINFO_BP_S (dgmodul4.c) over the driver of spiflash1drv.c.              *)
(*                                                                         *)
(* XLS2 and XLS3 read the sectors that the image will lie in and, unless   *)
(* they are blank, erase them, restore what was before and behind the      *)
(* image and program the image, page by page.  The flash is busy after     *)
(* each of these commands and the driver polls it.                         *)
(***************************************************************************)
EXTENDS NorFlash, Sequences

CONSTANTS
  Word,      \* cells of a 32-bit word: addresses are multiples of it
  Sector,    \* gQspi_sa_size
  Reserved,  \* cells at the end that no image may reach (0x8000 bytes)
  Space,     \* cells an address can tell apart (2^32 bytes)
  ImageMax,  \* bound: cells of an image
  Units      \* the block sizes the fitted chip may erase at power-on

ASSUME SizesAssumption ==
  /\ Word \in Nat \ {0} /\ Page % Word = 0
  /\ Sector \in Nat \ {0} /\ Sector % Page = 0 /\ Sector >= 2 * Page /\ FlashSize % Sector = 0
  /\ Reserved \in 0..(FlashSize - 1) /\ Space \in Nat /\ Space > FlashSize + ImageMax
  /\ ImageMax \in Nat /\ Units \subseteq {Page, Sector}

LastAddress == FlashSize - Reserved - 1  \* gQspi_end_addess

Kinds == {"XLS", "XCS", "XINFO_BP", "XINFO_BP_S"}

\* The contents the model tells apart: cell a as it was, cell i of the image,
\* the boot program size and the signature that XINFO_BP_S writes.
Was(a)    == <<"was", a>>
Image(i)  == <<"image", i>>
BootSize  == <<"boot program size">>
Signature == <<"0xAA55FFFF">>
SignatureAt == 2 * Page - Word

VARIABLES
  pc,      \* "idle" at the prompt, or the next step
  op,      \* the command: [kind, start, size]
  outcome, \* how it ended: "none" yet, "complete", "refused" or "declined"
  chip,    \* the flash
  known,   \* CheckQspiFlashId knows its ID
  ram,     \* WORK_SPI_LOAD_AREA: the sectors read, by flash address
  jobs,    \* the loops still to run: erases and page programs
  before,  \* history: the cells when the command began
  consent  \* history: the user has answered y
vars == <<pc, op, outcome, chip, known, ram, jobs, before, consent>>

NoOp == [kind |-> "none", start |-> 0, size |-> 0]

Init ==
  /\ pc = "idle" /\ op = NoOp /\ outcome = "none"
  /\ \E blank \in SUBSET (0..(FlashSize \div Sector - 1)), unit \in Units:
       chip = Chip([a \in Cells |-> IF a \div Sector \in blank THEN FF ELSE Was(a)], unit)
  /\ known \in BOOLEAN
  /\ ram = [a \in Cells |-> FF] /\ jobs = <<>>
  /\ before = chip.cells /\ consent = FALSE

-----------------------------------------------------------------------------
(* Faulty variants of definitions below, each of which breaks a property.  *)

Busy_Ignored == FALSE
DeltaS_Zero(o) == 0
Blank_FirstSector(o) ==
  \A a \in Cells: a \div Sector = o.start \div Sector => chip.cells[a] = FF
EraseUnit_AsFound == chip.unit
Stride_None(j) == j.at
ReadBack_Stale == ram

-----------------------------------------------------------------------------
(* The sectors an image lies in.                                           *)

\* PrgSpiEndAdd; one before the start for an empty image, which wraps at 0.
End(o) == (o.start + o.size - 1) % Space
SectorTop(a)    == a - (a % Sector)
SectorBottom(a) == SectorTop(a) + Sector - 1
ClearStart(o) == SectorTop(o.start)
ClearEnd(o)   == SectorBottom(End(o))

\* deltaS, and deltaE rounded down to whole pages.
DeltaS(o) == o.start - ClearStart(o)
DeltaE(o) == PageTop(ClearEnd(o) - End(o))

\* CkSpiFlashAllF on the sectors read.
Blank(o) == \A a \in ClearStart(o)..ClearEnd(o): chip.cells[a] = FF

\* The loops of SectorEraseQspi_Flash and of SaveDataWithBuffeQspiFlash.
Erase(from, to) == [do |-> "erase", at |-> SectorTop(from), stop |-> SectorTop(to) + 1, from |-> "none"]
Save(at, stop, source) == [do |-> "program", at |-> at, stop |-> stop, from |-> source]
RestoreHead(o) == Save(ClearStart(o), ClearStart(o) + DeltaS(o), "ram")
RestoreTail(o) == Save(ClearEnd(o) + 1 - DeltaE(o), ClearEnd(o) + 1, "ram")
Body(o) == Save(o.start, o.start + o.size, "image")

\* The 256 bytes for a page program at address at: the sectors read, or the
\* image, behind which the work memory is filled with FF.
Buffer(at, source) ==
  [i \in 0..(Page - 1) |->
     CASE source = "ram" -> IF at + i \in Cells THEN ram[at + i] ELSE FF
       [] source = "image" -> IF at + i < op.start + op.size THEN Image(at + i - op.start) ELSE FF]

-----------------------------------------------------------------------------
(* The commands.                                                           *)

Return(o) == pc' = "idle" /\ outcome' = o

\* A command is typed.  All but XCS identify the chip first; cells the last
\* command wrote count as data that was there, and no command uses the sectors
\* that an earlier one read.
Type(k) ==
  LET cells == [a \in Cells |-> IF chip.cells[a] = FF THEN FF ELSE Was(a)] IN
  /\ pc = "idle"
  /\ op' = [NoOp EXCEPT !.kind = k] /\ consent' = FALSE /\ jobs' = <<>>
  /\ chip' = [chip EXCEPT !.cells = cells] /\ before' = cells
  /\ ram' = [a \in Cells |-> FF]
  /\ \/ (known \/ k = "XCS") /\ outcome' = "none"
          /\ pc' = (CASE k = "XCS" -> "ask" [] k = "XLS" -> "prompt" [] OTHER -> "parameter")
     \/ ~known /\ k # "XCS" /\ Return("refused")
  /\ UNCHANGED known

\* The prompts and the image; an address or an end out of range is refused.
Answer(start, size) ==
  LET o == [op EXCEPT !.start = start, !.size = size] IN
  /\ pc = "prompt" /\ op' = o
  /\ IF start > LastAddress \/ End(o) > LastAddress THEN Return("refused")
     ELSE pc' = "check" /\ UNCHANGED outcome
  /\ UNCHANGED <<chip, known, ram, jobs, before, consent>>

\* The load is stopped with a dot.
Stop == pc = "prompt" /\ Return("declined") /\ UNCHANGED <<op, chip, known, ram, jobs, before, consent>>

\* CkQspiFlash1ClearSectorSize reads the sectors and looks whether they are blank.
ReadBack == chip.cells
Check ==
  /\ pc = "check"
  /\ ram' = ReadBack
  /\ IF Blank(op) THEN pc' = "run" /\ jobs' = <<Body(op)>> ELSE pc' = "ask" /\ UNCHANGED jobs
  /\ UNCHANGED <<op, outcome, chip, known, before, consent>>

\* "Clear OK?(y/n)".  Here the sectors that are not blank are given up.
Yes ==
  /\ pc = "ask" /\ consent' = TRUE
  /\ \/ op.kind = "XCS" /\ known /\ pc' = "run" /\ UNCHANGED outcome
          /\ jobs' = <<[do |-> "bulk", at |-> 0, stop |-> 1, from |-> "none"]>>
     \/ op.kind = "XCS" /\ ~known /\ Return("refused") /\ UNCHANGED jobs
     \/ op.kind = "XLS" /\ pc' = "unit" /\ UNCHANGED outcome
          /\ jobs' = <<Erase(ClearStart(op), ClearEnd(op)), RestoreHead(op), RestoreTail(op), Body(op)>>
  /\ UNCHANGED <<op, chip, known, ram, before>>
No ==
  /\ pc = "ask" /\ Return("declined")
  /\ UNCHANGED <<op, chip, known, ram, jobs, before, consent>>

\* XINFO_BP shows the boot program size; XINFO_BP_S offers to change it, and
\* writes the sector back if it did or if the signature was missing.  It asks for
\* no consent: to type it counts as such, also when the answer to the offer is no.
Show ==
  /\ pc = "parameter" /\ op.kind = "XINFO_BP"
  /\ ram' = chip.cells /\ Return("complete")
  /\ UNCHANGED <<op, chip, known, jobs, before, consent>>
Change(change) ==
  /\ pc = "parameter" /\ op.kind = "XINFO_BP_S"
  /\ \/ /\ change \/ chip.cells[SignatureAt] # Signature
        /\ ram' = [ReadBack EXCEPT ![0] = BootSize, ![SignatureAt] = Signature]
        /\ jobs' = <<Erase(0, Sector - 1), Save(0, Sector, "ram")>>
        /\ pc' = "unit" /\ consent' = TRUE /\ UNCHANGED outcome
     \/ /\ ~change /\ chip.cells[SignatureAt] = Signature
        /\ ram' = ReadBack /\ Return("complete") /\ UNCHANGED <<jobs, consent>>
  /\ UNCHANGED <<op, chip, known, before>>

-----------------------------------------------------------------------------
(* The driver's loops.                                                     *)

\* SectorEraseQspi_Flash first sets the block size of a chip that has a choice.
EraseUnit == Sector
SetUnit ==
  /\ pc = "unit" /\ pc' = "run"
  /\ chip' = [chip EXCEPT !.unit = EraseUnit]
  /\ UNCHANGED <<op, outcome, known, ram, jobs, before, consent>>

\* One erase or page program, with its write enable.
Stride(j) == j.at + (IF j.do = "program" THEN Page ELSE Sector)
Issue ==
  /\ pc = "run" /\ jobs # <<>>
  /\ LET j == jobs[1]
         c == WriteEnable(chip)
     IN IF j.at >= j.stop
        THEN jobs' = Tail(jobs) /\ UNCHANGED <<pc, chip>>
        ELSE /\ chip' = (CASE j.do = "erase"   -> BlockErase(c, j.at, chip.unit)
                           [] j.do = "bulk"    -> BulkErase(c)
                           [] j.do = "program" -> PageProgram(c, j.at, Buffer(j.at, j.from)))
             /\ jobs' = [jobs EXCEPT ![1].at = Stride(j)]
             /\ pc' = "wait"
  /\ UNCHANGED <<op, outcome, known, ram, before, consent>>

\* The driver polls BIT0 of the status until the flash is ready.
Busy == chip.wip
Poll ==
  /\ pc = "wait" /\ ~Busy /\ pc' = "run"
  /\ UNCHANGED <<op, outcome, chip, known, ram, jobs, before, consent>>

Done ==
  /\ pc = "run" /\ jobs = <<>> /\ Return("complete")
  /\ UNCHANGED <<op, chip, known, ram, jobs, before, consent>>

\* The flash ends an operation.
Ready ==
  /\ chip.wip /\ chip' = Finish(chip)
  /\ UNCHANGED <<pc, op, outcome, known, ram, jobs, before, consent>>

-----------------------------------------------------------------------------
Starts == {a \in Cells: a % Word = 0}

User ==
  \/ \E k \in Kinds: Type(k)
  \/ \E start \in Starts, size \in 0..ImageMax: Answer(start, size)
  \/ Stop \/ Yes \/ No
  \/ \E change \in BOOLEAN: Change(change)
Driver == Check \/ Show \/ SetUnit \/ Issue \/ Poll \/ Done

Next == User \/ Driver \/ Ready

Spec == Init /\ [][Next]_vars

\* The driver does not stop and the flash ends what it began; the user may
\* leave a prompt unanswered.
FairSpec == Spec /\ WF_vars(Driver) /\ WF_vars(Ready)

-----------------------------------------------------------------------------
(* Properties.                                                             *)

\* No program or erase is sent while the flash is busy with the last one, which
\* would ignore it (spiflash1drv.c:96, :202): every loop polls after each command.
NothingLost == ~chip.lost

Saved(o) == \A i \in 0..(o.size - 1): chip.cells[o.start + i] = Image(i)
InImage(a) == a \in op.start..(op.start + op.size - 1)
SharesPage(a) == \E i \in 0..(op.size - 1): PageTop(a) = PageTop(op.start + i)
Written == pc = "idle" /\ outcome = "complete" /\ op.kind = "XLS"

\* When a command is complete, the flash holds the image, if it was saved at the
\* start of a page; XINFO_BP_S has written the size and the signature and kept
\* the rest of their sector; and after XCS the flash is blank.
CompleteMeansDone ==
  pc = "idle" /\ outcome = "complete" =>
    /\ op.kind = "XLS" /\ op.start % Page = 0 => Saved(op)
    /\ op.kind = "XINFO_BP_S" /\ consent =>
         chip.cells = [before EXCEPT ![0] = BootSize, ![SignatureAt] = Signature]
    /\ op.kind = "XCS" => \A a \in Cells: chip.cells[a] = FF

\* The cells of all other pages are as before: what the erase of whole sectors
\* took with it has been restored, in front of the image and behind it.
NeighboursKept ==
  Written => \A a \in Cells: ~SharesPage(a) /\ op.start % Page = 0 => chip.cells[a] = before[a]

\* Outside the sectors of the image nothing changes at any time, and inside them
\* no datum is lost without a y.  (The kinds are those of this build.)
ConsentGiven ==
  op.kind \in Kinds => \A a \in Cells: chip.cells[a] # before[a] =>
    \/ consent /\ (op.kind = "XLS" => a \in ClearStart(op)..ClearEnd(op))
    \/ before[a] = FF /\ SharesPage(a)

\* What the erase took with it is restored (dgmodul4.c:538, :542): every cell
\* outside the image is as before.
NeighboursRestored ==
  Written /\ op.start % Page = 0 => \A a \in Cells: ~InImage(a) => chip.cells[a] = before[a]

\* A command that is under way in the driver comes back.
CommandEnds == pc \in {"run", "wait", "unit", "check"} ~> pc \in {"idle", "ask"}
=============================================================================
