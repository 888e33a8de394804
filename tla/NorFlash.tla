------------------------------ MODULE NorFlash ------------------------------
(***************************************************************************)
(* The serial NOR flash (external), as the driver spiflash1drv.c uses it:  *)
(* an erase sets a whole block to FF, a program can only clear bits and    *)
(* stays inside one page, and a command other than the status read is      *)
(* ignored while the flash is busy or when it is not write enabled.        *)
(*                                                                         *)
(* A cell holds "FF", some datum, or "mixed" once a datum has been         *)
(* programmed over another.  A chip is a record: its cells, the write      *)
(* enable latch wel, the busy bit wip (BIT0 of the status), the size unit  *)
(* of the blocks it erases, and lost, a history flag: a program or erase   *)
(* has been ignored.                                                       *)
(***************************************************************************)
EXTENDS Integers

CONSTANTS
  FlashSize, \* cells of the flash
  Page       \* cells of a page (256 bytes)

ASSUME FlashAssumption == Page \in Nat \ {0} /\ FlashSize \in Nat /\ FlashSize % Page = 0

FF    == <<"FF">>
Mixed == <<"mixed">>
Cells == 0..(FlashSize - 1)

\* A new chip with the given contents and erase unit, ready.
Chip(cells, unit) == [cells |-> cells, wel |-> FALSE, wip |-> FALSE, unit |-> unit, lost |-> FALSE]

\* What a cell holds after the datum new is programmed over old.
Programmed(old, new) ==
  IF old = FF THEN new ELSE IF new \in {FF, old} THEN old ELSE Mixed

\* The cell of a page program at addr that receives datum i of the buffer: the
\* address wraps round inside the page.
PageTop(addr) == addr - (addr % Page)
Source(addr, a) == (a - addr) % Page

WriteEnable(chip) == IF chip.wip THEN chip ELSE [chip EXCEPT !.wel = TRUE]

\* A program or erase: ignored, or begun with the contents it will leave.
Begin(chip, cells) ==
  IF chip.wip \/ ~chip.wel THEN [chip EXCEPT !.lost = TRUE]
  ELSE [chip EXCEPT !.cells = cells, !.wip = TRUE]

PageProgram(chip, addr, buffer) ==
  Begin(chip, [a \in Cells |->
    IF PageTop(a) = PageTop(addr) THEN Programmed(chip.cells[a], buffer[Source(addr, a)])
    ELSE chip.cells[a]])

BlockErase(chip, addr, size) ==
  Begin(chip, [a \in Cells |->
    IF a \div size = addr \div size THEN FF ELSE chip.cells[a]])

BulkErase(chip) == Begin(chip, [a \in Cells |-> FF])

\* The operation in progress ends.
Finish(chip) == [chip EXCEPT !.wip = FALSE, !.wel = FALSE]
=============================================================================
