----------------------------- MODULE SpiStream -----------------------------
(***************************************************************************)
(* XLS2 and XLS3 in the build without DDR memory (INTERNAL_MEMORY_ONLY = 1, *)
(* dgmodul4.c): the blocks of the typed size are erased, then the image is *)
(* received into two page buffers in turn.  A full buffer is programmed    *)
(* without waiting for the flash, which is busy while the other fills; the *)
(* wait is before the next program.                                        *)
(*                                                                         *)
(* XLS3 receives size bytes.  XLS2 receives S-records: bytes with gaps in  *)
(* between (a record at another address than the last one ended at), then  *)
(* an end record.  Times are those of the serial line, so the end record   *)
(* may come while the flash is still busy.                                 *)
(***************************************************************************)
EXTENDS NorFlash, FiniteSets

CONSTANTS
  Block,     \* cells of a parameter sector (4 KB)
  Reserved,  \* cells at the end where no image may start (0x8000 bytes)
  Space,     \* cells an address can tell apart (2^32 bytes)
  ImageMax,  \* bound: the last offset of an image, and the size typed
  Patient    \* the sender gives the flash time before the end record

\* What the constants must satisfy: assumed by the module that gives them values.
StreamAssumption ==
  /\ Block \in Nat \ {0} /\ Block % Page = 0 /\ FlashSize % Block = 0
  /\ Reserved \in 0..(FlashSize - 1) /\ ImageMax \in Nat
  /\ Space \in Nat /\ Space % FlashSize = 0 /\ Space > FlashSize + ImageMax
  /\ Patient \in BOOLEAN

LastAddress == FlashSize - Reserved - 1  \* gQspi_end_addess

\* Cell a as it was, datum i of the image, a byte an earlier page left in a buffer.
Was(a)   == <<"was", a>>
Image(i) == <<"image", i>>
Stale    == <<"stale">>

VARIABLES
  pc,       \* "idle", or the next step
  op,       \* the command: [kind, start, size]
  outcome,  \* "none", "complete" or "refused"
  chip,     \* the flash
  sectorAd, \* the next block to erase
  buffers,  \* the two page buffers in LS_WORK_DRAM_SADD
  bufferIndex, readCount, \* the one being filled and how far
  address,  \* spiAddr, prgSpiStartAdd: where the buffer goes
  offset,   \* loop; or prevLoadAddress less the program top address
  shown,    \* PrgSpiEndAdd as displayed, or Undefined
  sent,     \* history: the offsets received
  ended,    \* history: the image was received to its end
  gapped,   \* history: a gap that is not of whole pages between whole pages
  before    \* history: the cells when the command began
stream == <<buffers, bufferIndex, readCount, address, offset, sent, gapped>>
vars == <<pc, op, outcome, chip, sectorAd, shown, ended, before, stream>>

Undefined == Space
NoOp == [kind |-> "none", start |-> 0, size |-> 0]
EmptyBuffers == [b \in {0, 1} |-> [i \in 0..(Page - 1) |-> Stale]]

Reset ==
  /\ buffers = EmptyBuffers /\ bufferIndex = 0 /\ readCount = 0
  /\ address = 0 /\ offset = 0 /\ sent = {} /\ gapped = FALSE

Init ==
  /\ pc = "idle" /\ op = NoOp /\ outcome = "none"
  /\ chip = Chip([a \in Cells |-> Was(a)], Block)
  /\ sectorAd = 0 /\ shown = 0 /\ ended = FALSE /\ before = chip.cells
  /\ Reset

-----------------------------------------------------------------------------
(* Faulty variants of definitions below, each of which breaks a property.  *)

Busy_Ignored == FALSE
EraseStop_OffByOne(o) == (o.start + o.size) - ((o.start + o.size) % Block)
Reached_Count == (address + readCount) % Space

-----------------------------------------------------------------------------
(* The command and the erase.                                              *)

BlockTop(a) == a - (a % Block)

\* When a command is typed the buffers hold whatever was there, and so does the
\* flash: a blank cell of it counts as a datum, which is the worse case.
Type(kind, start, size) ==
  LET cells == [a \in Cells |-> Was(a)] IN
  /\ pc = "idle" /\ ~chip.wip
  /\ op' = [kind |-> kind, start |-> start, size |-> size]
  /\ chip' = [chip EXCEPT !.cells = cells, !.lost = FALSE] /\ before' = cells
  /\ buffers' = EmptyBuffers /\ bufferIndex' = 0 /\ readCount' = 0
  /\ address' = start /\ offset' = 0 /\ sent' = {} /\ gapped' = FALSE
  /\ sectorAd' = BlockTop(start) /\ shown' = 0 /\ ended' = FALSE
  /\ IF start > LastAddress THEN pc' = "idle" /\ outcome' = "refused"
     ELSE pc' = "erase" /\ outcome' = "none"

\* After XLS3 the flash may be busy still, and then does not answer to its ID.
TypeEarly ==
  /\ pc = "idle" /\ chip.wip /\ outcome' = "refused"
  /\ UNCHANGED <<pc, op, chip, sectorAd, shown, ended, before, stream>>

\* ParameterSectorEraseQspiFlash.  The end of no bytes at address 0 is the last
\* address there is, and the block after the last one is block 0 again.
EraseStop(o) == BlockTop((o.start + o.size - 1) % Space)
NextBlock == (sectorAd + Block) % Space
EraseBlock ==
  /\ pc = "erase"
  /\ IF sectorAd <= EraseStop(op)
     THEN /\ chip' = BlockErase(WriteEnable(chip), sectorAd % FlashSize, Block)
          /\ sectorAd' = NextBlock /\ pc' = "erasing"
     ELSE pc' = "receive" /\ UNCHANGED <<chip, sectorAd>>
  /\ UNCHANGED <<op, outcome, shown, ended, before, stream>>
Busy == chip.wip
ErasePoll ==
  /\ pc = "erasing" /\ ~Busy /\ pc' = "erase"
  /\ UNCHANGED <<op, outcome, chip, sectorAd, shown, ended, before, stream>>

-----------------------------------------------------------------------------
(* The image.                                                              *)

\* The buffer that is filled after this one.
Other == 1 - bufferIndex

\* One byte.  XLS3 knows from its count when the image ends.
Receive ==
  /\ pc = "receive" /\ offset < ImageMax
  /\ op.kind = "XLS3" => offset < op.size
  /\ buffers' = [buffers EXCEPT ![bufferIndex][readCount] = Image(offset)]
  /\ readCount' = readCount + 1 /\ offset' = offset + 1
  /\ sent' = sent \cup {offset}
  /\ pc' = IF readCount + 1 = Page THEN "full" ELSE "receive"
  /\ UNCHANGED <<op, outcome, chip, sectorAd, bufferIndex, address, shown, ended, gapped, before>>

\* PageProgramWithBuffeQspiFlashNoWait of the buffer.
ProgramNoWait == chip' = PageProgram(WriteEnable(chip), address % FlashSize, buffers[bufferIndex])

Full ==
  /\ pc = "full" /\ ~Busy /\ ProgramNoWait
  /\ address' = address + Page /\ bufferIndex' = Other /\ readCount' = 0
  /\ pc' = "receive"
  /\ UNCHANGED <<op, outcome, sectorAd, buffers, offset, shown, sent, ended, gapped, before>>

\* XLS2: a record further on.  What the buffer holds is programmed as a page
\* filled up with FF.
Gap(gap) ==
  LET filled == [i \in 0..(Page - 1) |->
                   IF i < readCount THEN buffers[bufferIndex][i] ELSE FF] IN
  /\ pc = "receive" /\ op.kind = "XLS2" /\ offset + gap < ImageMax /\ ~Busy
  /\ IF readCount > 0
     THEN /\ chip' = PageProgram(WriteEnable(chip), address % FlashSize, filled)
          /\ buffers' = [buffers EXCEPT ![bufferIndex] = filled]
     ELSE UNCHANGED <<chip, buffers>>
  /\ address' = address + readCount + gap /\ offset' = offset + gap
  /\ bufferIndex' = Other /\ readCount' = 0
  /\ gapped' = (gapped \/ readCount > 0 \/ gap % Page # 0)
  /\ UNCHANGED <<pc, op, outcome, sectorAd, shown, sent, ended, before>>

\* XLS3: the rest of the image is programmed, and not waited for.
Reached == (address + readCount - 1) % Space
EndBinary ==
  /\ pc = "receive" /\ op.kind = "XLS3" /\ offset = op.size
  /\ IF readCount > 0 THEN ~Busy /\ ProgramNoWait ELSE UNCHANGED chip
  /\ pc' = "idle" /\ outcome' = "complete" /\ shown' = Reached /\ ended' = TRUE
  /\ UNCHANGED <<op, sectorAd, before, stream>>

\* XLS2: the end record.  SaveDataWithBuffeQspiFlash programs what the buffer
\* holds: this write does not wait for the flash first, only afterwards.
EndRecord ==
  /\ pc = "receive" /\ op.kind = "XLS2" /\ (Patient => ~chip.wip)
  /\ IF readCount > 0 THEN ProgramNoWait /\ pc' = "saving" ELSE pc' = "done" /\ UNCHANGED chip
  /\ shown' = Reached /\ ended' = TRUE
  /\ UNCHANGED <<op, outcome, sectorAd, before, stream>>
Saving ==
  /\ pc = "saving" /\ ~Busy /\ pc' = "done"
  /\ UNCHANGED <<op, outcome, chip, sectorAd, shown, ended, before, stream>>

\* XLS2: a dot in place of a record.  Its return code is not looked at, and the
\* end address that is displayed was never set.
Stop ==
  /\ pc = "receive" /\ op.kind = "XLS2" /\ shown' = Undefined /\ pc' = "done"
  /\ UNCHANGED <<op, outcome, chip, sectorAd, ended, before, stream>>

Done ==
  /\ pc = "done" /\ pc' = "idle" /\ outcome' = "complete"
  /\ UNCHANGED <<op, chip, sectorAd, shown, ended, before, stream>>

Ready ==
  /\ chip.wip /\ chip' = Finish(chip)
  /\ UNCHANGED <<pc, op, outcome, sectorAd, shown, ended, before, stream>>

-----------------------------------------------------------------------------
Sender ==
  \/ \E kind \in {"XLS2", "XLS3"}, start \in Cells, size \in 0..ImageMax: Type(kind, start, size)
  \/ TypeEarly \/ Receive \/ Stop \/ EndRecord
  \/ \E gap \in 1..ImageMax: Gap(gap)
Driver == EraseBlock \/ ErasePoll \/ Full \/ EndBinary \/ Saving \/ Done

Next == Sender \/ Driver \/ Ready

Spec == Init /\ [][Next]_vars

-----------------------------------------------------------------------------
(* Properties.                                                             *)

\* The bytes received lie inside the flash and inside the blocks that were erased.
Fits == offset <= op.size /\ op.start + op.size <= FlashSize
Saved == \A i \in sent: chip.cells[op.start + i] = Image(i)
Written == pc = "idle" /\ outcome = "complete" /\ ended /\ ~chip.wip /\ Fits

\* Two buffers are enough: no program is sent to a busy flash and no buffer is
\* overwritten before it is programmed, so when the command is complete and the
\* flash ready the image is there (from the start of a page and without gaps).
\* The "SpiFlashMemory End Address" displayed is that of the last byte received.
\* Blocks other than those of the typed size are neither erased nor programmed
\* (but no bytes at address 0 erase everything).
ImageSaved ==
  /\ Written /\ op.start % Page = 0 /\ ~gapped => Saved
  /\ outcome = "complete" /\ ended => shown = (op.start + offset - 1) % Space
  /\ Fits /\ op.size > 0 /\ op.start % Page = 0 /\ ~gapped =>
       \A a \in Cells:
         BlockTop(a) \notin BlockTop(op.start)..(op.start + op.size - 1) => chip.cells[a] = before[a]

\* "Write the S-record format images to the Serial Flash" (README.md:180): the
\* image is there when XLS2 is complete, although nothing waits for the flash
\* before the last page.
LastPageSaved == Written /\ op.start % Page = 0 /\ ~gapped /\ op.kind = "XLS2" => Saved
=============================================================================
