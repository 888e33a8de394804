----------------------------- MODULE SpiProofs -----------------------------
(***************************************************************************)
(* Proofs about the SPI flash commands in both builds, for every size of   *)
(* the flash, its sectors or blocks and its pages: SpiWrite, and at the    *)
(* end SpiStream, whose names have the prefix Stream.                      *)
(***************************************************************************)
EXTENDS MC_Spi, Arithmetic, TLAPS

-----------------------------------------------------------------------------
(* The inductive invariant.                                                *)

Steps == {"idle", "prompt", "check", "ask", "parameter", "unit", "run", "wait"}
Data ==
  {FF, Mixed, BootSize, Signature} \cup {Was(a): a \in Cells}
    \cup {Image(i): i \in 0..(ImageMax - 1)}
Loops ==
  [do: {"erase", "bulk"}, at: Nat, stop: Nat, from: {"none"}]
    \cup [do: {"program"}, at: Nat, stop: Nat, from: {"ram", "image"}]

\* Every variable has its type.
TypeOK ==
  /\ pc \in Steps
  /\ op \in [kind: Kinds \cup {"none"}, start: Cells, size: 0..ImageMax]
  /\ outcome \in {"none", "complete", "refused", "declined"}
  /\ chip \in [cells: [Cells -> Data], wel: BOOLEAN, wip: BOOLEAN,
               unit: {Page, Sector}, lost: BOOLEAN]
  /\ known \in BOOLEAN
  /\ ram \in [Cells -> Data]
  /\ jobs \in Seq(Loops)
  /\ before \in [Cells -> Data]
  /\ consent \in BOOLEAN

\* The driver polls: the flash is busy only while it waits.
Polling == ~chip.lost /\ (chip.wip => pc = "wait")

\* Which commands get where, and with whose consent.
Writing == pc \in {"unit", "run", "wait"}
Route ==
  /\ pc \in {"prompt", "check"} => op.kind = "XLS"
  /\ pc = "ask" => op.kind \in {"XLS", "XCS"}
  /\ pc = "parameter" => op.kind \in {"XINFO_BP", "XINFO_BP_S"}
  /\ pc = "unit" => op.kind \in {"XLS", "XINFO_BP_S"} /\ consent
  /\ Writing => op.kind \in {"XLS", "XCS", "XINFO_BP_S"} /\ (op.kind # "XLS" => consent)
  /\ ~Writing /\ pc # "idle" => ~consent /\ jobs = <<>>

\* An image lies in front of the reserved cells.
InRange ==
  op.kind = "XLS" /\ pc \in {"check", "ask", "unit", "run", "wait"} =>
    End(op) = op.start + op.size - 1 /\ End(op) \in 0..LastAddress

\* What is restored is what was there, and what XINFO_BP_S changes.
Copied ==
  /\ op.kind = "XLS" /\ pc \in {"ask", "unit", "run", "wait"} => ram = before
  /\ op.kind = "XINFO_BP_S" /\ Writing =>
       ram = [before EXCEPT ![0] = BootSize, ![SignatureAt] = Signature]

\* Before the first erase or program the flash is as it was.
Untouched == pc \notin {"idle", "run", "wait"} => chip.cells = before

\* Whole sectors are erased at once.
WholeSectors ==
  pc \in {"run", "wait"} /\ op.kind \in {"XLS", "XINFO_BP_S"} /\ consent => chip.unit = Sector

\* The loops of XLS: the first one is under way, at some cell, and the others
\* are to come.  TailStart is where the cells behind the image begin.
TailStart == ClearEnd(op) + 1 - DeltaE(op)
Continues(j, p) == j.do = p.do /\ j.stop = p.stop /\ j.from = p.from
Aligned == op.start % Page = 0
ImageLoops ==
  op.kind = "XLS" /\ Writing =>
    /\ Len(jobs) \in 0..4 /\ (~consent => Len(jobs) \in 0..1)
    /\ pc = "unit" => jobs[1].at = ClearStart(op) /\ Len(jobs) = 4
    /\ Len(jobs) = 4 =>
         /\ Continues(jobs[1], Erase(ClearStart(op), ClearEnd(op)))
         /\ jobs[2] = RestoreHead(op) /\ jobs[3] = RestoreTail(op) /\ jobs[4] = Body(op)
         /\ jobs[1].at % Sector = 0 /\ jobs[1].at \in ClearStart(op)..(ClearEnd(op) + 1)
    /\ Len(jobs) = 3 =>
         /\ Continues(jobs[1], RestoreHead(op))
         /\ jobs[2] = RestoreTail(op) /\ jobs[3] = Body(op)
         /\ jobs[1].at % Page = 0 /\ jobs[1].at >= ClearStart(op)
         /\ Aligned => jobs[1].at <= op.start
    /\ Len(jobs) = 2 =>
         /\ Continues(jobs[1], RestoreTail(op)) /\ jobs[2] = Body(op)
         /\ jobs[1].at % Page = 0 /\ jobs[1].at \in TailStart..(ClearEnd(op) + 1)
    /\ Len(jobs) = 1 =>
         /\ Continues(jobs[1], Body(op))
         /\ jobs[1].at >= op.start
         /\ Aligned => jobs[1].at % Page = 0 /\ jobs[1].at <= TailStart

\* The loops of XINFO_BP_S and of XCS.
OtherLoops ==
  /\ op.kind = "XINFO_BP_S" /\ Writing =>
       /\ Len(jobs) \in 0..2
       /\ pc = "unit" => Len(jobs) = 2 /\ jobs[1].at = 0
       /\ Len(jobs) = 2 =>
            /\ Continues(jobs[1], Erase(0, Sector - 1)) /\ jobs[2] = Save(0, Sector, "ram")
            /\ jobs[1].at % Sector = 0 /\ jobs[1].at \in 0..Sector
       /\ Len(jobs) = 1 =>
            /\ Continues(jobs[1], Save(0, Sector, "ram"))
            /\ jobs[1].at % Page = 0 /\ jobs[1].at \in 0..Sector
  /\ op.kind = "XCS" /\ Writing =>
       /\ Len(jobs) \in 0..1
       /\ Len(jobs) = 1 => jobs[1].do = "bulk" /\ jobs[1].stop = 1 /\ jobs[1].from = "none"

\* The contents of the flash at every step of the loops of XLS: cells of the
\* sectors that are erased, restored in front of the image, restored behind it,
\* and programmed with the image, up to where the loop is.
InSectors(a) == a \in ClearStart(op)..ClearEnd(op)
BodyOf(a) == IF a < op.start + op.size THEN Image(a - op.start) ELSE FF
ImageCells ==
  op.kind = "XLS" /\ Writing /\ Aligned =>
    /\ \A a \in Cells: ~InSectors(a) => chip.cells[a] = before[a]
    /\ Len(jobs) = 4 => \A a \in Cells: InSectors(a) =>
         chip.cells[a] = IF a < jobs[1].at THEN FF ELSE before[a]
    /\ Len(jobs) = 3 => \A a \in Cells: InSectors(a) =>
         chip.cells[a] = IF a < jobs[1].at THEN before[a] ELSE FF
    /\ Len(jobs) = 2 => \A a \in Cells: InSectors(a) =>
         chip.cells[a] = IF a < op.start \/ a \in TailStart..(jobs[1].at - 1) THEN before[a] ELSE FF
    /\ Len(jobs) = 1 => \A a \in Cells: InSectors(a) =>
         chip.cells[a] = IF a < op.start \/ TailStart <= a THEN before[a]
                         ELSE IF a < jobs[1].at THEN BodyOf(a) ELSE FF
    /\ Len(jobs) = 0 => \A a \in Cells: InSectors(a) =>
         chip.cells[a] = IF a < op.start \/ TailStart <= a THEN before[a] ELSE BodyOf(a)

\* The contents at every step of the loops of XINFO_BP_S and of XCS.
OtherCells ==
  /\ op.kind = "XINFO_BP_S" /\ Writing =>
       /\ \A a \in Cells: a >= Sector => chip.cells[a] = before[a]
       /\ Len(jobs) = 2 => \A a \in Cells: a < Sector =>
            chip.cells[a] = IF a < jobs[1].at THEN FF ELSE before[a]
       /\ Len(jobs) = 1 => \A a \in Cells: a < Sector =>
            chip.cells[a] = IF a < jobs[1].at THEN ram[a] ELSE FF
       /\ Len(jobs) = 0 => \A a \in Cells: a < Sector => chip.cells[a] = ram[a]
  /\ op.kind = "XCS" /\ Writing /\ (Len(jobs) = 1 => jobs[1].at >= 1) =>
       \A a \in Cells: chip.cells[a] = FF

\* In blank sectors the image is written without asking.
NotAsked ==
  op.kind = "XLS" /\ pc \in {"run", "wait"} /\ ~consent =>
    \A a \in Cells: InSectors(a) => before[a] = FF

IInv ==
  /\ TypeOK /\ Polling /\ Route /\ InRange /\ Copied /\ Untouched /\ WholeSectors
  /\ ImageLoops /\ OtherLoops /\ ImageCells /\ OtherCells /\ NotAsked
  /\ ConsentGiven /\ CompleteMeansDone /\ NeighboursKept

-----------------------------------------------------------------------------
(* The sizes, and where an image lies.                                     *)

LEMMA Sizes ==
  /\ Page \in Nat \ {0} /\ Sector \in Nat \ {0} /\ Word \in Nat \ {0}
  /\ Sector % Page = 0 /\ FlashSize % Sector = 0 /\ FlashSize % Page = 0
  /\ Sector >= 2 * Page /\ FlashSize \in Nat \ {0} /\ FlashSize >= Sector
  /\ Reserved \in Nat /\ LastAddress \in Cells /\ 0 \in Cells
  /\ ImageMax \in Nat /\ Space \in Nat /\ Space > FlashSize + ImageMax
  /\ SignatureAt \in Cells /\ SignatureAt < Sector
  /\ Units \subseteq {Page, Sector}
<1>1. /\ Page \in Nat \ {0} /\ Sector \in Nat \ {0} /\ Word \in Nat \ {0}
      /\ Page % Word = 0
      /\ Sector % Page = 0 /\ FlashSize % Sector = 0 /\ FlashSize % Page = 0
      /\ Sector >= 2 * Page /\ FlashSize \in Nat /\ ImageMax \in Nat
      /\ Reserved \in 0..(FlashSize - 1) /\ Space \in Nat /\ Space > FlashSize + ImageMax
      /\ Units \subseteq {Page, Sector}
  BY FlashAssumption, SizesAssumption
<1>2. FlashSize > 0 /\ Reserved \in Nat /\ 0 \in Int
  BY <1>1
<1>3. 0 + Sector <= FlashSize
  <2>1. 0 % Sector = 0
    BY <1>1, OwnRest, 0 \in 0..(Sector - 1)
  <2> QED
    BY <2>1, <1>1, <1>2, NextMultiple
<1>4. 0 + Word <= Page
  <2>1. 0 % Word = 0
    BY <1>1, OwnRest, 0 \in 0..(Word - 1)
  <2> QED
    BY <2>1, <1>1, NextMultiple
<1>5. SignatureAt \in Cells /\ SignatureAt < Sector
  <2>1. 2 * Page - Word \in Int /\ 2 * Page - Word >= 0 /\ 2 * Page - Word < Sector
    BY <1>1, <1>4
  <2> QED
    BY <2>1, <1>1, <1>3 DEF SignatureAt, Cells
<1>6. LastAddress \in Cells /\ 0 \in Cells
  BY <1>1, <1>2 DEF LastAddress, Cells
<1> QED
  BY <1>1, <1>2, <1>3, <1>5, <1>6

\* The sector of a cell and the page of a number.
LEMMA SectorOf ==
  ASSUME NEW a \in Nat, a < FlashSize
  PROVE  /\ SectorTop(a) \in Nat /\ SectorTop(a) % Sector = 0
         /\ SectorTop(a) <= a /\ a < SectorTop(a) + Sector /\ SectorTop(a) + Sector <= FlashSize
<1>1. /\ a \in Int /\ Sector \in Nat \ {0} /\ FlashSize \in Int /\ FlashSize % Sector = 0
      /\ 0 \in Int /\ 0 \in 0..(Sector - 1)
  BY Sizes
<1>2. 0 % Sector = 0
  BY <1>1, OwnRest
<1>3. /\ SectorTop(a) \in Int /\ SectorTop(a) % Sector = 0
      /\ SectorTop(a) <= a /\ a < SectorTop(a) + Sector
  BY <1>1, TopOf DEF SectorTop
<1>4. 0 <= SectorTop(a)
  BY <1>1, <1>2, BlockWithin DEF SectorTop
<1>5. SectorTop(a) + Sector <= FlashSize
  BY <1>1, BlockWithin DEF SectorTop
<1> QED
  BY <1>3, <1>4, <1>5

LEMMA PageOf ==
  ASSUME NEW a \in Nat
  PROVE  /\ PageTop(a) \in Nat /\ PageTop(a) % Page = 0
         /\ PageTop(a) <= a /\ a < PageTop(a) + Page
<1>1. a \in Int /\ Page \in Nat \ {0} /\ 0 \in Int /\ 0 \in 0..(Page - 1)
  BY Sizes
<1>2. 0 % Page = 0
  BY <1>1, OwnRest
<1>3. /\ PageTop(a) \in Int /\ PageTop(a) % Page = 0
      /\ PageTop(a) <= a /\ a < PageTop(a) + Page
  BY <1>1, TopOf DEF PageTop
<1>4. 0 <= PageTop(a)
  BY <1>1, <1>2, BlockWithin DEF PageTop
<1> QED
  BY <1>3, <1>4

\* The cells of the page and of the sector at t.
LEMMA PageIs ==
  ASSUME NEW t \in Nat, t % Page = 0, NEW a \in Nat
  PROVE  /\ PageTop(t) = t
         /\ PageTop(a) = t <=> t <= a /\ a < t + Page
         /\ t <= a /\ a < t + Page => Source(t, a) = a - t
<1>1. Page \in Nat \ {0} /\ t \in Int /\ a \in Int
  BY Sizes
<1>2. t - (t % Page) = t
  BY <1>1
<1>3. a - (a % Page) = t <=> t <= a /\ a < t + Page
  BY <1>1, InBlock
<1>4. ASSUME t <= a, a < t + Page
      PROVE  (a - t) % Page = a - t
  BY <1>1, <1>4, OwnRest, a - t \in 0..(Page - 1)
<1> QED
  BY <1>2, <1>3, <1>4 DEF PageTop, Source

LEMMA SectorIs ==
  ASSUME NEW t \in Nat, t % Sector = 0, NEW a \in Nat
  PROVE  /\ SectorTop(t) = t
         /\ SectorTop(a) = t <=> t <= a /\ a < t + Sector
         /\ a \div Sector = t \div Sector <=> t <= a /\ a < t + Sector
<1>1. Sector \in Nat \ {0} /\ t \in Int /\ a \in Int
  BY Sizes
<1>2. t - (t % Sector) = t
  BY <1>1
<1>3. a - (a % Sector) = t <=> t <= a /\ a < t + Sector
  BY <1>1, InBlock
<1>4. a \div Sector = t \div Sector <=> t <= a /\ a < t + Sector
  BY <1>1, InBlock
<1> QED
  BY <1>2, <1>3, <1>4 DEF SectorTop

\* The sectors of an image, and the pages behind it.
LEMMA Geometry ==
  ASSUME op.start \in Cells, op.size \in 0..ImageMax,
         End(op) = op.start + op.size - 1, End(op) \in 0..LastAddress
  PROVE  /\ ClearStart(op) \in Nat /\ ClearStart(op) % Sector = 0 /\ ClearStart(op) % Page = 0
         /\ ClearStart(op) <= op.start /\ op.start < ClearStart(op) + Sector
         /\ ClearStart(op) + DeltaS(op) = op.start
         /\ ClearEnd(op) \in Nat /\ ClearEnd(op) < FlashSize
         /\ (ClearEnd(op) + 1) % Sector = 0 /\ (ClearEnd(op) + 1) % Page = 0
         /\ SectorTop(ClearEnd(op)) = ClearEnd(op) + 1 - Sector
         /\ SectorTop(ClearStart(op)) = ClearStart(op)
         /\ ClearStart(op) <= ClearEnd(op) + 1
         /\ TailStart \in Nat /\ TailStart % Page = 0 /\ TailStart <= ClearEnd(op) + 1
         /\ op.start + op.size <= TailStart /\ TailStart < op.start + op.size + Page
<1> DEFINE cs == ClearStart(op)
           e  == End(op)
           ce == ClearEnd(op)
<1>s. /\ Page \in Nat \ {0} /\ Sector \in Nat \ {0} /\ FlashSize \in Nat
      /\ Sector % Page = 0 /\ FlashSize % Sector = 0 /\ LastAddress \in Nat /\ ImageMax \in Nat
      /\ LastAddress < FlashSize /\ op.start \in Nat /\ op.size \in Nat /\ e \in Nat
  BY Sizes DEF Cells
<1>1. /\ cs \in Nat /\ cs % Sector = 0 /\ cs <= op.start /\ op.start < cs + Sector
  <2>1. op.start < FlashSize
    BY <1>s DEF Cells
  <2> QED
    BY <2>1, <1>s, SectorOf DEF ClearStart
<1>3. 0 <= cs
  BY <1>1
<1>4. /\ SectorTop(e) \in Nat /\ SectorTop(e) % Sector = 0
      /\ SectorTop(e) <= e /\ e < SectorTop(e) + Sector
      /\ SectorTop(e) + Sector <= FlashSize
  <2>1. e < FlashSize
    BY <1>s
  <2> QED
    BY <2>1, <1>s, SectorOf
<1>6. ce = SectorTop(e) + Sector - 1
  BY DEF ClearEnd, SectorBottom
<1>7. Sector % Sector = 0
  BY <1>s, TimesIsMultiple, Sector * 1 = Sector
<1>8. (ce + 1) % Sector = 0 /\ ce \in Nat /\ ce < FlashSize
  <2>1. ce + 1 = SectorTop(e) + Sector /\ ce \in Nat /\ ce < FlashSize
    BY <1>4, <1>6, <1>s
  <2> QED
    BY <2>1, <1>4, <1>7, <1>s, MultiplesAdd
<1>9. SectorTop(ce) = ce + 1 - Sector
  <2>1. SectorTop(e) <= ce /\ ce < SectorTop(e) + Sector
    BY <1>4, <1>6, <1>8, <1>s
  <2>2. SectorTop(ce) = SectorTop(e)
    BY <2>1, <1>4, <1>8, SectorIs
  <2> QED
    BY <2>2, <1>4, <1>6, <1>s
<1>10. SectorTop(cs) = cs
  BY <1>1, SectorIs
<1>11. (ce + 1) % Page = 0 /\ cs % Page = 0
  <2>1. ce + 1 \in Int
    BY <1>8
  <2> QED
    BY <2>1, <1>8, <1>1, <1>s, MultipleOfMultiple
<1>12. cs <= ce + 1
  BY <1>1, <1>4, <1>6, <1>s
<1>13. cs + DeltaS(op) = op.start
  BY <1>1, <1>s DEF DeltaS
<1> DEFINE d == ce - e
<1>14. d \in Int /\ 0 <= d
  BY <1>4, <1>6, <1>8, <1>s
<1>15. /\ PageTop(d) \in Int /\ PageTop(d) % Page = 0 /\ 0 <= PageTop(d)
       /\ PageTop(d) <= d /\ d < PageTop(d) + Page
  BY <1>14, PageOf
<1>16. TailStart = ce + 1 - PageTop(d)
  BY DEF TailStart, DeltaE
<1>17. TailStart % Page = 0
  BY <1>16, <1>15, <1>11, <1>8, <1>s, MultiplesAdd
<1> HIDE DEF cs, ce, e
<1>18. TailStart \in Nat /\ TailStart <= ce + 1 /\ e + 1 <= TailStart /\ TailStart < e + 1 + Page
  BY <1>16, <1>15, <1>14, <1>8, <1>s
<1>19. e + 1 = op.start + op.size
  BY <1>s DEF e
<1> QED
  BY <1>1, <1>3, <1>8, <1>9, <1>10, <1>11, <1>12, <1>13, <1>17, <1>18, <1>19, <1>s DEF cs, ce

\* The loops of XLS, with their cells.
LEMMA LoopsAre ==
  ASSUME op.start \in Cells, op.size \in 0..ImageMax,
         End(op) = op.start + op.size - 1, End(op) \in 0..LastAddress
  PROVE  /\ Erase(ClearStart(op), ClearEnd(op)) =
              [do |-> "erase", at |-> ClearStart(op), stop |-> ClearEnd(op) + 2 - Sector, from |-> "none"]
         /\ RestoreHead(op) =
              [do |-> "program", at |-> ClearStart(op), stop |-> op.start, from |-> "ram"]
         /\ RestoreTail(op) =
              [do |-> "program", at |-> TailStart, stop |-> ClearEnd(op) + 1, from |-> "ram"]
         /\ Body(op) =
              [do |-> "program", at |-> op.start, stop |-> op.start + op.size, from |-> "image"]
         /\ Erase(ClearStart(op), ClearEnd(op)) \in Loops
         /\ RestoreHead(op) \in Loops /\ RestoreTail(op) \in Loops /\ Body(op) \in Loops
<1>1. /\ ClearStart(op) \in Nat /\ SectorTop(ClearStart(op)) = ClearStart(op)
      /\ ClearStart(op) + DeltaS(op) = op.start
      /\ ClearEnd(op) \in Nat /\ SectorTop(ClearEnd(op)) = ClearEnd(op) + 1 - Sector
      /\ TailStart \in Nat
  BY Geometry
<1>2. /\ op.start \in Nat /\ op.size \in Nat /\ Sector \in Nat
  BY Sizes DEF Cells
<1>3. ClearEnd(op) + 2 - Sector \in Nat
  <2>1. ClearEnd(op) < FlashSize
    BY Geometry
  <2>2. SectorTop(ClearEnd(op)) \in Nat
    BY <2>1, <1>1, SectorOf
  <2> QED
    BY <2>2, <1>1, <1>2
<1>4. SectorTop(ClearEnd(op)) + 1 = ClearEnd(op) + 2 - Sector
  BY <1>1, <1>2
<1> QED
  BY <1>1, <1>2, <1>3, <1>4 DEF Erase, Save, RestoreHead, RestoreTail, Body, Loops, TailStart

LEMMA InfoLoopsAre ==
  /\ Erase(0, Sector - 1) = [do |-> "erase", at |-> 0, stop |-> 1, from |-> "none"]
  /\ Save(0, Sector, "ram") = [do |-> "program", at |-> 0, stop |-> Sector, from |-> "ram"]
  /\ Erase(0, Sector - 1) \in Loops /\ Save(0, Sector, "ram") \in Loops
<1>1. Sector \in Nat \ {0} /\ 0 \in 0..(Sector - 1) /\ 0 \in Nat /\ Sector - 1 \in Nat
  BY Sizes
<1>2. 0 % Sector = 0
  BY <1>1, OwnRest
<1>3. SectorTop(0) = 0 /\ SectorTop(Sector - 1) = 0
  BY <1>1, <1>2, SectorIs
<1> QED
  BY <1>1, <1>3 DEF Erase, Save, Loops

\* What an erase or a page program that is not ignored leaves.
NewCells(j) ==
  [a \in Cells |->
     CASE j.do = "erase" -> IF a \div chip.unit = j.at \div chip.unit THEN FF ELSE chip.cells[a]
       [] j.do = "bulk" -> FF
       [] j.do = "program" ->
            IF PageTop(a) = PageTop(j.at)
            THEN Programmed(chip.cells[a], Buffer(j.at, j.from)[Source(j.at, a)])
            ELSE chip.cells[a]]

\* The driver issues nothing while the flash is busy, so nothing is ignored.
LEMMA IssueIs ==
  ASSUME TypeOK, Polling, Issue
  PROVE  /\ pc = "run" /\ Len(jobs) \in Nat \ {0} /\ jobs[1] \in Loops
         /\ UNCHANGED <<op, outcome, known, ram, before, consent>>
         /\ jobs[1].at >= jobs[1].stop => jobs' = Tail(jobs) /\ UNCHANGED <<pc, chip>>
         /\ jobs[1].at < jobs[1].stop =>
              /\ pc' = "wait" /\ jobs' = [jobs EXCEPT ![1].at = Stride(jobs[1])]
              /\ chip' = [chip EXCEPT !.wel = TRUE, !.wip = TRUE, !.cells = NewCells(jobs[1])]
<1> DEFINE j == jobs[1]
           c == WriteEnable(chip)
<1>1. pc = "run" /\ jobs # <<>> /\ UNCHANGED <<op, outcome, known, ram, before, consent>>
  BY DEF Issue
<1>2. Len(jobs) \in Nat \ {0} /\ j \in Loops
  BY <1>1 DEF TypeOK
<1>3. chip.wip = FALSE /\ chip \in [cells: [Cells -> Data], wel: BOOLEAN, wip: BOOLEAN,
                                    unit: {Page, Sector}, lost: BOOLEAN]
  BY <1>1 DEF Polling, TypeOK
<1>4. c = [chip EXCEPT !.wel = TRUE]
  BY <1>3 DEF WriteEnable
<1>5. c.wip = FALSE /\ c.wel = TRUE /\ c.cells = chip.cells
  BY <1>3, <1>4
<1>6. \A cells: Begin(c, cells) = [chip EXCEPT !.wel = TRUE, !.wip = TRUE, !.cells = cells]
  BY <1>3, <1>4, <1>5 DEF Begin
<1>7. CASE j.at >= j.stop
  <2>1. jobs' = Tail(jobs) /\ UNCHANGED <<pc, chip>>
    BY <1>7 DEF Issue
  <2> QED
    BY <1>1, <1>2, <1>7, <2>1 DEF Loops
<1>8. CASE j.at < j.stop
  <2>1. ~(j.at >= j.stop)
    BY <1>2, <1>8 DEF Loops
  <2>2. /\ chip' = (CASE j.do = "erase"   -> BlockErase(c, j.at, chip.unit)
                      [] j.do = "bulk"    -> BulkErase(c)
                      [] j.do = "program" -> PageProgram(c, j.at, Buffer(j.at, j.from)))
        /\ jobs' = [jobs EXCEPT ![1].at = Stride(j)] /\ pc' = "wait"
    BY <2>1 DEF Issue
  <2>3. j.do \in {"erase", "bulk", "program"}
    BY <1>2 DEF Loops
  <2>4. CASE j.do = "erase"
    <3>1. chip' = Begin(c, [a \in Cells |->
             IF a \div chip.unit = j.at \div chip.unit THEN FF ELSE c.cells[a]])
      BY <2>2, <2>4 DEF BlockErase
    <3>2. NewCells(j) = [a \in Cells |->
             IF a \div chip.unit = j.at \div chip.unit THEN FF ELSE chip.cells[a]]
      BY <2>4 DEF NewCells
    <3>3. chip' = Begin(c, NewCells(j))
      BY <1>5, <3>1, <3>2
    <3> QED
      BY <1>1, <1>2, <1>6, <2>1, <2>2, <3>3
  <2>5. CASE j.do = "bulk"
    <3>1. chip' = BulkErase(c)
      BY <2>2, <2>5
    <3>2. NewCells(j) = [a \in Cells |-> FF]
      BY <2>5 DEF NewCells
    <3> QED
      BY <1>1, <1>2, <1>6, <2>1, <2>2, <3>1, <3>2 DEF BulkErase
  <2>6. CASE j.do = "program"
    <3>1. chip' = Begin(c, [a \in Cells |->
            IF PageTop(a) = PageTop(j.at)
            THEN Programmed(c.cells[a], Buffer(j.at, j.from)[Source(j.at, a)])
            ELSE c.cells[a]])
      BY <2>2, <2>6 DEF PageProgram
    <3>2. NewCells(j) = [a \in Cells |->
            IF PageTop(a) = PageTop(j.at)
            THEN Programmed(chip.cells[a], Buffer(j.at, j.from)[Source(j.at, a)])
            ELSE chip.cells[a]]
      BY <2>6 DEF NewCells
    <3>3. chip' = Begin(c, NewCells(j))
      BY <1>5, <3>1, <3>2
    <3> QED
      BY <1>1, <1>2, <1>6, <2>1, <2>2, <3>3
  <2> QED
    BY <2>3, <2>4, <2>5, <2>6
<1>9. j.at \in Nat /\ j.stop \in Nat
  BY <1>2 DEF Loops
<1> QED
  BY <1>7, <1>8, <1>9

\* One step of the loops: the first loop ends or goes on, the others stay.
LEMMA LoopsStep ==
  ASSUME TypeOK, Polling, Issue
  PROVE  /\ jobs' \in Seq(Loops)
         /\ jobs[1].at >= jobs[1].stop =>
              /\ Len(jobs') = Len(jobs) - 1
              /\ \A i \in 1..(Len(jobs) - 1): jobs'[i] = jobs[i + 1]
         /\ jobs[1].at < jobs[1].stop =>
              /\ Len(jobs') = Len(jobs)
              /\ jobs'[1].do = jobs[1].do /\ jobs'[1].stop = jobs[1].stop /\ jobs'[1].from = jobs[1].from
              /\ jobs'[1].at = Stride(jobs[1])
              /\ \A i \in 2..Len(jobs): jobs'[i] = jobs[i]
<1>1. jobs \in Seq(Loops) /\ Len(jobs) \in Nat \ {0} /\ jobs[1] \in Loops
  BY IssueIs DEF TypeOK
<1>2. jobs[1].at \in Nat /\ jobs[1].stop \in Nat /\ Stride(jobs[1]) \in Nat
  BY <1>1, Sizes, SMTT(20) DEF Loops, Stride
<1>3. CASE jobs[1].at >= jobs[1].stop
  <2>1. jobs' = Tail(jobs)
    BY <1>3, IssueIs
  <2> QED
    BY <1>1, <1>2, <1>3, <2>1
<1>4. CASE jobs[1].at < jobs[1].stop
  <2>1. jobs' = [jobs EXCEPT ![1].at = Stride(jobs[1])]
    BY <1>4, IssueIs
  <2>2. [jobs[1] EXCEPT !.at = Stride(jobs[1])] \in Loops
    BY <1>1, <1>2 DEF Loops
  <2>3. jobs' \in Seq(Loops) /\ Len(jobs') = Len(jobs)
    BY <1>1, <2>1, <2>2
  <2>4. jobs'[1] = [jobs[1] EXCEPT !.at = Stride(jobs[1])] /\ \A i \in 2..Len(jobs): jobs'[i] = jobs[i]
    BY <1>1, <2>1
  <2>5. /\ jobs'[1].do = jobs[1].do /\ jobs'[1].stop = jobs[1].stop /\ jobs'[1].from = jobs[1].from
        /\ jobs'[1].at = Stride(jobs[1])
    BY <1>1, <2>4 DEF Loops
  <2> QED
    BY <1>2, <1>4, <2>3, <2>4, <2>5
<1> QED
  BY <1>2, <1>3, <1>4

-----------------------------------------------------------------------------
(* Every variable keeps its type.                                          *)

LEMMA ContentsTyped ==
  /\ FF \in Data /\ BootSize \in Data /\ Signature \in Data /\ Mixed \in Data
  /\ \A a \in Cells: Was(a) \in Data
  /\ \A i \in 0..(ImageMax - 1): Image(i) \in Data
  /\ \A old \in Data, new \in Data: Programmed(old, new) \in Data
<1>1. FF \in Data /\ BootSize \in Data /\ Signature \in Data /\ Mixed \in Data
  BY DEF Data
<1>2. \A a \in Cells: Was(a) \in Data
  BY DEF Data
<1>3. \A i \in 0..(ImageMax - 1): Image(i) \in Data
  BY DEF Data
<1>4. \A old \in Data, new \in Data: Programmed(old, new) \in Data
  BY <1>1 DEF Programmed
<1> QED
  BY <1>1, <1>2, <1>3, <1>4

\* Only the loop that writes the image takes its data from it, behind its start.
LEMMA FromImage ==
  ASSUME TypeOK, Polling, Route, InRange, ImageLoops, OtherLoops, Issue,
         jobs[1].at < jobs[1].stop, jobs[1].from = "image"
  PROVE  op.kind = "XLS" /\ Len(jobs) = 1 /\ jobs[1].at >= op.start
<1>1. pc = "run" /\ Len(jobs) \in Nat \ {0} /\ op.kind \in {"XLS", "XCS", "XINFO_BP_S"}
  BY IssueIs DEF Route, Writing
<1>2. op.kind = "XINFO_BP_S" => FALSE
  BY <1>1, InfoLoopsAre DEF OtherLoops, Writing, Continues
<1>3. op.kind = "XCS" => FALSE
  BY <1>1 DEF OtherLoops, Writing
<1>4. ASSUME op.kind = "XLS" PROVE Len(jobs) = 1 /\ jobs[1].at >= op.start
  <2>1. /\ Erase(ClearStart(op), ClearEnd(op)).from = "none"
        /\ RestoreHead(op).from = "ram" /\ RestoreTail(op).from = "ram"
    BY DEF Erase, Save, RestoreHead, RestoreTail
  <2>2. Len(jobs) \in 1..4
    BY <1>1, <1>4 DEF ImageLoops, Writing
  <2>3. Len(jobs) # 2 /\ Len(jobs) # 3 /\ Len(jobs) # 4
    BY <1>1, <1>4, <2>1 DEF ImageLoops, Writing, Continues
  <2>4. Len(jobs) = 1
    BY <2>2, <2>3
  <2> QED
    BY <1>1, <1>4, <2>4 DEF ImageLoops, Writing
<1> QED
  BY <1>1, <1>2, <1>3, <1>4

LEMMA BufferTyped ==
  ASSUME TypeOK, NEW at \in Nat, NEW source \in {"ram", "image"},
         source = "image" => at >= op.start
  PROVE  \A i \in 0..(Page - 1): Buffer(at, source)[i] \in Data
<1> SUFFICES ASSUME NEW i \in 0..(Page - 1) PROVE Buffer(at, source)[i] \in Data
  OBVIOUS
<1>1. i \in Nat /\ at + i \in Nat /\ op.start \in Nat /\ op.size \in 0..ImageMax /\ ImageMax \in Nat
  BY Sizes DEF TypeOK, Cells
<1>2. CASE source = "ram"
  <2>1. Buffer(at, source)[i] = IF at + i \in Cells THEN ram[at + i] ELSE FF
    BY <1>2 DEF Buffer
  <2>2. ram \in [Cells -> Data] /\ FF \in Data
    BY ContentsTyped DEF TypeOK
  <2> QED
    BY <2>1, <2>2
<1>3. CASE source = "image"
  <2>1. Buffer(at, source)[i] = IF at + i < op.start + op.size THEN Image(at + i - op.start) ELSE FF
    BY <1>3 DEF Buffer
  <2>2. at + i < op.start + op.size => at + i - op.start \in 0..(ImageMax - 1)
    BY <1>1, <1>3
  <2> QED
    BY <2>1, <2>2, ContentsTyped
<1> QED
  BY <1>2, <1>3

LEMMA NewCellsTyped ==
  ASSUME TypeOK, Polling, Route, InRange, ImageLoops, OtherLoops, Issue,
         jobs[1].at < jobs[1].stop
  PROVE  NewCells(jobs[1]) \in [Cells -> Data]
<1> DEFINE j == jobs[1]
<1>1. j \in Loops /\ chip.cells \in [Cells -> Data]
  BY IssueIs DEF TypeOK
<1>2. SUFFICES ASSUME NEW a \in Cells PROVE NewCells(j)[a] \in Data
  BY DEF NewCells
<1>3. chip.cells[a] \in Data /\ FF \in Data
  BY <1>1, ContentsTyped
<1>4. CASE j.do = "erase"
  BY <1>3, <1>4 DEF NewCells
<1>5. CASE j.do = "bulk"
  BY <1>3, <1>5 DEF NewCells
<1>6. CASE j.do = "program"
  <2>1. j.at \in Nat /\ j.from \in {"ram", "image"}
    BY <1>1, <1>6 DEF Loops
  <2>2. Source(j.at, a) \in 0..(Page - 1)
    <3>1. a - j.at \in Int /\ Page \in Nat \ {0}
      BY <2>1, Sizes DEF Cells
    <3> QED
      BY <3>1, Divided DEF Source
  <2>3. Buffer(j.at, j.from)[Source(j.at, a)] \in Data
    BY <2>1, <2>2, FromImage, BufferTyped
  <2>4. Programmed(chip.cells[a], Buffer(j.at, j.from)[Source(j.at, a)]) \in Data
    BY <1>3, <2>3, ContentsTyped
  <2> QED
    BY <1>3, <1>6, <2>4 DEF NewCells
<1> QED
  BY <1>1, <1>4, <1>5, <1>6 DEF Loops

LEMMA SeqOfLoops ==
  \A a, b, c, d \in Loops:
    <<a>> \in Seq(Loops) /\ <<a, b>> \in Seq(Loops) /\ <<a, b, c, d>> \in Seq(Loops)
OBVIOUS

LEMMA TypeStep ==
  ASSUME TypeOK, Polling, Route, InRange, ImageLoops, OtherLoops, Next
  PROVE  TypeOK'
<1> DEFINE Chips == [cells: [Cells -> Data], wel: BOOLEAN, wip: BOOLEAN,
                     unit: {Page, Sector}, lost: BOOLEAN]
<1>0. \A c \in Chips, cells \in [Cells -> Data]: [c EXCEPT !.cells = cells] \in Chips
  OBVIOUS
<1>1. ASSUME NEW k \in Kinds, Type(k) PROVE TypeOK'
  <2> DEFINE cells == [a \in Cells |-> IF chip.cells[a] = FF THEN FF ELSE Was(a)]
  <2>1. cells \in [Cells -> Data]
    BY ContentsTyped
  <2>2. chip' = [chip EXCEPT !.cells = cells] /\ before' = cells
    BY <1>1 DEF Type
  <2>3. chip' \in Chips /\ before' \in [Cells -> Data]
    BY <2>1, <2>2, <1>0 DEF TypeOK
  <2>4. ram' \in [Cells -> Data]
    BY <1>1, ContentsTyped DEF Type
  <2>5. op' \in [kind: Kinds \cup {"none"}, start: Cells, size: 0..ImageMax]
    <3>1. 0 \in 0..ImageMax /\ 0 \in Cells
      BY Sizes
    <3>2. op' = [kind |-> k, start |-> 0, size |-> 0]
      BY <1>1 DEF Type, NoOp
    <3> QED
      BY <3>1, <3>2
  <2>6. pc' \in Steps /\ outcome' \in {"none", "complete", "refused", "declined"}
    BY <1>1 DEF Type, Return, Steps, Kinds
  <2>7. known' = known /\ jobs' = <<>> /\ consent' = FALSE
    BY <1>1 DEF Type
  <2>8. <<>> \in Seq(Loops)
    OBVIOUS
  <2> HIDE DEF cells
  <2> QED
    BY <2>3, <2>4, <2>5, <2>6, <2>7, <2>8 DEF TypeOK
<1>2. ASSUME NEW start \in Starts, NEW size \in 0..ImageMax, Answer(start, size) PROVE TypeOK'
  <2>1. op' \in [kind: Kinds \cup {"none"}, start: Cells, size: 0..ImageMax]
    BY <1>2 DEF Answer, TypeOK, Starts
  <2>2. pc' \in Steps /\ outcome' \in {"none", "complete", "refused", "declined"}
    BY <1>2 DEF Answer, Return, Steps, TypeOK
  <2> QED
    BY <1>2, <2>1, <2>2 DEF TypeOK, Answer
<1>3. ASSUME Stop PROVE TypeOK'
  BY <1>3 DEF Stop, Return, TypeOK, Steps
<1>4. ASSUME Yes PROVE TypeOK'
  <2>1. pc' \in Steps /\ outcome' \in {"none", "complete", "refused", "declined"} /\ consent' \in BOOLEAN
    BY <1>4 DEF Yes, Return, Steps, TypeOK
  <2>2. jobs' \in Seq(Loops)
    <3>1. ASSUME op.kind = "XLS" PROVE
            /\ Erase(ClearStart(op), ClearEnd(op)) \in Loops
            /\ RestoreHead(op) \in Loops /\ RestoreTail(op) \in Loops /\ Body(op) \in Loops
      BY <1>4, <3>1, LoopsAre DEF Yes, InRange, TypeOK
    <3>2. <<[do |-> "bulk", at |-> 0, stop |-> 1, from |-> "none"]>> \in Seq(Loops)
      BY SeqOfLoops DEF Loops
    <3>3. jobs \in Seq(Loops)
      BY DEF TypeOK
    <3>4. op.kind = "XLS" =>
            <<Erase(ClearStart(op), ClearEnd(op)), RestoreHead(op), RestoreTail(op), Body(op)>> \in Seq(Loops)
      BY <3>1, SeqOfLoops
    <3> QED
      BY <1>4, <3>2, <3>3, <3>4 DEF Yes
  <2> QED
    BY <1>4, <2>1, <2>2 DEF Yes, TypeOK
<1>5. ASSUME No PROVE TypeOK'
  BY <1>5 DEF No, Return, TypeOK, Steps
<1>6. ASSUME NEW change \in BOOLEAN, Change(change) PROVE TypeOK'
  <2>1. pc' \in Steps /\ outcome' \in {"none", "complete", "refused", "declined"} /\ consent' \in BOOLEAN
    BY <1>6 DEF Change, Return, Steps, TypeOK
  <2>2. jobs' \in Seq(Loops)
    <3>1. <<Erase(0, Sector - 1), Save(0, Sector, "ram")>> \in Seq(Loops) /\ jobs \in Seq(Loops)
      BY InfoLoopsAre, SeqOfLoops DEF TypeOK
    <3> QED
      BY <1>6, <3>1 DEF Change
  <2>3. ram' \in [Cells -> Data]
    BY <1>6, ContentsTyped DEF Change, ReadBack, TypeOK
  <2> QED
    BY <1>6, <2>1, <2>2, <2>3 DEF Change, TypeOK
<1>7. ASSUME Check PROVE TypeOK'
  <2>1. Body(op) \in Loops
    BY <1>7, LoopsAre DEF Check, InRange, Route, TypeOK
  <2>2. <<Body(op)>> \in Seq(Loops) /\ jobs \in Seq(Loops)
    BY <2>1, SeqOfLoops DEF TypeOK
  <2>3. jobs' \in Seq(Loops)
    BY <1>7, <2>2 DEF Check
  <2>4. pc' \in Steps /\ ram' \in [Cells -> Data]
    BY <1>7 DEF Check, ReadBack, Steps, TypeOK
  <2> QED
    BY <1>7, <2>3, <2>4 DEF Check, TypeOK
<1>8. ASSUME Show PROVE TypeOK'
  BY <1>8 DEF Show, Return, TypeOK, Steps
<1>9. ASSUME SetUnit PROVE TypeOK'
  <2>1. chip' \in Chips
    BY <1>9 DEF SetUnit, EraseUnit, TypeOK
  <2> QED
    BY <1>9, <2>1 DEF SetUnit, TypeOK, Steps
<1>10. ASSUME Issue PROVE TypeOK'
  <2>1. UNCHANGED <<op, outcome, known, ram, before, consent>> /\ jobs' \in Seq(Loops)
    BY <1>10, IssueIs, LoopsStep
  <2>2. pc' \in Steps /\ chip' \in Chips
    <3>1. CASE jobs[1].at >= jobs[1].stop
      BY <1>10, <3>1, IssueIs DEF TypeOK
    <3>2. CASE jobs[1].at < jobs[1].stop
      <4>1. NewCells(jobs[1]) \in [Cells -> Data]
        BY <1>10, <3>2, NewCellsTyped
      <4>2. pc' = "wait" /\ chip' = [chip EXCEPT !.wel = TRUE, !.wip = TRUE, !.cells = NewCells(jobs[1])]
        BY <1>10, <3>2, IssueIs
      <4> QED
        BY <4>1, <4>2 DEF TypeOK, Steps
    <3>3. jobs[1].at \in Nat /\ jobs[1].stop \in Nat
      BY <1>10, IssueIs DEF Loops
    <3> QED
      BY <3>1, <3>2, <3>3
  <2> QED
    BY <2>1, <2>2 DEF TypeOK
<1>11. ASSUME Poll PROVE TypeOK'
  BY <1>11 DEF Poll, TypeOK, Steps
<1>12. ASSUME Done PROVE TypeOK'
  BY <1>12 DEF Done, Return, TypeOK, Steps
<1>13. ASSUME Ready PROVE TypeOK'
  <2>1. chip' \in Chips
    BY <1>13 DEF Ready, Finish, TypeOK
  <2> QED
    BY <1>13, <2>1 DEF Ready, TypeOK
<1> QED
  BY <1>1, <1>2, <1>3, <1>4, <1>5, <1>6, <1>7, <1>8, <1>9, <1>10, <1>11, <1>12, <1>13
     DEF Next, User, Driver

-----------------------------------------------------------------------------
(* The order of the driver, the route of a command, the range of an image. *)

LEMMA PollingStep ==
  ASSUME TypeOK, Polling, Next
  PROVE  Polling'
<1> USE DEF Polling
<1>1. ASSUME User PROVE Polling'
  <2>1. pc # "wait" /\ pc' # "wait"
    BY <1>1 DEF User, Type, Answer, Stop, Yes, No, Change, Return, Kinds
  <2>2. chip' = chip \/ \E cells: chip' = [chip EXCEPT !.cells = cells]
    BY <1>1 DEF User, Type, Answer, Stop, Yes, No, Change
  <2> QED
    BY <2>1, <2>2 DEF TypeOK
<1>2. ASSUME Check \/ Show \/ Done PROVE Polling'
  BY <1>2 DEF Check, Show, Done, Return
<1>3. ASSUME SetUnit PROVE Polling'
  BY <1>3 DEF SetUnit, TypeOK
<1>4. ASSUME Issue PROVE Polling'
  <2>1. jobs[1].at \in Nat /\ jobs[1].stop \in Nat
    BY <1>4, IssueIs DEF Loops
  <2>2. CASE jobs[1].at >= jobs[1].stop
    BY <1>4, <2>2, IssueIs
  <2>3. CASE jobs[1].at < jobs[1].stop
    <3>1. pc' = "wait" /\ chip' = [chip EXCEPT !.wel = TRUE, !.wip = TRUE, !.cells = NewCells(jobs[1])]
      BY <1>4, <2>3, IssueIs
    <3> QED
      BY <3>1 DEF TypeOK
  <2> QED
    BY <2>1, <2>2, <2>3
<1>5. ASSUME Poll PROVE Polling'
  BY <1>5 DEF Poll, Busy
<1>6. ASSUME Ready PROVE Polling'
  BY <1>6 DEF Ready, Finish, TypeOK
<1> QED
  BY <1>1, <1>2, <1>3, <1>4, <1>5, <1>6 DEF Next, Driver

LEMMA RouteStep ==
  ASSUME TypeOK, Polling, Route, Next
  PROVE  Route'
<1> USE DEF Route, Writing
<1>1. ASSUME NEW k \in Kinds, Type(k) PROVE Route'
  <2>1. op'.kind = k
    BY <1>1 DEF Type, NoOp
  <2>2. consent' = FALSE /\ jobs' = <<>>
    BY <1>1 DEF Type
  <2> QED
    BY <1>1, <2>1, <2>2 DEF Type, Return, Kinds
<1>2. ASSUME NEW start \in Starts, NEW size \in 0..ImageMax, Answer(start, size) PROVE Route'
  <2>1. op'.kind = op.kind
    BY <1>2 DEF Answer, TypeOK
  <2> QED
    BY <1>2, <2>1 DEF Answer, Return
<1>3. ASSUME Stop \/ No PROVE Route'
  BY <1>3 DEF Stop, No, Return
<1>4. ASSUME Yes PROVE Route'
  BY <1>4 DEF Yes, Return
<1>5. ASSUME NEW change \in BOOLEAN, Change(change) PROVE Route'
  BY <1>5 DEF Change, Return
<1>6. ASSUME Check PROVE Route'
  BY <1>6 DEF Check
<1>7. ASSUME Show \/ Done PROVE Route'
  BY <1>7 DEF Show, Done, Return
<1>8. ASSUME SetUnit \/ Poll \/ Ready PROVE Route'
  BY <1>8 DEF SetUnit, Poll, Ready, Polling
<1>9. ASSUME Issue PROVE Route'
  <2>1. pc = "run" /\ pc' \in {"run", "wait"} /\ UNCHANGED <<op, consent>>
    BY <1>9 DEF Issue
  <2> QED
    BY <2>1
<1> QED
  BY <1>1, <1>2, <1>3, <1>4, <1>5, <1>6, <1>7, <1>8, <1>9 DEF Next, User, Driver

\* The address of the last cell of an image does not wrap, but for that of no
\* cells at 0, which is out of range.
LEMMA EndIs ==
  ASSUME NEW o, o.start \in Cells, o.size \in 0..ImageMax, ~(End(o) > LastAddress)
  PROVE  End(o) = o.start + o.size - 1 /\ End(o) \in 0..LastAddress
<1>1. /\ o.start \in Nat /\ o.size \in Nat /\ o.start + o.size - 1 < Space
      /\ Space \in Nat \ {0} /\ LastAddress \in Nat /\ LastAddress < Space - 1
  BY Sizes DEF Cells
<1>2. CASE o.start + o.size >= 1
  <2>1. o.start + o.size - 1 \in 0..(Space - 1)
    BY <1>1, <1>2
  <2>2. End(o) = o.start + o.size - 1
    BY <1>1, <2>1, OwnRest DEF End
  <2> QED
    BY <1>1, <1>2, <2>2
<1>3. CASE o.start + o.size = 0
  <2>1. o.start + o.size - 1 = -1 /\ 0 \in 0..(Space - 1)
    BY <1>1, <1>3
  <2>2. (-1) % Space = Space - 1
    BY <1>1, <2>1, OwnRest
  <2> QED
    BY <1>1, <2>1, <2>2 DEF End
<1> QED
  BY <1>1, <1>2, <1>3

LEMMA InRangeStep ==
  ASSUME TypeOK, Polling, Route, InRange, Next
  PROVE  InRange'
<1> USE DEF InRange
<1>1. ASSUME NEW k \in Kinds, Type(k) PROVE InRange'
  <2>1. op'.kind = k
    BY <1>1 DEF Type, NoOp
  <2> QED
    BY <1>1, <2>1 DEF Type, Return, Kinds
<1>2. ASSUME NEW start \in Starts, NEW size \in 0..ImageMax, Answer(start, size) PROVE InRange'
  <2>1. op'.start \in Cells /\ op'.size \in 0..ImageMax
    BY <1>2 DEF Answer, TypeOK, Starts
  <2>2. pc' # "idle" => ~(End(op') > LastAddress)
    BY <1>2 DEF Answer, Return
  <2>3. pc' # "idle" => End(op') = op'.start + op'.size - 1 /\ End(op') \in 0..LastAddress
    BY <2>1, <2>2, EndIs
  <2>4. End(op)' = End(op') /\ LastAddress' = LastAddress
    BY DEF End, LastAddress
  <2> QED
    BY <2>3, <2>4
<1>3. ASSUME UNCHANGED op, op.kind = "XLS" =>
               (pc' \in {"check", "ask", "unit", "run", "wait"} =>
                  pc \in {"check", "ask", "unit", "run", "wait"})
      PROVE  InRange'
  BY <1>3 DEF End, LastAddress
<1>4. ASSUME Stop \/ No \/ Show \/ Done \/ Yes \/ Check \/ SetUnit \/ Poll \/ Ready PROVE InRange'
  BY <1>3, <1>4 DEF Stop, No, Show, Done, Yes, Check, SetUnit, Poll, Ready, Return
<1>5. ASSUME Issue PROVE InRange'
  BY <1>3, <1>5 DEF Issue
<1>6. ASSUME NEW change \in BOOLEAN, Change(change) PROVE InRange'
  BY <1>3, <1>6 DEF Change, Return
<1> QED
  BY <1>1, <1>2, <1>4, <1>5, <1>6 DEF Next, User, Driver

-----------------------------------------------------------------------------
(* What is copied, and the flash before it is touched.                     *)

\* The sectors that were read are still what they were.
LEMMA UntouchedStep ==
  ASSUME TypeOK, Polling, Untouched, Next
  PROVE  Untouched'
<1> USE DEF Untouched
<1>1. ASSUME NEW k \in Kinds, Type(k) PROVE Untouched'
  <2>1. chip'.cells = before'
    BY <1>1 DEF Type, TypeOK
  <2> QED
    BY <2>1
<1>2. ASSUME UNCHANGED <<chip, before>>, pc' \notin {"idle", "run", "wait"} => pc \notin {"idle", "run", "wait"}
      PROVE  Untouched'
  BY <1>2
<1>3. ASSUME NEW start \in Starts, NEW size \in 0..ImageMax, Answer(start, size) PROVE Untouched'
  BY <1>2, <1>3 DEF Answer
<1>4. ASSUME NEW change \in BOOLEAN, Change(change) PROVE Untouched'
  BY <1>2, <1>4 DEF Change
<1>5. ASSUME Stop \/ Yes \/ No \/ Check \/ Show \/ Poll \/ Done PROVE Untouched'
  BY <1>2, <1>5 DEF Stop, Yes, No, Check, Show, Poll, Done, Return
<1>6. ASSUME SetUnit PROVE Untouched'
  BY <1>6 DEF SetUnit
<1>7. ASSUME Issue PROVE Untouched'
  BY <1>7 DEF Issue
<1>8. ASSUME Ready PROVE Untouched'
  BY <1>8 DEF Ready, Polling
<1> QED
  BY <1>1, <1>3, <1>4, <1>5, <1>6, <1>7, <1>8 DEF Next, User, Driver

LEMMA CopiedStep ==
  ASSUME TypeOK, Polling, Route, Untouched, Copied, Next
  PROVE  Copied'
<1> USE DEF Copied, Writing
<1>1. ASSUME NEW k \in Kinds, Type(k) PROVE Copied'
  BY <1>1 DEF Type, Return
<1>2. ASSUME NEW start \in Starts, NEW size \in 0..ImageMax, Answer(start, size) PROVE Copied'
  BY <1>2 DEF Answer, Return
<1>3. ASSUME NEW change \in BOOLEAN, Change(change) PROVE Copied'
  <2>1. op'.kind = "XINFO_BP_S"
    BY <1>3 DEF Change
  <2> QED
    BY <1>3, <2>1 DEF Change, Return, ReadBack, Untouched
<1>4. ASSUME Stop \/ No \/ Show \/ Done PROVE Copied'
  BY <1>4 DEF Stop, No, Show, Done, Return
<1>5. ASSUME Yes PROVE Copied'
  BY <1>5 DEF Yes, Return, Route
<1>6. ASSUME Check PROVE Copied'
  <2>1. op'.kind = "XLS" /\ ram' = before'
    BY <1>6 DEF Check, ReadBack, Route, Untouched
  <2> QED
    BY <2>1
<1>7. ASSUME SetUnit \/ Issue \/ Poll PROVE Copied'
  BY <1>7 DEF SetUnit, Issue, Poll
<1>8. ASSUME Ready PROVE Copied'
  BY <1>8 DEF Ready, Polling
<1> QED
  BY <1>1, <1>2, <1>3, <1>4, <1>5, <1>6, <1>7, <1>8 DEF Next, User, Driver

LEMMA WholeSectorsStep ==
  ASSUME TypeOK, Polling, Route, WholeSectors, Next
  PROVE  WholeSectors'
<1> USE DEF WholeSectors
<1>1. ASSUME NEW k \in Kinds, Type(k) PROVE WholeSectors'
  BY <1>1 DEF Type, Return
<1>2. ASSUME NEW start \in Starts, NEW size \in 0..ImageMax, Answer(start, size) PROVE WholeSectors'
  BY <1>2 DEF Answer, Return
<1>3. ASSUME NEW change \in BOOLEAN, Change(change) PROVE WholeSectors'
  BY <1>3 DEF Change, Return
<1>4. ASSUME Stop \/ No \/ Show \/ Done PROVE WholeSectors'
  BY <1>4 DEF Stop, No, Show, Done, Return
<1>5. ASSUME Yes PROVE WholeSectors'
  BY <1>5 DEF Yes, Return
<1>6. ASSUME Check PROVE WholeSectors'
  <2>1. consent' = FALSE
    BY <1>6 DEF Check, Route, Writing
  <2> QED
    BY <2>1
<1>7. ASSUME SetUnit PROVE WholeSectors'
  BY <1>7 DEF SetUnit, EraseUnit, TypeOK
<1>8. ASSUME Issue PROVE WholeSectors'
  <2>1. jobs[1].at \in Nat /\ jobs[1].stop \in Nat /\ UNCHANGED <<op, consent>> /\ pc = "run"
    BY <1>8, IssueIs DEF Loops
  <2>2. jobs[1].at >= jobs[1].stop \/ jobs[1].at < jobs[1].stop
    BY <2>1
  <2>3. chip' = chip \/ chip' = [chip EXCEPT !.wel = TRUE, !.wip = TRUE, !.cells = NewCells(jobs[1])]
    BY <1>8, <2>2, IssueIs
  <2>4. chip'.unit = chip.unit
    BY <2>3 DEF TypeOK
  <2> QED
    BY <2>1, <2>4
<1>9. ASSUME Poll PROVE WholeSectors'
  BY <1>9 DEF Poll
<1>10. ASSUME Ready PROVE WholeSectors'
  <2>1. chip'.unit = chip.unit
    BY <1>10 DEF Ready, Finish, TypeOK
  <2> QED
    BY <1>10, <2>1 DEF Ready
<1> QED
  BY <1>1, <1>2, <1>3, <1>4, <1>5, <1>6, <1>7, <1>8, <1>9, <1>10 DEF Next, User, Driver

LEMMA NotAskedStep ==
  ASSUME TypeOK, Polling, Route, InRange, Untouched, NotAsked, Next
  PROVE  NotAsked'
<1> USE DEF NotAsked, InSectors
<1>1. ASSUME pc' \notin {"run", "wait"} PROVE NotAsked'
  BY <1>1
<1>2. ASSUME UNCHANGED <<op, consent, before>>, pc \in {"run", "wait"}
      PROVE  NotAsked'
  BY <1>2 DEF ClearStart, ClearEnd, SectorTop, SectorBottom, End
<1>3. ASSUME User PROVE NotAsked'
  <2>1. pc' \notin {"run", "wait"} \/ op'.kind = "XCS"
    BY <1>3 DEF User, Type, Answer, Stop, Yes, No, Change, Return, Kinds
  <2> QED
    BY <2>1
<1>4. ASSUME Check PROVE NotAsked'
  <2>1. pc' \notin {"run", "wait"} \/ Blank(op)
    BY <1>4 DEF Check
  <2>2. UNCHANGED <<op, before>> /\ chip.cells = before
    BY <1>4 DEF Check, Untouched
  <2>3. ASSUME Blank(op) PROVE \A a \in Cells: InSectors(a) => before[a] = FF
    BY <2>2, <2>3 DEF Blank
  <2> QED
    BY <2>1, <2>2, <2>3 DEF ClearStart, ClearEnd, SectorTop, SectorBottom, End
<1>5. ASSUME SetUnit PROVE NotAsked'
  <2>1. consent' = TRUE
    BY <1>5 DEF SetUnit, Route, TypeOK
  <2> QED
    BY <2>1
<1>6. ASSUME Issue \/ Poll PROVE NotAsked'
  BY <1>2, <1>6 DEF Issue, Poll
<1>7. ASSUME Show \/ Done PROVE NotAsked'
  BY <1>1, <1>7 DEF Show, Done, Return
<1>8. ASSUME Ready PROVE NotAsked'
  BY <1>2, <1>8 DEF Ready, Polling
<1> QED
  BY <1>3, <1>4, <1>5, <1>6, <1>7, <1>8 DEF Next, Driver

-----------------------------------------------------------------------------
(* The loops.                                                              *)

\* Where the command is unchanged, so is what is computed from it.
LEMMA OpFrame ==
  ASSUME UNCHANGED op
  PROVE  /\ ClearStart(op)' = ClearStart(op) /\ ClearEnd(op)' = ClearEnd(op)
         /\ (TailStart)' = TailStart /\ (Aligned)' = Aligned
         /\ Erase(ClearStart(op), ClearEnd(op))' = Erase(ClearStart(op), ClearEnd(op))
         /\ RestoreHead(op)' = RestoreHead(op) /\ RestoreTail(op)' = RestoreTail(op)
         /\ Body(op)' = Body(op)
         /\ \A a: InSectors(a)' = InSectors(a) /\ BodyOf(a)' = BodyOf(a)
BY DEF ClearStart, ClearEnd, TailStart, Aligned, Erase, RestoreHead, RestoreTail, Body, Save,
       InSectors, BodyOf, DeltaS, DeltaE, SectorTop, SectorBottom, End, PageTop

\* The loops of XLS, one by one.
LEMMA ImageLoopsIssue ==
  ASSUME TypeOK, Polling, Route, InRange, ImageLoops, Issue, op.kind = "XLS"
  PROVE  ImageLoops'
<1> DEFINE j == jobs[1]
           n == Len(jobs)
           S == op.start
           cs == ClearStart(op)
           ce == ClearEnd(op)
<1>1. /\ pc = "run" /\ n \in 1..4 /\ j \in Loops /\ UNCHANGED <<op, consent>>
      /\ (~consent => n = 1) /\ pc' # "unit"
  <2>1. pc = "run" /\ pc' # "unit"
    BY DEF Issue
  <2> QED
    BY <2>1, IssueIs DEF ImageLoops, Writing
<1>2. /\ S \in Nat /\ op.size \in Nat /\ j.at \in Nat /\ j.stop \in Nat
      /\ Page \in Nat \ {0} /\ Sector \in Nat \ {0}
  BY <1>1, Sizes DEF TypeOK, Loops, Cells
<1>3. op.start \in Cells /\ op.size \in 0..ImageMax /\ End(op) = op.start + op.size - 1 /\ End(op) \in 0..LastAddress
  BY <1>1 DEF TypeOK, InRange
<1>4. /\ Erase(cs, ce) = [do |-> "erase", at |-> cs, stop |-> ce + 2 - Sector, from |-> "none"]
      /\ RestoreHead(op) = [do |-> "program", at |-> cs, stop |-> S, from |-> "ram"]
      /\ RestoreTail(op) = [do |-> "program", at |-> TailStart, stop |-> ce + 1, from |-> "ram"]
      /\ Body(op) = [do |-> "program", at |-> S, stop |-> S + op.size, from |-> "image"]
  BY <1>3, LoopsAre
<1>5. /\ cs \in Nat /\ cs % Sector = 0 /\ cs % Page = 0 /\ cs <= S
      /\ ce \in Nat /\ (ce + 1) % Sector = 0 /\ (ce + 1) % Page = 0
      /\ TailStart \in Nat /\ TailStart % Page = 0 /\ TailStart <= ce + 1
      /\ S + op.size <= TailStart
  BY <1>3, Geometry
<1>6. Sector % Sector = 0 /\ Page % Page = 0
  <2>1. Sector * 1 = Sector /\ Page * 1 = Page
    BY <1>2
  <2> QED
    BY <2>1, <1>2, TimesIsMultiple
<1> HIDE DEF cs, ce, S, j, n
<1>7. ASSUME j.at >= j.stop PROVE ImageLoops'
  <2>1. Len(jobs') = n - 1 /\ \A i \in 1..(n - 1): jobs'[i] = jobs[i + 1]
    BY <1>7, LoopsStep DEF j, n
  <2>2. CASE n = 4
    <3>1. jobs[2] = RestoreHead(op) /\ jobs[3] = RestoreTail(op) /\ jobs[4] = Body(op)
      BY <1>1, <2>2 DEF ImageLoops, Writing, n
    <3>2. Len(jobs') = 3 /\ jobs'[1] = RestoreHead(op) /\ jobs'[2] = RestoreTail(op) /\ jobs'[3] = Body(op)
      BY <2>1, <2>2, <3>1
    <3> QED
      BY <1>1, <1>2, <1>4, <1>5, <2>2, <3>2, OpFrame DEF ImageLoops, Continues, cs, S
  <2>3. CASE n = 3
    <3>1. jobs[2] = RestoreTail(op) /\ jobs[3] = Body(op)
      BY <1>1, <2>3 DEF ImageLoops, Writing, n
    <3>2. Len(jobs') = 2 /\ jobs'[1] = RestoreTail(op) /\ jobs'[2] = Body(op)
      BY <2>1, <2>3, <3>1
    <3> QED
      BY <1>1, <1>2, <1>4, <1>5, <2>3, <3>2, OpFrame DEF ImageLoops, Continues, ce
  <2>4. CASE n = 2
    <3>1. jobs[2] = Body(op)
      BY <1>1, <2>4 DEF ImageLoops, Writing, n
    <3>2. Len(jobs') = 1 /\ jobs'[1] = Body(op)
      BY <2>1, <2>4, <3>1
    <3>3. Aligned => S % Page = 0 /\ S <= TailStart
      BY <1>2, <1>5 DEF Aligned, S
    <3> QED
      BY <1>1, <1>2, <1>4, <2>4, <3>2, <3>3, OpFrame DEF ImageLoops, Continues, S
  <2>5. CASE n = 1
    BY <1>1, <2>1, <2>5 DEF ImageLoops
  <2> QED
    BY <1>1, <2>2, <2>3, <2>4, <2>5
<1>8. ASSUME j.at < j.stop PROVE ImageLoops'
  <2>1. /\ Len(jobs') = n
        /\ jobs'[1].do = j.do /\ jobs'[1].stop = j.stop /\ jobs'[1].from = j.from
        /\ jobs'[1].at = Stride(j)
        /\ \A i \in 2..n: jobs'[i] = jobs[i]
    BY <1>8, LoopsStep DEF j, n
  <2>2. CASE n = 4
    <3>1. /\ Continues(j, Erase(cs, ce)) /\ j.at % Sector = 0 /\ j.at \in cs..(ce + 1)
          /\ jobs[2] = RestoreHead(op) /\ jobs[3] = RestoreTail(op) /\ jobs[4] = Body(op)
      BY <1>1, <2>2 DEF ImageLoops, Writing, n, j, cs, ce
    <3>2. j.do = "erase" /\ j.at < ce + 2 - Sector
      BY <1>8, <1>4, <3>1 DEF Continues
    <3>3. jobs'[1].at = j.at + Sector
      BY <2>1, <3>2 DEF Stride
    <3>4. j.at < ce + 1
      BY <1>2, <1>5, <3>2
    <3>5. (j.at + Sector) % Sector = 0 /\ j.at + Sector <= ce + 1
      BY <1>2, <1>5, <1>6, <3>1, <3>4, MultiplesAdd, NextMultiple
    <3>6. jobs'[2] = RestoreHead(op) /\ jobs'[3] = RestoreTail(op) /\ jobs'[4] = Body(op)
      BY <2>1, <2>2, <3>1
    <3>7. Continues(jobs'[1], Erase(cs, ce))
      BY <2>1, <3>1 DEF Continues
    <3>8. jobs'[1].at % Sector = 0 /\ jobs'[1].at \in cs..(ce + 1)
      <4>1. j.at + Sector \in cs..(ce + 1)
        BY <1>2, <1>5, <3>1, <3>5
      <4> QED
        BY <4>1, <3>3, <3>5
    <3> QED
      BY <1>1, <2>1, <2>2, <3>6, <3>7, <3>8, OpFrame DEF ImageLoops, Continues, cs, ce
  <2>3. CASE n = 3
    <3>1. /\ Continues(j, RestoreHead(op)) /\ j.at % Page = 0 /\ j.at >= cs
          /\ Aligned => j.at <= S
          /\ jobs[2] = RestoreTail(op) /\ jobs[3] = Body(op)
      BY <1>1, <2>3 DEF ImageLoops, Writing, n, j, cs, S
    <3>2. j.do = "program" /\ j.at < S
      BY <1>8, <1>4, <3>1 DEF Continues
    <3>3. jobs'[1].at = j.at + Page
      BY <2>1, <3>2 DEF Stride
    <3>4. (j.at + Page) % Page = 0
      BY <1>2, <1>6, <3>1, MultiplesAdd
    <3>5. Aligned => j.at + Page <= S
      BY <1>2, <3>1, <3>2, NextMultiple DEF Aligned, S
    <3>6. jobs'[2] = RestoreTail(op) /\ jobs'[3] = Body(op)
      BY <2>1, <2>3, <3>1
    <3>7. Continues(jobs'[1], RestoreHead(op))
      BY <2>1, <3>1 DEF Continues
    <3>8. jobs'[1].at % Page = 0 /\ jobs'[1].at >= cs /\ (Aligned => jobs'[1].at <= S)
      BY <1>2, <1>5, <3>1, <3>3, <3>4, <3>5
    <3> QED
      BY <1>1, <2>1, <2>3, <3>6, <3>7, <3>8, OpFrame DEF ImageLoops, Continues, cs, S
  <2>4. CASE n = 2
    <3>1. /\ Continues(j, RestoreTail(op)) /\ j.at % Page = 0 /\ j.at \in TailStart..(ce + 1)
          /\ jobs[2] = Body(op)
      BY <1>1, <2>4 DEF ImageLoops, Writing, n, j, ce
    <3>2. j.do = "program" /\ j.at < ce + 1
      BY <1>8, <1>4, <3>1 DEF Continues
    <3>3. jobs'[1].at = j.at + Page
      BY <2>1, <3>2 DEF Stride
    <3>4. (j.at + Page) % Page = 0
      BY <1>2, <1>6, <3>1, MultiplesAdd
    <3>5. j.at + Page <= ce + 1
      BY <1>2, <1>5, <3>1, <3>2, NextMultiple
    <3>6. jobs'[2] = Body(op)
      BY <2>1, <2>4, <3>1
    <3>7. Continues(jobs'[1], RestoreTail(op))
      BY <2>1, <3>1 DEF Continues
    <3>8. jobs'[1].at % Page = 0 /\ jobs'[1].at \in TailStart..(ce + 1)
      BY <1>2, <1>5, <3>1, <3>3, <3>4, <3>5
    <3> QED
      BY <1>1, <2>1, <2>4, <3>6, <3>7, <3>8, OpFrame DEF ImageLoops, Continues, ce
  <2>5. CASE n = 1
    <3>1. /\ Continues(j, Body(op)) /\ j.at >= S
          /\ Aligned => j.at % Page = 0 /\ j.at <= TailStart
      BY <1>1, <2>5 DEF ImageLoops, Writing, n, j, S
    <3>2. j.do = "program" /\ j.at < S + op.size
      BY <1>8, <1>4, <3>1 DEF Continues
    <3>3. jobs'[1].at = j.at + Page
      BY <2>1, <3>2 DEF Stride
    <3>4. j.at < TailStart
      BY <1>2, <1>5, <3>2
    <3>5. Aligned => (j.at + Page) % Page = 0 /\ j.at + Page <= TailStart
      <4>1. SUFFICES ASSUME Aligned PROVE (j.at + Page) % Page = 0 /\ j.at + Page <= TailStart
        OBVIOUS
      <4>2. (j.at + Page) % Page = 0
        BY <4>1, <1>2, <1>6, <3>1, MultiplesAdd
      <4>3. j.at + Page <= TailStart
        BY <4>1, <1>2, <1>5, <3>1, <3>4, NextMultiple
      <4> QED
        BY <4>2, <4>3
    <3>6. Continues(jobs'[1], Body(op))
      BY <2>1, <3>1 DEF Continues
    <3>7. jobs'[1].at >= S /\ (Aligned => jobs'[1].at % Page = 0 /\ jobs'[1].at <= TailStart)
      BY <1>2, <3>1, <3>3, <3>5
    <3> QED
      BY <1>1, <2>1, <2>5, <3>6, <3>7, OpFrame DEF ImageLoops, Continues, S
  <2> QED
    BY <1>1, <2>2, <2>3, <2>4, <2>5
<1> QED
  BY <1>2, <1>7, <1>8

LEMMA ImageLoopsStep ==
  ASSUME TypeOK, Polling, Route, InRange, ImageLoops, Next
  PROVE  ImageLoops'
<1>1. ASSUME pc' \notin {"unit", "run", "wait"} \/ op'.kind # "XLS" PROVE ImageLoops'
  BY <1>1 DEF ImageLoops, Writing
<1>2. ASSUME UNCHANGED <<op, consent, jobs>>, Writing, pc' # "unit" PROVE ImageLoops'
  BY <1>2, OpFrame DEF ImageLoops, Writing
<1>3. ASSUME NEW k \in Kinds, Type(k) PROVE ImageLoops'
  BY <1>1, <1>3 DEF Type, Return, Kinds
<1>4. ASSUME NEW start \in Starts, NEW size \in 0..ImageMax, Answer(start, size) PROVE ImageLoops'
  BY <1>1, <1>4 DEF Answer, Return
<1>5. ASSUME NEW change \in BOOLEAN, Change(change) PROVE ImageLoops'
  BY <1>1, <1>5 DEF Change, Return
<1>6. ASSUME Stop \/ No \/ Show \/ Done PROVE ImageLoops'
  BY <1>1, <1>6 DEF Stop, No, Show, Done, Return
<1>7. ASSUME Yes PROVE ImageLoops'
  <2>1. CASE op.kind = "XCS"
    BY <1>1, <1>7, <2>1 DEF Yes
  <2>2. CASE op.kind = "XLS"
    <3>1. /\ UNCHANGED op /\ consent' = TRUE /\ pc' = "unit"
          /\ jobs' = <<Erase(ClearStart(op), ClearEnd(op)), RestoreHead(op), RestoreTail(op), Body(op)>>
      BY <1>7, <2>2 DEF Yes
    <3>2. op.start \in Cells /\ op.size \in 0..ImageMax /\ End(op) = op.start + op.size - 1 /\ End(op) \in 0..LastAddress
      BY <1>7, <2>2 DEF Yes, TypeOK, InRange
    <3>3. /\ Len(jobs') = 4 /\ jobs'[1] = Erase(ClearStart(op), ClearEnd(op))
          /\ jobs'[2] = RestoreHead(op) /\ jobs'[3] = RestoreTail(op) /\ jobs'[4] = Body(op)
      BY <3>1
    <3>4. jobs'[1].at = ClearStart(op)
      BY <3>2, <3>3, LoopsAre
    <3>5. /\ ClearStart(op) \in Nat /\ ClearStart(op) % Sector = 0
          /\ ClearEnd(op) \in Nat /\ ClearStart(op) <= ClearEnd(op) + 1
      BY <3>2, Geometry
    <3>6. ClearStart(op) \in ClearStart(op)..(ClearEnd(op) + 1)
      BY <3>5
    <3> QED
      BY <3>1, <3>3, <3>4, <3>5, <3>6, OpFrame DEF ImageLoops, Continues
  <2> QED
    BY <1>7, <2>1, <2>2 DEF Yes
<1>8. ASSUME Check PROVE ImageLoops'
  <2>1. CASE Blank(op)
    <3>1. UNCHANGED <<op, consent>> /\ pc' = "run" /\ jobs' = <<Body(op)>> /\ op.kind = "XLS"
      BY <1>8, <2>1 DEF Check, Route
    <3>2. op.start \in Cells /\ op.size \in 0..ImageMax /\ End(op) = op.start + op.size - 1 /\ End(op) \in 0..LastAddress
      BY <1>8, <3>1 DEF Check, TypeOK, InRange
    <3>3. Len(jobs') = 1 /\ jobs'[1] = Body(op)
      BY <3>1
    <3>4. jobs'[1].at = op.start
      BY <3>2, <3>3, LoopsAre
    <3>5. op.start \in Nat /\ op.size \in Nat /\ op.start + op.size <= TailStart /\ TailStart \in Nat
      BY <3>2, Geometry, Sizes DEF Cells
    <3>6. op.start <= TailStart /\ op.start >= op.start
      BY <3>5
    <3>7. Aligned => op.start % Page = 0
      BY DEF Aligned
    <3> QED
      BY <3>1, <3>3, <3>4, <3>6, <3>7, OpFrame DEF ImageLoops, Continues
  <2>2. CASE ~Blank(op)
    BY <1>1, <1>8, <2>2 DEF Check
  <2> QED
    BY <2>1, <2>2
<1>9. ASSUME SetUnit \/ Poll PROVE ImageLoops'
  BY <1>2, <1>9 DEF SetUnit, Poll, Writing
<1>10. ASSUME Issue PROVE ImageLoops'
  <2>1. UNCHANGED op
    BY <1>10 DEF Issue
  <2> QED
    BY <1>1, <1>10, <2>1, ImageLoopsIssue
<1>11. ASSUME Ready PROVE ImageLoops'
  BY <1>2, <1>11 DEF Ready, Polling, Writing
<1> QED
  BY <1>3, <1>4, <1>5, <1>6, <1>7, <1>8, <1>9, <1>10, <1>11 DEF Next, User, Driver

\* The loops of XINFO_BP_S and of XCS, one by one.
LEMMA OtherLoopsIssue ==
  ASSUME TypeOK, Polling, Route, OtherLoops, Issue, op.kind # "XLS"
  PROVE  OtherLoops'
<1> DEFINE j == jobs[1]
           n == Len(jobs)
<1>1. /\ pc = "run" /\ n \in Nat \ {0} /\ j \in Loops /\ UNCHANGED op /\ pc' # "unit"
      /\ op.kind \in {"XCS", "XINFO_BP_S"}
  <2>1. pc = "run" /\ pc' # "unit"
    BY DEF Issue
  <2> QED
    BY <2>1, IssueIs DEF Route, Writing
<1>2. j.at \in Nat /\ j.stop \in Nat /\ Page \in Nat \ {0} /\ Sector \in Nat \ {0} /\ Sector % Page = 0
  BY <1>1, Sizes DEF Loops
<1>3. Sector % Sector = 0 /\ Page % Page = 0 /\ 0 % Page = 0 /\ 0 % Sector = 0
  <2>1. Sector * 1 = Sector /\ Page * 1 = Page /\ Sector * 0 = 0 /\ Page * 0 = 0
    BY <1>2
  <2> QED
    BY <2>1, <1>2, TimesIsMultiple
<1>4. /\ Erase(0, Sector - 1) = [do |-> "erase", at |-> 0, stop |-> 1, from |-> "none"]
      /\ Save(0, Sector, "ram") = [do |-> "program", at |-> 0, stop |-> Sector, from |-> "ram"]
  BY InfoLoopsAre
<1> HIDE DEF j, n
<1>5. ASSUME j.at >= j.stop PROVE OtherLoops'
  <2>1. Len(jobs') = n - 1 /\ \A i \in 1..(n - 1): jobs'[i] = jobs[i + 1]
    BY <1>5, LoopsStep DEF j, n
  <2>2. CASE op.kind = "XCS"
    BY <1>1, <2>1, <2>2 DEF OtherLoops, Writing, n
  <2>3. CASE op.kind = "XINFO_BP_S" /\ n = 2
    <3>1. jobs[2] = Save(0, Sector, "ram")
      BY <1>1, <2>3 DEF OtherLoops, Writing, n
    <3>2. Len(jobs') = 1 /\ jobs'[1] = Save(0, Sector, "ram")
      BY <2>1, <2>3, <3>1
    <3>3. 0 \in 0..Sector
      BY <1>2
    <3> QED
      BY <1>1, <1>3, <1>4, <2>3, <3>2, <3>3 DEF OtherLoops, Continues
  <2>4. CASE op.kind = "XINFO_BP_S" /\ n # 2
    <3>1. n = 1
      BY <1>1, <2>4 DEF OtherLoops, Writing, n
    <3>2. Len(jobs') = 0
      BY <2>1, <3>1
    <3> QED
      BY <1>1, <2>4, <3>2 DEF OtherLoops
  <2> QED
    BY <1>1, <2>2, <2>3, <2>4
<1>6. ASSUME j.at < j.stop PROVE OtherLoops'
  <2>1. /\ Len(jobs') = n
        /\ jobs'[1].do = j.do /\ jobs'[1].stop = j.stop /\ jobs'[1].from = j.from
        /\ jobs'[1].at = Stride(j)
        /\ \A i \in 2..n: jobs'[i] = jobs[i]
    BY <1>6, LoopsStep DEF j, n
  <2>2. CASE op.kind = "XCS"
    BY <1>1, <2>1, <2>2 DEF OtherLoops, Writing, n, j
  <2>3. CASE op.kind = "XINFO_BP_S" /\ n = 2
    <3>1. /\ Continues(j, Erase(0, Sector - 1)) /\ jobs[2] = Save(0, Sector, "ram")
          /\ j.at % Sector = 0 /\ j.at \in 0..Sector
      BY <1>1, <2>3 DEF OtherLoops, Writing, n, j
    <3>2. j.do = "erase" /\ j.at = 0
      BY <1>2, <1>6, <1>4, <3>1 DEF Continues
    <3>3. jobs'[1].at = Sector
      BY <1>2, <2>1, <3>2 DEF Stride
    <3>4. jobs'[2] = Save(0, Sector, "ram") /\ Continues(jobs'[1], Erase(0, Sector - 1))
      BY <2>1, <2>3, <3>1 DEF Continues
    <3>5. Sector \in 0..Sector
      BY <1>2
    <3> QED
      BY <1>1, <1>3, <2>1, <2>3, <3>3, <3>4, <3>5 DEF OtherLoops, Continues
  <2>4. CASE op.kind = "XINFO_BP_S" /\ n # 2
    <3>1. n = 1
      BY <1>1, <2>4 DEF OtherLoops, Writing, n
    <3>2. Continues(j, Save(0, Sector, "ram")) /\ j.at % Page = 0 /\ j.at \in 0..Sector
      BY <1>1, <2>4, <3>1 DEF OtherLoops, Writing, n, j
    <3>3. j.do = "program" /\ j.at < Sector
      BY <1>6, <1>4, <3>2 DEF Continues
    <3>4. jobs'[1].at = j.at + Page
      BY <2>1, <3>3 DEF Stride
    <3>5. (j.at + Page) % Page = 0
      BY <1>2, <1>3, <3>2, MultiplesAdd
    <3>6. j.at + Page <= Sector
      BY <1>2, <3>2, <3>3, NextMultiple
    <3>7. jobs'[1].at % Page = 0 /\ jobs'[1].at \in 0..Sector /\ Continues(jobs'[1], Save(0, Sector, "ram"))
      <4>1. Continues(jobs'[1], Save(0, Sector, "ram"))
        BY <2>1, <3>2 DEF Continues
      <4>2. jobs'[1].at \in 0..Sector
        <5>1. j.at + Page \in Nat
          BY <1>2, <3>2
        <5> QED
          BY <1>2, <3>4, <3>6, <5>1
      <4> QED
        BY <3>4, <3>5, <4>1, <4>2
    <3> QED
      BY <1>1, <2>1, <2>4, <3>1, <3>7 DEF OtherLoops, Continues
  <2> QED
    BY <1>1, <2>2, <2>3, <2>4
<1> QED
  BY <1>2, <1>5, <1>6

LEMMA OtherLoopsStep ==
  ASSUME TypeOK, Polling, Route, OtherLoops, Next
  PROVE  OtherLoops'
<1>1. ASSUME pc' \notin {"unit", "run", "wait"} \/ op'.kind \notin {"XINFO_BP_S", "XCS"}
      PROVE  OtherLoops'
  BY <1>1 DEF OtherLoops, Writing
<1>2. ASSUME UNCHANGED <<op, jobs>>, Writing, pc' # "unit" PROVE OtherLoops'
  BY <1>2 DEF OtherLoops, Writing, Continues
<1>3. ASSUME NEW k \in Kinds, Type(k) PROVE OtherLoops'
  BY <1>1, <1>3 DEF Type, Return, Kinds
<1>4. ASSUME NEW start \in Starts, NEW size \in 0..ImageMax, Answer(start, size) PROVE OtherLoops'
  BY <1>1, <1>4 DEF Answer, Return
<1>5. ASSUME NEW change \in BOOLEAN, Change(change) PROVE OtherLoops'
  <2>1. CASE pc' = "unit"
    <3>1. jobs' = <<Erase(0, Sector - 1), Save(0, Sector, "ram")>> /\ op' = op /\ op.kind = "XINFO_BP_S"
      BY <1>5, <2>1 DEF Change, Return
    <3>2. Len(jobs') = 2 /\ jobs'[1] = Erase(0, Sector - 1) /\ jobs'[2] = Save(0, Sector, "ram")
      BY <3>1
    <3>3. Sector \in Nat \ {0} /\ 0 \in 0..Sector /\ 0 \in 0..(Sector - 1)
      BY Sizes
    <3>4. 0 % Sector = 0
      BY <3>3, OwnRest
    <3>5. jobs'[1].at = 0
      BY <3>2, InfoLoopsAre
    <3> QED
      BY <3>1, <3>2, <3>3, <3>4, <3>5 DEF OtherLoops, Continues
  <2>2. CASE pc' = "idle"
    BY <1>1, <2>2
  <2> QED
    BY <1>5, <2>1, <2>2 DEF Change, Return
<1>6. ASSUME Stop \/ No \/ Show \/ Done PROVE OtherLoops'
  BY <1>1, <1>6 DEF Stop, No, Show, Done, Return
<1>7. ASSUME Yes PROVE OtherLoops'
  <2>1. CASE op.kind = "XCS" /\ pc' = "run"
    <3>1. jobs' = <<[do |-> "bulk", at |-> 0, stop |-> 1, from |-> "none"]>> /\ op' = op
      BY <1>7, <2>1 DEF Yes, Return
    <3> QED
      BY <2>1, <3>1 DEF OtherLoops
  <2>2. CASE ~(op.kind = "XCS" /\ pc' = "run")
    BY <1>1, <1>7, <2>2 DEF Yes, Return
  <2> QED
    BY <2>1, <2>2
<1>8. ASSUME Check PROVE OtherLoops'
  BY <1>1, <1>8 DEF Check, Route
<1>9. ASSUME SetUnit \/ Poll PROVE OtherLoops'
  BY <1>2, <1>9 DEF SetUnit, Poll, Writing
<1>10. ASSUME Issue PROVE OtherLoops'
  <2>1. UNCHANGED op
    BY <1>10 DEF Issue
  <2> QED
    BY <1>1, <1>10, <2>1, OtherLoopsIssue
<1>11. ASSUME Ready PROVE OtherLoops'
  BY <1>2, <1>11 DEF Ready, Polling, Writing
<1> QED
  BY <1>3, <1>4, <1>5, <1>6, <1>7, <1>8, <1>9, <1>10, <1>11 DEF Next, User, Driver

-----------------------------------------------------------------------------
(* The contents of the flash.                                              *)

\* A program at the start of a page, and the erase of a sector.
LEMMA PageWritten ==
  ASSUME NEW j \in Loops, j.do = "program", j.at % Page = 0, NEW a \in Cells
  PROVE  NewCells(j)[a] =
           IF j.at <= a /\ a < j.at + Page THEN Programmed(chip.cells[a], Buffer(j.at, j.from)[a - j.at])
           ELSE chip.cells[a]
<1>1. j.at \in Nat /\ a \in Nat
  BY Sizes DEF Loops, Cells
<1>2. /\ PageTop(j.at) = j.at
      /\ PageTop(a) = j.at <=> j.at <= a /\ a < j.at + Page
      /\ j.at <= a /\ a < j.at + Page => Source(j.at, a) = a - j.at
  BY <1>1, PageIs
<1>3. NewCells(j)[a] = IF PageTop(a) = PageTop(j.at)
                       THEN Programmed(chip.cells[a], Buffer(j.at, j.from)[Source(j.at, a)])
                       ELSE chip.cells[a]
  BY DEF NewCells
<1> QED
  BY <1>2, <1>3

LEMMA SectorErased ==
  ASSUME NEW j \in Loops, j.do = "erase", j.at % Sector = 0, chip.unit = Sector, NEW a \in Cells
  PROVE  NewCells(j)[a] = IF j.at <= a /\ a < j.at + Sector THEN FF ELSE chip.cells[a]
<1>1. j.at \in Nat /\ a \in Nat
  BY Sizes DEF Loops, Cells
<1>2. a \div Sector = j.at \div Sector <=> j.at <= a /\ a < j.at + Sector
  BY <1>1, SectorIs
<1>3. NewCells(j)[a] = IF a \div Sector = j.at \div Sector THEN FF ELSE chip.cells[a]
  BY DEF NewCells
<1> QED
  BY <1>2, <1>3

\* What the buffer of a page holds for a cell of it.
LEMMA BufferIs ==
  ASSUME TypeOK, NEW at \in Nat, NEW a \in Cells, at <= a, a < at + Page
  PROVE  Buffer(at, "ram")[a - at] = ram[a] /\ Buffer(at, "image")[a - at] = BodyOf(a)
<1> DEFINE i == a - at
<1>1. i \in 0..(Page - 1) /\ at + i = a
  BY Sizes DEF Cells
<1> HIDE DEF i
<1>2. Buffer(at, "ram")[i] = IF at + i \in Cells THEN ram[at + i] ELSE FF
  BY <1>1 DEF Buffer
<1>3. Buffer(at, "image")[i] = IF at + i < op.start + op.size THEN Image(at + i - op.start) ELSE FF
  BY <1>1 DEF Buffer
<1>4. Buffer(at, "ram")[i] = ram[a]
  BY <1>1, <1>2
<1>5. Buffer(at, "image")[i] = BodyOf(a)
  <2>1. at + i - op.start = a - op.start /\ (at + i < op.start + op.size <=> a < op.start + op.size)
    <3>1. op.start \in Nat /\ op.size \in Nat /\ a \in Nat /\ i \in Nat
      BY <1>1, Sizes DEF TypeOK, Cells
    <3> QED
      BY <1>1, <3>1
  <2>2. CASE a < op.start + op.size
    <3>1. Buffer(at, "image")[i] = Image(at + i - op.start)
      BY <1>3, <2>1, <2>2
    <3> QED
      BY <3>1, <2>1, <2>2 DEF BodyOf
  <2>3. CASE ~(a < op.start + op.size)
    BY <1>3, <2>1, <2>3 DEF BodyOf
  <2> QED
    BY <2>2, <2>3
<1> QED
  BY <1>4, <1>5 DEF i

LEMMA ProgrammedBlank == \A new: Programmed(FF, new) = new
BY DEF Programmed

\* The loops of XLS: each continues what the one before it left.
LEMMA ImageCellsIssue ==
  ASSUME TypeOK, Polling, Route, InRange, Copied, WholeSectors, ImageLoops, ImageCells,
         Issue, op.kind = "XLS"
  PROVE  ImageCells'
<1> DEFINE j == jobs[1]
           n == Len(jobs)
           S == op.start
           cs == ClearStart(op)
           ce == ClearEnd(op)
<1>a. SUFFICES ASSUME Aligned PROVE ImageCells'
  BY OpFrame DEF Issue, ImageCells
<1>1. /\ pc = "run" /\ n \in 1..4 /\ j \in Loops /\ UNCHANGED <<op, consent, before, ram>>
      /\ (~consent => n = 1) /\ pc' \in {"run", "wait"} /\ ram = before
  <2>1. pc = "run" /\ pc' \in {"run", "wait"}
    BY DEF Issue
  <2> QED
    BY <2>1, IssueIs DEF ImageLoops, Writing, Copied
<1>2. /\ S \in Nat /\ op.size \in Nat /\ j.at \in Nat /\ j.stop \in Nat
      /\ Page \in Nat \ {0} /\ Sector \in Nat \ {0} /\ Cells \subseteq Nat
  BY <1>1, Sizes DEF TypeOK, Loops, Cells
<1>3. op.start \in Cells /\ op.size \in 0..ImageMax /\ End(op) = op.start + op.size - 1 /\ End(op) \in 0..LastAddress
  BY <1>1 DEF TypeOK, InRange
<1>4. /\ Erase(cs, ce) = [do |-> "erase", at |-> cs, stop |-> ce + 2 - Sector, from |-> "none"]
      /\ RestoreHead(op) = [do |-> "program", at |-> cs, stop |-> S, from |-> "ram"]
      /\ RestoreTail(op) = [do |-> "program", at |-> TailStart, stop |-> ce + 1, from |-> "ram"]
      /\ Body(op) = [do |-> "program", at |-> S, stop |-> S + op.size, from |-> "image"]
  BY <1>3, LoopsAre
<1>5. /\ cs \in Nat /\ cs % Sector = 0 /\ cs % Page = 0 /\ cs <= S
      /\ ce \in Nat /\ (ce + 1) % Sector = 0 /\ (ce + 1) % Page = 0
      /\ TailStart \in Nat /\ TailStart % Page = 0 /\ TailStart <= ce + 1
      /\ S + op.size <= TailStart
  BY <1>3, Geometry
<1>6. ASSUME NEW a \in Cells PROVE InSectors(a) <=> cs <= a /\ a <= ce
  <2>1. a \in Nat
    BY <1>2
  <2> QED
    BY <2>1, <1>5 DEF InSectors
<1>7. \A a \in Cells: ~InSectors(a) => chip.cells[a] = before[a]
  BY <1>1, <1>a DEF ImageCells, Writing
<1>8. \A a: InSectors(a)' = InSectors(a) /\ BodyOf(a)' = BodyOf(a)
  BY <1>1, OpFrame
<1>9. (TailStart)' = TailStart /\ (S)' = S /\ (Cells)' = Cells
  BY <1>1, OpFrame DEF Cells
<1> HIDE DEF cs, ce, j, n
<1>10. ASSUME j.at >= j.stop PROVE ImageCells'
  <2>1. Len(jobs') = n - 1 /\ \A i \in 1..(n - 1): jobs'[i] = jobs[i + 1]
    BY <1>10, LoopsStep DEF j, n
  <2>2. chip' = chip
    BY <1>10, IssueIs DEF j
  <2>3. \A a \in Cells: ~InSectors(a) => chip'.cells[a] = before[a]
    BY <1>7, <2>2
  <2>4. CASE n = 4
    <3>1. /\ Continues(j, Erase(cs, ce)) /\ j.at % Sector = 0 /\ j.at \in cs..(ce + 1)
          /\ jobs[2] = RestoreHead(op)
      BY <1>1, <2>4 DEF ImageLoops, Writing, n, j, cs, ce
    <3>2. j.at >= ce + 2 - Sector
      BY <1>10, <1>4, <3>1 DEF Continues
    <3>3. j.at = ce + 1
      <4>1. SUFFICES ASSUME j.at < ce + 1 PROVE FALSE
        BY <1>2, <1>5, <3>1
      <4>2. j.at + Sector <= ce + 1
        BY <4>1, <1>2, <1>5, <3>1, NextMultiple
      <4> QED
        BY <4>2, <3>2, <1>2, <1>5
    <3>4. Len(jobs') = 3 /\ jobs'[1].at = cs
      BY <1>4, <2>1, <2>4, <3>1
    <3>5. \A a \in Cells: InSectors(a) => chip.cells[a] = IF a < j.at THEN FF ELSE before[a]
      BY <1>1, <1>a, <2>4 DEF ImageCells, Writing, n, j
    <3>6. \A a \in Cells: InSectors(a) => chip'.cells[a] = IF a < cs THEN before[a] ELSE FF
      <4>1. ASSUME NEW a \in Cells, InSectors(a) PROVE a < j.at /\ ~(a < cs)
        <5>1. a \in Nat /\ cs <= a /\ a <= ce
          BY <4>1, <1>2, <1>6
        <5> QED
          BY <5>1, <1>5, <3>3
      <4> QED
        BY <4>1, <2>2, <3>5
    <3> QED
      BY <1>1, <1>8, <1>9, <2>3, <3>4, <3>6 DEF ImageCells
  <2>5. CASE n = 3
    <3>1. /\ Continues(j, RestoreHead(op)) /\ j.at <= S /\ jobs[2] = RestoreTail(op)
      BY <1>1, <1>a, <2>5 DEF ImageLoops, Writing, n, j
    <3>2. j.at = S
      BY <1>10, <1>2, <1>4, <3>1 DEF Continues
    <3>3. Len(jobs') = 2 /\ jobs'[1].at = TailStart
      BY <1>4, <2>1, <2>5, <3>1
    <3>4. \A a \in Cells: InSectors(a) => chip.cells[a] = IF a < j.at THEN before[a] ELSE FF
      BY <1>1, <1>a, <2>5 DEF ImageCells, Writing, n, j
    <3>5. TailStart..(TailStart - 1) = {}
      BY <1>5
    <3>6. \A a \in Cells: InSectors(a) =>
            chip'.cells[a] = IF a < S \/ a \in TailStart..(TailStart - 1) THEN before[a] ELSE FF
      BY <2>2, <3>2, <3>4, <3>5
    <3> QED
      BY <1>1, <1>8, <1>9, <2>3, <3>3, <3>6 DEF ImageCells
  <2>6. CASE n = 2
    <3>1. Continues(j, RestoreTail(op)) /\ j.at \in TailStart..(ce + 1) /\ jobs[2] = Body(op)
      BY <1>1, <2>6 DEF ImageLoops, Writing, n, j, ce
    <3>2. j.at = ce + 1
      BY <1>10, <1>2, <1>4, <1>5, <3>1 DEF Continues
    <3>3. Len(jobs') = 1 /\ jobs'[1].at = S
      BY <1>4, <2>1, <2>6, <3>1
    <3>4. \A a \in Cells: InSectors(a) =>
            chip.cells[a] = IF a < S \/ a \in TailStart..(j.at - 1) THEN before[a] ELSE FF
      BY <1>1, <1>a, <2>6 DEF ImageCells, Writing, n, j
    <3>5. \A a \in Cells: InSectors(a) => (a \in TailStart..(j.at - 1) <=> TailStart <= a)
      BY <1>2, <1>5, <1>6, <3>2
    <3>6. \A a \in Cells: InSectors(a) =>
            chip'.cells[a] = IF a < S \/ TailStart <= a THEN before[a]
                             ELSE IF a < S THEN BodyOf(a) ELSE FF
      BY <2>2, <3>4, <3>5
    <3> QED
      BY <1>1, <1>8, <1>9, <2>3, <3>3, <3>6 DEF ImageCells
  <2>7. CASE n = 1
    <3>1. Continues(j, Body(op)) /\ j.at <= TailStart
      BY <1>1, <1>a, <2>7 DEF ImageLoops, Writing, n, j
    <3>2. j.at >= S + op.size
      BY <1>10, <1>4, <3>1 DEF Continues
    <3>3. Len(jobs') = 0
      BY <2>1, <2>7
    <3>4. \A a \in Cells: InSectors(a) =>
            chip.cells[a] = IF a < S \/ TailStart <= a THEN before[a]
                            ELSE IF a < j.at THEN BodyOf(a) ELSE FF
      BY <1>1, <1>a, <2>7 DEF ImageCells, Writing, n, j
    <3>5. \A a \in Cells: ~(a < j.at) => BodyOf(a) = FF
      BY <1>2, <3>2 DEF BodyOf
    <3>6. \A a \in Cells: InSectors(a) =>
            chip'.cells[a] = IF a < S \/ TailStart <= a THEN before[a] ELSE BodyOf(a)
      BY <2>2, <3>4, <3>5
    <3> QED
      BY <1>1, <1>8, <1>9, <2>3, <3>3, <3>6 DEF ImageCells
  <2> QED
    BY <1>1, <2>4, <2>5, <2>6, <2>7
<1>11. ASSUME j.at < j.stop PROVE ImageCells'
  <2>1. Len(jobs') = n /\ jobs'[1].at = Stride(j)
    BY <1>11, LoopsStep DEF j, n
  <2>2. chip'.cells = NewCells(j)
    <3>1. chip' = [chip EXCEPT !.wel = TRUE, !.wip = TRUE, !.cells = NewCells(j)]
      BY <1>11, IssueIs DEF j
    <3> QED
      BY <3>1 DEF TypeOK
  <2>3. CASE n = 4
    <3>1. Continues(j, Erase(cs, ce)) /\ j.at % Sector = 0 /\ j.at \in cs..(ce + 1)
      BY <1>1, <2>3 DEF ImageLoops, Writing, n, j, cs, ce
    <3>2. j.do = "erase" /\ j.at < ce + 2 - Sector /\ jobs'[1].at = j.at + Sector
      BY <1>11, <1>4, <2>1, <3>1 DEF Continues, Stride
    <3>3. chip.unit = Sector
      BY <1>1, <2>3 DEF WholeSectors, n
    <3>4. \A a \in Cells: InSectors(a) => chip.cells[a] = IF a < j.at THEN FF ELSE before[a]
      BY <1>1, <1>a, <2>3 DEF ImageCells, Writing, n, j
    <3>5. \A a \in Cells: chip'.cells[a] = IF j.at <= a /\ a < j.at + Sector THEN FF ELSE chip.cells[a]
      BY <1>1, <2>2, <3>1, <3>2, <3>3, SectorErased DEF j
    <3>6. \A a \in Cells: ~InSectors(a) => chip'.cells[a] = before[a]
      BY <1>2, <1>5, <1>6, <1>7, <3>1, <3>2, <3>5
    <3>7. \A a \in Cells: InSectors(a) => chip'.cells[a] = IF a < j.at + Sector THEN FF ELSE before[a]
      <4> TAKE a \in Cells
      <4>1. a < j.at + Sector <=> a < j.at \/ (j.at <= a /\ a < j.at + Sector)
        <5>1. a \in Nat /\ j.at \in Nat /\ Sector \in Nat  BY <1>2
        <5> QED  BY <5>1
      <4> QED
        BY <3>4, <3>5, <4>1
    <3> QED
      BY <1>1, <1>8, <1>9, <2>1, <2>3, <3>2, <3>6, <3>7 DEF ImageCells
  <2>4. CASE n = 3
    <3>1. Continues(j, RestoreHead(op)) /\ j.at % Page = 0 /\ j.at >= cs
      BY <1>1, <2>4 DEF ImageLoops, Writing, n, j, cs
    <3>2. j.do = "program" /\ j.from = "ram" /\ j.at < S /\ jobs'[1].at = j.at + Page
      BY <1>11, <1>4, <2>1, <3>1 DEF Continues, Stride
    <3>3. j.at + Page <= S
      BY <1>a, <1>2, <3>1, <3>2, NextMultiple DEF Aligned
    <3>4. \A a \in Cells: InSectors(a) => chip.cells[a] = IF a < j.at THEN before[a] ELSE FF
      BY <1>1, <1>a, <2>4 DEF ImageCells, Writing, n, j
    <3>5. \A a \in Cells: chip'.cells[a] =
            IF j.at <= a /\ a < j.at + Page THEN Programmed(chip.cells[a], before[a]) ELSE chip.cells[a]
      BY <1>1, <1>2, <2>2, <3>1, <3>2, PageWritten, BufferIs DEF j
    <3>6. \A a \in Cells: j.at <= a /\ a < j.at + Page => InSectors(a)
      BY <1>2, <1>5, <1>6, <3>1, <3>3
    <3>7. \A a \in Cells: ~InSectors(a) => chip'.cells[a] = before[a]
      BY <1>7, <3>5, <3>6
    <3>8. \A a \in Cells: InSectors(a) => chip'.cells[a] = IF a < j.at + Page THEN before[a] ELSE FF
      <4>1. SUFFICES ASSUME NEW a \in Cells, InSectors(a)
                     PROVE  chip'.cells[a] = IF a < j.at + Page THEN before[a] ELSE FF
        OBVIOUS
      <4>2. CASE j.at <= a /\ a < j.at + Page
        <5>1. chip.cells[a] = FF
          BY <1>2, <3>4, <4>1, <4>2
        <5> QED
          BY <3>5, <4>2, <5>1, ProgrammedBlank
      <4>3. CASE ~(j.at <= a /\ a < j.at + Page)
        <5>1. a < j.at + Page <=> a < j.at
          BY <1>2, <4>3
        <5> QED
          BY <3>4, <3>5, <4>1, <4>3, <5>1
      <4> QED
        BY <4>2, <4>3
    <3> QED
      BY <1>1, <1>8, <1>9, <2>1, <2>4, <3>2, <3>7, <3>8 DEF ImageCells
  <2>5. CASE n = 2
    <3>1. Continues(j, RestoreTail(op)) /\ j.at % Page = 0 /\ j.at \in TailStart..(ce + 1)
      BY <1>1, <2>5 DEF ImageLoops, Writing, n, j, ce
    <3>2. j.do = "program" /\ j.from = "ram" /\ j.at < ce + 1 /\ jobs'[1].at = j.at + Page
      BY <1>11, <1>4, <2>1, <3>1 DEF Continues, Stride
    <3>3. j.at + Page <= ce + 1
      BY <1>2, <1>5, <3>1, <3>2, NextMultiple
    <3>4. \A a \in Cells: InSectors(a) =>
            chip.cells[a] = IF a < S \/ a \in TailStart..(j.at - 1) THEN before[a] ELSE FF
      BY <1>1, <1>a, <2>5 DEF ImageCells, Writing, n, j
    <3>5. \A a \in Cells: chip'.cells[a] =
            IF j.at <= a /\ a < j.at + Page THEN Programmed(chip.cells[a], before[a]) ELSE chip.cells[a]
      BY <1>1, <1>2, <2>2, <3>1, <3>2, PageWritten, BufferIs DEF j
    <3>6. \A a \in Cells: j.at <= a /\ a < j.at + Page => InSectors(a) /\ ~(a < S) /\ TailStart <= a
      BY <1>2, <1>5, <1>6, <3>1, <3>3
    <3>7. \A a \in Cells: ~InSectors(a) => chip'.cells[a] = before[a]
      BY <1>7, <3>5, <3>6
    <3>8. \A a \in Cells: InSectors(a) =>
            chip'.cells[a] = IF a < S \/ a \in TailStart..(j.at + Page - 1) THEN before[a] ELSE FF
      <4>1. SUFFICES ASSUME NEW a \in Cells, InSectors(a)
                     PROVE  chip'.cells[a] = IF a < S \/ a \in TailStart..(j.at + Page - 1) THEN before[a] ELSE FF
        OBVIOUS
      <4>2. CASE j.at <= a /\ a < j.at + Page
        <5>1. chip.cells[a] = FF
          BY <1>2, <3>4, <3>6, <4>1, <4>2
        <5>2. chip'.cells[a] = before[a]
          BY <3>5, <4>2, <5>1, ProgrammedBlank
        <5> QED
          BY <1>2, <1>5, <3>6, <4>2, <5>2
      <4>3. CASE ~(j.at <= a /\ a < j.at + Page)
        <5>1. a \in TailStart..(j.at + Page - 1) <=> a \in TailStart..(j.at - 1)
          BY <1>2, <1>5, <3>1, <4>3
        <5> QED
          BY <3>4, <3>5, <4>1, <4>3, <5>1
      <4> QED
        BY <4>2, <4>3
    <3>9. \A a \in Cells: InSectors(a) =>
            chip'.cells[a] = IF a < S \/ a \in TailStart..(jobs'[1].at - 1) THEN before[a] ELSE FF
      <4>1. TailStart \in Int /\ j.at \in Int /\ Page \in Int
        BY <1>2, <1>5, <3>1
      <4>2. jobs'[1].at = j.at + Page
        BY <3>2
      <4>3. TailStart..(jobs'[1].at - 1) = TailStart..(j.at + Page - 1)
        BY <4>1, <4>2
      <4> QED
        BY <3>8, <4>3
    <3>10. Len(jobs') = 2
      BY <2>1, <2>5
    <3> QED
      BY <1>1, <1>8, <1>9, <3>7, <3>9, <3>10 DEF ImageCells
  <2>6. CASE n = 1
    <3>1. Continues(j, Body(op)) /\ j.at % Page = 0 /\ j.at >= S
      BY <1>1, <1>a, <2>6 DEF ImageLoops, Writing, n, j
    <3>2. j.do = "program" /\ j.from = "image" /\ j.at < S + op.size /\ jobs'[1].at = j.at + Page
      BY <1>11, <1>4, <2>1, <3>1 DEF Continues, Stride
    <3>3. j.at + Page <= TailStart
      <4>1. j.at < TailStart
        BY <1>2, <1>5, <3>2
      <4> QED
        BY <4>1, <1>2, <1>5, <3>1, NextMultiple
    <3>4. \A a \in Cells: InSectors(a) =>
            chip.cells[a] = IF a < S \/ TailStart <= a THEN before[a]
                            ELSE IF a < j.at THEN BodyOf(a) ELSE FF
      BY <1>1, <1>a, <2>6 DEF ImageCells, Writing, n, j
    <3>5. \A a \in Cells: chip'.cells[a] =
            IF j.at <= a /\ a < j.at + Page THEN Programmed(chip.cells[a], BodyOf(a)) ELSE chip.cells[a]
      BY <1>1, <1>2, <2>2, <3>1, <3>2, PageWritten, BufferIs DEF j
    <3>6. \A a \in Cells: j.at <= a /\ a < j.at + Page => InSectors(a) /\ ~(a < S) /\ ~(TailStart <= a)
      BY <1>2, <1>5, <1>6, <3>1, <3>3
    <3>7. \A a \in Cells: ~InSectors(a) => chip'.cells[a] = before[a]
      BY <1>7, <3>5, <3>6
    <3>8. \A a \in Cells: InSectors(a) =>
            chip'.cells[a] = IF a < S \/ TailStart <= a THEN before[a]
                             ELSE IF a < j.at + Page THEN BodyOf(a) ELSE FF
      <4>1. SUFFICES ASSUME NEW a \in Cells, InSectors(a)
                     PROVE  chip'.cells[a] = IF a < S \/ TailStart <= a THEN before[a]
                                             ELSE IF a < j.at + Page THEN BodyOf(a) ELSE FF
        OBVIOUS
      <4>2. CASE j.at <= a /\ a < j.at + Page
        <5>1. chip.cells[a] = FF
          BY <1>2, <3>4, <3>6, <4>1, <4>2
        <5>2. chip'.cells[a] = BodyOf(a)
          BY <3>5, <4>2, <5>1, ProgrammedBlank
        <5> QED
          BY <3>6, <4>2, <5>2
      <4>3. CASE ~(j.at <= a /\ a < j.at + Page)
        <5>1. a < j.at + Page <=> a < j.at
          BY <1>2, <4>3
        <5> QED
          BY <3>4, <3>5, <4>1, <4>3, <5>1
      <4> QED
        BY <4>2, <4>3
    <3> QED
      BY <1>1, <1>8, <1>9, <2>1, <2>6, <3>2, <3>7, <3>8 DEF ImageCells
  <2> QED
    BY <1>1, <2>3, <2>4, <2>5, <2>6
<1> QED
  BY <1>2, <1>10, <1>11

LEMMA ImageCellsStep ==
  ASSUME TypeOK, Polling, Route, InRange, Copied, Untouched, WholeSectors, ImageLoops,
         ImageCells, Next
  PROVE  ImageCells'
<1>1. ASSUME pc' \notin {"unit", "run", "wait"} \/ op'.kind # "XLS" PROVE ImageCells'
  BY <1>1 DEF ImageCells, Writing
<1>2. ASSUME UNCHANGED <<op, jobs, before>>, chip'.cells = chip.cells, Writing PROVE ImageCells'
  <2>1. (Cells)' = Cells
    BY DEF Cells
  <2> QED
    BY <1>2, <2>1, OpFrame, ZenonT(60) DEF ImageCells, Writing
<1>3. ASSUME NEW k \in Kinds, Type(k) PROVE ImageCells'
  BY <1>1, <1>3 DEF Type, Return, Kinds
<1>4. ASSUME NEW start \in Starts, NEW size \in 0..ImageMax, Answer(start, size) PROVE ImageCells'
  BY <1>1, <1>4 DEF Answer, Return
<1>5. ASSUME NEW change \in BOOLEAN, Change(change) PROVE ImageCells'
  BY <1>1, <1>5 DEF Change, Return
<1>6. ASSUME Stop \/ No \/ Show \/ Done PROVE ImageCells'
  BY <1>1, <1>6 DEF Stop, No, Show, Done, Return
<1>7. ASSUME UNCHANGED <<op, before, chip>>, chip.cells = before,
             \/ Len(jobs') = 4 /\ jobs'[1].at = ClearStart(op)
             \/ /\ Len(jobs') = 1 /\ jobs'[1].at = op.start
                /\ \A a \in Cells: InSectors(a) => before[a] = FF,
             pc = "check" \/ pc = "ask", op.kind = "XLS"
      PROVE  ImageCells'
  <2>1. op.start \in Cells /\ op.size \in 0..ImageMax /\ End(op) = op.start + op.size - 1 /\ End(op) \in 0..LastAddress
    BY <1>7 DEF TypeOK, InRange
  <2>2. ClearStart(op) \in Nat /\ ClearEnd(op) \in Nat
    BY <2>1, Geometry
  <2>3. \A a \in Cells: InSectors(a) => ~(a < ClearStart(op))
    BY <2>2 DEF InSectors
  <2>4. \A a: InSectors(a)' = InSectors(a) /\ BodyOf(a)' = BodyOf(a)
    BY <1>7, OpFrame
  <2>5. (Cells)' = Cells /\ (TailStart)' = TailStart
    BY <1>7, OpFrame DEF Cells
  <2>6. CASE Len(jobs') = 4
    BY <1>7, <2>3, <2>4, <2>5, <2>6 DEF ImageCells
  <2>7. CASE Len(jobs') = 1
    BY <1>7, <2>4, <2>5, <2>7 DEF ImageCells
  <2> QED
    BY <1>7, <2>6, <2>7
<1>8. ASSUME Yes PROVE ImageCells'
  <2>1. CASE op.kind = "XCS"
    BY <1>1, <1>8, <2>1 DEF Yes
  <2>2. CASE op.kind = "XLS"
    <3>1. /\ UNCHANGED <<op, before, chip>> /\ pc = "ask"
          /\ jobs' = <<Erase(ClearStart(op), ClearEnd(op)), RestoreHead(op), RestoreTail(op), Body(op)>>
      BY <1>8, <2>2 DEF Yes
    <3>2. op.start \in Cells /\ op.size \in 0..ImageMax /\ End(op) = op.start + op.size - 1 /\ End(op) \in 0..LastAddress
      BY <2>2, <3>1 DEF TypeOK, InRange
    <3>3. Len(jobs') = 4 /\ jobs'[1].at = ClearStart(op)
      BY <3>1, <3>2, LoopsAre
    <3> QED
      BY <1>7, <2>2, <3>1, <3>3 DEF Untouched
  <2> QED
    BY <1>8, <2>1, <2>2 DEF Yes
<1>9. ASSUME Check PROVE ImageCells'
  <2>1. CASE Blank(op)
    <3>1. UNCHANGED <<op, before, chip>> /\ pc = "check" /\ jobs' = <<Body(op)>> /\ op.kind = "XLS"
      BY <1>9, <2>1 DEF Check, Route
    <3>2. Len(jobs') = 1 /\ jobs'[1].at = op.start
      BY <3>1 DEF Body, Save
    <3>3. chip.cells = before
      BY <3>1 DEF Untouched
    <3>4. \A a \in Cells: InSectors(a) => before[a] = FF
      BY <2>1, <3>3 DEF Blank, InSectors
    <3> QED
      BY <1>7, <3>1, <3>2, <3>3, <3>4
  <2>2. CASE ~Blank(op)
    BY <1>1, <1>9, <2>2 DEF Check
  <2> QED
    BY <2>1, <2>2
<1>10. ASSUME SetUnit PROVE ImageCells'
  <2>1. chip'.cells = chip.cells
    BY <1>10 DEF SetUnit, TypeOK
  <2> QED
    BY <1>2, <1>10, <2>1 DEF SetUnit, Writing
<1>11. ASSUME Poll PROVE ImageCells'
  BY <1>2, <1>11 DEF Poll, Writing
<1>12. ASSUME Issue PROVE ImageCells'
  <2>1. UNCHANGED op
    BY <1>12 DEF Issue
  <2> QED
    BY <1>1, <1>12, <2>1, ImageCellsIssue
<1>13. ASSUME Ready PROVE ImageCells'
  <2>1. chip'.cells = chip.cells
    BY <1>13 DEF Ready, Finish, TypeOK
  <2> QED
    BY <1>2, <1>13, <2>1 DEF Ready, Polling, Writing
<1> QED
  BY <1>3, <1>4, <1>5, <1>6, <1>8, <1>9, <1>10, <1>11, <1>12, <1>13 DEF Next, User, Driver

\* The loops of XINFO_BP_S and of XCS.
LEMMA OtherCellsIssue ==
  ASSUME TypeOK, Polling, Route, Copied, WholeSectors, OtherLoops, OtherCells,
         Issue, op.kind # "XLS"
  PROVE  OtherCells'
<1> DEFINE j == jobs[1]
           n == Len(jobs)
<1>1. /\ pc = "run" /\ n \in Nat \ {0} /\ j \in Loops /\ UNCHANGED <<op, before, ram>>
      /\ op.kind \in {"XCS", "XINFO_BP_S"} /\ consent
  <2>1. pc = "run"
    BY DEF Issue
  <2> QED
    BY <2>1, IssueIs DEF Route, Writing
<1>2. /\ j.at \in Nat /\ j.stop \in Nat /\ Page \in Nat \ {0} /\ Sector \in Nat \ {0}
      /\ Sector % Page = 0 /\ Cells \subseteq Nat
  BY <1>1, Sizes DEF Loops, Cells
<1>3. Sector % Sector = 0 /\ 0 % Sector = 0 /\ 0 \in Int
  <2>1. Sector * 1 = Sector /\ Sector * 0 = 0
    BY <1>2
  <2> QED
    BY <2>1, <1>2, TimesIsMultiple
<1>4. /\ Erase(0, Sector - 1) = [do |-> "erase", at |-> 0, stop |-> 1, from |-> "none"]
      /\ Save(0, Sector, "ram") = [do |-> "program", at |-> 0, stop |-> Sector, from |-> "ram"]
  BY InfoLoopsAre
<1>5. (Cells)' = Cells
  BY DEF Cells
<1> HIDE DEF j, n
<1>6. ASSUME j.at >= j.stop PROVE OtherCells'
  <2>1. Len(jobs') = n - 1 /\ \A i \in 1..(n - 1): jobs'[i] = jobs[i + 1]
    BY <1>6, LoopsStep DEF j, n
  <2>2. chip' = chip
    BY <1>6, IssueIs DEF j
  <2>3. CASE op.kind = "XCS"
    <3>1. n = 1 /\ j.stop = 1 /\ j.at >= 1
      BY <1>1, <1>6, <2>3 DEF OtherLoops, Writing, n, j
    <3>2. \A a \in Cells: chip.cells[a] = FF
      BY <1>1, <2>3, <3>1 DEF OtherCells, Writing, n, j
    <3> QED
      BY <1>1, <1>5, <2>2, <2>3, <3>2 DEF OtherCells
  <2>4. CASE op.kind = "XINFO_BP_S" /\ n = 2
    <3>1. /\ Continues(j, Erase(0, Sector - 1)) /\ jobs[2] = Save(0, Sector, "ram")
          /\ j.at % Sector = 0 /\ j.at \in 0..Sector
      BY <1>1, <2>4 DEF OtherLoops, Writing, n, j
    <3>2. 0 < j.at
      BY <1>2, <1>4, <1>6, <3>1 DEF Continues
    <3>3. 0 + Sector <= j.at
      BY <1>2, <1>3, <3>1, <3>2, NextMultiple
    <3>4. j.at = Sector
      BY <1>2, <3>1, <3>3
    <3>5. Len(jobs') = 1 /\ jobs'[1].at = 0
      BY <1>4, <2>1, <2>4, <3>1
    <3>6. /\ \A a \in Cells: a >= Sector => chip.cells[a] = before[a]
          /\ \A a \in Cells: a < Sector => chip.cells[a] = IF a < j.at THEN FF ELSE before[a]
      BY <1>1, <2>4 DEF OtherCells, Writing, n, j
    <3>7. \A a \in Cells: ~(a < 0)
      BY <1>2
    <3>8. \A a \in Cells: a < Sector => chip'.cells[a] = IF a < jobs'[1].at THEN ram[a] ELSE FF
      BY <2>2, <3>4, <3>5, <3>6, <3>7
    <3> QED
      BY <1>1, <1>5, <2>2, <2>4, <3>5, <3>6, <3>8 DEF OtherCells
  <2>5. CASE op.kind = "XINFO_BP_S" /\ n # 2
    <3>1. n = 1
      BY <1>1, <2>5 DEF OtherLoops, Writing, n
    <3>2. Continues(j, Save(0, Sector, "ram")) /\ j.at \in 0..Sector
      BY <1>1, <2>5, <3>1 DEF OtherLoops, Writing, n, j
    <3>3. j.at = Sector
      BY <1>2, <1>4, <1>6, <3>2 DEF Continues
    <3>4. /\ \A a \in Cells: a >= Sector => chip.cells[a] = before[a]
          /\ \A a \in Cells: a < Sector => chip.cells[a] = IF a < j.at THEN ram[a] ELSE FF
      BY <1>1, <2>5, <3>1 DEF OtherCells, Writing, n, j
    <3>5. Len(jobs') = 0
      BY <2>1, <3>1
    <3> QED
      BY <1>1, <1>5, <2>2, <2>5, <3>3, <3>4, <3>5 DEF OtherCells
  <2> QED
    BY <1>1, <2>3, <2>4, <2>5
<1>7. ASSUME j.at < j.stop PROVE OtherCells'
  <2>1. Len(jobs') = n /\ jobs'[1].at = Stride(j)
    BY <1>7, LoopsStep DEF j, n
  <2>2. chip'.cells = NewCells(j)
    <3>1. chip' = [chip EXCEPT !.wel = TRUE, !.wip = TRUE, !.cells = NewCells(j)]
      BY <1>7, IssueIs DEF j
    <3> QED
      BY <3>1 DEF TypeOK
  <2>3. CASE op.kind = "XCS"
    <3>1. j.do = "bulk"
      BY <1>1, <2>3 DEF OtherLoops, Writing, n, j
    <3>2. \A a \in Cells: chip'.cells[a] = FF
      BY <2>2, <3>1 DEF NewCells
    <3> QED
      BY <1>1, <1>5, <2>3, <3>2 DEF OtherCells
  <2>4. CASE op.kind = "XINFO_BP_S" /\ n = 2
    <3>1. Continues(j, Erase(0, Sector - 1)) /\ j.at % Sector = 0
      BY <1>1, <2>4 DEF OtherLoops, Writing, n, j
    <3>2. j.do = "erase" /\ j.at = 0
      BY <1>2, <1>4, <1>7, <3>1 DEF Continues
    <3>3. jobs'[1].at = Sector
      BY <1>2, <2>1, <3>2 DEF Stride
    <3>4. chip.unit = Sector
      BY <1>1, <2>4 DEF WholeSectors
    <3>5. \A a \in Cells: chip'.cells[a] = IF j.at <= a /\ a < j.at + Sector THEN FF ELSE chip.cells[a]
      BY <1>1, <2>2, <3>1, <3>2, <3>4, SectorErased DEF j
    <3>6. \A a \in Cells: chip'.cells[a] = IF a < Sector THEN FF ELSE chip.cells[a]
      <4> TAKE a \in Cells
      <4>1. j.at <= a /\ a < j.at + Sector <=> a < Sector
        <5>1. a \in Nat /\ Sector \in Nat  BY <1>2
        <5> QED  BY <3>2, <5>1
      <4> QED
        BY <3>5, <4>1
    <3>7. \A a \in Cells: a >= Sector => chip.cells[a] = before[a] /\ ~(a < Sector)
      BY <1>1, <1>2, <2>4 DEF OtherCells, Writing, n, j
    <3> QED
      BY <1>1, <1>5, <2>1, <2>4, <3>3, <3>6, <3>7 DEF OtherCells
  <2>5. CASE op.kind = "XINFO_BP_S" /\ n # 2
    <3>1. n = 1
      BY <1>1, <2>5 DEF OtherLoops, Writing, n
    <3>2. Continues(j, Save(0, Sector, "ram")) /\ j.at % Page = 0 /\ j.at \in 0..Sector
      BY <1>1, <2>5, <3>1 DEF OtherLoops, Writing, n, j
    <3>3. j.do = "program" /\ j.from = "ram" /\ j.at < Sector /\ jobs'[1].at = j.at + Page
      BY <1>4, <1>7, <2>1, <3>2 DEF Continues, Stride
    <3>4. j.at + Page <= Sector
      BY <1>2, <3>2, <3>3, NextMultiple
    <3>5. /\ \A a \in Cells: a >= Sector => chip.cells[a] = before[a]
          /\ \A a \in Cells: a < Sector => chip.cells[a] = IF a < j.at THEN ram[a] ELSE FF
      BY <1>1, <2>5, <3>1 DEF OtherCells, Writing, n, j
    <3>6. \A a \in Cells: chip'.cells[a] =
            IF j.at <= a /\ a < j.at + Page THEN Programmed(chip.cells[a], ram[a]) ELSE chip.cells[a]
      BY <1>1, <1>2, <2>2, <3>2, <3>3, PageWritten, BufferIs DEF j
    <3>7. \A a \in Cells: a >= Sector => chip'.cells[a] = before[a]
      <4> TAKE a \in Cells
      <4>1. HAVE a >= Sector
      <4>2. ~(a < j.at + Page)
        <5>1. a \in Nat /\ Sector \in Nat /\ j.at \in Nat /\ Page \in Nat  BY <1>2
        <5> QED  BY <3>4, <4>1, <5>1
      <4> QED
        BY <3>5, <3>6, <4>1, <4>2
    <3>8. \A a \in Cells: a < Sector => chip'.cells[a] = IF a < j.at + Page THEN ram[a] ELSE FF
      <4>1. SUFFICES ASSUME NEW a \in Cells, a < Sector
                     PROVE  chip'.cells[a] = IF a < j.at + Page THEN ram[a] ELSE FF
        OBVIOUS
      <4>2. CASE j.at <= a /\ a < j.at + Page
        <5>1. chip.cells[a] = FF
          BY <1>2, <3>5, <4>1, <4>2
        <5> QED
          BY <3>6, <4>2, <5>1, ProgrammedBlank
      <4>3. CASE ~(j.at <= a /\ a < j.at + Page)
        <5>1. a < j.at + Page <=> a < j.at
          BY <1>2, <4>3
        <5> QED
          BY <3>5, <3>6, <4>1, <4>3, <5>1
      <4> QED
        BY <4>2, <4>3
    <3> QED
      BY <1>1, <1>5, <2>1, <2>5, <3>1, <3>3, <3>7, <3>8 DEF OtherCells
  <2> QED
    BY <1>1, <2>3, <2>4, <2>5
<1> QED
  BY <1>2, <1>6, <1>7

LEMMA OtherCellsStep ==
  ASSUME TypeOK, Polling, Route, Copied, Untouched, WholeSectors, OtherLoops, OtherCells, Next
  PROVE  OtherCells'
<1>1. ASSUME pc' \notin {"unit", "run", "wait"} \/ op'.kind \notin {"XINFO_BP_S", "XCS"}
      PROVE  OtherCells'
  BY <1>1 DEF OtherCells, Writing
<1>2. ASSUME UNCHANGED <<op, jobs, before, ram>>, chip'.cells = chip.cells, Writing PROVE OtherCells'
  BY <1>2 DEF OtherCells, Writing, Cells
<1>3. ASSUME NEW k \in Kinds, Type(k) PROVE OtherCells'
  BY <1>1, <1>3 DEF Type, Return, Kinds
<1>4. ASSUME NEW start \in Starts, NEW size \in 0..ImageMax, Answer(start, size) PROVE OtherCells'
  BY <1>1, <1>4 DEF Answer, Return
<1>5. ASSUME NEW change \in BOOLEAN, Change(change) PROVE OtherCells'
  <2>1. CASE pc' = "unit"
    <3>1. /\ jobs' = <<Erase(0, Sector - 1), Save(0, Sector, "ram")>> /\ op' = op
          /\ op.kind = "XINFO_BP_S" /\ UNCHANGED <<chip, before>> /\ pc = "parameter"
      BY <1>5, <2>1 DEF Change, Return
    <3>2. Len(jobs') = 2 /\ jobs'[1].at = 0
      BY <3>1, InfoLoopsAre
    <3>3. chip.cells = before
      BY <3>1 DEF Untouched
    <3>4. \A a \in Cells: ~(a < 0)
      BY Sizes DEF Cells
    <3> QED
      BY <3>1, <3>2, <3>3, <3>4 DEF OtherCells, Cells
  <2>2. CASE pc' = "idle"
    BY <1>1, <2>2
  <2> QED
    BY <1>5, <2>1, <2>2 DEF Change, Return
<1>6. ASSUME Stop \/ No \/ Show \/ Done PROVE OtherCells'
  BY <1>1, <1>6 DEF Stop, No, Show, Done, Return
<1>7. ASSUME Yes PROVE OtherCells'
  <2>1. CASE op.kind = "XCS" /\ pc' = "run"
    <3>1. jobs' = <<[do |-> "bulk", at |-> 0, stop |-> 1, from |-> "none"]>> /\ op' = op
      BY <1>7, <2>1 DEF Yes, Return
    <3>2. Len(jobs') = 1 /\ ~(jobs'[1].at >= 1)
      BY <3>1
    <3> QED
      BY <2>1, <3>1, <3>2 DEF OtherCells
  <2>2. CASE ~(op.kind = "XCS" /\ pc' = "run")
    BY <1>1, <1>7, <2>2 DEF Yes, Return
  <2> QED
    BY <2>1, <2>2
<1>8. ASSUME Check PROVE OtherCells'
  BY <1>1, <1>8 DEF Check, Route
<1>9. ASSUME SetUnit PROVE OtherCells'
  <2>1. chip'.cells = chip.cells
    BY <1>9 DEF SetUnit, TypeOK
  <2> QED
    BY <1>2, <1>9, <2>1 DEF SetUnit, Writing
<1>10. ASSUME Poll PROVE OtherCells'
  BY <1>2, <1>10 DEF Poll, Writing
<1>11. ASSUME Issue PROVE OtherCells'
  <2>1. UNCHANGED op
    BY <1>11 DEF Issue
  <2> QED
    BY <1>1, <1>11, <2>1, OtherCellsIssue
<1>12. ASSUME Ready PROVE OtherCells'
  <2>1. chip'.cells = chip.cells
    BY <1>12 DEF Ready, Finish, TypeOK
  <2> QED
    BY <1>2, <1>12, <2>1 DEF Ready, Polling, Writing
<1> QED
  BY <1>3, <1>4, <1>5, <1>6, <1>7, <1>8, <1>9, <1>10, <1>11, <1>12 DEF Next, User, Driver

-----------------------------------------------------------------------------
(* No datum is lost without consent.                                       *)

\* An erase or a program of XLS changes cells of the image's sectors only; the
\* one that needs no erase only cells of the image's pages, at any start.
LEMMA IssueWithin ==
  ASSUME TypeOK, Polling, Route, InRange, WholeSectors, ImageLoops, Issue, op.kind = "XLS",
         jobs[1].at < jobs[1].stop, NEW a \in Cells, NewCells(jobs[1])[a] # chip.cells[a]
  PROVE  InSectors(a) /\ (~consent => SharesPage(a))
<1> DEFINE j == jobs[1]
           n == Len(jobs)
           S == op.start
           cs == ClearStart(op)
           ce == ClearEnd(op)
<1>1. pc = "run" /\ n \in 1..4 /\ j \in Loops /\ (~consent => n = 1)
  <2>1. pc = "run"
    BY DEF Issue
  <2> QED
    BY <2>1, IssueIs DEF ImageLoops, Writing
<1>2. /\ S \in Nat /\ op.size \in Nat /\ j.at \in Nat /\ j.stop \in Nat /\ a \in Nat
      /\ Page \in Nat \ {0} /\ Sector \in Nat \ {0}
  BY <1>1, Sizes DEF TypeOK, Loops, Cells
<1>3. op.start \in Cells /\ op.size \in 0..ImageMax /\ End(op) = op.start + op.size - 1 /\ End(op) \in 0..LastAddress
  BY <1>1 DEF TypeOK, InRange
<1>4. /\ Erase(cs, ce) = [do |-> "erase", at |-> cs, stop |-> ce + 2 - Sector, from |-> "none"]
      /\ RestoreHead(op) = [do |-> "program", at |-> cs, stop |-> S, from |-> "ram"]
      /\ RestoreTail(op) = [do |-> "program", at |-> TailStart, stop |-> ce + 1, from |-> "ram"]
      /\ Body(op) = [do |-> "program", at |-> S, stop |-> S + op.size, from |-> "image"]
  BY <1>3, LoopsAre
<1>5. /\ cs \in Nat /\ cs % Sector = 0 /\ cs % Page = 0 /\ cs <= S
      /\ ce \in Nat /\ (ce + 1) % Sector = 0 /\ (ce + 1) % Page = 0
      /\ TailStart \in Nat /\ TailStart % Page = 0 /\ TailStart <= ce + 1
      /\ S + op.size <= TailStart
  BY <1>3, Geometry
<1>6. InSectors(a) <=> cs <= a /\ a <= ce
  BY <1>2, <1>5 DEF InSectors
<1> HIDE DEF j, n, cs, ce
<1>7. ASSUME n = 4 PROVE InSectors(a)
  <2>1. Continues(j, Erase(cs, ce)) /\ j.at % Sector = 0 /\ j.at \in cs..(ce + 1)
    BY <1>1, <1>7 DEF ImageLoops, Writing, n, j, cs, ce
  <2>2. j.do = "erase" /\ j.at < ce + 2 - Sector
    BY <1>4, <2>1 DEF Continues, j
  <2>3. chip.unit = Sector
    BY <1>1, <1>7 DEF WholeSectors, n
  <2>4. j.at <= a /\ a < j.at + Sector
    BY <1>1, <2>1, <2>2, <2>3, SectorErased DEF j
  <2> QED
    BY <1>2, <1>5, <1>6, <2>1, <2>2, <2>4
<1>8. ASSUME n # 4 PROVE j.do = "program" /\ cs <= j.at /\ j.at < ce + 1
  <2>1. CASE n = 3
    <3>1. Continues(j, RestoreHead(op)) /\ j.at >= cs
      BY <1>1, <2>1 DEF ImageLoops, Writing, n, j, cs
    <3>2. j.do = "program" /\ j.at < S
      BY <1>4, <3>1 DEF Continues, j
    <3> QED
      BY <1>2, <1>5, <3>1, <3>2
  <2>2. CASE n = 2
    <3>1. Continues(j, RestoreTail(op)) /\ j.at \in TailStart..(ce + 1)
      BY <1>1, <2>2 DEF ImageLoops, Writing, n, j, ce
    <3>2. j.do = "program" /\ j.at < ce + 1
      BY <1>4, <3>1 DEF Continues, j
    <3> QED
      BY <1>2, <1>5, <3>1, <3>2
  <2>3. CASE n = 1
    <3>1. Continues(j, Body(op)) /\ j.at >= S
      BY <1>1, <2>3 DEF ImageLoops, Writing, n, j
    <3>2. j.do = "program" /\ j.at < S + op.size
      BY <1>4, <3>1 DEF Continues, j
    <3> QED
      BY <1>2, <1>5, <3>1, <3>2
  <2> QED
    BY <1>1, <1>8, <2>1, <2>2, <2>3
<1>9. ASSUME n # 4 PROVE PageTop(a) = PageTop(j.at) /\ InSectors(a)
  <2>1. PageTop(a) = PageTop(j.at)
    BY <1>8, <1>9 DEF NewCells, j
  <2>2. PageTop(a) \in Nat /\ PageTop(a) <= a /\ a < PageTop(a) + Page
    BY <1>2, PageOf
  <2>3. cs <= PageTop(j.at)
    <3>1. cs \in Int /\ j.at \in Int /\ cs <= j.at /\ cs % Page = 0
      BY <1>2, <1>5, <1>8, <1>9
    <3> QED
      BY <3>1, <1>2, BlockWithin DEF PageTop
  <2>4. PageTop(j.at) + Page <= ce + 1
    <3>1. ce + 1 \in Int /\ j.at \in Int /\ j.at < ce + 1 /\ (ce + 1) % Page = 0
      BY <1>2, <1>5, <1>8, <1>9
    <3> QED
      BY <3>1, <1>2, BlockWithin DEF PageTop
  <2> QED
    BY <1>2, <1>5, <1>6, <2>1, <2>2, <2>3, <2>4
<1>10. ASSUME ~consent PROVE SharesPage(a)
  <2>1. n = 1
    BY <1>1, <1>10
  <2>2. Continues(j, Body(op)) /\ j.at >= S
    BY <1>1, <2>1 DEF ImageLoops, Writing, n, j
  <2>3. j.at < S + op.size
    BY <1>4, <2>2 DEF Continues, j
  <2>4. j.at - S \in 0..(op.size - 1) /\ op.start + (j.at - S) = j.at
    BY <1>2, <2>2, <2>3
  <2>5. PageTop(a) = PageTop(j.at)
    BY <1>9, <2>1
  <2> QED
    BY <2>4, <2>5 DEF SharesPage
<1> QED
  BY <1>7, <1>9, <1>10

LEMMA ConsentStep ==
  ASSUME TypeOK, Polling, Route, InRange, Untouched, WholeSectors, ImageLoops, NotAsked,
         ConsentGiven, Next
  PROVE  ConsentGiven'
<1>0. (Cells)' = Cells /\ Kinds' = Kinds
  BY DEF Cells, Kinds
<1>1. ASSUME chip'.cells = before' PROVE ConsentGiven'
  BY <1>0, <1>1 DEF ConsentGiven
<1>2. ASSUME UNCHANGED <<op, consent, before>>, chip'.cells = chip.cells PROVE ConsentGiven'
  <2>1. \A a: InSectors(a)' = InSectors(a)
    BY <1>2, OpFrame
  <2>2. \A a: SharesPage(a)' = SharesPage(a)
    BY <1>2 DEF SharesPage, PageTop
  <2> QED
    BY <1>0, <1>2, <2>1, <2>2 DEF ConsentGiven, InSectors
<1>3. ASSUME NEW k \in Kinds, Type(k) PROVE ConsentGiven'
  BY <1>1, <1>3 DEF Type, TypeOK
<1>4. ASSUME NEW start \in Starts, NEW size \in 0..ImageMax, Answer(start, size) PROVE ConsentGiven'
  BY <1>1, <1>4 DEF Answer, Untouched
<1>5. ASSUME NEW change \in BOOLEAN, Change(change) PROVE ConsentGiven'
  BY <1>1, <1>5 DEF Change, Untouched
<1>6. ASSUME Yes PROVE ConsentGiven'
  BY <1>1, <1>6 DEF Yes, Untouched
<1>7. ASSUME Stop \/ No \/ Check \/ Show \/ Poll \/ Done PROVE ConsentGiven'
  BY <1>2, <1>7 DEF Stop, No, Check, Show, Poll, Done, Return
<1>8. ASSUME SetUnit PROVE ConsentGiven'
  <2>1. chip'.cells = chip.cells
    BY <1>8 DEF SetUnit, TypeOK
  <2> QED
    BY <1>2, <1>8, <2>1 DEF SetUnit
<1>9. ASSUME Ready PROVE ConsentGiven'
  <2>1. chip'.cells = chip.cells
    BY <1>9 DEF Ready, Finish, TypeOK
  <2> QED
    BY <1>2, <1>9, <2>1 DEF Ready
<1>10. ASSUME Issue PROVE ConsentGiven'
  <2>1. /\ pc = "run" /\ UNCHANGED <<op, consent, before>>
        /\ op.kind \in {"XLS", "XCS", "XINFO_BP_S"} /\ (op.kind # "XLS" => consent)
        /\ jobs[1].at \in Nat /\ jobs[1].stop \in Nat
    BY <1>10, IssueIs DEF Route, Writing, Loops
  <2>2. CASE op.kind # "XLS"
    BY <2>1, <2>2 DEF ConsentGiven
  <2>3. CASE jobs[1].at >= jobs[1].stop
    BY <1>2, <1>10, <2>1, <2>3, IssueIs
  <2>4. CASE op.kind = "XLS" /\ jobs[1].at < jobs[1].stop
    <3>1. chip' = [chip EXCEPT !.wel = TRUE, !.wip = TRUE, !.cells = NewCells(jobs[1])]
      BY <1>10, <2>4, IssueIs
    <3>2. chip'.cells = NewCells(jobs[1])
      BY <3>1 DEF TypeOK
    <3>3. /\ \A a: InSectors(a)' = InSectors(a)
          /\ \A a: SharesPage(a)' = SharesPage(a)
      BY <2>1, OpFrame DEF SharesPage, PageTop
    <3>4. ASSUME NEW a \in Cells, chip'.cells[a] # before[a]
          PROVE  \/ consent /\ InSectors(a)
                 \/ before[a] = FF /\ SharesPage(a)
      <4>1. CASE chip.cells[a] # before[a]
        BY <2>4, <4>1 DEF ConsentGiven, InSectors, Kinds
      <4>2. CASE chip.cells[a] = before[a]
        <5>1. NewCells(jobs[1])[a] # chip.cells[a]
          BY <3>2, <3>4, <4>2
        <5>2. InSectors(a) /\ (~consent => SharesPage(a))
          BY <1>10, <2>4, <5>1, IssueWithin
        <5>3. ~consent => before[a] = FF
          BY <2>1, <2>4, <5>2 DEF NotAsked
        <5> QED
          BY <5>2, <5>3
      <4> QED
        BY <4>1, <4>2
    <3> QED
      BY <1>0, <2>1, <3>3, <3>4 DEF ConsentGiven, InSectors
  <2> QED
    BY <2>1, <2>2, <2>3, <2>4
<1> QED
  BY <1>3, <1>4, <1>5, <1>6, <1>7, <1>8, <1>9, <1>10 DEF Next, User, Driver

-----------------------------------------------------------------------------
(* What a complete command leaves.                                         *)

\* The image of XLS is in the flash, and its neighbours are.
LEMMA ImageWritten ==
  ASSUME TypeOK, InRange, ImageCells, pc = "run", jobs = <<>>, op.kind = "XLS", Aligned
  PROVE  /\ \A i \in 0..(op.size - 1): chip.cells[op.start + i] = Image(i)
         /\ \A a \in Cells: ~SharesPage(a) => chip.cells[a] = before[a]
<1> DEFINE S == op.start
           cs == ClearStart(op)
           ce == ClearEnd(op)
<1>1. op.start \in Cells /\ op.size \in 0..ImageMax /\ End(op) = op.start + op.size - 1 /\ End(op) \in 0..LastAddress
  BY DEF TypeOK, InRange
<1>2. /\ S \in Nat /\ op.size \in Nat /\ Page \in Nat \ {0} /\ LastAddress < FlashSize /\ FlashSize \in Nat
      /\ LastAddress \in Nat /\ Cells = 0..(FlashSize - 1)
  BY <1>1, Sizes DEF Cells
<1>3. /\ cs \in Nat /\ cs <= S /\ ce \in Nat
      /\ TailStart \in Nat /\ TailStart % Page = 0 /\ TailStart <= ce + 1
      /\ S + op.size <= TailStart /\ TailStart < S + op.size + Page
  BY <1>1, Geometry
<1>4. /\ \A a \in Cells: ~InSectors(a) => chip.cells[a] = before[a]
      /\ \A a \in Cells: InSectors(a) =>
           chip.cells[a] = IF a < S \/ TailStart <= a THEN before[a] ELSE BodyOf(a)
  <2>1. Len(jobs) = 0
    OBVIOUS
  <2> QED
    BY <2>1 DEF ImageCells, Writing
<1>5. ASSUME NEW a \in Cells PROVE InSectors(a) <=> cs <= a /\ a <= ce
  <2>1. a \in Nat
    BY <1>2
  <2> QED
    BY <2>1, <1>3 DEF InSectors
<1> HIDE DEF cs, ce
<1>6. ASSUME NEW i \in 0..(op.size - 1) PROVE chip.cells[S + i] = Image(i)
  <2> DEFINE a == S + i
  <2>0. S + op.size - 1 <= LastAddress
    BY <1>1, <1>2
  <2>1. /\ a \in 0..(FlashSize - 1) /\ a - S = i /\ a < S + op.size
        /\ ~(a < S) /\ ~(TailStart <= a) /\ cs <= a /\ a <= ce
    <3>1. i \in Nat /\ i <= op.size - 1
      BY <1>2
    <3>2. a \in Nat /\ a <= LastAddress /\ a - S = i /\ a < S + op.size /\ ~(a < S)
      BY <3>1, <1>2, <2>0
    <3> HIDE DEF a
    <3>3. ~(TailStart <= a) /\ cs <= a /\ a <= ce
      BY <3>2, <1>2, <1>3, SMTT(20)
    <3>4. a \in 0..(FlashSize - 1)
      BY <3>2, <1>2
    <3> QED
      BY <3>2, <3>3, <3>4
  <2> HIDE DEF a
  <2>2. InSectors(a)
    BY <1>2, <1>5, <2>1
  <2>3. BodyOf(a) = Image(i)
    BY <2>1 DEF BodyOf
  <2>4. chip.cells[a] = Image(i)
    BY <1>2, <1>4, <2>1, <2>2, <2>3
  <2> QED
    BY <2>4 DEF a
<1>7. ASSUME NEW a \in Cells, ~SharesPage(a) PROVE chip.cells[a] = before[a]
  <2>1. SUFFICES ASSUME InSectors(a), ~(a < S), ~(TailStart <= a) PROVE FALSE
    BY <1>4
  <2>0. a \in Nat
    BY <1>2
  <2>2. a \in Nat /\ PageTop(a) \in Nat /\ PageTop(a) % Page = 0 /\ PageTop(a) <= a
    BY <2>0, PageOf
  <2>3. S <= PageTop(a)
    <3>1. S \in Int /\ a \in Int /\ S <= a /\ S % Page = 0
      BY <1>2, <2>1, <2>2 DEF Aligned
    <3> QED
      BY <3>1, <1>2, BlockWithin DEF PageTop
  <2>4. PageTop(a) + Page <= TailStart
    <3>1. TailStart \in Int /\ a \in Int /\ a < TailStart
      BY <1>3, <2>1, <2>2
    <3> QED
      BY <3>1, <1>2, <1>3, BlockWithin DEF PageTop
  <2>5. PageTop(a) - S \in 0..(op.size - 1) /\ S + (PageTop(a) - S) = PageTop(a)
    <3>1. PICK t \in Nat: t = PageTop(a)
      BY <2>2
    <3>2. PICK e \in Nat: e = TailStart
      BY <1>3
    <3>3. S <= t /\ t + Page <= e /\ e < S + op.size + Page
      BY <1>3, <2>3, <2>4, <3>1, <3>2
    <3>4. t - S \in 0..(op.size - 1) /\ S + (t - S) = t
      BY <1>2, <3>3
    <3> QED
      BY <3>1, <3>4
  <2>6. PageTop(PageTop(a)) = PageTop(a)
    BY <2>2, PageIs
  <2>7. PageTop(a) = PageTop(S + (PageTop(a) - S))
    BY <2>5, <2>6
  <2> QED
    BY <1>7, <2>5, <2>7 DEF SharesPage
<1> QED
  BY <1>6, <1>7

\* XINFO_BP_S has changed the two words, and XCS has blanked the flash.
LEMMA OthersWritten ==
  ASSUME TypeOK, Copied, OtherCells, pc = "run", jobs = <<>>
  PROVE  /\ op.kind = "XINFO_BP_S" =>
              chip.cells = [before EXCEPT ![0] = BootSize, ![SignatureAt] = Signature]
         /\ op.kind = "XCS" => \A a \in Cells: chip.cells[a] = FF
<1>1. Len(jobs) = 0 /\ Writing
  BY DEF Writing
<1>2. ASSUME op.kind = "XINFO_BP_S"
      PROVE  chip.cells = [before EXCEPT ![0] = BootSize, ![SignatureAt] = Signature]
  <2>1. ram = [before EXCEPT ![0] = BootSize, ![SignatureAt] = Signature]
    BY <1>1, <1>2 DEF Copied
  <2>2. /\ \A a \in Cells: a >= Sector => chip.cells[a] = before[a]
        /\ \A a \in Cells: a < Sector => chip.cells[a] = ram[a]
    BY <1>1, <1>2 DEF OtherCells
  <2>3. chip.cells \in [Cells -> Data] /\ before \in [Cells -> Data] /\ ram \in [Cells -> Data]
    BY DEF TypeOK
  <2>4. /\ Sector \in Nat \ {0} /\ SignatureAt < Sector /\ SignatureAt \in Int
        /\ \A a \in Cells: a \in Nat
    BY Sizes DEF Cells
  <2>5. ASSUME NEW a \in Cells PROVE chip.cells[a] = ram[a]
    <3>1. CASE a < Sector
      BY <2>2, <3>1
    <3>2. CASE ~(a < Sector)
      <4>1. a >= Sector /\ a # 0 /\ a # SignatureAt
        BY <2>4, <3>2
      <4>2. ram[a] = before[a]
        BY <2>1, <2>3, <4>1
      <4> QED
        BY <2>2, <4>1, <4>2
    <3> QED
      BY <3>1, <3>2
  <2>6. chip.cells = ram
    BY <2>3, <2>5
  <2> QED
    BY <2>1, <2>6
<1>3. ASSUME op.kind = "XCS" PROVE \A a \in Cells: chip.cells[a] = FF
  BY <1>1, <1>3 DEF OtherCells
<1> QED
  BY <1>2, <1>3

LEMMA CompleteStep ==
  ASSUME TypeOK, Polling, Route, InRange, Copied, ImageCells, OtherCells,
         CompleteMeansDone, NeighboursKept, Next
  PROVE  CompleteMeansDone' /\ NeighboursKept'
<1> USE DEF CompleteMeansDone, NeighboursKept, Written
<1>0. (Cells)' = Cells
  BY DEF Cells
<1>1. ASSUME pc' # "idle" \/ outcome' # "complete" PROVE CompleteMeansDone' /\ NeighboursKept'
  BY <1>1
<1>2. ASSUME NEW k \in Kinds, Type(k) PROVE CompleteMeansDone' /\ NeighboursKept'
  BY <1>1, <1>2 DEF Type, Return, Kinds
<1>3. ASSUME NEW start \in Starts, NEW size \in 0..ImageMax, Answer(start, size)
      PROVE  CompleteMeansDone' /\ NeighboursKept'
  BY <1>1, <1>3 DEF Answer, Return
<1>4. ASSUME NEW change \in BOOLEAN, Change(change) PROVE CompleteMeansDone' /\ NeighboursKept'
  <2>1. CASE pc' = "unit"
    BY <1>1, <2>1
  <2>2. CASE pc' # "unit"
    <3>1. op'.kind = "XINFO_BP_S" /\ consent' = FALSE
      BY <1>4, <2>2 DEF Change, Route, TypeOK, Writing
    <3> QED
      BY <3>1
  <2> QED
    BY <2>1, <2>2
<1>5. ASSUME Stop \/ No PROVE CompleteMeansDone' /\ NeighboursKept'
  BY <1>1, <1>5 DEF Stop, No, Return
<1>6. ASSUME Yes PROVE CompleteMeansDone' /\ NeighboursKept'
  BY <1>1, <1>6 DEF Yes, Return
<1>7. ASSUME Check \/ SetUnit \/ Poll PROVE CompleteMeansDone' /\ NeighboursKept'
  BY <1>1, <1>7 DEF Check, SetUnit, Poll
<1>8. ASSUME Show PROVE CompleteMeansDone' /\ NeighboursKept'
  <2>1. op'.kind = "XINFO_BP"
    BY <1>8 DEF Show
  <2> QED
    BY <2>1
<1>9. ASSUME Issue PROVE CompleteMeansDone' /\ NeighboursKept'
  BY <1>1, <1>9 DEF Issue
<1>10. ASSUME Done PROVE CompleteMeansDone' /\ NeighboursKept'
  <2>1. UNCHANGED <<op, chip, before, consent>> /\ pc = "run" /\ jobs = <<>>
    BY <1>10 DEF Done
  <2>2. op.kind = "XLS" /\ Aligned =>
          /\ \A i \in 0..(op.size - 1): chip.cells[op.start + i] = Image(i)
          /\ \A a \in Cells: ~SharesPage(a) => chip.cells[a] = before[a]
    BY <2>1, ImageWritten
  <2>3. Saved(op)' = Saved(op) /\ \A a: SharesPage(a)' = SharesPage(a)
    BY <2>1 DEF Saved, SharesPage, PageTop
  <2>4. op.kind = "XLS" /\ Aligned => Saved(op)
    BY <2>2 DEF Saved
  <2> QED
    BY <1>0, <2>1, <2>2, <2>3, <2>4, OthersWritten DEF Aligned
<1>11. ASSUME Ready PROVE CompleteMeansDone' /\ NeighboursKept'
  BY <1>1, <1>11 DEF Ready, Polling
<1> QED
  BY <1>2, <1>3, <1>4, <1>5, <1>6, <1>7, <1>8, <1>9, <1>10, <1>11 DEF Next, User, Driver

-----------------------------------------------------------------------------
(* The theorems.                                                           *)

LEMMA InitInv == Init => IInv
<1> SUFFICES ASSUME Init PROVE IInv
  OBVIOUS
<1>1. PICK blank \in SUBSET (0..(FlashSize \div Sector - 1)), unit \in Units:
        chip = Chip([a \in Cells |-> IF a \div Sector \in blank THEN FF ELSE Was(a)], unit)
  BY DEF Init
<1> DEFINE cells == [a \in Cells |-> IF a \div Sector \in blank THEN FF ELSE Was(a)]
<1>2. cells \in [Cells -> Data] /\ [a \in Cells |-> FF] \in [Cells -> Data]
  BY ContentsTyped
<1>3. unit \in {Page, Sector}
  BY Sizes
<1> HIDE DEF cells
<1>4. chip = [cells |-> cells, wel |-> FALSE, wip |-> FALSE, unit |-> unit, lost |-> FALSE]
  BY <1>1 DEF Chip, cells
<1>5. /\ pc = "idle" /\ op = [kind |-> "none", start |-> 0, size |-> 0] /\ outcome = "none"
      /\ known \in BOOLEAN /\ ram = [a \in Cells |-> FF] /\ jobs = <<>>
      /\ before = chip.cells /\ consent = FALSE
  BY DEF Init, NoOp
<1>6. 0 \in Cells /\ 0 \in 0..ImageMax
  BY Sizes
<1>7. TypeOK
  <2>1. jobs \in Seq(Loops)
    BY <1>5
  <2>2. chip \in [cells: [Cells -> Data], wel: BOOLEAN, wip: BOOLEAN, unit: {Page, Sector}, lost: BOOLEAN]
    BY <1>2, <1>3, <1>4
  <2>3. before \in [Cells -> Data]
    BY <1>2, <1>4, <1>5
  <2>4. op \in [kind: Kinds \cup {"none"}, start: Cells, size: 0..ImageMax]
    BY <1>5, <1>6
  <2> QED
    BY <1>2, <1>5, <2>1, <2>2, <2>3, <2>4 DEF TypeOK, Steps
<1>8. Polling
  BY <1>4 DEF Polling
<1>9. ConsentGiven /\ CompleteMeansDone /\ NeighboursKept
  BY <1>5 DEF ConsentGiven, CompleteMeansDone, NeighboursKept, Written
<1>10. Route /\ InRange /\ Copied /\ Untouched /\ WholeSectors /\ ImageLoops /\ OtherLoops
       /\ ImageCells /\ OtherCells /\ NotAsked
  BY <1>5 DEF Route, InRange, Copied, Untouched, WholeSectors, ImageLoops, OtherLoops, ImageCells,
              OtherCells, NotAsked, Writing
<1> QED
  BY <1>7, <1>8, <1>9, <1>10 DEF IInv

LEMMA StepInv == IInv /\ [Next]_vars => IInv'
<1> SUFFICES ASSUME IInv, [Next]_vars PROVE IInv'
  OBVIOUS
<1> USE DEF IInv
<1>1. ASSUME Next PROVE IInv'
  <2>1. TypeOK' /\ Polling' /\ Route' /\ InRange' /\ Copied' /\ Untouched' /\ WholeSectors'
    BY <1>1, TypeStep, PollingStep, RouteStep, InRangeStep, CopiedStep, UntouchedStep, WholeSectorsStep
  <2>2. ImageLoops' /\ OtherLoops' /\ ImageCells' /\ OtherCells' /\ NotAsked'
    BY <1>1, ImageLoopsStep, OtherLoopsStep, ImageCellsStep, OtherCellsStep, NotAskedStep
  <2>3. ConsentGiven' /\ CompleteMeansDone' /\ NeighboursKept'
    BY <1>1, ConsentStep, CompleteStep
  <2> QED
    BY <2>1, <2>2, <2>3
<1>2. ASSUME UNCHANGED vars PROVE IInv'
  <2>1. UNCHANGED op
    BY <1>2 DEF vars
  <2> QED
    BY <1>2, <2>1, OpFrame DEF vars, TypeOK, Polling, Route, InRange, Copied, Untouched, WholeSectors,
       ImageLoops, OtherLoops, ImageCells, OtherCells, NotAsked, ConsentGiven, CompleteMeansDone,
       NeighboursKept, Written, Saved, SharesPage, Writing
<1> QED
  BY <1>1, <1>2

\* The invariant of the SPI flash commands of the build with DDR memory, for
\* every flash size, sector size and page size.
THEOREM Invariant == Spec => []IInv
BY InitInv, StepInv, PTL DEF Spec

\* Every variable has its type.
THEOREM TypeCorrect == Spec => []TypeOK
<1>1. IInv => TypeOK
  BY DEF IInv
<1> QED
  BY <1>1, Invariant, PTL

\* No erase or program is sent to a flash that is busy with the last one
\* (spiflash1drv.c polls its status after each).
THEOREM NothingIsLost == Spec => []NothingLost
<1>1. IInv => NothingLost
  BY DEF IInv, Polling, NothingLost
<1> QED
  BY <1>1, Invariant, PTL

\* Outside the sectors of the image XLS2 and XLS3 change nothing, and no datum is
\* lost before the user has said y (dgmodul4.c asks unless the sectors are blank).
THEOREM ConsentIsGiven == Spec => []ConsentGiven
<1>1. IInv => ConsentGiven
  BY DEF IInv
<1> QED
  BY <1>1, Invariant, PTL

\* When a command has come back complete, the flash holds what it promised.
THEOREM CompleteIsDone == Spec => []CompleteMeansDone
<1>1. IInv => CompleteMeansDone
  BY DEF IInv
<1> QED
  BY <1>1, Invariant, PTL

\* What lies in the erased sectors beside the pages of the image comes back.
THEOREM NeighboursComeBack == Spec => []NeighboursKept
<1>1. IInv => NeighboursKept
  BY DEF IInv
<1> QED
  BY <1>1, Invariant, PTL
-----------------------------------------------------------------------------
(* The build without DDR memory: the inductive invariant of SpiStream.     *)

\* Every variable has its type; the buffer that is filled goes to the place of its
\* first byte.
Receiving == pc \in {"receive", "full"}
Erasing   == pc \in {"erase", "erasing"}
StreamTypes ==
  /\ pc \in {"idle", "erase", "erasing", "receive", "full", "saving", "done"}
  /\ op \in [kind: {"none", "XLS2", "XLS3"}, start: Cells, size: 0..ImageMax]
  /\ chip = [cells |-> chip.cells, wel |-> chip.wel, wip |-> chip.wip,
             unit |-> chip.unit, lost |-> chip.lost]
  /\ chip.cells = [a \in Cells |-> chip.cells[a]] /\ chip.wip \in BOOLEAN
  /\ buffers = [b \in {0, 1} |-> [i \in 0..(Page - 1) |-> buffers[b][i]]]
  /\ bufferIndex \in {0, 1} /\ readCount \in 0..Page
  /\ pc = "receive" => readCount < Page
  /\ pc = "full" => readCount = Page
  /\ sectorAd \in Nat /\ offset \in readCount..ImageMax /\ address = op.start + offset - readCount
  /\ sent \subseteq 0..(offset - 1) /\ gapped \in BOOLEAN
  /\ Erasing => offset = 0

\* No program or erase has been ignored, and the loop of the erase polls.
StreamPolls == ~chip.lost /\ (pc = "erase" => ~chip.wip)

\* The end address on the screen is that of the image that has ended.
StreamShown == (ended => shown = Stream!Reached) /\ (ended => ~Receiving /\ ~Erasing)

\* What ImageSaved is about: bytes that fit, from the start of a page, without gaps
\* inside a page.
Regular == Stream!Fits /\ op.size > 0 /\ op.start % Page = 0 /\ ~gapped

\* The blocks of the typed size.
InBlocks(a) == Stream!BlockTop(a) \in Stream!BlockTop(op.start)..(op.start + op.size - 1)

\* Those in front of sectorAd have been erased, the rest is as it was.
BlocksErased ==
  Regular /\ Erasing =>
    /\ sectorAd % Block = 0
    /\ sectorAd \in Stream!BlockTop(op.start)..(Stream!EraseStop(op) + Block)
    /\ \A a \in Cells: chip.cells[a] =
         IF Stream!BlockTop(op.start) <= Stream!BlockTop(a) /\ Stream!BlockTop(a) < sectorAd
         THEN FF ELSE before[a]

\* The pages in front of the buffer that is filled are in the flash, those from its
\* place on are blank, and it holds the last bytes received.
Begun == offset - readCount
PagesWritten ==
  Regular /\ ~Erasing =>
    /\ address % Page = 0
    /\ \A a \in Cells: ~InBlocks(a) => chip.cells[a] = before[a]
    /\ Receiving => \A a \in Cells: InBlocks(a) /\ address <= a => chip.cells[a] = FF
    /\ Receiving => \A i \in Begun..(offset - 1): buffers[bufferIndex][i - Begun] = Stream!Image(i)
    /\ \A i \in sent: i < Begun \/ ended => chip.cells[op.start + i] = Stream!Image(i)

StreamInv == StreamTypes /\ StreamPolls /\ StreamShown /\ BlocksErased /\ PagesWritten


-----------------------------------------------------------------------------
(* The geometry of the blocks of SpiStream.                                *)

LEMMA StreamSizes ==
  /\ Page \in Nat \ {0} /\ Block \in Nat \ {0} /\ Block % Page = 0
  /\ FlashSize \in Nat \ {0} /\ FlashSize % Block = 0 /\ FlashSize % Page = 0
  /\ ImageMax \in Nat /\ Space \in Nat \ {0} /\ Space > FlashSize + ImageMax
  /\ Stream!Cells = Cells /\ Cells = 0..(FlashSize - 1)
<1>1. /\ Page \in Nat \ {0} /\ FlashSize \in Nat /\ FlashSize % Page = 0
      /\ Block \in Nat \ {0} /\ Block % Page = 0 /\ FlashSize % Block = 0
      /\ ImageMax \in Nat /\ Space \in Nat /\ Space > FlashSize + ImageMax
      /\ Reserved \in 0..(FlashSize - 1)
  BY FlashAssumption, StreamBounds DEF Stream!StreamAssumption
<1>2. Space \in Nat \ {0} /\ FlashSize \in Nat \ {0}  BY <1>1
<1> QED  BY <1>1, <1>2 DEF Stream!Cells, Cells

\* The block of a number, and how it lies to multiples of the size.
LEMMA BlockOf ==
  ASSUME NEW a \in Nat
  PROVE  LET t == Stream!BlockTop(a) IN
         /\ t \in Nat /\ t % Block = 0 /\ t % Page = 0 /\ t <= a /\ a < t + Block
         /\ \A m \in Int: m % Block = 0 => (m <= a => m <= t) /\ (a < m => t + Block <= m)
         /\ \A m \in Nat: m % Block = 0 => (a \div Block = m \div Block <=> t = m)
<1> DEFINE t == a - (a % Block)
<1>1. Block \in Nat \ {0} /\ Page \in Nat \ {0} /\ Block % Page = 0 /\ a \in Int /\ 0 \in Int
  BY StreamSizes
<1>2. t \in Int /\ t % Block = 0 /\ t <= a /\ a < t + Block  BY <1>1, TopOf
<1>3. \A m \in Int: m % Block = 0 => (m <= a => m <= t) /\ (a < m => t + Block <= m)
  BY <1>1, BlockWithin
<1>4. \A m \in Nat: m % Block = 0 => (a \div Block = m \div Block <=> t = m)
  <2> TAKE m \in Nat
  <2>1. m \in Int  OBVIOUS
  <2> QED  BY <1>1, <2>1, InBlock
<1>5. 0 % Block = 0
  <2>1. 0 \in 0..(Block - 1)  BY <1>1
  <2> QED  BY <1>1, <2>1, OwnRest
<1>6. 0 <= t  BY <1>1, <1>3, <1>5
<1>7. t \in Nat  BY <1>2, <1>6
<1>8. t % Page = 0  BY <1>1, <1>2, MultipleOfMultiple
<1>9. Stream!BlockTop(a) = t  BY DEF Stream!BlockTop
<1> QED  BY <1>2, <1>3, <1>4, <1>7, <1>8, <1>9

\* A page lies in one block.
LEMMA PageInBlock ==
  ASSUME NEW t \in Nat, t % Page = 0, NEW a \in Nat, t <= a, a < t + Page
  PROVE  Stream!BlockTop(a) <= t
<1> DEFINE b == Stream!BlockTop(a)
<1>1. b \in Nat /\ b % Page = 0 /\ b <= a  BY BlockOf
<1>2. Page \in Nat \ {0} /\ b \in Int /\ t \in Int  BY <1>1, StreamSizes
<1> HIDE DEF b
<1>3. SUFFICES ASSUME t < b PROVE FALSE  BY <1>1, <1>2 DEF b
<1>4. t + Page <= b  BY <1>1, <1>2, <1>3, NextMultiple
<1> QED  BY <1>1, <1>2, <1>4

-----------------------------------------------------------------------------
(* A command to a flash that is not busy.                                  *)

LEMMA Sends ==
  ASSUME StreamTypes, ~chip.wip, ~chip.lost, NEW new,
         chip' = Stream!Begin(Stream!WriteEnable(chip), new)
  PROVE  chip' = [cells |-> new, wel |-> TRUE, wip |-> TRUE, unit |-> chip.unit, lost |-> chip.lost]
<1> DEFINE w == Stream!WriteEnable(chip)
<1>1. w = [cells |-> chip.cells, wel |-> TRUE, wip |-> FALSE, unit |-> chip.unit, lost |-> chip.lost]
  BY DEF Stream!WriteEnable, StreamTypes
<1>2. w.wip = FALSE /\ w.wel = TRUE  BY <1>1
<1>3. Stream!Begin(w, new) = [w EXCEPT !.cells = new, !.wip = TRUE]  BY <1>2, Zenon DEF Stream!Begin
<1> HIDE DEF w
<1>4. chip' = [w EXCEPT !.cells = new, !.wip = TRUE]  BY <1>3 DEF w
<1> QED  BY <1>1, <1>4

\* A block erase.
LEMMA StreamErases ==
  ASSUME StreamTypes, StreamPolls, ~chip.wip, NEW at \in Nat,
         chip' = Stream!BlockErase(Stream!WriteEnable(chip), at, Block)
  PROVE  /\ chip' = [cells |-> chip'.cells, wel |-> TRUE, wip |-> TRUE,
                     unit |-> chip'.unit, lost |-> FALSE]
         /\ chip'.cells = [a \in Cells |-> chip'.cells[a]]
         /\ at % Block = 0 => \A a \in Cells:
              chip'.cells[a] = IF Stream!BlockTop(a) = at THEN FF ELSE chip.cells[a]
<1> DEFINE w == Stream!WriteEnable(chip)
           new == [a \in Cells |-> IF a \div Block = at \div Block THEN Stream!FF ELSE w.cells[a]]
<1>1. w.cells = chip.cells  BY DEF Stream!WriteEnable, StreamTypes
<1>2. chip' = Stream!Begin(w, new)  BY StreamSizes DEF Stream!BlockErase
<1> HIDE DEF new
<1>3. chip' = [cells |-> new, wel |-> TRUE, wip |-> TRUE, unit |-> chip.unit, lost |-> chip.lost]
  BY <1>2, Sends DEF StreamPolls
<1>4. chip'.cells = new /\ chip'.unit = chip.unit  BY <1>3
<1>5. chip.lost = FALSE
  BY <1>3 DEF StreamPolls, StreamTypes
<1>6. ASSUME at % Block = 0, NEW a \in Cells
      PROVE  chip'.cells[a] = IF Stream!BlockTop(a) = at THEN FF ELSE chip.cells[a]
  <2>1. a \in Nat  BY StreamSizes
  <2>2. a \div Block = at \div Block <=> Stream!BlockTop(a) = at  BY <1>6, <2>1, BlockOf
  <2>3. new[a] = IF a \div Block = at \div Block THEN Stream!FF ELSE w.cells[a]  BY DEF new
  <2> QED  BY <1>1, <1>4, <2>2, <2>3 DEF FF, Stream!FF
<1>7. new = [a \in Cells |-> new[a]]  BY DEF new
<1> QED  BY <1>3, <1>4, <1>5, <1>6, <1>7

\* A page program.
LEMMA StreamPrograms ==
  ASSUME StreamTypes, StreamPolls, ~chip.wip, NEW at \in Nat, NEW buffer,
         chip' = Stream!PageProgram(Stream!WriteEnable(chip), at, buffer)
  PROVE  /\ chip' = [cells |-> chip'.cells, wel |-> TRUE, wip |-> TRUE,
                     unit |-> chip'.unit, lost |-> FALSE]
         /\ chip'.cells = [a \in Cells |-> chip'.cells[a]]
         /\ at % Page = 0 => \A a \in Cells:
              chip'.cells[a] = IF at <= a /\ a < at + Page
                               THEN Stream!Programmed(chip.cells[a], buffer[a - at]) ELSE chip.cells[a]
<1> DEFINE w == Stream!WriteEnable(chip)
           new == [a \in Cells |-> IF Stream!PageTop(a) = Stream!PageTop(at)
                     THEN Stream!Programmed(w.cells[a], buffer[Stream!Source(at, a)]) ELSE w.cells[a]]
<1>1. w.cells = chip.cells  BY DEF Stream!WriteEnable, StreamTypes
<1>2. chip' = Stream!Begin(w, new)  BY StreamSizes DEF Stream!PageProgram
<1> HIDE DEF new
<1>3. chip' = [cells |-> new, wel |-> TRUE, wip |-> TRUE, unit |-> chip.unit, lost |-> chip.lost]
  BY <1>2, Sends DEF StreamPolls
<1>4. chip'.cells = new /\ chip'.unit = chip.unit  BY <1>3
<1>5. chip.lost = FALSE  BY <1>3 DEF StreamPolls, StreamTypes
<1>6. ASSUME at % Page = 0, NEW a \in Cells
      PROVE  chip'.cells[a] = IF at <= a /\ a < at + Page
                              THEN Stream!Programmed(chip.cells[a], buffer[a - at]) ELSE chip.cells[a]
  <2>1. a \in Int /\ at \in Int /\ Page \in Nat \ {0}  BY StreamSizes
  <2>2. Stream!PageTop(a) = at <=> at <= a /\ a < at + Page  BY <1>6, <2>1, InBlock DEF Stream!PageTop
  <2>3. Stream!PageTop(at) = at  BY <1>6, <2>1 DEF Stream!PageTop
  <2>4. ASSUME at <= a, a < at + Page PROVE Stream!Source(at, a) = a - at
    <3>1. a - at \in 0..(Page - 1)  BY <2>1, <2>4
    <3> QED  BY <2>1, <3>1, OwnRest DEF Stream!Source
  <2>5. new[a] = IF Stream!PageTop(a) = Stream!PageTop(at)
                 THEN Stream!Programmed(w.cells[a], buffer[Stream!Source(at, a)]) ELSE w.cells[a]
    BY DEF new
  <2> QED  BY <1>1, <1>4, <2>2, <2>3, <2>4, <2>5
<1>7. new = [a \in Cells |-> new[a]]  BY DEF new
<1> QED  BY <1>3, <1>4, <1>5, <1>6, <1>7

-----------------------------------------------------------------------------
(* Where the image of the build without DDR memory goes.                   *)

\* The numbers.
LEMMA StreamNumbers ==
  ASSUME StreamTypes
  PROVE  /\ op.start \in Nat /\ op.start < FlashSize /\ op.size \in Nat /\ op.size <= ImageMax
         /\ readCount \in Nat /\ readCount <= Page /\ offset \in Nat /\ readCount <= offset
         /\ Begun \in Nat /\ offset = Begun + readCount /\ address = op.start + Begun /\ address \in Nat
         /\ sent \subseteq 0..(offset - 1)
         /\ Regular => offset <= op.size /\ op.start + op.size <= FlashSize
<1>1. op.start \in Cells /\ op.size \in 0..ImageMax  BY DEF StreamTypes
<1>2. op.start \in Nat /\ op.start < FlashSize /\ op.size \in Nat /\ op.size <= ImageMax
  BY <1>1, StreamSizes
<1>3. readCount \in 0..Page /\ offset \in readCount..ImageMax /\ address = op.start + offset - readCount
  BY DEF StreamTypes
<1>4. readCount \in Nat /\ readCount <= Page /\ offset \in Nat /\ readCount <= offset
  BY <1>3, StreamSizes
<1>5. Begun \in Nat /\ offset = Begun + readCount /\ address = op.start + Begun /\ address \in Nat
  BY <1>2, <1>3, <1>4 DEF Begun
<1>6. sent \subseteq 0..(offset - 1)  BY DEF StreamTypes
<1>7. Regular => offset <= op.size /\ op.start + op.size <= FlashSize  BY DEF Regular, Stream!Fits
<1> QED  BY <1>2, <1>4, <1>5, <1>6, <1>7

\* The end of the erase, for bytes that fit.
LEMMA EraseEnd ==
  ASSUME NEW o, o.start \in Nat, o.size \in Nat, o.size > 0, o.start + o.size <= FlashSize
  PROVE  LET e == Stream!EraseStop(o) IN
         /\ e \in Nat /\ e % Block = 0 /\ e + Block <= FlashSize
         /\ Stream!BlockTop(o.start) <= e /\ e <= o.start + o.size - 1
         /\ \A m \in Nat: m % Block = 0 => (m <= o.start + o.size - 1 <=> m <= e)
<1> DEFINE z == o.start + o.size - 1
<1>1. /\ o.start \in Nat /\ o.size \in Nat /\ z \in Nat /\ o.start <= z /\ z < FlashSize
      /\ z < Space /\ FlashSize \in Nat /\ FlashSize % Block = 0
  BY StreamSizes
<1>2. z % Space = z  BY <1>1, StreamSizes, Below
<1>3. Stream!EraseStop(o) = Stream!BlockTop(z)  BY <1>2, Zenon DEF Stream!EraseStop
<1> HIDE DEF z
<1>4. /\ Stream!BlockTop(z) \in Nat /\ Stream!BlockTop(z) % Block = 0 /\ Stream!BlockTop(z) <= z
      /\ \A m \in Int: m % Block = 0 => (m <= z => m <= Stream!BlockTop(z))
                                          /\ (z < m => Stream!BlockTop(z) + Block <= m)
  BY <1>1, BlockOf
<1>5. Stream!BlockTop(o.start) \in Nat /\ Stream!BlockTop(o.start) % Block = 0
        /\ Stream!BlockTop(o.start) <= o.start
  BY <1>1, BlockOf
<1>6. Stream!BlockTop(o.start) <= Stream!BlockTop(z)  BY <1>1, <1>4, <1>5
<1>7. Stream!BlockTop(z) + Block <= FlashSize  BY <1>1, <1>4
<1>8. \A m \in Nat: m % Block = 0 => (m <= z <=> m <= Stream!BlockTop(z))  BY <1>1, <1>4
<1> QED  BY <1>1, <1>3, <1>4, <1>6, <1>7, <1>8 DEF z

\* A page of the image lies in its blocks.
LEMMA ImagePage ==
  ASSUME StreamTypes, Regular, address % Page = 0, readCount > 0,
         NEW a \in Cells, address <= a, a < address + Page
  PROVE  InBlocks(a)
<1>1. /\ op.start \in Nat /\ op.size \in Nat /\ address \in Nat /\ a \in Nat
      /\ op.start <= address /\ address < op.start + op.size
  <2>1. a \in Nat  BY StreamSizes
  <2>2. /\ op.start \in Nat /\ op.size \in Nat /\ address \in Nat /\ address = op.start + Begun
        /\ Begun \in Nat /\ readCount \in Nat /\ offset = Begun + readCount /\ offset <= op.size
    BY StreamNumbers
  <2> QED  BY <2>1, <2>2
<1>2. Stream!BlockTop(a) <= address /\ Stream!BlockTop(a) \in Nat  BY <1>1, PageInBlock, BlockOf
<1>3. /\ Stream!BlockTop(op.start) \in Nat /\ Stream!BlockTop(op.start) % Block = 0
      /\ Stream!BlockTop(op.start) <= op.start
  BY <1>1, BlockOf
<1>4. Stream!BlockTop(op.start) <= Stream!BlockTop(a)  BY <1>1, <1>3, BlockOf
<1> QED  BY <1>1, <1>2, <1>3, <1>4 DEF InBlocks

\* The program of a buffer: what it holds of the image is in the flash afterwards.
LEMMA Programming ==
  ASSUME StreamTypes, StreamPolls, PagesWritten, Receiving, Regular, ~chip.wip, readCount > 0,
         NEW buffer, \A i \in Begun..(offset - 1): buffer[i - Begun] = Stream!Image(i),
         chip' = Stream!PageProgram(Stream!WriteEnable(chip), address % FlashSize, buffer)
  PROVE  /\ \A a \in Cells: ~InBlocks(a) => chip'.cells[a] = before[a]
         /\ \A a \in Cells: InBlocks(a) /\ address + Page <= a => chip'.cells[a] = FF
         /\ \A i \in sent: chip'.cells[op.start + i] = Stream!Image(i)
<1>1. /\ op.start \in Nat /\ op.size \in Nat /\ offset \in Nat /\ readCount \in Nat /\ readCount <= Page
      /\ address = op.start + Begun /\ Begun \in Nat /\ Begun + readCount = offset
      /\ offset <= op.size /\ op.start + op.size <= FlashSize
      /\ address \in Nat /\ address < FlashSize /\ sent \subseteq 0..(offset - 1)
      /\ Page \in Nat /\ FlashSize \in Nat \ {0}
  <2>1. /\ op.start \in Nat /\ op.size \in Nat /\ offset \in Nat /\ readCount \in Nat /\ readCount <= Page
        /\ address = op.start + Begun /\ Begun \in Nat /\ offset = Begun + readCount
        /\ offset <= op.size /\ op.start + op.size <= FlashSize
        /\ address \in Nat /\ sent \subseteq 0..(offset - 1)
    BY StreamNumbers
  <2>2. Page \in Nat /\ FlashSize \in Nat \ {0}  BY StreamSizes
  <2> QED  BY <2>1, <2>2
<1>2. ~Erasing  BY DEF Receiving, Erasing
<1>3. /\ address % Page = 0
      /\ \A a \in Cells: ~InBlocks(a) => chip.cells[a] = before[a]
      /\ \A a \in Cells: InBlocks(a) /\ address <= a => chip.cells[a] = FF
      /\ \A i \in sent: i < Begun => chip.cells[op.start + i] = Stream!Image(i)
  BY <1>2 DEF PagesWritten
<1>4. address % FlashSize = address  BY <1>1, Below
<1>5. \A a \in Cells: chip'.cells[a] = IF address <= a /\ a < address + Page
                                       THEN Stream!Programmed(chip.cells[a], buffer[a - address])
                                       ELSE chip.cells[a]
  BY <1>1, <1>3, <1>4, StreamPrograms
<1>6. \A a \in Cells: address <= a /\ a < address + Page => InBlocks(a)  BY <1>3, ImagePage
<1>7. \A a \in Cells: address <= a /\ a < address + Page => chip'.cells[a] = buffer[a - address]
  <2> TAKE a \in Cells
  <2>1. HAVE address <= a /\ a < address + Page
  <2>2. chip.cells[a] = FF  BY <1>3, <1>6, <2>1
  <2>3. chip'.cells[a] = Stream!Programmed(chip.cells[a], buffer[a - address])  BY <1>5, <2>1
  <2> QED  BY <2>2, <2>3 DEF Stream!Programmed, FF, Stream!FF
<1>8. \A a \in Cells: ~(address <= a /\ a < address + Page) => chip'.cells[a] = chip.cells[a]  BY <1>5
<1>9. \A a \in Cells: a \in Nat  BY StreamSizes
<1>10. ASSUME NEW i \in sent PROVE chip'.cells[op.start + i] = Stream!Image(i)
  <2>1. i \in Nat /\ i < offset /\ op.start + i \in Cells
    <3>1. i \in 0..(offset - 1)  BY <1>1
    <3>2. i \in Nat /\ i < offset  BY <1>1, <3>1
    <3>3. op.start + i \in 0..(FlashSize - 1)  BY <1>1, <3>2
    <3> QED  BY <3>2, <3>3 DEF Cells
  <2>2. CASE i < Begun
    <3>1. ~(address <= op.start + i)  BY <1>1, <2>1, <2>2
    <3> QED  BY <1>3, <1>8, <2>1, <2>2, <3>1
  <2>3. CASE ~(i < Begun)
    <3>1. i \in Begun..(offset - 1)  BY <1>1, <2>1, <2>3
    <3>2. /\ address <= op.start + i /\ op.start + i < address + Page
          /\ (op.start + i) - address = i - Begun
      BY <1>1, <2>1, <2>3
    <3>3. chip'.cells[op.start + i] = buffer[i - Begun]  BY <1>7, <2>1, <3>2
    <3> QED  BY <3>1, <3>3
  <2> QED  BY <2>2, <2>3
<1>11. \A a \in Cells: ~InBlocks(a) => chip'.cells[a] = before[a]  BY <1>3, <1>6, <1>8
<1>12. \A a \in Cells: InBlocks(a) /\ address + Page <= a => chip'.cells[a] = FF
  <2> TAKE a \in Cells
  <2>1. HAVE InBlocks(a) /\ address + Page <= a
  <2>2. address <= a /\ ~(a < address + Page)  BY <1>1, <1>9, <2>1
  <2> QED  BY <1>3, <1>8, <2>1, <2>2
<1> QED  BY <1>10, <1>11, <1>12

-----------------------------------------------------------------------------
(* The steps of the build without DDR memory.                              *)

LEMMA StreamStarts == Stream!Init => StreamInv
<1> SUFFICES ASSUME Stream!Init PROVE StreamInv
  OBVIOUS
<1>1. /\ pc = "idle" /\ op = [kind |-> "none", start |-> 0, size |-> 0] /\ ended = FALSE
      /\ chip = Stream!Chip([a \in Stream!Cells |-> Stream!Was(a)], Block) /\ sectorAd = 0
      /\ buffers = Stream!EmptyBuffers /\ bufferIndex = 0 /\ readCount = 0
      /\ address = 0 /\ offset = 0 /\ sent = {} /\ gapped = FALSE
  BY DEF Stream!Init, Stream!Reset, Stream!NoOp
<1>2. 0 \in Cells /\ 0 \in 0..ImageMax /\ 0 \in 0..Page /\ 0 + 0 - 0 = 0  BY StreamSizes
<1>3. chip = [cells |-> [a \in Cells |-> Stream!Was(a)], wel |-> FALSE, wip |-> FALSE,
              unit |-> Block, lost |-> FALSE]
  BY <1>1, StreamSizes DEF Stream!Chip
<1>4. /\ chip = [cells |-> chip.cells, wel |-> chip.wel, wip |-> chip.wip,
                 unit |-> chip.unit, lost |-> chip.lost]
      /\ chip.cells = [a \in Cells |-> chip.cells[a]] /\ chip.wip = FALSE /\ chip.lost = FALSE
  BY <1>3
<1>5. buffers = [b \in {0, 1} |-> [i \in 0..(Page - 1) |-> buffers[b][i]]]
  BY <1>1 DEF Stream!EmptyBuffers
<1>6. StreamTypes  BY <1>1, <1>2, <1>4, <1>5 DEF StreamTypes, Erasing
<1>7. StreamPolls /\ StreamShown  BY <1>1, <1>4 DEF StreamPolls, StreamShown
<1>8. ~Regular  BY <1>1 DEF Regular
<1> QED  BY <1>6, <1>7, <1>8 DEF StreamInv, BlocksErased, PagesWritten

LEMMA StreamType ==
  ASSUME StreamInv, NEW kind \in {"XLS2", "XLS3"}, NEW start \in Cells, NEW size \in 0..ImageMax,
         Stream!Type(kind, start, size)
  PROVE  StreamInv'
<1> DEFINE cells == [a \in Cells |-> Stream!Was(a)]
<1>1. /\ op' = [kind |-> kind, start |-> start, size |-> size]
      /\ chip' = [chip EXCEPT !.cells = cells, !.lost = FALSE] /\ before' = cells
      /\ buffers' = Stream!EmptyBuffers /\ bufferIndex' = 0 /\ readCount' = 0
      /\ address' = start /\ offset' = 0 /\ sent' = {} /\ gapped' = FALSE
      /\ sectorAd' = Stream!BlockTop(start) /\ ended' = FALSE
      /\ pc' \in {"idle", "erase"} /\ ~chip.wip
  BY StreamSizes DEF Stream!Type
<1>2. start \in Nat /\ start < FlashSize /\ size \in Nat  BY StreamSizes
<1>3. op'.start = start /\ op'.size = size  BY <1>1
<1>4. /\ chip' = [cells |-> cells, wel |-> chip.wel, wip |-> chip.wip, unit |-> chip.unit, lost |-> FALSE]
      /\ chip.wip \in BOOLEAN
  BY <1>1 DEF StreamInv, StreamTypes
<1> HIDE DEF cells
<1>5. /\ chip' = [cells |-> chip'.cells, wel |-> chip'.wel, wip |-> chip'.wip,
                  unit |-> chip'.unit, lost |-> chip'.lost]
      /\ chip'.wip = FALSE /\ chip'.lost = FALSE /\ chip'.cells = cells
  BY <1>1, <1>4
<1>6. chip'.cells = [a \in Cells |-> chip'.cells[a]]  BY <1>5 DEF cells
<1>7. buffers' = [b \in {0, 1} |-> [i \in 0..(Page - 1) |-> buffers'[b][i]]]
  BY <1>1 DEF Stream!EmptyBuffers
<1>8. start + 0 - 0 = start /\ 0 \in 0..ImageMax /\ 0 \in 0..Page  BY <1>2, StreamSizes
<1>9. Stream!BlockTop(start) \in Nat /\ Stream!BlockTop(start) % Block = 0  BY <1>2, BlockOf
<1>10. op' \in [kind: {"none", "XLS2", "XLS3"}, start: Cells, size: 0..ImageMax]  BY <1>1
<1>11. StreamTypes'
  BY <1>1, <1>3, <1>5, <1>6, <1>7, <1>8, <1>9, <1>10 DEF StreamTypes, Erasing
<1>12. StreamPolls' /\ StreamShown'  BY <1>1, <1>5 DEF StreamPolls, StreamShown
<1>13. BlocksErased'
  <2> SUFFICES ASSUME Regular' PROVE
        /\ (sectorAd % Block = 0)'
        /\ (sectorAd \in Stream!BlockTop(op.start)..(Stream!EraseStop(op) + Block))'
        /\ (\A a \in Cells: chip.cells[a] =
             IF Stream!BlockTop(op.start) <= Stream!BlockTop(a) /\ Stream!BlockTop(a) < sectorAd
             THEN FF ELSE before[a])'
    BY DEF BlocksErased
  <2>1. op'.size > 0 /\ op'.start + op'.size <= FlashSize  BY DEF Regular, Stream!Fits
  <2>2. Stream!EraseStop(op') \in Nat /\ Stream!BlockTop(op'.start) <= Stream!EraseStop(op')
    BY <1>2, <1>3, <2>1, EraseEnd
  <2>3. sectorAd' \in Stream!BlockTop(op'.start)..(Stream!EraseStop(op') + Block)
    BY <1>1, <1>3, <1>9, <2>2, StreamSizes
  <2>4. ASSUME NEW a \in Cells PROVE Stream!BlockTop(a) \in Nat
    <3>1. a \in Nat  BY StreamSizes
    <3> QED  BY <3>1, BlockOf
  <2>5. \A a \in Cells: ~(Stream!BlockTop(start) <= Stream!BlockTop(a) /\ Stream!BlockTop(a) < sectorAd')
    BY <1>1, <1>9, <2>4
  <2> QED  BY <1>1, <1>3, <1>5, <1>9, <2>3, <2>5
<1>14. PagesWritten'
  BY <1>1, <1>3, <1>5, <1>8 DEF PagesWritten, Erasing, Receiving, Regular
<1> QED  BY <1>11, <1>12, <1>13, <1>14 DEF StreamInv

\* The steps that change no data: the end of a wait, the end of a command.
LEMMA StreamQuiet ==
  ASSUME StreamInv, UNCHANGED <<op, sectorAd, before>>, UNCHANGED Stream!stream,
         \/ chip' = chip
         \/ chip.wip /\ chip' = Stream!Finish(chip),
         \/ pc' = pc /\ UNCHANGED <<shown, ended>>
         \/ pc = "erasing" /\ pc' = "erase" /\ ~chip.wip /\ UNCHANGED <<chip, shown, ended>>
         \/ pc = "saving" /\ pc' = "done" /\ UNCHANGED <<shown, ended>>
         \/ pc = "done" /\ pc' = "idle" /\ UNCHANGED <<shown, ended>>
         \/ pc = "receive" /\ pc' = "done" /\ UNCHANGED ended
  PROVE  StreamInv'
<1>1. /\ op' = op /\ sectorAd' = sectorAd /\ before' = before /\ buffers' = buffers
      /\ bufferIndex' = bufferIndex /\ readCount' = readCount /\ address' = address
      /\ offset' = offset /\ sent' = sent /\ gapped' = gapped
  BY DEF Stream!stream
<1>2. /\ chip' = [cells |-> chip.cells, wel |-> chip'.wel, wip |-> chip'.wip,
                  unit |-> chip'.unit, lost |-> chip.lost]
      /\ chip'.wip \in BOOLEAN /\ (~chip.wip => ~chip'.wip)
  BY DEF StreamInv, StreamTypes, Stream!Finish
<1>3. chip'.cells = chip.cells /\ chip'.lost = chip.lost  BY <1>2
<1>4. /\ pc' \in {"idle", "erase", "erasing", "receive", "full", "saving", "done"}
      /\ (Erasing <=> Erasing') /\ (Receiving' => Receiving)
      /\ (pc' = "receive" => pc = "receive") /\ (pc' = "full" => pc = "full")
  BY DEF StreamInv, StreamTypes, Erasing, Receiving
<1>5. StreamTypes'
  BY <1>1, <1>2, <1>3, <1>4 DEF StreamInv, StreamTypes
<1>6. StreamPolls'  BY <1>2, <1>3 DEF StreamInv, StreamPolls
<1>7. StreamShown'
  BY <1>1, <1>4 DEF StreamInv, StreamShown, Stream!Reached, Receiving, Erasing
<1>8. Regular' <=> Regular  BY <1>1 DEF Regular, Stream!Fits
<1>9. \A a \in Cells: InBlocks(a)' <=> InBlocks(a)  BY <1>1 DEF InBlocks
<1>10. BlocksErased'
  BY <1>1, <1>3, <1>4, <1>8 DEF StreamInv, BlocksErased, Stream!EraseStop
<1>11. PagesWritten'
  BY <1>1, <1>3, <1>4, <1>8, <1>9 DEF StreamInv, PagesWritten, Begun
<1> QED  BY <1>5, <1>6, <1>7, <1>10, <1>11 DEF StreamInv

LEMMA StreamErase ==
  ASSUME StreamInv, Stream!EraseBlock
  PROVE  StreamInv'
<1>1. /\ pc = "erase" /\ op' = op /\ before' = before /\ buffers' = buffers /\ shown' = shown
      /\ ended' = ended /\ bufferIndex' = bufferIndex /\ readCount' = readCount
      /\ address' = address /\ offset' = offset /\ sent' = sent /\ gapped' = gapped
  BY DEF Stream!EraseBlock, Stream!stream
<1>2. Erasing /\ offset = 0 /\ readCount = 0 /\ address = op.start /\ Begun = 0 /\ sent = {}
  <2>1. Erasing  BY <1>1 DEF Erasing
  <2>2. offset = 0  BY <2>1 DEF StreamInv, StreamTypes
  <2> QED  BY <2>1, <2>2, StreamNumbers DEF StreamInv
<1>3. ~chip.wip /\ ~chip.lost /\ sectorAd \in Nat  BY <1>1 DEF StreamInv, StreamPolls, StreamTypes
<1>4. Regular' <=> Regular  BY <1>1 DEF Regular, Stream!Fits
<1>5. ~ended /\ ~ended'  BY <1>1, <1>2 DEF StreamInv, StreamShown
<1>6. CASE sectorAd <= Stream!EraseStop(op)
  <2> DEFINE at == sectorAd % FlashSize
  <2>1. /\ chip' = Stream!BlockErase(Stream!WriteEnable(chip), at, Block)
        /\ sectorAd' = (sectorAd + Block) % Space /\ pc' = "erasing"
    BY <1>6 DEF Stream!EraseBlock, Stream!NextBlock
  <2>2. at \in Nat /\ sectorAd' \in Nat
    <3>1. FlashSize \in Nat \ {0} /\ Space \in Nat \ {0} /\ sectorAd + Block \in Int /\ sectorAd \in Int
      BY <1>3, StreamSizes
    <3> QED  BY <2>1, <3>1, Divided
  <2>3. /\ chip' = [cells |-> chip'.cells, wel |-> TRUE, wip |-> TRUE, unit |-> chip'.unit, lost |-> FALSE]
        /\ chip'.cells = [a \in Cells |-> chip'.cells[a]]
        /\ at % Block = 0 => \A a \in Cells:
             chip'.cells[a] = IF Stream!BlockTop(a) = at THEN FF ELSE chip.cells[a]
    <3> HIDE DEF at
    <3> QED  BY <1>3, <2>1, <2>2, StreamErases DEF StreamInv
  <2> HIDE DEF at
  <2>4. Erasing' /\ ~Receiving'  BY <2>1 DEF Erasing, Receiving
  <2>5. chip'.wip = TRUE /\ chip'.wel = TRUE /\ chip'.lost = FALSE  BY <2>3
  <2>6. chip' = [cells |-> chip'.cells, wel |-> chip'.wel, wip |-> chip'.wip,
                 unit |-> chip'.unit, lost |-> chip'.lost]
    BY <2>3, <2>5
  <2>7. StreamTypes'
    BY <1>1, <1>2, <2>1, <2>2, <2>3, <2>5, <2>6, ZenonT(40) DEF StreamInv, StreamTypes
  <2>8. StreamPolls' /\ StreamShown'  BY <1>5, <2>1, <2>5 DEF StreamPolls, StreamShown
  <2>9. BlocksErased'
    <3> SUFFICES ASSUME Regular PROVE BlocksErased'
      BY <1>4 DEF BlocksErased
    <3>1. op.start \in Nat /\ op.size \in Nat /\ op.size > 0 /\ op.start + op.size <= FlashSize
      BY StreamNumbers DEF StreamInv, Regular
    <3> DEFINE e == Stream!EraseStop(op)
               s == Stream!BlockTop(op.start)
    <3>2. e \in Nat /\ e + Block <= FlashSize  BY <3>1, EraseEnd
    <3>3. s \in Nat  BY <3>1, BlockOf
    <3>4. sectorAd % Block = 0 /\ s <= sectorAd /\ sectorAd <= e
      BY <1>2, <1>3, <1>6, <3>2, <3>3 DEF StreamInv, BlocksErased
    <3>5. \A a \in Cells: chip.cells[a] =
            IF s <= Stream!BlockTop(a) /\ Stream!BlockTop(a) < sectorAd THEN FF ELSE before[a]
      BY <1>2 DEF StreamInv, BlocksErased
    <3> HIDE DEF e, s
    <3>6. at = sectorAd /\ sectorAd' = sectorAd + Block /\ sectorAd + Block <= e + Block
      <4>1. sectorAd < FlashSize /\ sectorAd + Block < Space /\ sectorAd + Block \in Nat
        BY <1>3, <3>2, <3>4, StreamSizes
      <4>2. sectorAd % FlashSize = sectorAd  BY <1>3, <4>1, StreamSizes, Below
      <4>3. (sectorAd + Block) % Space = sectorAd + Block  BY <4>1, StreamSizes, Below
      <4>4. sectorAd + Block <= e + Block  BY <1>3, <3>2, <3>4, StreamSizes
      <4> QED  BY <2>1, <4>2, <4>3, <4>4 DEF at
    <3>7. sectorAd' % Block = 0
      <4>1. Block % Block = 0
        <5>1. Block \in Nat \ {0} /\ 1 \in Int /\ Block * 1 = Block  BY StreamSizes
        <5>2. (Block * 1) % Block = 0  BY <5>1, TimesIsMultiple
        <5> QED  BY <5>1, <5>2
      <4>2. sectorAd \in Int /\ Block \in Int /\ Block \in Nat \ {0}  BY <1>3, StreamSizes
      <4> QED  BY <3>4, <3>6, <4>1, <4>2, MultiplesAdd
    <3>8. ASSUME NEW a \in Cells
          PROVE  chip'.cells[a] = IF s <= Stream!BlockTop(a) /\ Stream!BlockTop(a) < sectorAd'
                                  THEN FF ELSE before[a]
      <4> DEFINE t == Stream!BlockTop(a)
      <4>1. a \in Nat  BY StreamSizes
      <4>2. t \in Nat /\ t % Block = 0  BY <4>1, BlockOf
      <4>3. chip'.cells[a] = IF t = sectorAd THEN FF ELSE chip.cells[a]  BY <2>3, <3>4, <3>6
      <4>4. chip.cells[a] = IF s <= t /\ t < sectorAd THEN FF ELSE before[a]  BY <3>5
      <4> HIDE DEF t
      <4>5. sectorAd < t => sectorAd + Block <= t
        <5>1. t \in Int /\ sectorAd \in Int /\ Block \in Nat \ {0}  BY <1>3, <4>2, StreamSizes
        <5> QED  BY <3>4, <4>2, <5>1, NextMultiple
      <4>6. s <= t /\ t < sectorAd' <=> t = sectorAd \/ (s <= t /\ t < sectorAd)
        BY <1>3, <3>3, <3>4, <3>6, <4>2, <4>5, StreamSizes
      <4>7. CASE t = sectorAd  BY <4>3, <4>6, <4>7 DEF t
      <4>8. CASE t # sectorAd  BY <4>3, <4>4, <4>6, <4>8 DEF t
      <4> QED  BY <4>7, <4>8
    <3>9. sectorAd' \in s..(e + Block)  BY <1>3, <3>2, <3>3, <3>4, <3>6, StreamSizes
    <3> QED  BY <1>1, <3>7, <3>8, <3>9 DEF BlocksErased, e, s
  <2> QED  BY <2>4, <2>7, <2>8, <2>9 DEF StreamInv, PagesWritten
<1>7. CASE ~(sectorAd <= Stream!EraseStop(op))
  <2>1. pc' = "receive" /\ chip' = chip /\ sectorAd' = sectorAd  BY <1>7 DEF Stream!EraseBlock
  <2>2. ~Erasing'  BY <2>1 DEF Erasing
  <2>3. 0 < Page  BY StreamSizes
  <2>4. StreamTypes'  BY <1>1, <1>2, <2>1, <2>2, <2>3 DEF StreamInv, StreamTypes
  <2>5. StreamPolls' /\ StreamShown'
    BY <1>5, <2>1, <1>3 DEF StreamInv, StreamPolls, StreamShown
  <2>6. PagesWritten'
    <3> SUFFICES ASSUME Regular PROVE PagesWritten'
      BY <1>4 DEF PagesWritten
    <3>1. op.start \in Nat /\ op.size \in Nat /\ op.size > 0 /\ op.start + op.size <= FlashSize
      BY StreamNumbers DEF StreamInv, Regular
    <3> DEFINE e == Stream!EraseStop(op)
               s == Stream!BlockTop(op.start)
    <3>2. e \in Nat /\ e % Block = 0
          /\ \A m \in Nat: m % Block = 0 => (m <= op.start + op.size - 1 <=> m <= e)
      BY <3>1, EraseEnd
    <3>3. s \in Nat  BY <3>1, BlockOf
    <3>4. sectorAd % Block = 0 /\ sectorAd <= e + Block
      BY <1>2, <1>3, <3>2, <3>3, StreamSizes DEF StreamInv, BlocksErased
    <3>5. \A a \in Cells: chip.cells[a] =
            IF s <= Stream!BlockTop(a) /\ Stream!BlockTop(a) < sectorAd THEN FF ELSE before[a]
      BY <1>2 DEF StreamInv, BlocksErased
    <3> HIDE DEF e, s
    <3>6. sectorAd = e + Block
      <4>1. e < sectorAd /\ e \in Int /\ sectorAd \in Int /\ Block \in Nat \ {0}
        BY <1>3, <1>7, <3>2, StreamSizes DEF e
      <4>2. e + Block <= sectorAd  BY <3>2, <3>4, <4>1, NextMultiple
      <4> QED  BY <3>4, <4>1, <4>2
    <3>7. ASSUME NEW a \in Cells
          PROVE  chip.cells[a] = IF InBlocks(a) THEN FF ELSE before[a]
      <4> DEFINE t == Stream!BlockTop(a)
      <4>1. a \in Nat  BY StreamSizes
      <4>2. t \in Nat /\ t % Block = 0  BY <4>1, BlockOf
      <4>3. chip.cells[a] = IF s <= t /\ t < sectorAd THEN FF ELSE before[a]  BY <3>5
      <4>4. InBlocks(a) <=> s <= t /\ t <= op.start + op.size - 1
        BY <3>1, <3>3, <4>2 DEF InBlocks, s
      <4> HIDE DEF t
      <4>5. t < sectorAd <=> t <= e
        <5>1. e < t => e + Block <= t
          <6>1. t \in Int /\ e \in Int /\ Block \in Nat \ {0}  BY <3>2, <4>2, StreamSizes
          <6> QED  BY <3>2, <4>2, <6>1, NextMultiple
        <5> QED  BY <3>2, <3>6, <4>2, <5>1, StreamSizes
      <4> QED  BY <3>2, <4>2, <4>3, <4>4, <4>5
    <3>8. \A a \in Cells: InBlocks(a)' <=> InBlocks(a)  BY <1>1 DEF InBlocks
    <3>9. Begun' = 0  BY <1>1, <1>2 DEF Begun
    <3>10. \A i \in Begun'..(offset' - 1): FALSE  BY <1>1, <1>2, <3>9
    <3>11. address' % Page = 0  BY <1>1, <1>2 DEF Regular
    <3> QED  BY <1>1, <1>2, <2>1, <3>7, <3>8, <3>10, <3>11 DEF PagesWritten
  <2> QED  BY <2>2, <2>4, <2>5, <2>6 DEF StreamInv, BlocksErased
<1> QED  BY <1>6, <1>7

LEMMA StreamReceive ==
  ASSUME StreamInv, Stream!Receive
  PROVE  StreamInv'
<1>1. /\ pc = "receive" /\ offset < ImageMax
      /\ buffers' = [buffers EXCEPT ![bufferIndex][readCount] = Stream!Image(offset)]
      /\ readCount' = readCount + 1 /\ offset' = offset + 1 /\ sent' = sent \cup {offset}
      /\ pc' = IF readCount + 1 = Page THEN "full" ELSE "receive"
      /\ op' = op /\ chip' = chip /\ sectorAd' = sectorAd /\ bufferIndex' = bufferIndex
      /\ address' = address /\ ended' = ended /\ gapped' = gapped /\ before' = before
  BY DEF Stream!Receive
<1>2. /\ readCount \in Nat /\ readCount < Page /\ offset \in Nat /\ readCount <= offset
      /\ op.start \in Nat /\ Begun \in Nat /\ offset = Begun + readCount
      /\ bufferIndex \in {0, 1} /\ op.size \in Nat /\ ImageMax \in Nat
  BY <1>1, StreamNumbers, StreamSizes DEF StreamInv, StreamTypes
<1>3. Receiving /\ ~Erasing /\ ~ended /\ Receiving' /\ ~Erasing' /\ ~ended'
  BY <1>1 DEF StreamInv, StreamShown, Receiving, Erasing
<1>4. readCount \in 0..(Page - 1) /\ Page \in Nat  BY <1>2, StreamSizes
<1>5. /\ buffers' = [b \in {0, 1} |-> [i \in 0..(Page - 1) |-> buffers'[b][i]]]
      /\ buffers'[bufferIndex][readCount] = Stream!Image(offset)
      /\ \A i \in 0..(Page - 1): i # readCount => buffers'[bufferIndex][i] = buffers[bufferIndex][i]
  <2>1. buffers = [b \in {0, 1} |-> [i \in 0..(Page - 1) |-> buffers[b][i]]]
    BY DEF StreamInv, StreamTypes
  <2>2. buffers' = [b \in {0, 1} |-> IF b = bufferIndex
                      THEN [i \in 0..(Page - 1) |-> IF i = readCount THEN Stream!Image(offset)
                                                    ELSE buffers[b][i]]
                      ELSE [i \in 0..(Page - 1) |-> buffers[b][i]]]
    BY <1>1, <1>2, <1>4, <2>1
  <2> QED  BY <1>2, <1>4, <2>2
<1>6. StreamTypes'
  <2>1. readCount' \in 0..Page /\ offset' \in readCount'..ImageMax
    BY <1>1, <1>2, <1>4
  <2>2. op.start + offset' - readCount' = op.start + offset - readCount  BY <1>1, <1>2
  <2>3. sent' \subseteq 0..(offset' - 1)
    <3>1. sent \subseteq 0..(offset - 1)  BY DEF StreamInv, StreamTypes
    <3> QED  BY <1>1, <1>2, <3>1
  <2>4. /\ pc' \in {"idle", "erase", "erasing", "receive", "full", "saving", "done"}
        /\ (pc' = "receive" => readCount' < Page) /\ (pc' = "full" => readCount' = Page)
    BY <1>1, <1>2, <1>4
  <2> QED  BY <1>1, <1>3, <1>5, <2>1, <2>2, <2>3, <2>4 DEF StreamInv, StreamTypes
<1>7. StreamPolls' /\ StreamShown'  BY <1>1, <1>3 DEF StreamInv, StreamPolls, StreamShown
<1>8. PagesWritten'
  <2> SUFFICES ASSUME Regular' PROVE PagesWritten'
    BY DEF PagesWritten
  <2>1. Regular  BY <1>1, <1>2 DEF Regular, Stream!Fits
  <2>2. /\ address % Page = 0
        /\ \A a \in Cells: ~InBlocks(a) => chip.cells[a] = before[a]
        /\ \A a \in Cells: InBlocks(a) /\ address <= a => chip.cells[a] = FF
        /\ \A i \in Begun..(offset - 1): buffers[bufferIndex][i - Begun] = Stream!Image(i)
        /\ \A i \in sent: i < Begun => chip.cells[op.start + i] = Stream!Image(i)
    BY <1>3, <2>1 DEF StreamInv, PagesWritten
  <2>3. \A a \in Cells: InBlocks(a)' <=> InBlocks(a)  BY <1>1 DEF InBlocks
  <2>4. Begun' = Begun  BY <1>1, <1>2 DEF Begun
  <2>5. ASSUME NEW i \in Begun..offset PROVE buffers'[bufferIndex][i - Begun] = Stream!Image(i)
    <3>1. CASE i = offset
      <4>1. i - Begun = readCount  BY <1>2, <3>1
      <4> QED  BY <1>5, <3>1, <4>1
    <3>2. CASE i # offset
      <4>1. i \in Begun..(offset - 1) /\ i - Begun \in 0..(Page - 1) /\ i - Begun # readCount
        BY <1>2, <1>4, <3>2
      <4> QED  BY <1>5, <2>2, <4>1
    <3> QED  BY <3>1, <3>2
  <2>6. \A i \in Begun'..(offset' - 1): buffers'[bufferIndex'][i - Begun'] = Stream!Image(i)
    <3>1. offset' - 1 = offset  BY <1>1, <1>2
    <3> QED  BY <1>1, <2>4, <2>5, <3>1
  <2>7. \A i \in sent': i < Begun' => chip'.cells[op'.start + i] = Stream!Image(i)
    BY <1>1, <1>2, <2>2, <2>4
  <2> QED  BY <1>1, <1>3, <2>2, <2>3, <2>6, <2>7 DEF PagesWritten
<1> QED  BY <1>3, <1>6, <1>7, <1>8 DEF StreamInv, BlocksErased

\* What a program that does not wait leaves of the types.
LEMMA StreamSent ==
  ASSUME StreamInv, ~chip.wip, NEW buffer,
         chip' = Stream!PageProgram(Stream!WriteEnable(chip), address % FlashSize, buffer)
  PROVE  /\ chip' = [cells |-> chip'.cells, wel |-> chip'.wel, wip |-> chip'.wip,
                     unit |-> chip'.unit, lost |-> chip'.lost]
         /\ chip'.cells = [a \in Cells |-> chip'.cells[a]]
         /\ chip'.wip = TRUE /\ chip'.lost = FALSE
<1>1. address % FlashSize \in Nat
  <2>1. address \in Int /\ FlashSize \in Nat \ {0}  BY StreamNumbers, StreamSizes DEF StreamInv
  <2> QED  BY <2>1, Divided
<1>2. chip' = [cells |-> chip'.cells, wel |-> TRUE, wip |-> TRUE, unit |-> chip'.unit, lost |-> FALSE]
        /\ chip'.cells = [a \in Cells |-> chip'.cells[a]]
  <2> DEFINE at == address % FlashSize
  <2>1. at \in Nat /\ chip' = Stream!PageProgram(Stream!WriteEnable(chip), at, buffer)  BY <1>1
  <2> HIDE DEF at
  <2> QED  BY <2>1, StreamPrograms, ZenonT(40) DEF StreamInv
<1>3. chip'.wip = TRUE /\ chip'.wel = TRUE /\ chip'.lost = FALSE  BY <1>2
<1> QED  BY <1>2, <1>3

LEMMA StreamFull ==
  ASSUME StreamInv, Stream!Full
  PROVE  StreamInv'
<1>1. /\ pc = "full" /\ ~chip.wip /\ pc' = "receive"
      /\ chip' = Stream!PageProgram(Stream!WriteEnable(chip), address % FlashSize, buffers[bufferIndex])
      /\ address' = address + Page /\ bufferIndex' = 1 - bufferIndex /\ readCount' = 0
      /\ op' = op /\ sectorAd' = sectorAd /\ buffers' = buffers /\ offset' = offset
      /\ sent' = sent /\ ended' = ended /\ gapped' = gapped /\ before' = before
  BY DEF Stream!Full, Stream!Busy, Stream!ProgramNoWait, Stream!Other
<1>2. /\ readCount = Page /\ offset \in Nat /\ Page \in Nat /\ Page > 0 /\ op.start \in Nat
      /\ Begun \in Nat /\ offset = Begun + Page /\ address = op.start + Begun
      /\ bufferIndex \in {0, 1} /\ sent \subseteq 0..(offset - 1) /\ offset \in readCount..ImageMax
  <2>1. readCount = Page /\ bufferIndex \in {0, 1} /\ offset \in readCount..ImageMax
    BY <1>1 DEF StreamInv, StreamTypes
  <2> QED  BY <2>1, StreamNumbers, StreamSizes DEF StreamInv
<1>3. Receiving /\ ~Erasing /\ ~ended /\ Receiving' /\ ~Erasing' /\ ~ended'
  BY <1>1 DEF StreamInv, StreamShown, Receiving, Erasing
<1>4. /\ chip' = [cells |-> chip'.cells, wel |-> chip'.wel, wip |-> chip'.wip,
                  unit |-> chip'.unit, lost |-> chip'.lost]
      /\ chip'.cells = [a \in Cells |-> chip'.cells[a]]
      /\ chip'.wip = TRUE /\ chip'.lost = FALSE
  BY <1>1, StreamSent
<1>5. StreamTypes'
  <2>1. 0 \in 0..Page /\ offset \in 0..ImageMax /\ 0 < Page /\ 1 - bufferIndex \in {0, 1}
        /\ address + Page = op.start + offset - 0
    BY <1>2, StreamSizes
  <2> QED  BY <1>1, <1>3, <1>4, <2>1, ZenonT(40) DEF StreamInv, StreamTypes
<1>6. StreamPolls' /\ StreamShown'  BY <1>1, <1>3, <1>4 DEF StreamPolls, StreamShown
<1>7. PagesWritten'
  <2> SUFFICES ASSUME Regular PROVE PagesWritten'
    BY <1>1 DEF PagesWritten, Regular, Stream!Fits
  <2>1. /\ address % Page = 0
        /\ \A i \in Begun..(offset - 1): buffers[bufferIndex][i - Begun] = Stream!Image(i)
    BY <1>3 DEF StreamInv, PagesWritten
  <2>2. /\ \A a \in Cells: ~InBlocks(a) => chip'.cells[a] = before[a]
        /\ \A a \in Cells: InBlocks(a) /\ address + Page <= a => chip'.cells[a] = FF
        /\ \A i \in sent: chip'.cells[op.start + i] = Stream!Image(i)
    BY <1>1, <1>2, <1>3, <2>1, Programming DEF StreamInv
  <2>3. \A a \in Cells: InBlocks(a)' <=> InBlocks(a)  BY <1>1 DEF InBlocks
  <2>4. \A i \in Begun'..(offset' - 1): FALSE  BY <1>1, <1>2 DEF Begun
  <2>5. address' % Page = 0
    <3>1. Page % Page = 0  BY <1>2
    <3>2. address \in Int /\ Page \in Int /\ Page \in Nat \ {0}  BY <1>2
    <3> QED  BY <1>1, <2>1, <3>1, <3>2, MultiplesAdd
  <2> QED  BY <1>1, <1>3, <2>2, <2>3, <2>4, <2>5 DEF PagesWritten
<1> QED  BY <1>3, <1>5, <1>6, <1>7 DEF StreamInv, BlocksErased

LEMMA StreamGap ==
  ASSUME StreamInv, NEW gap \in 1..ImageMax, Stream!Gap(gap)
  PROVE  StreamInv'
<1> DEFINE filled == [i \in 0..(Page - 1) |->
                        IF i < readCount THEN buffers[bufferIndex][i] ELSE Stream!FF]
<1>1. /\ pc = "receive" /\ offset + gap < ImageMax /\ ~chip.wip /\ pc' = pc
      /\ IF readCount > 0
         THEN /\ chip' = Stream!PageProgram(Stream!WriteEnable(chip), address % FlashSize, filled)
              /\ buffers' = [buffers EXCEPT ![bufferIndex] = filled]
         ELSE chip' = chip /\ buffers' = buffers
      /\ address' = address + readCount + gap /\ offset' = offset + gap
      /\ bufferIndex' = 1 - bufferIndex /\ readCount' = 0
      /\ gapped' = (gapped \/ readCount > 0 \/ gap % Page # 0)
      /\ op' = op /\ sectorAd' = sectorAd /\ sent' = sent /\ ended' = ended /\ before' = before
  BY DEF Stream!Gap, Stream!Busy, Stream!Other
<1>2. /\ readCount \in Nat /\ offset \in Nat /\ Page \in Nat /\ Page > 0 /\ op.start \in Nat
      /\ Begun \in Nat /\ offset = Begun + readCount /\ address = op.start + Begun /\ op.size \in Nat
      /\ bufferIndex \in {0, 1} /\ sent \subseteq 0..(offset - 1) /\ gap \in Nat /\ ImageMax \in Nat
  <2>1. bufferIndex \in {0, 1}  BY DEF StreamInv, StreamTypes
  <2> QED  BY <2>1, StreamNumbers, StreamSizes DEF StreamInv
<1>3. Receiving /\ ~Erasing /\ ~ended /\ Receiving' /\ ~Erasing' /\ ~ended'
  BY <1>1 DEF StreamInv, StreamShown, Receiving, Erasing
<1>4. /\ chip' = [cells |-> chip'.cells, wel |-> chip'.wel, wip |-> chip'.wip,
                  unit |-> chip'.unit, lost |-> chip'.lost]
      /\ chip'.cells = [a \in Cells |-> chip'.cells[a]]
      /\ chip'.wip \in BOOLEAN /\ ~chip'.lost
  <2>1. CASE readCount > 0
    <3> HIDE DEF filled
    <3>1. chip' = Stream!PageProgram(Stream!WriteEnable(chip), address % FlashSize, filled)
      BY <1>1, <2>1
    <3> QED  BY <1>1, <3>1, StreamSent
  <2>2. CASE ~(readCount > 0)
    <3>1. chip' = chip  BY <1>1, <2>2
    <3> QED  BY <3>1 DEF StreamInv, StreamTypes, StreamPolls
  <2> QED  BY <2>1, <2>2
<1>5. buffers' = [b \in {0, 1} |-> [i \in 0..(Page - 1) |-> buffers'[b][i]]]
  <2>1. buffers = [b \in {0, 1} |-> [i \in 0..(Page - 1) |-> buffers[b][i]]]
    BY DEF StreamInv, StreamTypes
  <2>2. CASE readCount > 0
    <3>1. buffers' = [buffers EXCEPT ![bufferIndex] = filled]  BY <1>1, <2>2
    <3>2. filled = [i \in 0..(Page - 1) |-> filled[i]]  OBVIOUS
    <3> HIDE DEF filled
    <3> QED  BY <1>2, <2>1, <3>1, <3>2
  <2>3. CASE ~(readCount > 0)  BY <1>1, <2>1, <2>3
  <2> QED  BY <2>2, <2>3
<1> HIDE DEF filled
<1>6. StreamTypes'
  <2>1. /\ 0 \in 0..Page /\ offset + gap \in 0..ImageMax /\ 0 < Page /\ 1 - bufferIndex \in {0, 1}
        /\ address + readCount + gap = op.start + (offset + gap) - 0
        /\ sent \subseteq 0..((offset + gap) - 1)
    BY <1>1, <1>2
  <2>2. gapped' \in BOOLEAN  BY <1>1
  <2> QED  BY <1>1, <1>3, <1>4, <1>5, <2>1, <2>2 DEF StreamInv, StreamTypes
<1>7. StreamPolls' /\ StreamShown'  BY <1>1, <1>3, <1>4 DEF StreamPolls, StreamShown
<1>8. PagesWritten'
  <2> SUFFICES ASSUME Regular' PROVE PagesWritten'
    BY DEF PagesWritten
  <2>1. readCount = 0 /\ gap % Page = 0 /\ ~gapped
    <3>1. ~gapped'  BY DEF Regular
    <3>2. ~gapped /\ ~(readCount > 0) /\ ~(gap % Page # 0)  BY <1>1, <3>1, Zenon
    <3> QED  BY <1>2, <3>2
  <2>2. Regular
    <3>1. (offset + gap <= op.size => offset <= op.size) /\ op' = op /\ offset' = offset + gap
      BY <1>1, <1>2
    <3>2. offset' <= op'.size /\ op'.start + op'.size <= FlashSize /\ op'.size > 0 /\ op'.start % Page = 0
      BY DEF Regular, Stream!Fits
    <3> QED  BY <2>1, <3>1, <3>2 DEF Regular, Stream!Fits
  <2>3. /\ address % Page = 0
        /\ \A a \in Cells: ~InBlocks(a) => chip.cells[a] = before[a]
        /\ \A a \in Cells: InBlocks(a) /\ address <= a => chip.cells[a] = FF
        /\ \A i \in sent: i < Begun => chip.cells[op.start + i] = Stream!Image(i)
    BY <1>3, <2>2 DEF StreamInv, PagesWritten
  <2>4. chip' = chip /\ buffers' = buffers /\ address' = address + gap /\ Begun' = Begun + gap
    BY <1>1, <1>2, <2>1 DEF Begun
  <2>5. \A a \in Cells: InBlocks(a)' <=> InBlocks(a)  BY <1>1 DEF InBlocks
  <2>6. \A i \in Begun'..(offset' - 1): FALSE  BY <1>1, <1>2, <2>1, <2>4
  <2>7. address' % Page = 0
    <3>1. address \in Int /\ gap \in Int /\ Page \in Nat \ {0}  BY <1>2
    <3> QED  BY <2>1, <2>3, <2>4, <3>1, MultiplesAdd
  <2>8. \A a \in Cells: address' <= a => address <= a  BY <1>2, <2>4, StreamSizes
  <2>9. \A i \in sent: i < Begun  BY <1>2, <2>1
  <2> QED  BY <1>1, <1>3, <2>3, <2>4, <2>5, <2>6, <2>7, <2>8, <2>9 DEF PagesWritten
<1> QED  BY <1>3, <1>6, <1>7, <1>8 DEF StreamInv, BlocksErased

\* The end of an image: what is left in the buffer is programmed.
LEMMA StreamEnds ==
  ASSUME StreamInv, pc = "receive", pc' \in {"idle", "saving", "done"},
         IF readCount > 0
         THEN /\ ~chip.wip
              /\ chip' = Stream!PageProgram(Stream!WriteEnable(chip), address % FlashSize, buffers[bufferIndex])
         ELSE chip' = chip,
         shown' = Stream!Reached, ended' = TRUE,
         UNCHANGED <<op, sectorAd, before>>, UNCHANGED Stream!stream
  PROVE  StreamInv'
<1>1. /\ op' = op /\ sectorAd' = sectorAd /\ before' = before /\ buffers' = buffers
      /\ bufferIndex' = bufferIndex /\ readCount' = readCount /\ address' = address
      /\ offset' = offset /\ sent' = sent /\ gapped' = gapped
  BY DEF Stream!stream
<1>2. Receiving /\ ~Erasing /\ ~Receiving' /\ ~Erasing' /\ pc' \notin {"receive", "full", "erase"}
  BY DEF Receiving, Erasing
<1>3. /\ chip' = [cells |-> chip'.cells, wel |-> chip'.wel, wip |-> chip'.wip,
                  unit |-> chip'.unit, lost |-> chip'.lost]
      /\ chip'.cells = [a \in Cells |-> chip'.cells[a]]
      /\ chip'.wip \in BOOLEAN /\ ~chip'.lost
  <2>1. CASE readCount > 0  BY <2>1, StreamSent
  <2>2. CASE ~(readCount > 0)
    <3>1. chip' = chip  BY <2>2
    <3> QED  BY <3>1 DEF StreamInv, StreamTypes, StreamPolls
  <2> QED  BY <2>1, <2>2
<1>4. StreamTypes'  BY <1>1, <1>2, <1>3 DEF StreamInv, StreamTypes
<1>5. StreamPolls'  BY <1>2, <1>3 DEF StreamPolls
<1>6. StreamShown'
  <2>1. Stream!Reached' = Stream!Reached  BY <1>1 DEF Stream!Reached
  <2> QED  BY <1>2, <2>1 DEF StreamShown
<1>7. PagesWritten'
  <2> SUFFICES ASSUME Regular PROVE PagesWritten'
    BY <1>1 DEF PagesWritten, Regular, Stream!Fits
  <2>1. /\ address % Page = 0
        /\ \A a \in Cells: ~InBlocks(a) => chip.cells[a] = before[a]
        /\ \A i \in Begun..(offset - 1): buffers[bufferIndex][i - Begun] = Stream!Image(i)
        /\ \A i \in sent: i < Begun => chip.cells[op.start + i] = Stream!Image(i)
    BY <1>2 DEF StreamInv, PagesWritten
  <2>2. /\ \A a \in Cells: ~InBlocks(a) => chip'.cells[a] = before[a]
        /\ \A i \in sent: chip'.cells[op.start + i] = Stream!Image(i)
    <3>1. CASE readCount > 0
      <4>1. ~chip.wip /\ chip' = Stream!PageProgram(Stream!WriteEnable(chip), address % FlashSize,
                                                    buffers[bufferIndex])
        BY <3>1
      <4> QED  BY <1>2, <2>1, <3>1, <4>1, Programming DEF StreamInv
    <3>2. CASE ~(readCount > 0)
      <4>1. chip' = chip  BY <3>2
      <4>2. readCount \in Nat /\ Begun \in Nat /\ offset = Begun + readCount
            /\ sent \subseteq 0..(offset - 1)
        BY StreamNumbers DEF StreamInv
      <4>3. \A i \in sent: i < Begun  BY <3>2, <4>2
      <4> QED  BY <2>1, <4>1, <4>3
    <3> QED  BY <3>1, <3>2
  <2>3. \A a \in Cells: InBlocks(a)' <=> InBlocks(a)  BY <1>1 DEF InBlocks
  <2> QED  BY <1>1, <1>2, <2>1, <2>2, <2>3 DEF PagesWritten
<1> QED  BY <1>2, <1>4, <1>5, <1>6, <1>7 DEF StreamInv, BlocksErased

-----------------------------------------------------------------------------
(* The invariant holds in the build without DDR memory.                    *)

LEMMA StreamStep ==
  ASSUME StreamInv, Patient, [Stream!Next]_(Stream!vars)
  PROVE  StreamInv'
<1>1. ASSUME Stream!TypeEarly \/ Stream!ErasePoll \/ Stream!Saving \/ Stream!Done \/ Stream!Ready
             \/ Stream!Stop
      PROVE  StreamInv'
  BY <1>1, StreamQuiet
  DEF Stream!TypeEarly, Stream!ErasePoll, Stream!Saving, Stream!Done, Stream!Ready, Stream!Stop,
      Stream!Busy
<1>2. CASE Stream!Receive  BY <1>2, StreamReceive
<1>3. CASE Stream!Full  BY <1>3, StreamFull
<1>4. CASE Stream!EraseBlock  BY <1>4, StreamErase
<1>5. ASSUME NEW gap \in 1..ImageMax, Stream!Gap(gap) PROVE StreamInv'  BY <1>5, StreamGap
<1>6. ASSUME NEW kind \in {"XLS2", "XLS3"}, NEW start \in Cells, NEW size \in 0..ImageMax,
             Stream!Type(kind, start, size)
      PROVE  StreamInv'
  BY <1>6, StreamType
<1>7. CASE Stream!EndBinary
  <2>1. /\ pc = "receive" /\ pc' = "idle" /\ shown' = Stream!Reached /\ ended' = TRUE
        /\ UNCHANGED <<op, sectorAd, before>> /\ UNCHANGED Stream!stream
        /\ IF readCount > 0
           THEN /\ ~chip.wip
                /\ chip' = Stream!PageProgram(Stream!WriteEnable(chip), address % FlashSize,
                                              buffers[bufferIndex])
           ELSE chip' = chip
    BY <1>7 DEF Stream!EndBinary, Stream!Busy, Stream!ProgramNoWait
  <2> QED  BY <2>1, StreamEnds
<1>8. CASE Stream!EndRecord
  <2>1. /\ pc = "receive" /\ pc' \in {"saving", "done"} /\ shown' = Stream!Reached /\ ended' = TRUE
        /\ UNCHANGED <<op, sectorAd, before>> /\ UNCHANGED Stream!stream /\ ~chip.wip
        /\ IF readCount > 0
           THEN chip' = Stream!PageProgram(Stream!WriteEnable(chip), address % FlashSize,
                                           buffers[bufferIndex])
           ELSE chip' = chip
    BY <1>8 DEF Stream!EndRecord, Stream!ProgramNoWait
  <2> QED  BY <2>1, StreamEnds
<1>9. CASE UNCHANGED Stream!vars  BY <1>9, StreamQuiet DEF Stream!vars
<1> QED
  BY <1>1, <1>2, <1>3, <1>4, <1>5, <1>6, <1>7, <1>8, <1>9, StreamSizes
  DEF Stream!Next, Stream!Sender, Stream!Driver

\* What the invariant says of the image.
LEMMA StreamPromise == StreamInv => Stream!ImageSaved
<1> SUFFICES ASSUME StreamInv PROVE Stream!ImageSaved
  OBVIOUS
<1>1. ASSUME Stream!Written, op.start % Page = 0, ~gapped PROVE Stream!Saved
  <2>1. pc = "idle" /\ ended /\ Stream!Fits  BY <1>1 DEF Stream!Written
  <2>2. ~Erasing /\ op.size \in Nat /\ offset \in Nat /\ sent \subseteq 0..(offset - 1) /\ offset <= op.size
    BY <2>1, StreamNumbers DEF Erasing, StreamInv, Stream!Fits
  <2>3. CASE op.size > 0
    <3>1. Regular  BY <1>1, <2>1, <2>3 DEF Regular
    <3> QED  BY <2>1, <2>2, <3>1 DEF StreamInv, PagesWritten, Stream!Saved
  <2>4. CASE ~(op.size > 0)
    <3>1. \A i \in sent: FALSE  BY <2>2, <2>4
    <3> QED  BY <3>1 DEF Stream!Saved
  <2> QED  BY <2>3, <2>4
<1>2. ASSUME ended PROVE shown = (op.start + offset - 1) % Space
  <2>1. shown = (address + readCount - 1) % Space
    BY <1>2 DEF StreamInv, StreamShown, Stream!Reached
  <2>2. address + readCount - 1 = op.start + offset - 1  BY StreamNumbers DEF StreamInv
  <2> QED  BY <2>1, <2>2
<1>3. ASSUME Regular, NEW a \in Cells, ~InBlocks(a) PROVE chip.cells[a] = before[a]
  <2>1. CASE ~Erasing  BY <1>3, <2>1 DEF StreamInv, PagesWritten
  <2>2. CASE Erasing
    <3>1. op.start \in Nat /\ op.size \in Nat /\ op.size > 0 /\ op.start + op.size <= FlashSize
      BY <1>3, StreamNumbers DEF StreamInv, Regular
    <3> DEFINE e == Stream!EraseStop(op)
               s == Stream!BlockTop(op.start)
               t == Stream!BlockTop(a)
    <3>2. e \in Nat /\ e % Block = 0
          /\ \A m \in Nat: m % Block = 0 => (m <= op.start + op.size - 1 <=> m <= e)
      BY <3>1, EraseEnd
    <3>3. s \in Nat  BY <3>1, BlockOf
    <3>4. a \in Nat  BY StreamSizes
    <3>5. t \in Nat /\ t % Block = 0  BY <3>4, BlockOf
    <3>6. sectorAd \in s..(e + Block) /\ chip.cells[a] = IF s <= t /\ t < sectorAd THEN FF ELSE before[a]
      BY <1>3, <2>2 DEF StreamInv, BlocksErased
    <3>7. InBlocks(a) <=> s <= t /\ t <= op.start + op.size - 1
      BY <3>1, <3>3, <3>5 DEF InBlocks
    <3> HIDE DEF e, s, t
    <3>8. e < t => e + Block <= t
      <4>1. t \in Int /\ e \in Int /\ Block \in Nat \ {0}  BY <3>2, <3>5, StreamSizes
      <4> QED  BY <3>2, <3>5, <4>1, NextMultiple
    <3>9. t < sectorAd => t <= e  BY <3>2, <3>3, <3>5, <3>6, <3>8, StreamSizes
    <3> QED  BY <1>3, <3>2, <3>5, <3>6, <3>7, <3>9
  <2> QED  BY <2>1, <2>2
<1> QED
  BY <1>1, <1>2, <1>3, StreamSizes DEF Stream!ImageSaved, Regular, InBlocks

\* In the build without DDR memory, with a sender that gives the flash time before the
\* end record (the other case is LastPageSaved): the two page buffers are enough.  A
\* complete image is in the flash, the end address on the screen is that of its last
\* byte, and the blocks around the typed size keep what they held, for every size of
\* the flash, its blocks and pages and of the image.
THEOREM StreamImageSaved ==
  ASSUME Patient
  PROVE  Stream!Spec => []Stream!ImageSaved
<1>1. Stream!Init => StreamInv  BY StreamStarts
<1>2. StreamInv /\ [Stream!Next]_(Stream!vars) => StreamInv'  BY StreamStep
<1>3. StreamInv => Stream!ImageSaved  BY StreamPromise
<1> QED  BY <1>1, <1>2, <1>3, PTL DEF Stream!Spec

\* The same of the program as the runs check it, where the build is chosen once.
THEOREM StreamBuildSaved ==
  ASSUME Patient
  PROVE  MCSpec => []StreamSaved
<1> DEFINE Inv == build = "internal memory only" => StreamInv
<1>1. MCInit => Inv  BY StreamStarts DEF MCInit
<1>2. Inv /\ [MCNext]_all => Inv'
  <2> SUFFICES ASSUME Inv, [MCNext]_all, build' = "internal memory only" PROVE StreamInv'
    OBVIOUS
  <2>1. build' = build  BY DEF MCNext, Writes, Streams, all
  <2>2. StreamInv  BY <2>1
  <2>3. [Stream!Next]_(Stream!vars)
    <3>1. CASE UNCHANGED all
      BY <3>1 DEF all, vars, streaming, Stream!vars, Stream!stream
    <3>2. CASE MCNext
      BY <2>1, <3>2, StreamSizes DEF MCNext, Writes, Streams, Stream!Next, Stream!Sender, Stream!Driver
    <3> QED  BY <3>1, <3>2
  <2> QED  BY <2>2, <2>3, StreamStep
<1>3. Inv => StreamSaved  BY StreamPromise DEF StreamSaved
<1> QED  BY <1>1, <1>2, <1>3, PTL DEF MCSpec
=============================================================================
