--------------------------- MODULE FlashContract ---------------------------
(***************************************************************************)
(* What the commands of dgmodul4.c rely on when they call the flash driver *)
(* spiflash1drv.c: between a call and its return each cell is as it was or *)
(* as the call wants it, at the return every cell is as the call wants it, *)
(* and the call returns.  Calls that only read want nothing changed.       *)
(***************************************************************************)
EXTENDS NorFlash

CONSTANTS
  Calls,  \* <<operation, first cell, last cell>>
  Small   \* cells of a parameter sector (4 KB)

VARIABLES
  sector, \* cells of a sector of the fitted chip
  cells,  \* the contents
  goal    \* what the call in progress is to make of them, or NoGoal
contract == <<sector, cells, goal>>

NoGoal == <<"none">>

\* The i-th page of what a caller saves.
Datum(i) == <<"new", i>>

\* Whole sectors are erased, from the one of the first to that of the last cell.
Erased(size, from, to) ==
  [a \in Cells |-> IF a \div size \in (from \div size)..(to \div size) THEN FF ELSE cells[a]]

Saved(from, to) ==
  [a \in Cells |-> IF a \in from..to THEN Programmed(cells[a], Datum(a - from)) ELSE cells[a]]

Wanted(c) ==
  CASE c[1] = "erase"           -> Erased(sector, c[2], c[3])
    [] c[1] = "parameterErase"  -> Erased(Small, c[2], c[3])
    [] c[1] = "bulkErase"       -> Erased(FlashSize, 0, 0)
    [] c[1] \in {"save", "page"} -> Saved(c[2], c[3])
    [] OTHER                    -> cells

Init == goal = NoGoal

Call == \E c \in Calls: goal = NoGoal /\ goal' = Wanted(c) /\ UNCHANGED <<sector, cells>>

Work ==
  /\ goal # NoGoal /\ UNCHANGED <<sector, goal>>
  /\ DOMAIN cells' = Cells
  /\ \A a \in Cells: cells'[a] \in {cells[a], goal[a]}

Return == goal = cells /\ goal' = NoGoal /\ UNCHANGED <<sector, cells>>

Returns == goal # NoGoal ~> goal = NoGoal

\* What a call does, and that it ends.
Safe == Init /\ [][Call \/ Work \/ Return]_contract
Spec == Safe /\ Returns
=============================================================================
