----------------------------- MODULE DdrParams -----------------------------
(***************************************************************************)
(* The board tables of ddr/common/param_swizzle_*.c and what ddr.c reads   *)
(* out of them: how the pins of the memory controller and of the PHY are   *)
(* wired to those of the DRAM, the write-termination field of mode         *)
(* register 2, and where the sweeps for the reference voltage start and    *)
(* how far they go.  The bytes of a register are listed from the lowest.   *)
(* The timing registers and the other mode registers of a table are data   *)
(* that the code copies to the controller without looking at them; they    *)
(* are left out.                                                           *)
(***************************************************************************)
EXTENDS Integers, Sequences, TLC

Field(reg, shift, width) == (reg \div 2^shift) % 2^width

T1bc ==
  [mr2 |-> <<3584, 0>>, R040 |-> 1466108856, R043 |-> 1058321,
   mc  |-> << <<2, 11, 0, 0>>, <<6, 1, 0, 0>>, <<13, 28, 19, 17>>, <<21, 31, 0, 18>>,
             <<14, 20, 25, 29>>, <<26, 27, 9, 23>>, <<12, 22, 16, 10>>, <<30, 5, 24, 0>>, <<0, 0, 0, 0>> >>,
   phy |-> << <<22, 24, 0, 20>>, <<8, 6, 13, 1>>, <<3, 4, 25, 2>>, <<11, 21, 5, 23>>,
             <<16, 17, 18, 19>>, <<14, 15, 9, 7>>, <<27, 10, 29, 26>>, <<12, 28, 30, 0>> >>]

T1c ==
  [mr2 |-> <<3584, 0>>, R040 |-> 1466829032, R043 |-> 1192722,
   mc  |-> << <<2, 21, 0, 0>>, <<6, 10, 0, 0>>, <<18, 17, 13, 23>>, <<11, 19, 0, 25>>,
             <<12, 24, 9, 31>>, <<20, 14, 28, 22>>, <<26, 27, 16, 1>>, <<30, 5, 29, 0>>, <<0, 0, 0, 0>> >>,
   phy |-> << <<14, 21, 3, 27>>, <<6, 23, 0, 22>>, <<7, 8, 5, 13>>, <<11, 2, 1, 25>>,
             <<16, 17, 18, 19>>, <<24, 4, 9, 15>>, <<20, 29, 10, 26>>, <<12, 28, 30, 0>> >>]

T2c ==
  [mr2 |-> <<3584, 0>>, R040 |-> 1466829032, R043 |-> 1192722,
   mc  |-> << <<2, 10, 0, 0>>, <<6, 1, 0, 0>>, <<11, 18, 30, 23>>, <<12, 0, 0, 24>>,
             <<0, 28, 22, 0>>, <<25, 19, 31, 13>>, <<26, 27, 16, 21>>, <<9, 5, 29, 0>>, <<0, 0, 0, 0>> >>,
   phy |-> << <<25, 4, 2, 10>>, <<1, 23, 22, 3>>, <<7, 8, 0, 13>>, <<24, 5, 11, 15>>,
             <<16, 17, 18, 19>>, <<6, 21, 9, 20>>, <<14, 27, 29, 26>>, <<12, 28, 30, 0>> >>]

T3bc ==
  [mr2 |-> <<3584, 0>>, R040 |-> 1466108856, R043 |-> 1058321,
   mc  |-> << <<0, 0, 0, 0>>, <<0, 0, 0, 0>>, <<19, 30, 25, 28>>, <<24, 10, 0, 18>>,
             <<0, 29, 11, 16>>, <<9, 27, 12, 31>>, <<20, 22, 26, 21>>, <<23, 14, 13, 0>>, <<0, 0, 0, 0>> >>,
   phy |-> << <<22, 14, 7, 10>>, <<8, 11, 20, 24>>, <<9, 4, 23, 0>>, <<25, 6, 3, 15>>,
             <<16, 17, 18, 19>>, <<13, 12, 2, 5>>, <<1, 21, 26, 27>>, <<28, 29, 30, 0>> >>]

T3bcud ==
  [mr2 |-> <<3584, 0>>, R040 |-> 1466108856, R043 |-> 1058321,
   mc  |-> << <<0, 0, 0, 0>>, <<0, 0, 0, 0>>, <<28, 29, 23, 24>>, <<9, 10, 0, 13>>,
             <<0, 16, 11, 31>>, <<12, 14, 20, 30>>, <<27, 18, 26, 25>>, <<22, 21, 19, 0>>, <<0, 0, 0, 0>> >>,
   phy |-> << <<8, 13, 5, 12>>, <<11, 24, 23, 10>>, <<9, 7, 14, 25>>, <<6, 2, 20, 15>>,
             <<16, 17, 18, 19>>, <<22, 4, 0, 3>>, <<1, 21, 26, 27>>, <<28, 29, 30, 0>> >>]

T3bcud2 ==
  [mr2 |-> <<3584, 0>>, R040 |-> 1466108856, R043 |-> 1058321,
   mc  |-> << <<0, 0, 0, 0>>, <<0, 0, 0, 0>>, <<23, 17, 25, 30>>, <<22, 10, 0, 29>>,
             <<18, 13, 11, 0>>, <<26, 12, 24, 27>>, <<31, 28, 16, 21>>, <<19, 14, 9, 0>>, <<0, 0, 0, 0>> >>,
   phy |-> << <<15, 11, 2, 10>>, <<20, 14, 5, 24>>, <<3, 6, 8, 22>>, <<23, 7, 13, 25>>,
             <<16, 17, 18, 19>>, <<0, 12, 9, 4>>, <<1, 21, 26, 27>>, <<28, 29, 30, 0>> >>]

T3bcul ==
  [mr2 |-> <<1536, 512>>, R040 |-> 1333723624, R043 |-> 0,
   mc  |-> << <<0, 0, 0, 0>>, <<0, 0, 0, 0>>, <<0, 33, 26, 21>>, <<20, 0, 32, 0>>,
             <<0, 25, 30, 31>>, <<12, 18, 11, 0>>, <<23, 27, 10, 0>>, <<19, 15, 29, 22>>, <<13, 0, 0, 0>> >>,
   phy |-> << <<4, 11, 20, 23>>, <<14, 7, 6, 0>>, <<24, 8, 10, 13>>, <<1, 2, 22, 25>>,
             <<16, 17, 18, 19>>, <<15, 21, 12, 3>>, <<5, 9, 26, 27>>, <<28, 29, 30, 0>> >>]

T3cl ==
  [mr2 |-> <<1536, 512>>, R040 |-> 1333723624, R043 |-> 0,
   mc  |-> << <<0, 10, 0, 0>>, <<0, 30, 0, 0>>, <<0, 21, 19, 29>>, <<23, 18, 0, 0>>,
             <<0, 32, 14, 24>>, <<27, 11, 31, 13>>, <<0, 20, 26, 2>>, <<22, 6, 28, 12>>, <<0, 0, 0, 0>> >>,
   phy |-> << <<21, 24, 8, 25>>, <<11, 20, 2, 7>>, <<9, 3, 13, 23>>, <<29, 5, 0, 15>>,
             <<16, 17, 18, 19>>, <<6, 1, 22, 14>>, <<4, 27, 26, 10>>, <<28, 12, 30, 0>> >>]

BoardTable(swizzle) ==
  CASE swizzle = "T1bc" -> T1bc [] swizzle = "T1c" -> T1c [] swizzle = "T2c" -> T2c
    [] swizzle = "T3bc" -> T3bc [] swizzle = "T3bcud" -> T3bcud
    [] swizzle = "T3bcud2" -> T3bcud2 [] swizzle = "T3bcul" -> T3bcul
    [] swizzle = "T3cl" -> T3cl

(* Register R039 of the controller's table: the kind of DRAM (2 is DDR4)   *)
(* and which trainings the board runs.                                     *)
R039(ddr4) == IF ddr4 THEN 57804002 ELSE 24184285

DramType(r039) == Field(r039, 16, 4)
RunBITLVL(r039) == Field(r039, 20, 1) = 1
RunSL(r039)     == Field(r039, 21, 1) = 1
RunVREF(r039)   == Field(r039, 25, 1) = 1

(* The field of mode register 2 that says how the DRAM terminates writes.  *)
RttWr(table, dram) == Field(table.mr2[2], 9, IF dram = 2 THEN 3 ELSE 2)

(* Rtt_Nom for write levelling, the value that terminates as Rtt_WR does;  *)
(* -1 where the code has no such value and stops.                          *)
WriteLevelRtt(rttWr, dram) ==
  LET known == IF dram = 2 THEN 0 :> 0 @@ 1 :> 2 @@ 2 :> 4 @@ 4 :> 6
                           ELSE 0 :> 0 @@ 1 :> 1 @@ 2 :> 2
  IN  IF rttWr \in DOMAIN known THEN known[rttWr] ELSE -1

(* Where a sweep starts and how far it goes to either side.                *)
SweepMid(table, side) ==
  IF side = "PHY" THEN Field(table.R040, 16, 8) ELSE Field(table.R043, 8, 8)
SweepRange(table, side) ==
  IF side = "PHY" THEN Field(table.R043, 0, 8) ELSE Field(table.R043, 16, 8)

Bytes(rows) == [i \in 0..(4 * Len(rows) - 1) |-> rows[(i \div 4) + 1][(i % 4) + 1]]

(* Every one of the 31 signals of the PHY is wired to one pin, and no pin  *)
(* to two of them; of the controller's entries those in use (not 0) differ. *)
IsWired(table) ==
  LET phy == Bytes(table.phy)
      mc  == Bytes(table.mc)
  IN  /\ {phy[i] : i \in 0..30} = 0..30
      /\ \A i, j \in DOMAIN mc : i # j /\ mc[i] # 0 => mc[i] # mc[j]
=============================================================================
