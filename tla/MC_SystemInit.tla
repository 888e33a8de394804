---------------------------- MODULE MC_SystemInit ----------------------------
(***************************************************************************)
(* Boards of the makefile, one or two per wiring, and what the hardware    *)
(* can answer: an eye that never opens, one that is equally good at every  *)
(* voltage (more ties than the code remembers), a narrow one, one with two *)
(* best voltages, and one whose best voltage is at the end of the sweep.   *)
(***************************************************************************)
EXTENDS SystemInit

G2L(swizzle, ddr4) == [small |-> FALSE, type1 |-> FALSE, ddr4 |-> ddr4, swizzle |-> swizzle]
G2UL(type1, swizzle, ddr4) == [small |-> TRUE, type1 |-> type1, ddr4 |-> ddr4, swizzle |-> swizzle]

MCBoards ==
  {G2L("T1c", TRUE), G2L("T1bc", TRUE), G2L("T2c", TRUE), G2L("T3bc", TRUE), G2L("T3cl", FALSE),
   G2UL(TRUE, "T3bcud", TRUE), G2UL(TRUE, "T3bcul", FALSE), G2UL(TRUE, "T3bcud2", TRUE),
   G2UL(FALSE, "T3cl", FALSE)}

MCEyeOffsets ==
  {[pass |-> {}, best |-> {}],
   [pass |-> -40..40, best |-> -40..40],
   [pass |-> -2..5, best |-> {3}],
   [pass |-> -40..40, best |-> {-16, 1}]}

(* Delays up to the width of their fields; bits earlier than the strobe.   *)
MCTrims ==
  {[ca |-> 26, wl |-> 0 :> 5 @@ 1 :> 63, dqs |-> 0 :> 10 @@ 1 :> 12,
    bits |-> 0 :> {0} @@ 1 :> {-1, 3}],
   [ca |-> 127, wl |-> 0 :> 30 @@ 1 :> 30, dqs |-> 0 :> 63 @@ 1 :> 2,
    bits |-> 0 :> {-7, 63} @@ 1 :> {-5}],
   [ca |-> 3, wl |-> 0 :> 60 @@ 1 :> 4, dqs |-> 0 :> 20 @@ 1 :> 9,
    bits |-> 0 :> {-15, 2} @@ 1 :> {0}]}
=============================================================================
