--------------------------- MODULE MC_EmmcSession ---------------------------
(* EmmcSession with areas of a few sectors and images of several chunks.   *)
EXTENDS EmmcSession, TLC

MCSize == 0 :> 3 @@ 1 :> 2 @@ 2 :> 1

\* A card of each type, and one whose CSD asks for the slow clock.
MCCards ==
  [tran: {Mhz20}, type: Types] \cup {[tran |-> Mhz0_4, type |-> "52"]}
=============================================================================
