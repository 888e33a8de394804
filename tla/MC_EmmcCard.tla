---------------------------- MODULE MC_EmmcCard -----------------------------
(* EmmcCard with cards of each speed: TRAN_SPEED 26 MHz (0x32) and 20 MHz   *)
(* (0x2A) with and without high speed, a slow one, one with an illegal CSD  *)
(* and one older than version 4.                                            *)
EXTENDS EmmcCard

MCCards ==
  [spec: {4}, tran: {50}, type: {{}, {26}, {26, 52}}]
    \cup {[spec |-> 4, tran |-> 42, type |-> {26}],
          [spec |-> 4, tran |-> 41, type |-> {26, 52}],
          [spec |-> 4, tran |-> 7, type |-> {26, 52}],
          [spec |-> 3, tran |-> 50, type |-> {26}]}
=============================================================================
