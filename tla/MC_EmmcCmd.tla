----------------------------- MODULE MC_EmmcCmd -----------------------------
(* EmmcCmd with the kinds of command the program issues.                   *)
EXTENDS EmmcCmdInv

NonData(resp) == [resp |-> resp, data |-> FALSE, dir |-> "read", dma |-> FALSE]

\* CMD0; CMD7, 13, 16, 23, 35, 36; CMD6, 38; CMD1, 2, 9; CMD8 (PIO); CMD25 (DMA).
MCCommands ==
  {NonData(resp): resp \in Responses}
    \cup {[resp |-> "R1", data |-> TRUE, dir |-> "read",  dma |-> FALSE],
          [resp |-> "R1", data |-> TRUE, dir |-> "write", dma |-> TRUE]}

\* The same, and the transfers emmc_exec_cmd also provides for: CMD25 by PIO
\* (emmc_write.c:86) and a read by DMA (emmc_cmd.c:664).
MCAllCommands ==
  MCCommands \cup [resp: {"R1"}, data: {TRUE}, dir: {"read", "write"}, dma: BOOLEAN]
=============================================================================
