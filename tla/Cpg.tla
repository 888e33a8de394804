-------------------------------- MODULE Cpg --------------------------------
(***************************************************************************)
(* The clock pulse generator as sys/cpg.c and cpudrv.c drive it: what one  *)
(* register write does to the clocks and resets of a unit, and the scripts *)
(* of operations that the setup functions perform.  An operation is a      *)
(* tuple whose first component names its kind; module SystemInit executes  *)
(* them one at a time, interleaved with the hardware.                      *)
(*                                                                         *)
(* A CLKON or RST register has a write-enable half and a value half, so a  *)
(* write is <<unit, wen, val>>, two sets of bit numbers: val may mention   *)
(* bits outside wen, which the hardware ignores.  In a RST register a set  *)
(* bit releases the reset.                                                 *)
(***************************************************************************)
EXTENDS Integers, Sequences, SequencesExt

(* One write to a register with a write-enable half.                       *)
Written(old, wen, val) == (old \ wen) \cup (val \cap wen)

(* Mutant: nobody waits for the monitor.                                   *)
ClkRstUnpolled(kind, poll, tbl) ==
  [i \in 1..Len(tbl) |-> <<kind, tbl[i][1], tbl[i][2], tbl[i][3]>>]

(* cpg_ctrl_clkrst: every entry is written, then its monitor is polled for *)
(* the bits that the entry enabled.                                        *)
ClkRst(kind, poll, tbl) ==
  FlattenSeq([i \in 1..Len(tbl) |->
     << <<kind, tbl[i][1], tbl[i][2], tbl[i][3]>>,
        <<poll, tbl[i][1], tbl[i][2], tbl[i][3]>> >>])

Clocks(tbl) == ClkRst("clk", "clkmon", tbl)
Resets(tbl) == ClkRst("rst", "rstmon", tbl)

(***************************************************************************)
(* The tables.  `small` devices (RZ/G2UL and RZ/A3UL) have no GPT, POEG,   *)
(* GPU, H264 and MIPI_DSI, and other watchdogs.                            *)
(***************************************************************************)
OnlyBig(small, tbl) == IF small THEN << >> ELSE tbl

cpg_clk_on_tbl_1(small) ==
  << <<"CM33", 0..1, {}>>, <<"MHU", {0}, {}>>, <<"DMAC", 0..1, 0..1>>,
     <<"OSTM", 1..2, {}>>, <<"MTU", {0}, {}>>, <<"POE3", {0}, {}>> >>
  \o OnlyBig(small, << <<"GPT", {0}, {}>>, <<"POEG", 0..3, {}>> >>)
  \o << <<"WDT", IF small THEN 4..5 ELSE 2..5, {}>>, <<"DDR", 0..1, {}>>,
        <<"SPI_MULTI", 0..1, 0..1>>, <<"SDHI", 0..7, 0..7>> >>
  \o OnlyBig(small, << <<"GPU", 0..2, {}>> >>)

cpg_clk_on_tbl_2(small) ==
  << <<"ISU", 0..1, {}>> >>
  \o OnlyBig(small, << <<"H264", {0}, {0}>> >>)
  \o << <<"CRU", 0..4, {}>> >>
  \o OnlyBig(small, << <<"MIPI_DSI", 0..5, {}>> >>)
  \o << <<"LCDC", 0..1, {}>>, <<"SSI", 0..7, {}>>, <<"SRC", {0}, {}>>,
        <<"USB", 0..3, {}>>, <<"ETH", 0..1, {}>>, <<"I2C", 0..3, {}>>,
        <<"SCIF", 0..4, {0}>>, <<"SCI", 0..1, {}>>, <<"IRDA", {0}, {}>>,
        <<"RSPI", 0..2, {}>>, <<"CANFD", {0}, {}>>, <<"GPIO", {0}, {0}>>,
        <<"ADC", 0..1, {}>>, <<"TSU", {0}, {}>> >>

cpg_reset_tbl_1(small) ==
  << <<"CM33", 0..2, {}>>, <<"MHU", {0}, {}>>, <<"DMAC", 0..1, 0..1>>,
     <<"OSTM", 1..2, {}>>, <<"MTU", {0}, {}>>, <<"POE3", {0}, {}>> >>
  \o OnlyBig(small, << <<"GPT", {0}, {}>>, <<"POEG", 0..3, {}>> >>)
  \o << <<"WDT", IF small THEN {2} ELSE 1..2, {}>>, <<"DDR", 0..6, {}>>,
        <<"SPI_MULTI", {0}, {0}>>, <<"SDHI", 0..1, 0..1>> >>
  \o OnlyBig(small, << <<"GPU", 0..2, {}>> >>)

cpg_reset_tbl_2(small) ==
  << <<"ISU", 0..1, {}>> >>
  \o OnlyBig(small, << <<"H264", 0..1, 0..1>> >>)
  \o << <<"CRU", 0..2, {}>> >>
  \o OnlyBig(small, << <<"MIPI_DSI", 0..2, {}>> >>)
  \o << <<"LCDC", {0}, {}>>, <<"SSI", 0..3, {}>>, <<"SRC", {0}, {}>>,
        <<"USB", 0..3, {}>>, <<"ETH", 0..1, {}>>, <<"I2C", 0..3, {}>>,
        <<"SCIF", 0..4, {0}>>, <<"SCI", 0..1, {}>>, <<"IRDA", {0}, {}>>,
        <<"RSPI", 0..2, {}>>, <<"CANFD", 0..1, {}>>, <<"GPIO", 0..2, 0..2>>,
        <<"ADC", 0..1, {}>>, <<"TSU", {0}, {}>> >>

cpg_clk_on_setup(small) == Clocks(cpg_clk_on_tbl_1(small) \o cpg_clk_on_tbl_2(small))
cpg_reset_setup(small) == Resets(cpg_reset_tbl_1(small) \o cpg_reset_tbl_2(small))

(***************************************************************************)
(* cpg_selector_on_off(CPG_SEL_PLL3_3_ON_OFF, flag).  CPG_ON writes the    *)
(* table's value; CPG_OFF writes back the value it has just read, under    *)
(* the table's write enables.                                              *)
(***************************************************************************)
cpg_sel_pll3_3_on_off == << <<"SPI_MULTI", {0, 1}>>, <<"AXI_MCPU_BUS", {3, 9}>> >>

cpg_selector_on_off(on) ==
  [i \in 1..Len(cpg_sel_pll3_3_on_off) |->
     LET e == cpg_sel_pll3_3_on_off[i] IN
     IF on THEN <<"clk", e[1], e[2], e[2]>> ELSE <<"clkback", e[1], e[2]>>]

(***************************************************************************)
(* Dividers, selectors, PLLs and the watchdog reset selection.             *)
(***************************************************************************)
cpg_static_select_tbl == << "PL3A_DDIV", "PL3_SSEL" >>
cpg_dynamic_select_tbl == << "PL4_DSEL", "PL2SDHI_DSEL" >>

cpg_div_sel_setup(tbl) == [i \in 1..Len(tbl) |-> <<"set", tbl[i]>>] \o << <<"divmon">> >>

Plls == {"PLL4", "PLL6"}

cpg_pll_start_146(p) == << <<"pll", p>> >>

cpg_pll_setup ==
  << <<"pllmon", "PLL4", "standby">>, <<"pllmon", "PLL6", "standby">> >>
  \o cpg_pll_start_146("PLL4") \o cpg_pll_start_146("PLL6")
  \o << <<"pllmon", "PLL4", "normal">>, <<"pllmon", "PLL6", "normal">> >>

(* What a poll of PLLn_MON waits for, of its RESETB and LOCK bits: both    *)
(* clear before the PLL is started, not both clear afterwards.             *)
PllPollPasses(mode, resetb, lock) ==
  IF mode = "standby" THEN ~(resetb \/ lock) ELSE resetb \/ lock

cpg_wdtrst_sel_stup == << <<"set", "WDTRST_SEL">> >>

cpg_setup(small) ==
  cpg_selector_on_off(FALSE) \o cpg_div_sel_setup(cpg_static_select_tbl)
  \o cpg_selector_on_off(TRUE) \o cpg_pll_setup
  \o cpg_clk_on_setup(small) \o cpg_reset_setup(small)
  \o cpg_div_sel_setup(cpg_dynamic_select_tbl) \o cpg_wdtrst_sel_stup

cpu_cpg_setup == << <<"divmon">>, <<"set", "PL1_DDIV">>, <<"divmon">> >>

early_setup_tbl == << <<"SYC", {0}, {0}>> >>

cpg_early_setup == cpu_cpg_setup \o Clocks(early_setup_tbl) \o Resets(early_setup_tbl)

(***************************************************************************)
(* cpudrv.c: the delay, which first powers its timer on.                   *)
(***************************************************************************)
PowerOnTmu0 == Clocks(<< <<"OSTM", {0}, {0}>> >>) \o Resets(<< <<"OSTM", {0}, {0}>> >>)

udelay == PowerOnTmu0 \o << <<"use", "OSTM">> >>

(***************************************************************************)
(* rpcqspidrv.c: the SPI controller is powered on again before it is used, *)
(* waiting for either of its two clocks, and PLL3 is set up for it,        *)
(* without a look at the divider's monitor.                                *)
(***************************************************************************)
PowerOnRPC ==
  << <<"clk", "SPI_MULTI", {0, 1}, {0, 1}>>, <<"anyclk", "SPI_MULTI", {0, 1}>>,
     <<"rst", "SPI_MULTI", {0}, {0}>>, <<"rstmon", "SPI_MULTI", {0}, {0}>> >>

SetRPC_ClockMode == << <<"set", "PL3A_DDIV">>, <<"set", "PL3_SSEL">> >>

InitRPC_QspiFlash == PowerOnRPC \o SetRPC_ClockMode \o << <<"use", "SPI_MULTI">> >>

(***************************************************************************)
(* The memory controller's own clocks and resets.  Bit 0 of RST_DDR is     *)
(* reset_n, bit 1 PRESETN (the registers of the PHY), bits 2, 3, 4 and 6   *)
(* the AXI ports and the registers of the controller.  "rst_n" is bit 0 of *)
(* OTHERFUNC2, the reset pin of the DRAM.                                  *)
(***************************************************************************)
DdrTop == {0, 1, 2, 3, 4, 6}
DdrMc == {2, 3, 4, 6}

cpg_active_ddr(disable_phy) ==
  << <<"rst", "DDR", DdrTop, {}>>, <<"rst_n", FALSE>>, <<"rstmon", "DDR", DdrTop, {}>> >>
  \o Clocks(<< <<"DDR", {0, 1}, {0, 1}>> >>) \o udelay
  \o << <<"rst_n", TRUE>> >> \o udelay
  \o Resets(<< <<"DDR", {1}, {1}>> >>) \o udelay
  \o disable_phy
  \o Resets(<< <<"DDR", DdrTop \ {1}, DdrTop \ {1}>> >>) \o udelay

(* Mutant: the whole of DDRTOP is reset, not the controller alone.         *)
ResetDdrTop ==
  << <<"rst", "DDR", DdrTop, {}>>, <<"rst_n", FALSE>>, <<"rstmon", "DDR", DdrTop, {}>> >>
  \o udelay \o << <<"rst_n", TRUE>> >> \o udelay
  \o Resets(<< <<"DDR", DdrTop, DdrTop>> >>) \o udelay

cpg_reset_ddr_mc ==
  << <<"rst", "DDR", DdrMc, {}>>, <<"rst_n", FALSE>>, <<"rstmon", "DDR", DdrMc, {}>> >>
  \o udelay \o << <<"rst_n", TRUE>> >> \o udelay
  \o Resets(<< <<"DDR", DdrMc, DdrMc>> >>) \o udelay
=============================================================================
