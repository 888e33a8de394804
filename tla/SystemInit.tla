----------------------------- MODULE SystemInit -----------------------------
(***************************************************************************)
(* From reset to the prompt: boot code, Main, the clock, pin and DRAM      *)
(* setup, executed one operation at a time against the hardware they       *)
(* drive.  The program is a constant script per board; `ip` is the next    *)
(* operation, 0 once panic() has been called.  The hardware follows the    *)
(* registers in its own time: clocks and resets reach their monitors, PLLs *)
(* lock, requests are served, and trainings pass or fail lane by lane.     *)
(*                                                                         *)
(* External, from how the code uses them: the boot ROM leaves the pin      *)
(* controller's clock on; PFC registers can be written only while PWPR     *)
(* allows it; the controller loses its registers and requests in reset,    *)
(* and so does the PHY; the DRAM reads mode register 6 as two overlapping  *)
(* ranges.                                                                 *)
(***************************************************************************)
EXTENDS Integers, Sequences, SequencesExt, FiniteSets, DdrSetup

CONSTANTS
  Boards,      \* records [small, type1, ddr4, swizzle]
  SlowPlls,    \* the PLLs that may lock long after they are started; the
               \* others lock at once
  EyeOffsets,  \* what a lane can answer to a sweep: [pass, best], sets of
               \* distances from the middle of the sweep
  Trims        \* the delays the trainings can have left in the PHY

VARIABLES board, ip, cpg, pfc, ddr, vref, trim

vars == <<board, ip, cpg, pfc, ddr, vref, trim>>

(***************************************************************************)
(* The rest of the program.                                                *)
(***************************************************************************)
PowerOnScif0 ==
  << <<"ifoff", "SCIF", 2>> >> \o Clocks(<< <<"SCIF", {0}, {0}>> >>)
  \o Resets(<< <<"SCIF", {0}, {0}>> >>)

InitScif == PowerOnScif0 \o << <<"use", "SCIF">> >>

init_tzc_400_spimulti == << <<"set", "TZC_SPI">>, <<"set", "TZC_DDR">> >>

syc_init == << <<"use", "SYC">>, <<"set", "SYC_FREQ">> >>

(* Ports and the function of each of their pins.                           *)
pfc_mux_reg_tbl(b) ==
  IF b.small
  THEN << <<"P10", 0..3, <<1, 1, 1, 1>> >>,
          IF b.type1 THEN <<"P16", 3..4, <<0, 0, 0, 6, 6>> >>
                     ELSE <<"P1D", 0..1, <<1, 1>> >> >>
  ELSE << <<"P22", 0..1, <<1, 1>> >>, <<"P23", 0..1, <<1, 1>> >>,
          <<"P36", 0..1, <<1, 1>> >>, <<"P37", 0..2, <<1, 1, 1>> >> >>

PinWrites(tbl) ==
  FlattenSeq([i \in 1..Len(tbl) |->
    << <<"pmc", tbl[i][1], tbl[i][2]>>, <<"pfc", tbl[i][1], tbl[i][3]>> >>])

(* Mutant: PWPR is left open.                                              *)
MuxLeftOpen(b) == << <<"pwpr", TRUE>> >> \o PinWrites(pfc_mux_reg_tbl(b))

pfc_mux_setup(b) ==
  << <<"pwpr", TRUE>> >> \o PinWrites(pfc_mux_reg_tbl(b)) \o << <<"pwpr", FALSE>> >>

pfc_qspi_setup == << <<"set", "QSPI_IO">> >>

pfc_sd_reg_tbl(b) ==
  IF b.small THEN << >> ELSE << <<"P22", 0..1, <<3, 0>> >>, <<"P23", 0..1, <<3, 0>> >> >>

pfc_sd_setup(b) == << <<"set", "SD_IO">> >> \o PinWrites(pfc_sd_reg_tbl(b))

pfc_setup(b) == pfc_mux_setup(b) \o pfc_qspi_setup \o pfc_sd_setup(b)

BeforePins(b) == InitScif \o init_tzc_400_spimulti \o cpg_early_setup \o syc_init
BeforeDdr(b) == BeforePins(b) \o pfc_setup(b) \o cpg_setup(b.small) \o udelay
UpToDdr(b) == BeforeDdr(b) \o ddr_setup(BoardTable(b.swizzle), R039(b.ddr4))

(* InitRPC_Mode, ReadQspiFlashID, dg_init_emmc, StartMess.                 *)
Main(b) ==
  UpToDdr(b) \o InitRPC_QspiFlash
  \o << <<"use", "SPI_MULTI">>, <<"use", "SDHI">>, <<"use", "SCIF">> >>

(* Constants of a board: its program, where its parts end, the first use   *)
(* of a unit and the last poll of a PLL.                                   *)
Script == [b \in Boards |-> Main(b)]
PinsEnd == [b \in Boards |-> Len(BeforePins(b) \o pfc_setup(b))]
DdrEnd == [b \in Boards |-> Len(UpToDdr(b))]
Kept == {"SCIF", "SYC", "OSTM"}
FirstUse ==
  [b \in Boards |-> [u \in Kept |->
     SelectInSeq(Script[b], LAMBDA op : op[1] = "use" /\ op[2] = u)]]
Confirmed ==
  [b \in Boards |-> [p \in Plls |->
     SelectInSeq(Script[b], LAMBDA op : op[1] = "pllmon" /\ op[2] = p /\ op[3] = "normal")]]
Wired == [b \in Boards |-> IsWired(BoardTable(b.swizzle))]

Ended == ip = Len(Script[board]) + 1
Panicked == ip = 0
Op == Script[board][ip]
At(kind) == ~Ended /\ ~Panicked /\ Op[1] = kind
Step == ip' = ip + 1

(***************************************************************************)
(* Initial states: the boot ROM either left every unit running or only     *)
(* what it needs for the pins.  Register bits are released resets and      *)
(* running clocks; the monitors agree with them.                           *)
(***************************************************************************)
Units == {"CM33", "MHU", "DMAC", "OSTM", "MTU", "POE3", "GPT", "POEG", "WDT", "DDR",
          "SPI_MULTI", "SDHI", "GPU", "ISU", "H264", "CRU", "MIPI_DSI", "LCDC", "SSI",
          "SRC", "USB", "ETH", "I2C", "SCIF", "SCI", "IRDA", "RSPI", "CANFD", "GPIO",
          "ADC", "TSU", "SYC", "AXI_MCPU_BUS"}
AllBits == 0..9
NoAnswer == [done |-> {}, failed |-> {}]
NoVref == [side |-> "none"]
NoTrim == [read |-> FALSE, done |-> FALSE]

InitCpg(left) ==
  LET bits == [u \in Units |-> IF left = "all" \/ u \in {"GPIO", "AXI_MCPU_BUS"} THEN AllBits ELSE {}] IN
  [clk |-> bits, clkmon |-> bits, rst |-> bits, rstmon |-> bits,
   pll |-> [p \in Plls |-> "standby"], settings |-> {}, rst_n |-> FALSE]

Init ==
  /\ board \in Boards
  /\ ip = 1
  /\ \E left \in {"all", "pins"} : cpg = InitCpg(left)
  /\ pfc = [we |-> FALSE, pins |-> << >>]
  /\ ddr = [mc |-> {}, phy |-> {}, reten |-> FALSE, pending |-> {}, flags |-> {},
            kind |-> "none", answer |-> NoAnswer, passed |-> {}, mr6 |-> [code |-> 0, training |-> FALSE]]
  /\ vref = NoVref
  /\ trim = NoTrim

(***************************************************************************)
(* Clocks, resets, PLLs, settings.                                         *)
(***************************************************************************)
McRequests == {"init", "mr", "lp_in", "lp_out"}
PhyRequests == {"train", "cal1", "cal2", "lock"}

WriteClk ==
  /\ At("clk")
  /\ cpg' = [cpg EXCEPT !.clk[Op[2]] = Written(@, Op[3], Op[4])]
  /\ Step /\ UNCHANGED <<board, pfc, ddr, vref, trim>>

(* The OFF half of a selector: what was read is written back.              *)
WriteClkBack ==
  /\ At("clkback")
  /\ cpg' = [cpg EXCEPT !.clk[Op[2]] = Written(@, Op[3], @)]
  /\ Step /\ UNCHANGED <<board, pfc, ddr, vref, trim>>

(* What the controller or the PHY forgets when its registers are reset.    *)
ResetDdr(d, bits) ==
  LET m == IF bits \cap DdrMc = {} THEN d
           ELSE [d EXCEPT !.mc = {}, !.pending = @ \ McRequests, !.flags = @ \ McRequests]
  IN  IF 1 \notin bits THEN m
      ELSE [m EXCEPT !.phy = {}, !.pending = @ \ PhyRequests, !.flags = @ \ PhyRequests,
                     !.reten = FALSE]

WriteRst ==
  /\ At("rst")
  /\ cpg' = [cpg EXCEPT !.rst[Op[2]] = Written(@, Op[3], Op[4])]
  /\ ddr' = IF Op[2] = "DDR" THEN ResetDdr(ddr, Op[3] \ Op[4]) ELSE ddr
  /\ Step /\ UNCHANGED <<board, pfc, vref, trim>>

PollClk ==
  /\ At("clkmon")
  /\ cpg.clkmon[Op[2]] \cap Op[3] = Op[4] \cap Op[3]
  /\ Step /\ UNCHANGED <<board, cpg, pfc, ddr, vref, trim>>

PollAnyClk ==
  /\ At("anyclk")
  /\ cpg.clkmon[Op[2]] \cap Op[3] # {}
  /\ Step /\ UNCHANGED <<board, cpg, pfc, ddr, vref, trim>>

PollRst ==
  /\ At("rstmon")
  /\ cpg.rstmon[Op[2]] \cap Op[3] = Op[4] \cap Op[3]
  /\ Step /\ UNCHANGED <<board, cpg, pfc, ddr, vref, trim>>

SkipIfRunning ==
  /\ At("ifoff")
  /\ ip' = IF 0 \in cpg.clkmon[Op[2]] THEN ip + Op[3] + 1 ELSE ip + 1
  /\ UNCHANGED <<board, cpg, pfc, ddr, vref, trim>>

Dividers == {"PL1_DDIV", "PL3A_DDIV", "PL3_SSEL", "PL4_DSEL", "PL2SDHI_DSEL"}

WriteSetting ==
  /\ At("set")
  /\ cpg' = [cpg EXCEPT !.settings = @ \cup {Op[2]}]
  /\ ddr' = IF Op[2] \in Dividers
            THEN [ddr EXCEPT !.pending = @ \cup {"div"}, !.flags = @ \ {"div"}] ELSE ddr
  /\ Step /\ UNCHANGED <<board, pfc, vref, trim>>

PollDividers ==
  /\ At("divmon")
  /\ "div" \notin ddr.pending
  /\ Step /\ UNCHANGED <<board, cpg, pfc, ddr, vref, trim>>

StartPll ==
  /\ At("pll")
  /\ cpg' = [cpg EXCEPT !.pll[Op[2]] = IF Op[2] \in SlowPlls THEN "starting" ELSE "locked"]
  /\ Step /\ UNCHANGED <<board, pfc, ddr, vref, trim>>

PollPll ==
  /\ At("pllmon")
  /\ LET s == cpg.pll[Op[2]] IN PllPollPasses(Op[3], s # "standby", s = "locked")
  /\ Step /\ UNCHANGED <<board, cpg, pfc, ddr, vref, trim>>

WriteRstN ==
  /\ At("rst_n")
  /\ cpg' = [cpg EXCEPT !.rst_n = Op[2]]
  /\ Step /\ UNCHANGED <<board, pfc, ddr, vref, trim>>

Use ==
  /\ At("use")
  /\ Step /\ UNCHANGED <<board, cpg, pfc, ddr, vref, trim>>

(***************************************************************************)
(* Pins.                                                                   *)
(***************************************************************************)
Port(p) == IF p \in DOMAIN pfc.pins THEN pfc.pins[p] ELSE [peripheral |-> {}, function |-> << >>]

WritePwpr ==
  /\ At("pwpr")
  /\ pfc' = [pfc EXCEPT !.we = Op[2]]
  /\ Step /\ UNCHANGED <<board, cpg, ddr, vref, trim>>

WritePmc ==
  /\ At("pmc")
  /\ pfc' = [pfc EXCEPT !.pins = (Op[2] :> [Port(Op[2]) EXCEPT !.peripheral = Op[3]]) @@ @]
  /\ Step /\ UNCHANGED <<board, cpg, ddr, vref, trim>>

WritePfc ==
  /\ At("pfc")
  /\ pfc' = IF pfc.we
            THEN [pfc EXCEPT !.pins = (Op[2] :> [Port(Op[2]) EXCEPT !.function = Op[3]]) @@ @]
            ELSE pfc
  /\ Step /\ UNCHANGED <<board, cpg, ddr, vref, trim>>

(***************************************************************************)
(* Registers of the memory controller and of the PHY, and requests.        *)
(***************************************************************************)
WriteMc ==
  /\ At("mc")
  /\ ddr' = [ddr EXCEPT !.mc = @ \cup {Op[2]}]
  /\ Step /\ UNCHANGED <<board, cpg, pfc, vref, trim>>

(* Holding the delay lines unlocks the lanes.                              *)
WritePhy ==
  /\ At("phy")
  /\ ddr' = [ddr EXCEPT !.phy = @ \cup {Op[2]},
                        !.flags = IF Op[2] = "held" THEN @ \ {"lock"} ELSE @]
  /\ Step /\ UNCHANGED <<board, cpg, pfc, vref, trim>>

ClearPhy ==
  /\ At("phyoff")
  /\ ddr' = [ddr EXCEPT !.phy = @ \ {Op[2]}]
  /\ Step /\ UNCHANGED <<board, cpg, pfc, vref, trim>>

WriteReten ==
  /\ At("reten")
  /\ ddr' = [ddr EXCEPT !.reten = Op[2]]
  /\ Step /\ UNCHANGED <<board, cpg, pfc, vref, trim>>

(* Initialisation and mode register writes keep their old flag.            *)
Sticky == {"init", "mr"}

Ask ==
  /\ At("ask")
  /\ ddr' = [ddr EXCEPT !.pending = @ \cup {Op[2]},
                        !.flags = IF Op[2] \in Sticky THEN @ ELSE @ \ {Op[2]}]
  /\ Step /\ UNCHANGED <<board, cpg, pfc, vref, trim>>

StartTraining ==
  /\ At("train")
  /\ ddr' = [ddr EXCEPT !.pending = @ \cup {"train"}, !.flags = @ \ {"train"}, !.kind = Op[2]]
  /\ Step /\ UNCHANGED <<board, cpg, pfc, vref, trim>>

Wait ==
  /\ At("wait")
  /\ Op[2] \in ddr.flags
  /\ Step /\ UNCHANGED <<board, cpg, pfc, ddr, vref, trim>>

Ack ==
  /\ At("ack")
  /\ ddr' = [ddr EXCEPT !.flags = @ \ {Op[2]}]
  /\ Step /\ UNCHANGED <<board, cpg, pfc, vref, trim>>

(* `passed` keeps which trainings in fact succeeded on every lane.         *)
CheckTraining ==
  /\ At("check")
  /\ LET a == ddr.answer
         good == a.done = Lanes /\ a.failed = {}
     IN  /\ ip' = IF CheckPasses(Op[2], a.done, a.failed) THEN ip + 1 ELSE 0
         /\ ddr' = [ddr EXCEPT !.answer = NoAnswer,
                               !.passed = IF good THEN @ \cup {Op[2]} ELSE @ \ {Op[2]}]
  /\ UNCHANGED <<board, cpg, pfc, vref, trim>>

(* panic() where the table's write termination has no counterpart.         *)
CheckRtt ==
  /\ At("rtt")
  /\ ip' = IF Op[2] = -1 THEN 0 ELSE ip + 1
  /\ UNCHANGED <<board, cpg, pfc, ddr, vref, trim>>

(***************************************************************************)
(* The sweeps.  `tried` and `eye` are the history of a sweep: the voltages *)
(* tried, and what each lane answers.                                      *)
(***************************************************************************)
Table == BoardTable(board.swizzle)

BeginSweep ==
  /\ At("sweep")
  /\ LET s == StartSweep(Table, Op[2])
         shift(S) == {s.mid + d : d \in S}
     IN  \E e \in [Lanes -> EyeOffsets] :
           vref' = [side |-> Op[2], s |-> s, tried |-> {}, chosen |-> << >>,
                    eye |-> [l \in Lanes |-> [pass |-> shift(e[l].pass),
                                              best |-> shift(e[l].best)]]]
  /\ Step /\ UNCHANGED <<board, cpg, pfc, ddr, trim>>

TryNext ==
  /\ At("next")
  /\ LET s == vref.s
         t == NextTry(Op[2], s)
     IN  IF SweepOver(Op[2], s)
         THEN ip' = ip + Op[3] /\ vref' = vref
         ELSE /\ Step
              /\ vref' = [vref EXCEPT !.s.t = t, !.s.cur = VrefAt(Op[2], s, t)]
  /\ UNCHANGED <<board, cpg, pfc, ddr, trim>>

LoopBack ==
  /\ At("back")
  /\ ip' = ip - Op[2]
  /\ vref' = [vref EXCEPT !.s.t = @ + 1]
  /\ UNCHANGED <<board, cpg, pfc, ddr, trim>>

(* A lane's answer at a voltage: no window, or the difference of its two.  *)
Passes(l, v) ==
  IF vref.side = "PHY" THEN v \in vref.eye[l].pass
                       ELSE \A k \in Lanes : v \in vref.eye[k].pass
Difference(l, v) == IF v \in vref.eye[l].best THEN 1 ELSE 2

Collect ==
  /\ At("collect")
  /\ LET v == vref.s.cur IN
     vref' = [vref EXCEPT !.tried = @ \cup {v},
                !.s.best = [l \in Lanes |->
                   IF Passes(l, v) THEN Collected(@[l], v, Difference(l, v)) ELSE @[l]]]
  /\ Step /\ UNCHANGED <<board, cpg, pfc, ddr, trim>>

Choose ==
  /\ At("choose")
  /\ LET c == Chosen(Op[2], vref.s) IN
     vref' = [vref EXCEPT !.chosen = c, !.s.cur = c[0]]
  /\ Step /\ UNCHANGED <<board, cpg, pfc, ddr, trim>>

(* The value the next write_mr sends: voltage and whether training is on.  *)
PrepareMr6 ==
  /\ At("mr6")
  /\ ddr' = [ddr EXCEPT !.mr6 = [code |-> vref_op_code(vref.s.cur), training |-> Op[2] # "off"]]
  /\ Step /\ UNCHANGED <<board, cpg, pfc, vref, trim>>

(***************************************************************************)
(* The delays.                                                             *)
(***************************************************************************)
ReadDelays ==
  /\ At("readdelays")
  /\ \E t \in Trims : trim' = [read |-> TRUE, done |-> FALSE, before |-> t]
  /\ Step /\ UNCHANGED <<board, cpg, pfc, ddr, vref>>

WriteDelays ==
  /\ At("writedelays")
  /\ trim' = [read |-> TRUE, done |-> TRUE, before |-> trim.before,
              after |-> OptDelay(trim.before)]
  /\ Step /\ UNCHANGED <<board, cpg, pfc, ddr, vref>>

(***************************************************************************)
(* The hardware.                                                           *)
(***************************************************************************)
ClockSettles(u) ==
  /\ cpg.clkmon[u] # cpg.clk[u]
  /\ cpg' = [cpg EXCEPT !.clkmon[u] = cpg.clk[u]]
  /\ UNCHANGED <<board, ip, pfc, ddr, vref, trim>>

ResetSettles(u) ==
  /\ cpg.rstmon[u] # cpg.rst[u]
  /\ cpg' = [cpg EXCEPT !.rstmon[u] = cpg.rst[u]]
  /\ UNCHANGED <<board, ip, pfc, ddr, vref, trim>>

PllLocks(p) ==
  /\ cpg.pll[p] = "starting"
  /\ cpg' = [cpg EXCEPT !.pll[p] = "locked"]
  /\ UNCHANGED <<board, ip, pfc, ddr, vref, trim>>

LanesLock ==
  /\ "lanes_on" \in ddr.phy /\ "held" \notin ddr.phy /\ "lock" \notin ddr.flags
  /\ ddr' = [ddr EXCEPT !.flags = @ \cup {"lock"}]
  /\ UNCHANGED <<board, ip, cpg, pfc, vref, trim>>

(* The trainings whose answer the code looks at.                           *)
Answers(kind) ==
  CASE kind = "WRLVL" -> [done : SUBSET Lanes, failed : SUBSET Lanes]
    [] kind = "SL" -> [done : SUBSET Lanes, failed : {{}}]
    [] kind \in {"VREFTEST", "RDLVL", "WRBIT"} -> [done : {Lanes}, failed : SUBSET Lanes]
    [] OTHER -> {NoAnswer}

Serve(r) ==
  /\ r \in ddr.pending
  /\ \E a \in (IF r = "train" THEN Answers(ddr.kind) ELSE {ddr.answer}) :
       ddr' = [ddr EXCEPT !.pending = @ \ {r}, !.flags = @ \cup {r}, !.answer = a,
                          !.mc = IF r = "init" THEN @ \cup {"initialised"} ELSE @]
  /\ UNCHANGED <<board, ip, cpg, pfc, vref, trim>>

Cpu ==
  \/ WriteClk \/ WriteClkBack \/ WriteRst \/ PollClk \/ PollAnyClk \/ PollRst \/ SkipIfRunning
  \/ WriteSetting \/ PollDividers \/ StartPll \/ PollPll \/ WriteRstN \/ Use
  \/ WritePwpr \/ WritePmc \/ WritePfc
  \/ WriteMc \/ WritePhy \/ ClearPhy \/ WriteReten \/ Ask \/ StartTraining \/ Wait \/ Ack
  \/ CheckTraining \/ CheckRtt
  \/ BeginSweep \/ TryNext \/ LoopBack \/ Collect \/ Choose \/ PrepareMr6
  \/ ReadDelays \/ WriteDelays

Hardware ==
  \/ \E u \in Units : ClockSettles(u) \/ ResetSettles(u)
  \/ \E p \in Plls : PllLocks(p)
  \/ LanesLock
  \/ \E r \in McRequests \cup PhyRequests \cup {"div"} : Serve(r)

Next == Cpu \/ Hardware

Spec == Init /\ [][Next]_vars /\ WF_vars(Cpu) /\ WF_vars(Hardware)

(***************************************************************************)
(* Properties.                                                             *)
(***************************************************************************)
(* The unit whose registers an operation reads or writes.                  *)
UnitOf(op) ==
  CASE op[1] = "use" -> op[2]
    [] op[1] \in {"pwpr", "pmc", "pfc"} -> "GPIO"
    [] op[1] \in {"mc", "mr6"} -> "DDR_MC"
    [] op[1] \in {"ask", "wait", "ack"} /\ op[2] \in McRequests -> "DDR_MC"
    [] op[1] \in {"ask", "wait", "ack"} /\ op[2] \in PhyRequests -> "DDR_PHY"
    [] op[1] \in {"phy", "phyoff", "reten", "train", "check", "collect", "choose",
                  "readdelays", "writedelays"} -> "DDR_PHY"
    [] OTHER -> "none"

(* The clock and reset bits a unit needs for its registers to answer.      *)
Needs(u) ==
  CASE u = "DDR_MC" -> [unit |-> "DDR", clk |-> {0, 1}, rst |-> DdrMc \cup {0, 1}]
    [] u = "DDR_PHY" -> [unit |-> "DDR", clk |-> {0, 1}, rst |-> {1}]
    [] u = "SPI_MULTI" -> [unit |-> u, clk |-> {0, 1}, rst |-> {0}]
    [] u = "SDHI" -> [unit |-> u, clk |-> 0..3, rst |-> {0}]
    [] OTHER -> [unit |-> u, clk |-> {0}, rst |-> {0}]

Runs(u) ==
  LET n == Needs(u) IN n.clk \subseteq cpg.clkmon[n.unit] /\ n.rst \subseteq cpg.rstmon[n.unit]

(* A unit's registers are touched only while its clock runs and its reset  *)
(* is released, and the console, the system counter and the delay timer,   *)
(* once used, never stop again: nothing but the order of the tables, of    *)
(* the polls and of Main keeps the two apart.                              *)
TouchedRunning ==
  /\ ~Ended /\ ~Panicked /\ UnitOf(Op) # "none" => Runs(UnitOf(Op))
  /\ \A u \in Kept : ip > FirstUse[board][u] => Runs(u)

(* Once the pins are set up every port of the mux table serves the pins    *)
(* and the functions that table gives it, although pfc_sd_setup writes     *)
(* other functions to two of them after the lock.                          *)
PinsMuxed ==
  ip > PinsEnd[board] =>
    \A i \in DOMAIN pfc_mux_reg_tbl(board) :
      LET e == pfc_mux_reg_tbl(board)[i] IN
      Port(e[1]) = [peripheral |-> e[2], function |-> e[3]]

(* No flag that the code polls is still set from an earlier request while  *)
(* a new one of its kind is on its way.                                    *)
FreshAnswers == ddr.pending \cap ddr.flags = {}

(* A training starts only when the controller has been programmed, wired   *)
(* to the board's pins and initialised since its last reset, the PHY is    *)
(* programmed, wired and calibrated, the lanes are locked and retention is *)
(* off; the wiring is one to one.                                          *)
TrainingReady ==
  "train" \in ddr.pending =>
    /\ {"init_tbl", "odt_and_mode", "phy_settings", "swizzle", "initialised"} \subseteq ddr.mc
    /\ {"programmed", "delays", "calibrated", "lanes_on", "swizzle"} \subseteq ddr.phy
    /\ "held" \notin ddr.phy /\ "lock" \in ddr.flags /\ "init" \notin ddr.flags
    /\ ddr.reten /\ cpg.rst_n /\ Wired[board]

(* When ddr_setup returns, the trainings the board runs succeeded on every *)
(* lane, the delay lines and the overrides of the trainings are released,  *)
(* the DRAM has left reference-voltage training, no request is left and    *)
(* every flag is acknowledged.                                             *)
NormalOperation ==
  ip > DdrEnd[board] =>
    /\ {"WRLVL", "RDLVL", "WRBIT", "SL"} \subseteq ddr.passed
    /\ board.ddr4 => "VREFTEST" \in ddr.passed /\ "vref" \in ddr.mc
    /\ {"held", "wl_odt", "R54", "R51", "R74", "vref_phy"} \cap ddr.phy = {}
    /\ ~ddr.mr6.training
    /\ "train" \notin ddr.pending /\ Sticky \cap (ddr.pending \cup ddr.flags) = {}

(* The voltages of a sweep: all within its range and the limits of its     *)
(* side, and the one in the middle of those that gave a lane (on the DRAM, *)
(* any lane) its smallest difference.                                      *)
InReach(side, s) ==
  {v \in (s.mid - s.range)..(s.mid + s.range) :
     IF side = "PHY" THEN v \in 2..126 ELSE v \in 0..73}
BestTried(l) ==
  LET ok == {v \in vref.tried : Passes(l, v)} IN
  {v \in ok : \A w \in ok : Difference(l, v) <= Difference(l, w)}
DramLevel(code) == IF code >= 64 THEN code - 64 ELSE code + 23

(* A finished sweep has tried every voltage in reach and chosen the middle *)
(* of the best ones, between them even when more than MAX_BEST_VREF_SAVED  *)
(* tie, 63 when none passes; mode register 6 carries the voltage meant.    *)
VrefMiddle ==
  vref # NoVref /\ vref.chosen # << >> =>
    /\ vref.tried = InReach(vref.side, vref.s)
    /\ \A l \in Lanes :
         LET best == IF vref.side = "PHY" THEN BestTried(l) ELSE UNION {BestTried(k) : k \in Lanes}
             kept == \A k \in Lanes : Cardinality(BestTried(k)) <= MAX_BEST_VREF_SAVED
         IN  IF best = {} THEN vref.chosen[l] = 63
             ELSE /\ vref.chosen[l] \in Lowest(best)..Highest(best)
                  /\ kept => vref.chosen[l] = Middle(best)
    /\ vref.side = "DRAM" /\ ~ddr.mr6.training => DramLevel(ddr.mr6.code) = vref.chosen[0]

(* Taking the common delay off keeps every difference: between the address *)
(* lines and each lane, between the strobes, with one delay of each kind   *)
(* left at zero; and no bit that could be delayed is now asked for less    *)
(* than nothing.                                                           *)
SkewKept ==
  trim.done =>
    LET b == trim.before
        a == trim.after
    IN  /\ \A l \in Lanes : a.wl[l] - a.ca = b.wl[l] - b.ca
        /\ 0 \in {a.ca, a.wl[0], a.wl[1]}
        /\ a.dqs[0] - a.dqs[1] = b.dqs[0] - b.dqs[1]
        /\ \A l \in Lanes : \A bit \in b.bits[l] :
             b.dqs[l] + bit >= 0 => a.dqs[l] + bit >= 0

(* The PLLs run locked once their normal mode has been confirmed.          *)
PllLocked == \A p \in Plls : ip > Confirmed[board][p] => cpg.pll[p] = "locked"

(* The setup ends, at the prompt or in panic(): no poll waits for ever.    *)
SetupEnds == <>(Ended \/ Panicked)
=============================================================================
