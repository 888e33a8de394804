------------------------------ MODULE DdrSetup ------------------------------
(***************************************************************************)
(* ddr/common/ddr.c: the 32 steps that bring the DRAM up, as a script of   *)
(* operations for module SystemInit, and the calculations they make: the   *)
(* next reference voltage of a sweep, what is remembered of a try, the     *)
(* middle that is chosen, and the delays that are taken off in the end.    *)
(*                                                                         *)
(* The hardware answers requests: the controller's initialisation and the  *)
(* writes of mode registers have a flag that stays until it is             *)
(* acknowledged, the others one that the next request clears.              *)
(***************************************************************************)
EXTENDS Integers, Sequences, SequencesExt, FiniteSets, DdrParams, Cpg

Lanes == {0, 1}

(***************************************************************************)
(* Operations.                                                             *)
(***************************************************************************)
Mc(what) == << <<"mc", what>> >>
Phy(what) == << <<"phy", what>> >>
PhyOff(what) == << <<"phyoff", what>> >>
Reten(on) == << <<"reten", on>> >>
Request(r) == << <<"ask", r>>, <<"wait", r>> >>
Acknowledge(r) == << <<"ack", r>> >>
Train(kind) == << <<"train", kind>>, <<"wait", "train">> >>
Check(kind) == << <<"check", kind>> >>
Supported(rtt) == << <<"rtt", rtt>> >>

(* A loop: "next" leaves it past the "back" that ends it.                  *)
Sweep(side, body) ==
  << <<"next", side, Len(body) + 2>> >> \o body \o << <<"back", Len(body) + 1>> >>

ddr_ctrl_reten_en_n(val) == Reten(val)

disable_phy_clk == Phy("clocks_off")

program_mc1 == Mc("init_tbl") \o Mc("odt_and_mode") \o Mc("phy_settings")

lpddr4_combo_io_cal ==
  Request("cal1") \o << <<"ack", "cal1">> >> \o udelay \o Request("cal2")
  \o Phy("calibrated") \o udelay

(* Bit 26 of R27 holds the delay lines; the lanes lock when it is off.     *)
program_phy1(table, dram) ==
  Supported(WriteLevelRtt(RttWr(table, dram), dram))
  \o Phy("programmed") \o Phy("held") \o udelay \o Phy("delays")
  \o lpddr4_combo_io_cal \o PhyOff("held") \o Phy("lanes_on")

StartMc == Mc("start") \o Request("init")

exec_trainingWRLVL ==
  Phy("wl_odt") \o Train("WRLVL") \o Check("WRLVL") \o PhyOff("wl_odt")

(* Mutant: the flag of the mode register write stays.                      *)
WriteMrUnacknowledged == Request("mr")

(* write_mr starts a mode register write with the value chosen before it.  *)
write_mr == Request("mr") \o Acknowledge("mr")

setup_vref_training_registers(mode) == << <<"mr6", mode>> >> \o write_mr \o udelay

exec_trainingVREF ==
  Phy("vref_phy")
  \o << <<"sweep", "PHY">> >> \o Sweep("PHY", Train("SWEEP") \o << <<"collect", "PHY">> >>)
  \o << <<"choose", "PHY">> >> \o Train("VREFTEST") \o Check("VREFTEST")
  \o Phy("R54") \o << <<"sweep", "DRAM">> >> \o setup_vref_training_registers("on")
  \o Sweep("DRAM", setup_vref_training_registers("try") \o Train("SWEEP")
                   \o << <<"collect", "DRAM">> >>)
  \o << <<"choose", "DRAM">> >> \o setup_vref_training_registers("try")
  \o Mc("vref") \o setup_vref_training_registers("off")
  \o PhyOff("R54") \o PhyOff("vref_phy")

exec_trainingBITLVL ==
  Train("RDLVL") \o Check("RDLVL") \o Phy("R54") \o Train("WRBIT") \o Check("WRBIT")
  \o PhyOff("R54") \o Phy("R51") \o Train("GATE") \o PhyOff("R51") \o Train("AGAIN")

(* Mutant: the delay lines stay held.                                      *)
OptDelayHeld ==
  Phy("held") \o << <<"ask", "lp_in">>, <<"wait", "lp_in">>, <<"readdelays">>,
                    <<"writedelays">>, <<"ask", "lp_out">>, <<"wait", "lp_out">>,
                    <<"wait", "lock">> >>

opt_delay ==
  Phy("held") \o << <<"ask", "lp_in">>, <<"wait", "lp_in">>, <<"readdelays">>,
                    <<"writedelays">>, <<"ask", "lp_out">>, <<"wait", "lp_out">> >>
  \o PhyOff("held") \o << <<"wait", "lock">> >>

exec_trainingSL ==
  Train("SL1") \o Train("SL2") \o Train("SL") \o Check("SL") \o Phy("sl")

program_phy2 == Phy("periods") \o Phy("held") \o PhyOff("held")

program_mc2 == Mc("rdlat")

(* Steps 16 and 17: the controller is started once for the sake of the     *)
(* PHY, and is then reset and programmed again.                            *)
InitOnce ==
  ddr_ctrl_reten_en_n(FALSE) \o Mc("no_low_power") \o StartMc \o Phy("R74")
  \o Mc("R20") \o udelay \o PhyOff("R74")
  \o cpg_reset_ddr_mc \o ddr_ctrl_reten_en_n(TRUE)

If(cond, script) == IF cond THEN script ELSE << >>

ddr_setup(table, r039) ==
  cpg_active_ddr(disable_phy_clk)
  \o program_mc1 \o program_phy1(table, DramType(r039)) \o << <<"wait", "lock">> >>
  \o InitOnce \o program_mc1 \o Mc("swizzle") \o Phy("swizzle")
  \o StartMc \o Acknowledge("init")
  \o exec_trainingWRLVL
  \o If(RunVREF(r039), exec_trainingVREF)
  \o If(RunBITLVL(r039), exec_trainingBITLVL)
  \o opt_delay
  \o If(RunSL(r039), exec_trainingSL)
  \o program_phy2 \o program_mc2 \o Mc("lp_auto")

(***************************************************************************)
(* The answers the code checks: the lanes that finished and those that     *)
(* failed, against all lanes (sl_lanes).                                   *)
(***************************************************************************)
(* Mutant: one of the two registers is enough.                             *)
EitherPasses(kind, done, failed) ==
  CASE kind = "WRLVL" -> done = Lanes \/ failed = {}
    [] kind = "SL" -> Lanes \subseteq done
    [] kind \in {"VREFTEST", "RDLVL", "WRBIT"} -> failed = {}

CheckPasses(kind, done, failed) ==
  CASE kind = "WRLVL" -> done = Lanes /\ failed = {}
    [] kind = "SL" -> Lanes \subseteq done
    [] kind \in {"VREFTEST", "RDLVL", "WRBIT"} -> failed = {}

(***************************************************************************)
(* The sweep.  Its state: mid and range, the counter vref_training_value,  *)
(* current_vref, and for each lane the smallest window difference so far   *)
(* with the voltages that gave it.                                         *)
(***************************************************************************)
MAX_BEST_VREF_SAVED == 30

StartSweep(table, side) ==
  [mid |-> SweepMid(table, side), range |-> SweepRange(table, side),
   t |-> 0, cur |-> SweepMid(table, side),
   best |-> [l \in Lanes |-> [diff |-> 255, at |-> << >>]]]

(* current_vref for a value of the counter, or -1 outside the limits.      *)
Downwards(s, t) == t < s.range + 1
VrefAt(side, s, t) ==
  LET down == s.mid - t
      up   == s.mid + t - s.range
  IN  IF Downwards(s, t) THEN IF down < IF side = "PHY" THEN 2 ELSE 0 THEN -1 ELSE down
                         ELSE IF up > IF side = "PHY" THEN 126 ELSE 73 THEN -1 ELSE up

(* The counter of the next try: a limit met on the way down turns the      *)
(* sweep upwards, one met on the way up ends it, as does the range.        *)
NextTry(side, s) ==
  IF Downwards(s, s.t) /\ VrefAt(side, s, s.t) = -1 THEN s.range + 1 ELSE s.t
SweepOver(side, s) ==
  LET t == NextTry(side, s) IN t >= s.range * 2 + 1 \/ VrefAt(side, s, t) = -1

(* Mutant: a better voltage joins the worse ones.                          *)
CollectedAll(b, vref, diff) ==
  IF diff <= b.diff /\ Len(b.at) < MAX_BEST_VREF_SAVED
  THEN [diff |-> diff, at |-> Append(b.at, vref)] ELSE b

(* One lane's result, the difference of the two windows, joins its best.   *)
Collected(b, vref, diff) ==
  CASE diff < b.diff -> [diff |-> diff, at |-> <<vref>>]
    [] diff = b.diff /\ Len(b.at) < MAX_BEST_VREF_SAVED -> [b EXCEPT !.at = Append(@, vref)]
    [] OTHER -> b

Lowest(vs) == IF vs = {} THEN 127 ELSE CHOOSE v \in vs : \A w \in vs : v <= w
Highest(vs) == IF vs = {} THEN 0 ELSE CHOOSE v \in vs : \A w \in vs : v >= w
Middle(vs) == (Highest(vs) + Lowest(vs)) \div 2

(* On the PHY every lane has its voltage; the DRAM has one for all.        *)
Chosen(side, s) ==
  LET saved(l) == ToSet(s.best[l].at) IN
  [l \in Lanes |-> IF side = "PHY" THEN Middle(saved(l))
                   ELSE Middle(UNION {saved(k) : k \in Lanes})]

(* Mode register 6 has two ranges of 51 steps that overlap; bit 6 selects  *)
(* the lower one.                                                          *)
vref_op_code(v) == IF v > 50 THEN v - 23 ELSE v + 64

(***************************************************************************)
(* opt_delay.  trim: ca, the delay of the address lines; wl, for each lane *)
(* that of write levelling; dqs, for each lane that of its strobe; bits,   *)
(* for each lane those of its bits relative to the strobe.                 *)
(***************************************************************************)
DelayMin(S) == CHOOSE x \in S : \A y \in S : x <= y

MinWL(trim) == DelayMin({trim.ca} \cup {trim.wl[l] : l \in Lanes})

(* Mutant: only the strobes are looked at.                                 *)
MinOfStrobes(trim) == DelayMin({128} \cup {trim.dqs[l] : l \in Lanes})

(* A bit whose sum is negative wraps in 32 bits and is never the smallest. *)
BitDelays(trim) == UNION {{trim.dqs[l] + b : b \in trim.bits[l]} : l \in Lanes}
MinWD(trim) ==
  DelayMin({128} \cup {trim.dqs[l] : l \in Lanes} \cup {d \in BitDelays(trim) : d >= 0})

OptDelay(trim) ==
  [trim EXCEPT !.ca = (@ - MinWL(trim)) % 128,
               !.wl = [l \in Lanes |-> (@[l] - MinWL(trim)) % 64],
               !.dqs = [l \in Lanes |-> (@[l] - MinWD(trim)) % 64]]
=============================================================================
