------------------------------ MODULE EmmcCard ------------------------------
(* What the monitor shows of the registers of an eMMC card and what it      *)
(* writes to them (EM_DCID, EM_DCSD, EM_DECSD, EM_SECSD), with the mount    *)
(* that comes first: the clock and the timeout chosen from those registers. *)
(* The paths of EmmcSession, here with the numbers in the registers.        *)
EXTENDS EmmcRegs

CONSTANTS
  Cards,   \* the cards that may be fitted
  Indexes, \* the numbers typed at the prompts of EM_SECSD
  Values

\* spec: SPEC_VERS, tran: TRAN_SPEED, type: the clocks of CARD_TYPE.
ASSUME CardAssumption ==
  /\ Cards \subseteq [spec: 0..15, tran: 0..127, type: SUBSET {26, 52}]
  /\ Indexes \subseteq Nat /\ Values \subseteq Nat

\* The divider of the 133 MHz clock for each MMC_...HZ.
MMC_400KHZ == 512
MMC_20MHZ  == 8
MMC_26MHZ  == 8
MMC_52MHZ  == 4

HS_TIMING       == 185
BUS_WIDTH       == 183
ERASE_GROUP_DEF == 175

VARIABLES
  pc, kind, outcome, \* the next step; the command typed and how it ended
  request,           \* EM_SECSD: index and value typed
  shown,             \* the register on the screen and what it was taken from
  emmcInit, selected,\* dg_emmc_access.c, mmc_drv_obj.selected
  current, enable,   \* mmc_drv_obj.current_freq and clock_enable
  cid, csd,          \* what the buffers hold: "none", "CID" or "CSD"
  ext,               \* ext_csd_data
  clkctrl,           \* SD_CLK_CTRL: the divider and whether the clock is on
  timeout,           \* SD_OPTION, bits 7 to 4
  card,              \* the card
  cExt,              \* the bytes of its EXT_CSD that CMD6 has set
  cRefused,          \* it refused a CMD6 and will say so
  wanted, dropped    \* history: the switches asked for; the last CMD8 lost data

monitor == <<kind, outcome, request, shown>>
driver  == <<emmcInit, selected, current, enable, cid, csd, ext>>
host    == <<clkctrl, timeout>>
device  == <<card, cExt, cRefused>>
history == <<wanted, dropped>>
vars    == <<pc, monitor, driver, host, device, history>>

\* A byte of EXT_CSD, of a card or of ext_csd_data: as set by CMD6, or the card's own.
NotRead == [read |-> FALSE, set |-> << >>]
ReadOf(set) == [read |-> TRUE, set |-> set]
Byte(e, i) ==
  CASE ~e.read -> <<"none", 0>>
    [] e.read /\ i \in DOMAIN e.set -> <<"set", e.set[i]>>
    [] e.read /\ i \notin DOMAIN e.set -> <<"own", i>>
CardType(e) == IF e.read THEN card.type ELSE {}

\* The bits of the CSD that are 1, as far as the driver looks at them.
BitsOf(n, low) == {<<"CSD", low + b>>: b \in {b \in 0..7: (n \div 2^b) % 2 = 1}}
Ones == BitsOf(card.spec, 122) \cup BitsOf(card.tran, 96)

Nothing == [table |-> "none", from |-> "none"]
NoRequest == [index |-> 0, value |-> 0]

\* The boot ROM may have left the card in high speed and its bus wide.
Init ==
  /\ pc = "idle" /\ kind = "none" /\ outcome = "none" /\ request = NoRequest /\ shown = Nothing
  /\ emmcInit = FALSE /\ selected = FALSE /\ current = 0 /\ enable = FALSE
  /\ cid = "none" /\ csd = "none" /\ ext = NotRead
  /\ clkctrl = [div |-> 2, on |-> FALSE] /\ timeout = 14
  /\ card \in Cards /\ cRefused = FALSE
  /\ cExt \in {<< >>, [i \in {HS_TIMING, BUS_WIDTH} |-> IF i = HS_TIMING THEN 1 ELSE 2]}
  /\ wanted = {<<HS_TIMING, 1>>, <<BUS_WIDTH, 2>>} /\ dropped = FALSE

-----------------------------------------------------------------------------
(* Faulty variants of definitions below, each of which breaks a property.  *)

Writable_Any(i) == i \in Nat
TimeoutFor_Kept(div) == 6
SpeedFor_NoSlow(tran) == MMC_26MHZ
CommandRoute_NoReread(k) ==
  IF k = "EM_SECSD" THEN << "index", "value", "cmd6", "cmd13", "show" >> ELSE << "show" >>

-----------------------------------------------------------------------------
(* The way of a command.                                                   *)

Kinds == {"EM_DCID", "EM_DCSD", "EM_DECSD", "EM_SECSD"}

MountRoute ==
  << "init", "clockId", "cmd0", "clockIdle", "cmd1", "cmd2", "cmd3", "cmd9", "cmd7", "clockCsd",
     "cmd16", "cmd8i", "cmd6hs", "clockHs", "cmd13hs", "cmd6bw", "cmd13bw", "cmd8bw" >>
CommandRoute(k) ==
  CASE k \in {"EM_DCID", "EM_DCSD"} -> << "show" >>
    [] k = "EM_DECSD" -> << "cmd8", "show" >>
    [] k = "EM_SECSD" -> << "cmd6group", "cmd13group", "cmd8group", "cmd8", "index", "value",
                            "cmd6", "cmd13", "cmd8user", "reread", "show" >>

MountSteps == Range(MountRoute)
ClockSteps == {"clockId", "clockIdle", "clockCsd", "clockHs"}
Identify   == {"cmd0", "cmd1", "cmd2", "cmd3"}
Switches   == {"cmd6hs", "cmd6bw", "cmd6group", "cmd6"}
Statuses   == {"cmd13hs", "cmd13bw", "cmd13group", "cmd13"}
Reads      == {"cmd8i", "cmd8bw", "cmd8group", "cmd8", "cmd8user", "reread"}
Commands   == Identify \cup Switches \cup Statuses \cup Reads \cup {"cmd9", "cmd7", "cmd16"}

After(l) ==
  LET route == MountRoute \o CommandRoute(kind) IN
  route[1 + (CHOOSE i \in DOMAIN route: route[i] = l)]
Advance == pc' = After(pc)

\* emmc_mount stops the clock when it gives up; the commands just return.
Abandon ==
  IF pc \in MountSteps THEN pc' = "stop" /\ UNCHANGED outcome
  ELSE pc' = "idle" /\ outcome' = "error"

-----------------------------------------------------------------------------
(* The driver without the card.                                            *)

\* A command is typed; dg_emmc_check_init mounts the card if that is still to do.
Type(k) ==
  /\ pc = "idle"
  /\ pc' = (IF emmcInit THEN Head(CommandRoute(k)) ELSE "init")
  /\ kind' = k /\ outcome' = "none" /\ request' = NoRequest /\ shown' = Nothing
  /\ UNCHANGED <<driver, host, device, history>>

\* emmc_init: mmc_drv_obj is zeroed, SD_OPTION = 0xC0EE, SD_CLK_CTRL = 0.
\* emmc_mount then refuses while CBSY is high.
EmmcInit ==
  /\ pc = "init" /\ (Abandon \/ (Advance /\ UNCHANGED outcome))
  /\ selected' = FALSE /\ current' = 0 /\ enable' = FALSE
  /\ cid' = "none" /\ csd' = "none" /\ ext' = NotRead
  /\ clkctrl' = [div |-> 2, on |-> FALSE] /\ timeout' = 14
  /\ UNCHANGED <<kind, request, shown, emmcInit, device, history>>

\* emmc_calc_tran_speed: unit (in 10 kHz) times multiplier; 0 for an illegal CSD.
Unit == <<1, 10, 100, 1000, 0, 0, 0, 0>>
Mult == <<0, 10, 12, 13, 15, 20, 26, 30, 35, 40, 45, 52, 55, 60, 70, 80>>
MaxFreq(tran) == Unit[(tran % 8) + 1] * Mult[((tran \div 8) % 16) + 1] * 10   \* in kHz
SpeedFor(tran) ==
  CASE MaxFreq(tran) >= 52000 -> MMC_52MHZ
    [] MaxFreq(tran) >= 26000 /\ MaxFreq(tran) < 52000 -> MMC_26MHZ
    [] MaxFreq(tran) >= 20000 /\ MaxFreq(tran) < 26000 -> MMC_20MHZ
    [] MaxFreq(tran) < 20000 -> MMC_400KHZ

\* The registers of the card as the driver finds them in its buffers.
Buffer(b) == IF b = "none" THEN Cleared ELSE emmc_read_response(b)
EMMC_CSD_SPEC_VARS(b)  == Number(emmc_bit_field(Buffer(b), 125, 122), Ones)
EMMC_CSD_TRAN_SPEED(b) == Number(emmc_bit_field(Buffer(b), 103, 96), Ones)

\* emmc_high_speed.  Whichever it is, it is MMC_52MHZ or MMC_26MHZ, so that CMD6 is
\* sent to every card.
HighSpeed ==
  CASE 52 \in CardType(ext) -> MMC_52MHZ
    [] 52 \notin CardType(ext) /\ 26 \in CardType(ext) -> MMC_26MHZ
    [] CardType(ext) = {} -> MMC_20MHZ

\* emmc_set_timeout_register_value: 14 for a divider of 2 down to 6 for 512.
TimeoutFor(div) == CHOOSE t \in 6..14: 2^(15 - t) = div

\* The four places that set the clock.  emmc_set_request_mmc_clock leaves a clock
\* alone that already runs as asked, and refuses while CBSY is high.
Wanted == CASE pc \in {"clockId", "clockIdle"} -> MMC_400KHZ
            [] pc = "clockCsd" -> SpeedFor(EMMC_CSD_TRAN_SPEED(csd))
            [] pc = "clockHs" -> HighSpeed
SetClock ==
  LET forced == IF pc = "clockId" THEN 0 ELSE current
      legal  == pc = "clockCsd" => MaxFreq(EMMC_CSD_TRAN_SPEED(csd)) > 0
      same   == legal /\ enable /\ forced = Wanted
  IN
  /\ pc \in ClockSteps
  /\ \/ ~same /\ Abandon /\ current' = forced /\ UNCHANGED <<enable, host>>
     \/ /\ legal /\ Advance /\ UNCHANGED outcome
        /\ current' = Wanted /\ enable' = TRUE
        /\ clkctrl' = IF same THEN clkctrl ELSE [div |-> Wanted, on |-> TRUE]
        /\ timeout' = IF pc \in {"clockCsd", "clockHs"} THEN TimeoutFor(Wanted) ELSE timeout
  /\ UNCHANGED <<kind, request, shown, emmcInit, selected, cid, csd, ext, device, history>>

\* The clock stops unless CBSY is high.
StopClock ==
  /\ pc = "stop" /\ pc' = "idle" /\ outcome' = "error"
  /\ \/ enable' = FALSE /\ clkctrl' = [clkctrl EXCEPT !.on = FALSE]
     \/ UNCHANGED <<enable, clkctrl>>
  /\ UNCHANGED <<kind, request, shown, emmcInit, selected, current, cid, csd, ext, timeout,
                 device, history>>

-----------------------------------------------------------------------------
(* The dialogue and the screen.                                            *)

\* emmcChkExtCsdWriteIndex.
Writable(i) == i \in extCsdWriteIndex

\* InputExtCsdParam: an index or a value that is refused is asked for again, as
\* is one that is no number; an empty line leaves the command.
InputIndex(i) ==
  /\ pc = "index"
  /\ IF i <= 511 /\ Writable(i)
     THEN Advance /\ request' = [request EXCEPT !.index = i]
                  /\ shown' = [table |-> "byte", from |-> Byte(ext, i)]
     ELSE UNCHANGED <<pc, request, shown>>
  /\ UNCHANGED <<kind, outcome, driver, host, device, history>>
InputValue(v) ==
  /\ pc = "value"
  /\ IF v <= 255 THEN Advance /\ request' = [request EXCEPT !.value = v]
     ELSE UNCHANGED <<pc, request>>
  /\ UNCHANGED <<kind, outcome, shown, driver, host, device, history>>
Cancel ==
  /\ pc \in {"index", "value"} /\ pc' = "idle" /\ outcome' = "cancelled"
  /\ UNCHANGED <<kind, request, shown, driver, host, device, history>>

\* The rows that disp_cid and disp_csd print from a buffer, and disp_ext_csd.
Table(k) == IF k = "CID" THEN dg_cid_data ELSE dg_csd_data
Rows(k)  == 1..(IF k = "CID" THEN CID_FIELD_MAX ELSE CSD_FIELD_MAX)
Screen ==
  [k \in {"CID", "CSD"} |-> [b \in {"none", "CID", "CSD"} |->
     [i \in Rows(k) |-> DispField(Buffer(b), Table(k)[i])]]]
ExtRow(e, i) ==
  [n \in DOMAIN DispIndexes(dg_ext_csd_data[i]) |-> Byte(e, DispIndexes(dg_ext_csd_data[i])[n])]

Show ==
  /\ pc = "show" /\ pc' = "idle" /\ outcome' = "complete"
  /\ shown' = (CASE kind = "EM_DCID" -> [table |-> "CID", from |-> cid]
                 [] kind = "EM_DCSD" -> [table |-> "CSD", from |-> csd]
                 [] kind = "EM_DECSD" -> [table |-> "EXT_CSD", from |-> ext]
                 [] kind = "EM_SECSD" -> [table |-> "byte", from |-> Byte(ext, request.index)])
  /\ UNCHANGED <<kind, request, driver, host, device, history>>

-----------------------------------------------------------------------------
(* The commands to the card.                                               *)

\* The byte and the value a CMD6 is meant to set: EXTCSD_ACCESS_BYTE, the index
\* and the value are or-ed together.
Meant(l) ==
  CASE l = "cmd6hs"    -> <<HS_TIMING, 1>>
    [] l = "cmd6bw"    -> <<BUS_WIDTH, 2>>
    [] l = "cmd6group" -> <<ERASE_GROUP_DEF, 1>>
    [] l = "cmd6"      -> <<request.index, request.value>>

\* The card (external): an index has eight bits in the argument; CMD0 resets the
\* modes; a high speed timing that the card does not have is refused, and so may
\* be any byte the user sets.
Volatile == {HS_TIMING, BUS_WIDTH, ERASE_GROUP_DEF, 179, 187}
Sets(l)  == [i \in DOMAIN cExt \cup {Meant(l)[1] % 256} |->
               IF i = Meant(l)[1] % 256 THEN Meant(l)[2] ELSE cExt[i]]
Kept     == [i \in DOMAIN cExt \ Volatile |-> cExt[i]]
Executes(l) ==
  \/ l \in Switches /\ (l = "cmd6hs" => card.type # {}) /\ cExt' = Sets(l) /\ UNCHANGED cRefused
  \/ ((l = "cmd6hs" /\ card.type = {}) \/ l = "cmd6") /\ cRefused' = TRUE /\ UNCHANGED cExt
  \/ l = "cmd0" /\ cExt' = Kept /\ cRefused' = FALSE
  \/ l \notin Switches \cup {"cmd0"} /\ UNCHANGED <<cExt, cRefused>>

\* emmc_exec_cmd needs the clock; CMD6 of a mount the selected card; a refused
\* CMD6 makes the next status an error.
Sends(l)   == enable /\ (l \in {"cmd6hs", "cmd6bw"} => selected)
Accepts(l) == l \in Statuses => ~cRefused

\* A response that is read goes to the buffer of its command.
Stored(l) == cid' = (IF l = "cmd2" THEN "CID" ELSE cid) /\ csd' = (IF l = "cmd9" THEN "CSD" ELSE csd)
ReadExt(l) == ext' = (IF l \in Reads THEN ReadOf(cExt) ELSE ext)

Succeeds ==
  /\ pc \in Commands /\ Sends(pc) /\ Accepts(pc)
  /\ Executes(pc) /\ Stored(pc)
  /\ IF pc = "cmd9" /\ EMMC_CSD_SPEC_VARS("CSD") < 4
     THEN Abandon                                      \* too old a card
     ELSE Advance /\ UNCHANGED outcome
  /\ selected' = (pc = "cmd7" \/ (selected /\ pc # "cmd0"))
  /\ emmcInit' = (emmcInit \/ pc = "cmd8bw")
  /\ \/ ReadExt(pc) /\ dropped' = (dropped /\ pc \notin Reads)
     \/ pc \in Reads /\ UNCHANGED ext /\ dropped' = TRUE
  /\ wanted' = wanted \cup {Meant(l): l \in {pc} \cap Switches}
  /\ UNCHANGED <<kind, request, shown, current, enable, host, card>>

\* A command fails: the card may have executed it and its answer have been read.
Fails ==
  /\ pc \in Commands /\ Abandon
  /\ (Sends(pc) /\ Executes(pc)) \/ UNCHANGED <<cExt, cRefused>>
  /\ Stored(pc) \/ UNCHANGED <<cid, csd>>
  /\ ReadExt(pc) \/ UNCHANGED ext
  /\ selected' = (selected /\ pc # "cmd0")
  /\ wanted' = wanted \cup {Meant(l): l \in {pc} \cap Switches}
  /\ UNCHANGED <<kind, request, shown, emmcInit, current, enable, host, card, dropped>>

-----------------------------------------------------------------------------
Next ==
  \/ \E k \in Kinds: Type(k)
  \/ EmmcInit \/ SetClock \/ StopClock
  \/ (\E i \in Indexes: InputIndex(i)) \/ (\E v \in Values: InputValue(v))
  \/ Cancel \/ Show \/ Succeeds \/ Fails

Spec == Init /\ [][Next]_vars

-----------------------------------------------------------------------------
(* Properties.                                                             *)

\* Row i of a table shows the number in the field: the bits of the register from
\* its end upwards, no more than the field has.  The CRC, whose bits 7 to 1 no
\* response register keeps, reads 0.
RowRight(k, row, f) ==
  /\ Len(row) * 8 \in (f[1] - f[2] + 1)..(f[1] - f[2] + 8)
  /\ \A n \in 0..(8 * Len(row) - 1):
       row[Len(row) - n \div 8][n % 8] =
         (IF f[2] + n \in 8..f[1] THEN <<k, f[2] + n>> ELSE Zero)
ScreenRight ==
  [k \in {"CID", "CSD"} |-> [b \in {"none", "CID", "CSD"} |->
     \A i \in Rows(k): RowRight(k, Screen[k][b][i], Table(k)[i])]]

\* What a command displays is what the card holds: each field of CID and CSD with
\* exactly its bits, through the response registers, the buffer and emmc_bit_field;
\* each byte of EXT_CSD as it is in the card now, whatever was switched before,
\* unless the CMD8 lost its data.
ShownIsCards ==
  /\ shown.table \in {"CID", "CSD"} => ScreenRight[shown.table][shown.from]
  /\ shown.table = "EXT_CSD" /\ ~dropped =>
       \A i \in 1..EXT_CSD_FIELD_MAX:
         LET f == dg_ext_csd_data[i] IN
         ExtRow(shown.from, i) = [n \in 1..(f[1] - f[2] + 1) |-> Byte(ReadOf(cExt), f[1] + 1 - n)]

\* No byte of EXT_CSD changes but those the driver or the user named, to the value
\* named; when EM_SECSD is complete the byte has its value and the screen shows it.
SwitchesAsAsked ==
  /\ \A i \in DOMAIN cExt: <<i, cExt[i]>> \in wanted
  /\ outcome = "complete" /\ kind = "EM_SECSD" =>
       /\ request.index \in DOMAIN cExt /\ cExt[request.index] = request.value
       /\ ~dropped => shown.from = <<"set", request.value>>

\* Every command goes out at a clock the card can follow: 400 kHz while it is
\* identified, then its TRAN_SPEED (if that is more), and 26 or 52 MHz only in high speed timing
\* (unless the user has switched that off); and the controller waits at least
\* 2^28 cycles of the 133 MHz clock, two seconds, for data.
KHz == 133000 \div clkctrl.div
InHighSpeed == HS_TIMING \in DOMAIN cExt /\ cExt[HS_TIMING] = 1
Overridden == \E v \in Values \ {1}: <<HS_TIMING, v>> \in wanted
Limit ==
  CASE pc \in Identify -> 400
    [] pc \notin Identify /\ InHighSpeed /\ 52 \in card.type -> 52000
    [] pc \notin Identify /\ InHighSpeed /\ 52 \notin card.type -> 26000
    [] pc \notin Identify /\ ~InHighSpeed -> IF MaxFreq(card.tran) > 400 THEN MaxFreq(card.tran) ELSE 400
TimingFits ==
  pc \in Commands /\ Sends(pc) =>
    /\ clkctrl.on /\ clkctrl.div = current
    /\ ~Overridden => KHz <= Limit
    /\ pc \in Reads => 2^(13 + timeout) * clkctrl.div >= 2^28
=============================================================================
