---------------------------- MODULE EmmcSession ----------------------------
(***************************************************************************)
(* The eMMC commands of the monitor, from the prompt to the card: EM_W and *)
(* EM_WB, EM_E, EM_SECSD, EM_DECSD, EM_DCID and EM_DCSD                    *)
(* (dg_emmc_access.c, dg_emmc_config.c) over emmc_mount,                   *)
(* emmc_select_partition, emmc_set_ext_csd, emmc_write_sector and          *)
(* emmc_erase_sector.                                                      *)
(*                                                                         *)
(* One call of emmc_exec_cmd is one step with the outcomes EmmcCommand     *)
(* allows: an error says nothing of what the card has done, and a data     *)
(* command may return EMMC_SUCCESS although the controller met an error.   *)
(* The checks a function makes of a response count with the command.       *)
(* The card is the external part.                                          *)
(***************************************************************************)
EXTENDS Integers

CONSTANTS
  Size,        \* Size[a]: sectors of area a; 0 is the user area, 1 and 2 boot
  ImageMax,    \* bound: sectors of an image
  ChunkMax,    \* EMMC_RW_SECTOR_COUNT_MAX
  OcrPolls,    \* MMC_CMD1_TIMEOUT
  Cards        \* the cards that may be fitted

Areas == 0..2

\* MMC_...HZ (emmc_registers.h): the divider for 20 MHz is that for 26 MHz.
Mhz0_4 == "260 kHz"
Mhz20  == "16 MHz"
Mhz26  == Mhz20
Mhz52  == "33 MHz"

\* tran: the clock for the TRAN_SPEED of the CSD; type: CARD_TYPE of EXT_CSD.
Types     == {"none", "26", "52"}
CardKinds == [tran: {Mhz0_4, Mhz20}, type: Types]

ASSUME SizeAssumption  == Size \in [Areas -> Nat]
ASSUME SessionBounds   == ImageMax \in Nat /\ ChunkMax \in Nat \ {0} /\ OcrPolls \in Nat \ {0}
ASSUME CardsAssumption == Cards \subseteq CardKinds

\* What a sector holds: what it held when the monitor's command began, nothing
\* after an erase, or the sector of the image with that number.
Old     == -2
Erased  == -1
Sectors == UNION {0..(Size[a] - 1): a \in Areas}

Untouched == [a \in Areas |-> [s \in Sectors |-> Old]]

NoOp == [kind |-> "none", area |-> 0, start |-> 0, count |-> 0, field |-> "none"]

NoChunk == [buf |-> 0, sector |-> 0, left |-> 0]

\* EM_W stands for EM_WB too, EM_DCID for EM_DCSD.
Kinds == {"EM_DCID", "EM_DECSD", "EM_W", "EM_E", "EM_SECSD"}

\* The answers to the prompts of a command.  The EXT_CSD field that EM_SECSD
\* changes may be one the driver relies on.
Fields == {"PARTITION_CONFIG", "BUS_WIDTH", "HS_TIMING", "other"}
Answers(k) ==
  CASE k = "EM_W" ->
         {o \in [kind: {k}, area: Areas, start: Sectors, count: 0..ImageMax, field: {"none"}]:
            o.start < Size[o.area]}
    [] k = "EM_E"     -> [kind: {k}, area: Areas, start: {0}, count: {0}, field: {"none"}]
    [] k = "EM_SECSD" -> [kind: {k}, area: Areas, start: {0}, count: {0}, field: Fields]
    [] OTHER          -> {}
Ops == {[NoOp EXCEPT !.kind = k]: k \in Kinds} \cup UNION {Answers(k): k \in Kinds}

VARIABLES
  pc,        \* "idle" at the prompt, or the next step
  op,        \* the command typed, with its answers
  outcome,   \* how it ended: "none" yet, "complete" or "error"
  call,      \* who called emmc_set_ext_csd: "select", "group" or "user"
  chunk,     \* the locals of emmc_write_sector: buffer, sector, sectors left
  polls,     \* CMD1 polls left
  emmcInit,  \* dg_emmc_access.c: the driver is initialised
  mount, selected,  \* mmc_drv_obj.mount and selected
  clock, freq,      \* mmc_drv_obj.clock_enable and current_freq
  hostWidth, \* the bus width in SD_OPTION
  cached,    \* PARTITION_ACCESS in mmc_drv_obj.ext_csd_data
  csdType,   \* CARD_TYPE in ext_csd_data as emmc_high_speed finds it
  card,      \* the card fitted
  cState,    \* its state: "idle", "ready", "ident", "stby" or "tran"
  cWidth, cHs, cArea, \* its bus width, HS_TIMING and PARTITION_ACCESS
  cSwitchError, \* it refused a CMD6 and will say so in its next status
  store,     \* the sectors of its areas
  stale,     \* history: why ext_csd_data may differ from the card's EXT_CSD
  dropped,   \* history: a CMD25 of this command succeeded with an error
  overridden \* history: the fields the user has changed with EM_SECSD

command == <<op, call, chunk, polls>>
driver  == <<emmcInit, mount, selected, clock, freq, hostWidth, cached, csdType>>
device  == <<card, cState, cWidth, cHs, cArea, cSwitchError, store>>
history == <<stale, dropped, overridden>>
vars    == <<pc, command, outcome, driver, device, history>>

\* Power-on: the boot ROM may have left the card in any mode.
Init ==
  /\ pc = "idle" /\ op = NoOp /\ outcome = "none" /\ call = "group"
  /\ chunk = NoChunk /\ polls = 0
  /\ emmcInit = FALSE /\ mount = FALSE /\ selected = FALSE
  /\ clock = FALSE /\ freq = "off" /\ hostWidth = 1 /\ cached = 0 /\ csdType = "none"
  /\ card \in Cards /\ cState \in {"idle", "tran"}
  /\ cWidth \in {1, 8} /\ cHs \in BOOLEAN /\ cArea \in Areas /\ cSwitchError = FALSE
  /\ store = Untouched
  /\ stale = {"switch"} /\ dropped = FALSE /\ overridden = {}

-----------------------------------------------------------------------------
(* Faulty variants of definitions below, each of which breaks a property.  *)

EmmcInit_KeepsOption ==
  /\ pc = "init" /\ pc' = "enter"
  /\ mount' = FALSE /\ selected' = FALSE /\ clock' = FALSE /\ freq' = "off"
  /\ cached' = 0 /\ csdType' = "none" /\ stale' = {"switch"}
  /\ UNCHANGED <<command, outcome, emmcInit, hostWidth, device, dropped, overridden>>
AreaSelected_AnyBoot == (cached = 0) <=> (op.area = 0)
Trans_WholeChunk == ChunkMax
NextChunk_SameBuffer(n) ==
  [buf |-> chunk.buf, sector |-> chunk.sector + n, left |-> chunk.left - n]
NextChunk_SameRemain(n) ==
  [buf |-> chunk.buf, sector |-> chunk.sector, left |-> chunk.left]
EraseEnd_Short(a) == Size[a] - 2

-----------------------------------------------------------------------------
(* The steps, named after the commands.                                    *)

Identify    == {"cmd0", "cmd1", "cmd2", "cmd3"}
ReadExtCsd  == {"cmd8i", "cmd8bw", "cmd8", "reread"}
DataSteps   == ReadExtCsd \cup {"cmd25"}
StatusSteps == {"cmd13hs", "cmd13bw", "cmd13", "cmd13w", "cmd13e"}
ClockSteps  == {"clockId", "clockIdle", "clockCsd", "clockHs"}
MountSteps  ==
  ClockSteps \cup Identify
    \cup {"cmd9", "cmd7", "cmd16i", "cmd8i", "cmd6hs", "cmd13hs", "cmd6bw", "cmd13bw", "cmd8bw"}
CommandSteps ==
  (MountSteps \ ClockSteps) \cup DataSteps \cup StatusSteps
    \cup {"cmd6", "cmd16", "cmd23", "cmd35", "cmd36", "cmd38"}

\* Where the functions go on after a step that went well.
After ==
  [clockId |-> "cmd0", cmd0 |-> "clockIdle", clockIdle |-> "cmd1", cmd1 |-> "cmd2",
   cmd2 |-> "cmd3", cmd3 |-> "cmd9", cmd9 |-> "cmd7", cmd7 |-> "clockCsd",
   clockCsd |-> "cmd16i", cmd16i |-> "cmd8i", cmd6hs |-> "clockHs", clockHs |-> "cmd13hs",
   cmd13hs |-> "cmd6bw", cmd6bw |-> "cmd13bw", cmd13bw |-> "cmd8bw",
   cmd6 |-> "cmd13", cmd13 |-> "cmd8",
   cmd16 |-> "cmd23", cmd23 |-> "cmd25", cmd25 |-> "cmd13w",
   cmd35 |-> "cmd36", cmd36 |-> "cmd38", cmd38 |-> "cmd13e", cmd13e |-> "done"]

\* The driver is initialised: the command's own work begins.
Serve(k) ==
  CASE k \in {"EM_W", "EM_E"} -> "prompt"
    [] k = "EM_SECSD" -> "cmd6"
    [] k = "EM_DECSD" -> "reread"
    [] OTHER -> "done"

\* emmc_high_speed: the clock for the card's type.
HighSpeedClock(type) ==
  CASE type = "52" -> Mhz52 [] type = "26" -> Mhz26 [] OTHER -> Mhz20

\* EMMC_RW_SECTOR_COUNT_MAX at most in one CMD25.
Trans == IF chunk.left < ChunkMax THEN chunk.left ELSE ChunkMax
NextChunk(n) ==
  [buf |-> chunk.buf + n, sector |-> chunk.sector + n, left |-> chunk.left - n]

\* Faulty variants of Route: no CMD3, and no CMD8 after a switch.
Route_SkipsCmd3(l, type) == IF l = "cmd2" THEN "cmd9" ELSE After[l]
Route_NoReread(l, type) ==
  CASE l = "cmd8i"  -> "cmd6hs"
    [] l = "cmd8bw" -> Serve(op.kind)
    [] l = "cmd13"  -> IF call = "select" THEN "begin" ELSE "done"
    [] l \in {"reread", "cmd13w"} -> "done"
    [] OTHER        -> After[l]

\* The same with the steps that depend on more than the last one: CMD6 for
\* high speed, the callers of emmc_set_ext_csd, and the loop over chunks.
Route(l, type) ==
  CASE l = "cmd8i"  -> IF HighSpeedClock(type) \in {Mhz52, Mhz26} THEN "cmd6hs" ELSE "clockHs"
    [] l = "cmd8bw" -> Serve(op.kind)
    [] l = "cmd8"   -> IF call = "select" THEN "begin" ELSE "reread"
    [] l = "reread" -> IF op.kind = "EM_SECSD" /\ call = "group" THEN "prompt" ELSE "done"
    [] l = "cmd13w" -> IF chunk.left > Trans THEN "cmd16" ELSE "done"
    [] OTHER        -> After[l]

\* Go on at l; "done" is the end of the monitor's command.
GoTo(l) ==
  /\ pc' = (IF l = "done" THEN "idle" ELSE l)
  /\ outcome' = (IF l = "done" THEN "complete" ELSE outcome)

\* A step fails: emmc_mount stops the clock first, everything else just returns.
Abandon ==
  /\ IF pc \in MountSteps
     THEN pc' = "stop" /\ UNCHANGED outcome
     ELSE pc' = "idle" /\ outcome' = "error"

-----------------------------------------------------------------------------
(* The steps of the driver that send no command.                           *)

\* A command is typed; dg_emmc_check_init looks at emmcInit.
Start(k) ==
  LET first == IF emmcInit THEN Serve(k) ELSE "init" IN
  /\ pc = "idle"
  /\ op' = [NoOp EXCEPT !.kind = k] /\ call' = "group"
  /\ store' = Untouched /\ chunk' = NoChunk /\ polls' = 0
  /\ dropped' = FALSE
  /\ pc' = (IF first = "done" THEN "idle" ELSE first)
  /\ outcome' = (IF first = "done" THEN "complete" ELSE "none")
  /\ UNCHANGED <<driver, card, cState, cWidth, cHs, cArea, cSwitchError,
                 stale, overridden>>

\* The prompts are answered, or left with an empty line.
Answer(o) ==
  /\ pc = "prompt"
  /\ op' = o
  /\ \/ pc' = (IF o.kind = "EM_SECSD" THEN "cmd6" ELSE "select") /\ UNCHANGED outcome
     \/ pc' = "idle" /\ outcome' = "cancelled"
  /\ call' = (IF o.kind = "EM_SECSD" THEN "user" ELSE call)
  /\ UNCHANGED <<chunk, polls, driver, device, history>>

\* emmc_init and emmc_memcard_power(TRUE): mmc_drv_obj is zeroed and SD_OPTION
\* and SD_CLK_CTRL are set; neither fails.
EmmcInit ==
  /\ pc = "init" /\ pc' = "enter"
  /\ mount' = FALSE /\ selected' = FALSE /\ clock' = FALSE /\ freq' = "off"
  /\ cached' = 0 /\ csdType' = "none" /\ hostWidth' = 1 /\ stale' = {"switch"}
  /\ UNCHANGED <<command, outcome, emmcInit, device, dropped, overridden>>

\* emmc_mount refuses while CBSY is high; emmc_card_init forgets the clock.
EnterMount ==
  /\ pc = "enter"
  /\ \/ Abandon /\ UNCHANGED freq
     \/ freq' = "off" /\ GoTo("clockId")
  /\ UNCHANGED <<command, emmcInit, mount, selected, clock, hostWidth, cached, csdType,
                 device, stale, dropped, overridden>>

\* emmc_set_request_mmc_clock, refused while CBSY is high; before it at clockCsd,
\* emmc_calc_tran_speed may find the CSD illegal.
ClockAt(l) ==
  CASE l \in {"clockId", "clockIdle"} -> Mhz0_4
    [] l = "clockCsd" -> card.tran
    [] l = "clockHs"  -> HighSpeedClock(csdType)
SetClock ==
  /\ pc \in ClockSteps
  /\ \/ (~clock \/ freq # ClockAt(pc) \/ pc = "clockCsd") /\ Abandon /\ UNCHANGED <<clock, freq>>
     \/ clock' = TRUE /\ freq' = ClockAt(pc) /\ GoTo(After[pc])
  /\ polls' = (IF pc = "clockIdle" THEN OcrPolls ELSE polls)
  /\ UNCHANGED <<op, call, chunk, emmcInit, mount, selected, hostWidth, cached, csdType,
                 device, stale, dropped, overridden>>

\* emmc_mount gave up: the clock stops, unless CBSY is high.
InitReturns(ok) == emmcInit' = (emmcInit \/ ok)
StopClock ==
  /\ pc = "stop" /\ pc' = "idle" /\ outcome' = "error"
  /\ clock' \in {FALSE, clock}
  /\ InitReturns(FALSE)
  /\ UNCHANGED <<command, mount, selected, freq, hostWidth, cached, csdType, device, history>>

\* emmc_select_partition: no CMD6 when ext_csd_data says the area is selected.
AreaSelected == cached = op.area
Select ==
  /\ pc = "select"
  /\ call' = "select"
  /\ \/ ~mount /\ Abandon
     \/ mount /\ GoTo(IF AreaSelected THEN "begin" ELSE "cmd6")
  /\ UNCHANGED <<op, chunk, polls, driver, device, stale, dropped, overridden>>

\* emmc_write_sector and emmc_erase_sector up to their first command.
Begin ==
  /\ pc = "begin"
  /\ chunk' = [buf |-> 0, sector |-> op.start, left |-> op.count]
  /\ \/ (~mount \/ (op.kind = "EM_W" /\ op.count = 0)) /\ Abandon
     \/ /\ mount
        /\ \/ op.kind = "EM_W" /\ op.count > 0 /\ GoTo("cmd16")
           \/ op.kind = "EM_E" /\ GoTo("cmd35")
  /\ UNCHANGED <<op, call, polls, driver, device, stale, dropped, overridden>>

-----------------------------------------------------------------------------
(* The card (external): which commands it takes, and what they do to it.   *)

StateFor(l) ==
  CASE l = "cmd0" -> {"idle", "ready", "ident", "stby", "tran"}
    [] l = "cmd1" -> {"idle"}
    [] l = "cmd2" -> {"ready"}
    [] l = "cmd3" -> {"ident"}
    [] l \in {"cmd9", "cmd7"} -> {"stby"}
    [] OTHER -> {"tran"}

\* emmc_erase_sector is called with the last sector of the area.
EraseEnd(a) == Size[a] - 1

\* A data command needs both ends of the bus at the same width, a write sectors
\* that exist, an erase an area that exists, a status no refused CMD6.
Accepts(l) ==
  /\ cState \in StateFor(l)
  /\ l \in DataSteps => hostWidth = cWidth
  /\ l = "cmd25" => chunk.sector + Trans <= Size[cArea]
  /\ l = "cmd36" => EraseEnd(op.area) \in 0..(Size[cArea] - 1)
  /\ l \in StatusSteps => ~cSwitchError

\* The sectors after the first m of a chunk have been written, or an erase.
StoreAfter(l, m) ==
  IF l = "cmd25"
  THEN [store EXCEPT ![cArea] = [s \in Sectors |->
          IF s \in chunk.sector..(chunk.sector + m - 1)
          THEN chunk.buf + (s - chunk.sector) ELSE store[cArea][s]]]
  ELSE IF l = "cmd38"
  THEN [store EXCEPT ![cArea] = [s \in Sectors |->
          IF s \in 0..EraseEnd(op.area) THEN Erased ELSE store[cArea][s]]]
  ELSE store

\* The CMD6 of EM_SECSD changes this field of the card's EXT_CSD.
UserSets(l, field) == l = "cmd6" /\ call = "user" /\ op.field = field

\* CMD0 resets the card's modes, CMD6 switches them.
Executes(l, m) ==
  /\ cState' = (CASE l = "cmd0" -> "idle"  [] l = "cmd1" -> "ready" [] l = "cmd2" -> "ident"
                 [] l = "cmd3" -> "stby"  [] l = "cmd7" -> "tran"  [] OTHER -> cState)
  /\ cWidth' = (CASE l = "cmd0" \/ UserSets(l, "BUS_WIDTH") -> 1
                 [] l = "cmd6bw" -> 8 [] OTHER -> cWidth)
  /\ cHs' = (CASE l = "cmd0" \/ UserSets(l, "HS_TIMING") -> FALSE
              [] l = "cmd6hs" /\ card.type # "none" -> TRUE [] OTHER -> cHs)
  /\ cArea' = (CASE l = "cmd0" -> 0
                [] (l = "cmd6" /\ call = "select") \/ UserSets(l, "PARTITION_CONFIG") -> op.area
                [] OTHER -> cArea)
  /\ cSwitchError' = (CASE l = "cmd0" -> FALSE [] l = "cmd6hs" /\ card.type = "none" -> TRUE
                       [] OTHER -> cSwitchError)
  /\ store' = StoreAfter(l, m)
  /\ overridden' = overridden \cup {f \in {"BUS_WIDTH", "HS_TIMING"}: UserSets(l, f)}

-----------------------------------------------------------------------------
(* The steps that call emmc_exec_cmd.                                      *)

\* emmc_high_speed and emmc_bus_width check mmc_drv_obj.selected, and
\* emmc_exec_cmd the clock, before anything is sent.
CanSend(l) == clock /\ (l \in {"cmd6hs", "cmd6bw"} => selected)

\* emmc_send_idle_cmd drops mount and selected before its CMD0.
Keeps(flag, l) == flag /\ l # "cmd0"

\* A command succeeds.  Of a data command whose error met no ear (not clean), an
\* unknown part of the data was written, and any EXT_CSD may have been read.
Succeeds ==
  /\ pc \in CommandSteps /\ CanSend(pc) /\ Accepts(pc)
  /\ \E clean \in {TRUE, pc \notin DataSteps}, m \in 0..Trans, a \in Areas, t \in Types:
       /\ clean => m = Trans /\ a = cArea /\ t = card.type
       /\ Executes(pc, m)
       /\ IF pc \in ReadExtCsd
          THEN cached' = a /\ stale' = (IF clean THEN {} ELSE {"misread"})
          ELSE UNCHANGED <<cached, stale>>
       /\ csdType' = (IF pc = "cmd8i" THEN t ELSE csdType)
       /\ dropped' = (dropped \/ (pc = "cmd25" /\ ~clean))
       /\ GoTo(Route(pc, csdType'))
  /\ selected' = (pc = "cmd7" \/ Keeps(selected, pc))
  /\ mount' = (pc = "cmd8bw" \/ Keeps(mount, pc))
  /\ hostWidth' = (IF pc = "cmd6bw" THEN 8 ELSE hostWidth)
  /\ IF pc = "cmd8bw" THEN InitReturns(TRUE) ELSE UNCHANGED emmcInit
  /\ chunk' = (IF pc = "cmd13w" THEN NextChunk(Trans) ELSE chunk)
  /\ UNCHANGED <<op, call, polls, clock, freq, card>>

\* CMD1 is answered, but the card is still powering up.
StillBusy ==
  /\ pc = "cmd1" /\ CanSend(pc) /\ Accepts(pc)
  /\ polls' = polls - 1
  /\ \/ polls = 1 /\ Abandon
     \/ polls > 1 /\ UNCHANGED <<pc, outcome>>
  /\ UNCHANGED <<op, call, chunk, driver, device, stale, dropped, overridden>>

\* A command fails, or its response fails a check: the card may have executed
\* it, a write in part, and CMD8 may have filled ext_csd_data: rightly, as the
\* data of a read that fails has been read without error or not at all.
Fails ==
  /\ pc \in CommandSteps
  /\ Abandon
  /\ \/ /\ CanSend(pc) /\ Accepts(pc) /\ \E m \in 0..Trans: Executes(pc, m)
     \/ /\ cSwitchError' = (cSwitchError /\ ~(CanSend(pc) /\ pc \in StatusSteps))
        /\ UNCHANGED <<cState, cWidth, cHs, cArea, store, overridden>>
  /\ mount' = Keeps(mount, pc) /\ selected' = Keeps(selected, pc)
  /\ cached' \in (IF pc \in ReadExtCsd THEN {cached, cArea} ELSE {cached})
  /\ stale' = stale \cup {r \in {"switch"}: pc \in {"cmd6", "cmd13", "cmd8"}}
  /\ UNCHANGED <<command, emmcInit, clock, freq, hostWidth, csdType, card, dropped>>

-----------------------------------------------------------------------------
Step ==
  \/ EmmcInit \/ EnterMount \/ SetClock \/ StopClock \/ Select \/ Begin
  \/ Succeeds \/ StillBusy \/ Fails

User == \E k \in Kinds: Start(k) \/ (k = op.kind /\ \E o \in Answers(k): Answer(o))

Next == Step \/ User

Spec == Init /\ [][Next]_vars

\* emmc_exec_cmd returns (EmmcCmd!CallReturns), so the program takes its steps.
FairSpec == Spec /\ WF_vars(Step)

-----------------------------------------------------------------------------
(* Properties.                                                             *)

\* Whatever happened before, also when emmc_mount is retried on a half-mounted
\* card, the driver sends a command only in the card state that accepts it, and
\* moves data only when host and card use the same bus width (SD_OPTION against
\* EXT_CSD[183]), unless the user has changed the card's.
StepsFitCard ==
  /\ pc \in CommandSteps => cState \in StateFor(pc)
  /\ pc \in DataSteps => hostWidth = cWidth \/ "BUS_WIDTH" \in overridden

\* Between switches the partition emmc_select_partition finds in ext_csd_data is
\* the card's, as long as no switch or CMD8 has failed since the last good CMD8.
CacheCoherent ==
  emmcInit /\ stale = {} /\ pc \notin {"cmd13", "cmd8"} => cached = cArea

\* No command changes a sector outside the area and the range asked for, unless
\* ext_csd_data has gone stale.
OnlyTargetTouched ==
  \A a \in Areas, s \in Sectors:
    store[a][s] # Old /\ stale = {} =>
      /\ a = op.area /\ s < Size[a]
      /\ op.kind = "EM_E" \/ (op.kind = "EM_W" /\ s \in op.start..(op.start + op.count - 1))

\* EM_W completes: the sectors asked for hold the image in order, across chunks.
\* EM_E completes: every sector of the area is erased.
CompleteMeansDone ==
  outcome = "complete" /\ stale = {} =>
    /\ op.kind = "EM_W" /\ ~dropped =>
         op.count > 0 /\ \A i \in 0..(op.count - 1): store[op.area][op.start + i] = i
    /\ op.kind = "EM_E" => \A s \in 0..(Size[op.area] - 1): store[op.area][s] = Erased

\* Every command comes back to the user: the CMD1 loop and the loop over the
\* chunks end.
CommandEnds == (pc \notin {"idle", "prompt"}) ~> (pc \in {"idle", "prompt"})

\* The post-condition of emmc_select_partition, "selected partition can access"
\* (emmc_mount.c:504): after it the card is in the area asked for, even with
\* every EXT_CSD read without error.
SelectedPartitionCanAccess == pc = "begin" /\ "misread" \notin stale => cArea = op.area
=============================================================================
