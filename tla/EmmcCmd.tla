------------------------------ MODULE EmmcCmd ------------------------------
(***************************************************************************)
(* The eMMC command engine: emmc_exec_cmd (emmc_cmd.c), the polled handler *)
(* emmc_interrupt (emmc_interrupt.c) it calls once per turn of its loop,   *)
(* and emmc_softreset.  The program runs with interrupts off: the loop     *)
(* samples the status registers, the handler acts on the sample, and one   *)
(* case of the switch runs if the handler has unblocked the machine.  The  *)
(* SD/MMC host controller is the other actor: it may raise a status bit    *)
(* between any two of these three steps.                                   *)
(*                                                                         *)
(* A register is the set of its bits that are 1.  SD_INFO2's error bits    *)
(* (SD_INFO2_ALL_ERR) are the one member "ERR"; CBSY and DAT0 are levels   *)
(* that follow the controller's phase and are never latched.               *)
(***************************************************************************)
EXTENDS Integers, FiniteSets

CONSTANTS
  Commands,   \* the commands callers issue: records [resp, data, dir, dma]
  ResetPolls, \* polls of CBSY before emmc_softreset gives up (10000 * 1000)
  LateDma     \* TRUE: a transfer the DMA unit was running at a soft reset may
              \* still end, and raise its flag, afterwards

Responses == {"none", "R1", "R1b", "other"}
Channels  == {"CH0", "CH1"}

\* The data commands of the program (CMD8, CMD25) answer with R1.
ASSUME CommandsAssumption ==
  /\ Commands \subseteq [resp: Responses, data: BOOLEAN, dir: {"read", "write"}, dma: BOOLEAN]
  /\ \A c \in Commands: (c.data => c.resp = "R1") /\ (c.dma => c.data)
ASSUME BoundAssumption == ResetPolls \in Nat
ASSUME LateDmaAssumption == LateDma \in BOOLEAN

\* ESTATE_...: the states of the driver's machine.
States == {"BEGIN", "NON_RESP_CMD", "RCV_RESP", "RCV_RESPONSE_BUSY",
           "CHECK_RESPONSE_COMPLETE", "DATA_TRANSFER", "DATA_TRANSFER_COMPLETE",
           "ACCESS_END", "TRANSFER_ERROR", "ERROR", "END"}

Codes == {"none", "SUCCESS", "ERR", "ERR_STATE", "ERR_CARD_BUSY", "ERR_INFO2",
          "ERR_RESPONSE", "ERR_CARD_STATUS_BIT", "ERR_FROM_DMAC_TRANSFER",
          "ERR_FORCE_TERMINATE"}

\* The controller: no command, waiting for a response, card busy (DAT0 low),
\* data phase, buffer ready, data moved, and busy after an error.
Phases == {"idle", "cmd", "busy", "data", "ready", "drain", "hung"}

VARIABLES
  pc,        \* "idle", then the loop: "sample", "handle", "switch"; "reset"
  state,     \* the local variable state of emmc_exec_cmd
  cmd,       \* mmc_drv_obj.cmd_info and transfer_mode
  rtn,       \* the local variable rtn_code
  result,    \* what the last call returned
  polls,     \* polls left in emmc_softreset
  blocking,  \* mmc_drv_obj.state_machine_blocking
  force,     \* mmc_drv_obj.force_terminate
  duringCmd, \* mmc_drv_obj.during_cmd_processing
  duringXfer,\* mmc_drv_obj.during_transfer
  duringDma, \* mmc_drv_obj.during_dma_transfer
  dmaError,  \* mmc_drv_obj.dma_error_flag
  remain,    \* mmc_drv_obj.remain_size # 0
  sample,    \* int_event1/2, dm_event1/2 and the levels in error_info.info2
  info1, info2, mask1, mask2, \* SD_INFO1, SD_INFO2 and their masks
  dm1, dm2, dmask,            \* DM_CM_INFO1, DM_CM_INFO2 and their common mask
  extMode,   \* CC_EXT_MODE: SD_BUF is driven by the DMA unit
  phase,     \* the controller
  dmaRun,    \* the channel the DMA unit is moving data on, or "off"
  responded, \* history: the card answered this command
  moved,     \* history: the data of this command went through SD_BUF
  failed,    \* history: the controller raised an error during this command
  errSeen    \* history: the driver states whose poll consumed an error

control == <<pc, state, cmd, rtn, result, polls>>
flags   == <<blocking, force, duringCmd, duringXfer, duringDma, dmaError, remain>>
regs    == <<info1, info2, mask1, mask2, dm1, dm2, dmask, extMode>>
device  == <<phase, dmaRun>>
history == <<responded, moved, failed, errSeen>>
vars    == <<control, flags, sample, regs, device, history>>

NoSample == [ev1 |-> {}, ev2 |-> {}, dm1 |-> {}, dm2 |-> {}, cbsy |-> FALSE, dat0 |-> TRUE]
NoCommand == [resp |-> "none", data |-> FALSE, dir |-> "read", dma |-> FALSE]

Init ==
  /\ pc = "idle" /\ state = "END" /\ cmd = NoCommand
  /\ rtn = "SUCCESS" /\ result = "none" /\ polls = 0
  /\ blocking = FALSE /\ force = FALSE /\ duringCmd = FALSE
  /\ duringXfer = FALSE /\ duringDma = FALSE /\ dmaError = FALSE /\ remain = FALSE
  /\ sample = NoSample
  /\ info1 = {} /\ info2 = {} /\ mask1 = {} /\ mask2 = {}
  /\ dm1 = {} /\ dm2 = {} /\ dmask = {} /\ extMode = FALSE
  /\ phase = "idle" /\ dmaRun = "off"
  /\ responded = FALSE /\ moved = FALSE /\ failed = FALSE /\ errSeen = {}

-----------------------------------------------------------------------------
(* Faulty variants of definitions below, each of which breaks a property.  *)

StillPolling_LastPollTwice == polls >= 0
MasksOff_ForgetsInfo1 == UNCHANGED mask1 /\ mask2' = {}
CanMove_TestsDmaFlag == duringDma /\ remain
Acknowledge_ClearsAll(bit) == info1' = {}
DmaFailed_OtherChannel(ch) == (Channels \ {ch}) \cap sample.dm2 # {}
CardBusy_TestsDat0 == ~sample.dat0
ResponseGood_IgnoresErrors == "INFO0" \in sample.ev1

-----------------------------------------------------------------------------
(* Entering and leaving emmc_exec_cmd.                                     *)

\* emmc_make_nontrans_cmd, emmc_make_trans_cmd.
Prepare(c) == cmd' = c /\ remain' = c.data

\* emmc_send_idle_cmd, the one sender of a command without response, also
\* clears the flags.
SendsIdle(c) == c.resp = "none"

\* emmc_multiple_block_write puts SD_BUF in DMA mode before its CMD25.
EnablesDma(c) == c.data /\ c.dir = "write"

\* A caller prepares a command and calls emmc_exec_cmd, which starts unless the
\* clock is off or the machine is left blocked.
Call(c, clockEnable) ==
  LET reset == SendsIdle(c)
      stuck == blocking /\ ~reset
  IN
  /\ pc = "idle"
  /\ Prepare(c)
  /\ blocking'   = (blocking /\ ~reset)
  /\ force'      = (force /\ ~reset)
  /\ duringCmd'  = (duringCmd /\ ~reset)
  /\ duringXfer' = (duringXfer /\ ~reset)
  /\ duringDma'  = (duringDma /\ ~reset)
  /\ dmaError'   = (dmaError /\ ~reset)
  /\ extMode'    = (extMode \/ EnablesDma(c))
  /\ state' = "BEGIN" /\ rtn' = "SUCCESS"
  /\ pc'     = IF clockEnable /\ ~stuck THEN "sample" ELSE "idle"
  /\ result' = CASE ~clockEnable -> "ERR_STATE" [] clockEnable /\ stuck -> "ERR" [] OTHER -> "none"
  /\ responded' = FALSE /\ moved' = FALSE /\ failed' = FALSE /\ errSeen' = {}
  /\ UNCHANGED <<polls, sample, info1, info2, mask1, mask2, dm1, dm2, dmask, device>>

\* "All interrupt disable": nothing in SD_INFO1 or SD_INFO2 is an event.
MasksOff == mask1' = {} /\ mask2' = {}

\* The switch goes round the loop again in state s; an error state has its code.
Goto(s) == pc' = "sample" /\ state' = s
GiveUp(s, code) ==
  /\ Goto(s) /\ rtn' = code
  /\ UNCHANGED <<cmd, result, polls, flags, sample, device, history>>

\* emmc_softreset up to its CBSY loop; code is what emmc_exec_cmd will return.
EnterReset(code) ==
  /\ pc' = "reset" /\ rtn' = code /\ polls' = ResetPolls
  /\ blocking' = FALSE /\ force' = FALSE /\ duringCmd' = FALSE
  /\ duringXfer' = FALSE /\ duringDma' = FALSE /\ dmaError' = FALSE
  /\ UNCHANGED <<state, cmd, result, remain, sample, device, history>>

\* The loop ends: force_terminate, or ESTATE_END.
LeaveLoop ==
  /\ pc = "sample" /\ (force \/ state = "END")
  /\ IF force
     THEN EnterReset("ERR_FORCE_TERMINATE")
     ELSE /\ pc' = "idle" /\ result' = "SUCCESS"
          /\ duringCmd' = FALSE /\ duringXfer' = FALSE
          /\ UNCHANGED <<state, cmd, rtn, polls, blocking, force, duringDma, dmaError,
                         remain, sample, device, history>>
  /\ UNCHANGED regs

\* One poll of CBSY in emmc_softreset.
StillPolling == polls > 0
ResetWait ==
  /\ pc = "reset" /\ phase # "idle" /\ StillPolling
  /\ polls' = polls - 1
  /\ UNCHANGED <<pc, state, cmd, rtn, result, flags, sample, regs, device, history>>

\* SOFT_RST, then the status bits and masks are cleared and the call returns.
\* The DM_CM_INFO registers are not written.
ResetDone ==
  /\ pc = "reset" /\ (phase = "idle" \/ ~StillPolling)
  /\ pc' = "idle" /\ result' = rtn
  /\ info1' = {} /\ info2' = {} /\ MasksOff
  /\ phase' = "idle" /\ dmaRun' = (IF LateDma THEN dmaRun ELSE "off")
  /\ UNCHANGED <<state, cmd, rtn, polls, flags, sample, dm1, dm2, dmask, extMode, history>>

-----------------------------------------------------------------------------
(* emmc_interrupt: sample the registers, then act on the first cause.      *)

Sample ==
  /\ pc = "sample" /\ ~force /\ state # "END"
  /\ pc' = "handle"
  /\ sample' = [ev1 |-> info1 \cap mask1, ev2 |-> info2 \cap mask2,
                dm1 |-> dm1 \cap dmask,   dm2 |-> dm2 \cap dmask,
                cbsy |-> phase # "idle",  dat0 |-> phase # "busy"]
  /\ UNCHANGED <<state, cmd, rtn, result, polls, flags, regs, device, history>>

\* The cause the handler acts on: errors first, then the buffer, the DMA unit
\* and the response; one cause per poll.
Cause ==
  IF "ERR" \in sample.ev2 THEN "error"
  ELSE IF sample.ev2 \cap {"BWE", "BRE"} # {} THEN "buffer"
  ELSE IF sample.dm1 # {} THEN "dma"
  ELSE IF "INFO0" \in sample.ev1 THEN "response"
  ELSE IF "INFO2" \in sample.ev1 THEN "access end"
  ELSE "nothing"

\* After a handled cause the machine is unblocked and the switch runs.
Unblock == blocking' = FALSE /\ pc' = "switch"

HandleError ==
  /\ pc = "handle" /\ Cause = "error"
  /\ Unblock
  /\ info1' = {} /\ info2' = {} /\ MasksOff
  /\ errSeen' = errSeen \cup {state}
  /\ UNCHANGED <<state, cmd, rtn, result, polls, force, duringCmd, duringXfer, duringDma,
                 dmaError, remain, sample, dm1, dm2, dmask, extMode, device,
                 responded, moved, failed>>

\* SD_BUF wants data or has data: emmc_trans_sector moves all of remain_size,
\* or refuses when no transfer is under way, which forces termination.
CanMove == duringXfer /\ remain
HandleBuffer ==
  LET able == CanMove IN
  /\ pc = "handle" /\ Cause = "buffer"
  /\ Unblock
  /\ remain' = (remain /\ ~able)
  /\ duringXfer' = (duringXfer /\ ~able)
  /\ force' = (force \/ ~able)
  /\ info1' = IF able THEN info1 ELSE {}
  /\ info2' = IF ~able THEN {} ELSE info2 \ {IF "BWE" \in sample.ev2 THEN "BWE" ELSE "BRE"}
  /\ mask1' = IF able THEN mask1 ELSE {}
  /\ mask2' = IF able THEN mask2 ELSE {}
  /\ phase' = IF able /\ phase = "ready" THEN "drain" ELSE phase
  /\ moved' = (moved \/ (able /\ ~failed))
  /\ UNCHANGED <<state, cmd, rtn, result, polls, duringCmd, duringDma, dmaError, sample,
                 dm1, dm2, dmask, extMode, dmaRun, responded, failed, errSeen>>

\* A DMA channel has ended, well or with an error; channel 0 comes first.
DmaFailed(ch) == ch \in sample.dm2
HandleDma ==
  LET ch  == IF "CH0" \in sample.dm1 THEN "CH0" ELSE "CH1"
      err == DmaFailed(ch)
  IN
  /\ pc = "handle" /\ Cause = "dma"
  /\ Unblock
  /\ dm1' = {} /\ dm2' = {}
  /\ info2' = info2 \ {IF ch = "CH0" THEN "BWE" ELSE "BRE"}
  /\ dmaError' = (dmaError \/ err)
  /\ duringDma' = (duringDma /\ err)
  /\ duringXfer' = (duringXfer /\ err)
  /\ UNCHANGED <<state, cmd, rtn, result, polls, force, duringCmd, remain, sample,
                 info1, mask1, mask2, dmask, extMode, device, history>>

\* Response end or access end: the bit is cleared and the machine unblocked.
Acknowledge(bit) == info1' = info1 \ {bit}
HandleInfo1 ==
  /\ pc = "handle" /\ Cause \in {"response", "access end"}
  /\ Unblock
  /\ Acknowledge(IF Cause = "response" THEN "INFO0" ELSE "INFO2")
  /\ UNCHANGED <<state, cmd, rtn, result, polls, force, duringCmd, duringXfer, duringDma,
                 dmaError, remain, sample, info2, mask1, mask2, dm1, dm2, dmask, extMode,
                 device, history>>

HandleNothing ==
  /\ pc = "handle" /\ Cause = "nothing"
  /\ pc' = IF blocking THEN "sample" ELSE "switch"
  /\ UNCHANGED <<state, cmd, rtn, result, polls, flags, sample, regs, device, history>>

-----------------------------------------------------------------------------
(* The switch of emmc_exec_cmd: one action per case.                       *)

\* ESTATE_BEGIN falls through to ESTATE_ISSUE_CMD, unless the sample says busy.
CardBusy == sample.cbsy
SwitchBegin ==
  /\ pc = "switch" /\ state = "BEGIN"
  /\ \/ /\ CardBusy
        /\ pc' = "idle" /\ result' = "ERR_CARD_BUSY"
        /\ UNCHANGED <<state, flags, regs, device>>
     \/ /\ ~CardBusy
        /\ info1' = {} /\ info2' = {} /\ mask1' = {"INFO0"} /\ mask2' = {"ERR"}
        /\ duringCmd' = TRUE /\ blocking' = TRUE
        /\ phase' = "cmd"
        /\ Goto(IF cmd.resp = "none" THEN "NON_RESP_CMD" ELSE "RCV_RESP")
        /\ UNCHANGED <<result, force, duringXfer, duringDma, dmaError, remain, dm1, dm2,
                       dmask, extMode, dmaRun>>
  /\ UNCHANGED <<cmd, rtn, polls, sample, history>>

\* What the sample says of the response, when no error came with it.
ResponseError == IF "ERR" \in sample.ev2 THEN "ERR_INFO2" ELSE "ERR_RESPONSE"
ResponseGood  == "ERR" \notin sample.ev2 /\ "INFO0" \in sample.ev1

\* ESTATE_NON_RESP_CMD: the masks go off, then the command ends or fails.
SwitchNonResp ==
  /\ pc = "switch" /\ state = "NON_RESP_CMD"
  /\ MasksOff
  /\ \/ ~ResponseGood /\ GiveUp("ERROR", ResponseError)
     \/ /\ ResponseGood /\ Goto("END")
        /\ UNCHANGED <<cmd, rtn, result, polls, flags, sample, device, history>>
  /\ UNCHANGED <<info1, info2, dm1, dm2, dmask, extMode>>

\* ESTATE_RCV_RESP with emmc_response_check: the status in an R1 response may
\* hold an error bit.  R1b goes on to wait for the card.
SwitchRcvResp(statusError) ==
  /\ pc = "switch" /\ state = "RCV_RESP"
  /\ statusError => cmd.resp \in {"R1", "R1b"}
  /\ mask1' = {}
  /\ \/ ~ResponseGood /\ GiveUp("ERROR", ResponseError) /\ mask2' = {}
     \/ ResponseGood /\ statusError /\ GiveUp("ERROR", "ERR_CARD_STATUS_BIT") /\ mask2' = {}
     \/ /\ ResponseGood /\ ~statusError
        /\ \/ cmd.resp = "R1b" /\ mask2' = {"ERR"} /\ Goto("RCV_RESPONSE_BUSY")
           \/ cmd.resp # "R1b" /\ mask2' = {} /\ Goto("CHECK_RESPONSE_COMPLETE")
        /\ UNCHANGED <<cmd, rtn, result, polls, flags, sample, device, history>>
  /\ UNCHANGED <<info1, info2, dm1, dm2, dmask, extMode>>

\* ESTATE_RCV_RESPONSE_BUSY: polled, never blocked, until DAT0 is high.
SwitchBusy ==
  /\ pc = "switch" /\ state = "RCV_RESPONSE_BUSY"
  /\ \/ "ERR" \in sample.ev2 /\ GiveUp("ERROR", "ERR_INFO2")
     \/ /\ "ERR" \notin sample.ev2
        /\ Goto(IF sample.dat0 THEN "CHECK_RESPONSE_COMPLETE" ELSE "RCV_RESPONSE_BUSY")
        /\ UNCHANGED <<cmd, rtn, result, polls, flags, sample, device, history>>
  /\ UNCHANGED regs

SwitchCheck ==
  /\ pc = "switch" /\ state = "CHECK_RESPONSE_COMPLETE"
  /\ Goto(IF cmd.data THEN "DATA_TRANSFER" ELSE "END")
  /\ UNCHANGED <<cmd, rtn, result, polls, flags, sample, regs, device, history>>

\* ESTATE_DATA_TRANSFER: start the DMA unit, or enable the buffer event.
SwitchDataTransfer ==
  LET ch == IF cmd.dir = "write" THEN "CH0" ELSE "CH1" IN
  /\ pc = "switch" /\ state = "DATA_TRANSFER"
  /\ duringXfer' = TRUE /\ blocking' = TRUE
  /\ Goto("DATA_TRANSFER_COMPLETE")
  /\ \/ /\ cmd.dma
        /\ duringDma' = TRUE /\ dmaError' = FALSE
        /\ mask1' = {} /\ mask2' = {"ERR"} /\ dmask' = {ch} /\ dmaRun' = ch
     \/ /\ ~cmd.dma
        /\ mask2' = {"ERR", IF cmd.dir = "write" THEN "BWE" ELSE "BRE"}
        /\ UNCHANGED <<duringDma, dmaError, mask1, dmask, dmaRun>>
  /\ UNCHANGED <<cmd, rtn, result, polls, force, duringCmd, remain, sample, info1, info2,
                 dm1, dm2, extMode, phase, history>>

\* ESTATE_DATA_TRANSFER_COMPLETE: the transfer has ended, well or not.
TransferCode ==
  IF "ERR" \in sample.ev2 THEN "ERR_INFO2"
  ELSE IF dmaError THEN "ERR_FROM_DMAC_TRANSFER"
  ELSE IF duringDma THEN "ERR" ELSE "SUCCESS"
SwitchTransferComplete ==
  /\ pc = "switch" /\ state = "DATA_TRANSFER_COMPLETE"
  /\ \/ /\ TransferCode # "SUCCESS" /\ GiveUp("TRANSFER_ERROR", TransferCode)
        /\ UNCHANGED <<mask1, mask2>>
     \/ /\ TransferCode = "SUCCESS" /\ Goto("ACCESS_END")
        /\ mask1' = {"INFO2"} /\ mask2' = {"ERR"} /\ blocking' = TRUE
        /\ UNCHANGED <<cmd, rtn, result, polls, force, duringCmd, duringXfer, duringDma,
                       dmaError, remain, sample, device, history>>
  /\ UNCHANGED <<info1, info2, dm1, dm2, dmask, extMode>>

\* ESTATE_ACCESS_END: when the access end did not come, rtn_code is still
\* EMMC_SUCCESS.
SwitchAccessEnd ==
  /\ pc = "switch" /\ state = "ACCESS_END"
  /\ extMode' = (extMode /\ ~cmd.dma)
  /\ info1' = {} /\ info2' = {} /\ MasksOff
  /\ Goto(IF "INFO2" \in sample.ev1 THEN "END" ELSE "ERROR")
  /\ duringDma' = (duringDma /\ ~cmd.dma)
  /\ UNCHANGED <<cmd, rtn, result, polls, blocking, force, duringCmd, duringXfer,
                 dmaError, remain, sample, dm1, dm2, dmask, device, history>>

\* ESTATE_TRANSFER_ERROR takes SD_BUF back from the DMA unit and falls through to
\* ESTATE_ERROR.
SwitchError ==
  /\ pc = "switch" /\ state \in {"TRANSFER_ERROR", "ERROR"}
  /\ EnterReset(rtn)
  /\ extMode' = (extMode /\ ~(state = "TRANSFER_ERROR" /\ cmd.dma))
  /\ UNCHANGED <<info1, info2, mask1, mask2, dm1, dm2, dmask>>

-----------------------------------------------------------------------------
(* The host controller and the card.                                       *)

HwUnchanged == UNCHANGED <<control, flags, sample, mask1, mask2, dmask, extMode>>

\* The response arrives: response end, and the next phase of the command.
HwResponse ==
  /\ phase = "cmd"
  /\ info1' = info1 \cup {"INFO0"}
  /\ phase' \in (IF cmd.data THEN {"data"}
                 ELSE IF cmd.resp = "R1b" THEN {"busy", "idle"} ELSE {"idle"})
  /\ responded' = TRUE
  /\ HwUnchanged /\ UNCHANGED <<info2, dm1, dm2, dmaRun, moved, failed, errSeen>>

\* The card releases DAT0.
HwBusyEnd ==
  /\ phase = "busy" /\ phase' = "idle"
  /\ HwUnchanged /\ UNCHANGED <<info1, info2, dm1, dm2, dmaRun, history>>

\* SD_BUF can be written, or holds data to read.
HwBufferReady ==
  /\ phase = "data" /\ phase' = "ready"
  /\ info2' = info2 \cup {IF cmd.dir = "write" THEN "BWE" ELSE "BRE"}
  /\ HwUnchanged /\ UNCHANGED <<info1, dm1, dm2, dmaRun, history>>

\* The DMA unit ends, with or without an error of its own.  While the driver
\* waits for it (duringDma) this needs the buffer to be ready or the command to
\* be over; otherwise it is the late end of a transfer given up before.
HwDmaEnd(err) ==
  /\ dmaRun # "off" /\ (duringDma => phase \in {"ready", "idle", "hung"})
  /\ dmaRun' = "off"
  /\ dm1' = dm1 \cup {dmaRun}
  /\ dm2' = IF err THEN dm2 \cup {dmaRun} ELSE dm2
  /\ moved' = (moved \/ (duringDma /\ ~err /\ ~failed))
  /\ phase' = IF duringDma /\ ~err /\ phase = "ready" THEN "drain" ELSE phase
  /\ HwUnchanged /\ UNCHANGED <<info1, info2, responded, failed, errSeen>>

\* The access ends: after the data has moved, for a read perhaps before.
HwAccessEnd ==
  /\ phase = "drain" \/ (phase = "ready" /\ cmd.dir = "read")
  /\ phase' = "idle"
  /\ info1' = info1 \cup {"INFO2"}
  /\ HwUnchanged /\ UNCHANGED <<info2, dm1, dm2, dmaRun, history>>

\* An error (no response, CRC, data timeout) ends the command; the end bit of
\* the phase may come with it, and CBSY may stay for a while.
HwFail(withEnd) ==
  /\ phase \in {"cmd", "busy", "data", "ready", "drain"}
  /\ info2' = info2 \cup {"ERR"}
  /\ info1' = IF withEnd THEN info1 \cup {IF phase = "cmd" THEN "INFO0" ELSE "INFO2"} ELSE info1
  /\ phase' \in {"idle", "hung"}
  /\ failed' = TRUE
  /\ HwUnchanged /\ UNCHANGED <<dm1, dm2, dmaRun, responded, moved, errSeen>>

HwRelease ==
  /\ phase = "hung" /\ phase' = "idle"
  /\ HwUnchanged /\ UNCHANGED <<info1, info2, dm1, dm2, dmaRun, history>>

-----------------------------------------------------------------------------
Switch ==
  \/ SwitchBegin \/ SwitchNonResp
  \/ \E statusError \in BOOLEAN: SwitchRcvResp(statusError)
  \/ SwitchBusy \/ SwitchCheck \/ SwitchDataTransfer
  \/ SwitchTransferComplete \/ SwitchAccessEnd \/ SwitchError

Handle == HandleError \/ HandleBuffer \/ HandleDma \/ HandleInfo1 \/ HandleNothing

\* The processor inside emmc_exec_cmd.
Cpu == LeaveLoop \/ ResetWait \/ ResetDone \/ Sample \/ Handle \/ Switch

\* What the controller does in answer to the driver; HwRelease is not counted.
Hw ==
  \/ HwResponse \/ HwBusyEnd \/ HwBufferReady \/ HwAccessEnd
  \/ \E err \in BOOLEAN: HwDmaEnd(err)
  \/ \E withEnd \in BOOLEAN: HwFail(withEnd)

Caller == \E c \in Commands, clockEnable \in BOOLEAN: Call(c, clockEnable)

Next == Caller \/ Cpu \/ Hw \/ HwRelease

Spec == Init /\ [][Next]_vars

\* The processor does not stop, and the controller answers every command, if
\* only with an error of its own timeouts.
FairSpec == Spec /\ WF_vars(Cpu) /\ WF_vars(Hw)

-----------------------------------------------------------------------------
(* Properties.                                                             *)

Info1Bits == {"INFO0", "INFO2"}
Info2Bits == {"ERR", "BWE", "BRE"}

ControlOK ==
  /\ pc \in {"idle", "sample", "handle", "switch", "reset"}
  /\ state \in States /\ cmd \in Commands \cup {NoCommand}
  /\ rtn \in Codes /\ result \in Codes /\ polls \in 0..ResetPolls
FlagsOK ==
  /\ blocking \in BOOLEAN /\ force \in BOOLEAN /\ duringCmd \in BOOLEAN
  /\ duringXfer \in BOOLEAN /\ duringDma \in BOOLEAN /\ dmaError \in BOOLEAN
  /\ remain \in BOOLEAN /\ extMode \in BOOLEAN
RegsOK ==
  /\ sample \in [ev1: SUBSET Info1Bits, ev2: SUBSET Info2Bits, dm1: SUBSET Channels,
                 dm2: SUBSET Channels, cbsy: BOOLEAN, dat0: BOOLEAN]
  /\ info1 \in SUBSET Info1Bits /\ mask1 \in SUBSET Info1Bits
  /\ info2 \in SUBSET Info2Bits /\ mask2 \in SUBSET Info2Bits
  /\ dm1 \in SUBSET Channels /\ dm2 \in SUBSET Channels /\ dmask \in SUBSET Channels
DeviceOK ==
  /\ phase \in Phases /\ dmaRun \in Channels \cup {"off"}
  /\ responded \in BOOLEAN /\ moved \in BOOLEAN /\ failed \in BOOLEAN
  /\ errSeen \in SUBSET States

\* Types.
TypeOK == ControlOK /\ FlagsOK /\ RegsOK /\ DeviceOK

\* However a command ended, the driver's flags are down and no response, access
\* end or buffer event is enabled when the next one starts; in particular it is
\* not refused as blocked (emmc_cmd.c:96) nor terminated at once (:107).
IdleClean ==
  pc = "idle" => /\ ~blocking /\ ~force /\ ~duringCmd /\ ~duringXfer /\ ~duringDma
                 /\ mask1 = {} /\ mask2 \subseteq {"ERR"}

\* force_terminate is raised only by a buffer event without a transfer
\* (emmc_interrupt.c:251), and no interleaving with the controller gets there.
NeverForced == ~force

\* Blocked with the controller at rest, the event that unblocks the machine is
\* latched and enabled: no write that clears or masks a register
\* (emmc_interrupt.c:78-201, emmc_cmd.c:132-135, 171-172, 338-339) loses it.
NoLostWakeup ==
  pc = "sample" /\ blocking /\ phase \in {"idle", "hung"} /\ dmaRun = "off"
    => info1 \cap mask1 # {} \/ info2 \cap mask2 # {} \/ dm1 \cap dmask # {}

\* EMMC_SUCCESS is returned only for a command the card answered.
SuccessIsAnswered == pc = "idle" /\ result = "SUCCESS" => responded

\* EMMC_SUCCESS for a data command that met no error: all data went through
\* SD_BUF and, after DMA, SD_BUF is back under the processor's control.
SuccessMovedData ==
  pc = "idle" /\ result = "SUCCESS" /\ cmd.data /\ ~failed
    => moved /\ (cmd.dma => ~extMode)

\* An error the controller signals during a command is never missed, and turns
\* into an error code unless it is met while waiting for the access end.
ErrorIsReported ==
  pc = "idle" /\ result = "SUCCESS" /\ failed => errSeen = {"ACCESS_END"}

\* The post-condition of emmc_exec_cmd (emmc_cmd.c:61-62): EMMC_SUCCESS means the
\* command met no error at all.
SuccessMetNoError == pc = "idle" /\ result = "SUCCESS" => ~failed

\* SD_CMD is written only when the controller has finished the last command,
\* although the busy bit is read before the handler runs.
NoCommandWhileBusy == [][duringCmd' /\ ~duringCmd => phase = "idle"]_vars

\* Every call returns: the loop has no timeout of its own.
CallReturns == (pc # "idle") ~> (pc = "idle")
=============================================================================
