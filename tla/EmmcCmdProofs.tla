---------------------------- MODULE EmmcCmdProofs ----------------------------
(***************************************************************************)
(* Proofs about the command engine, for every set of commands that meets   *)
(* CommandsAssumption and every bound on the polls of emmc_softreset.  One *)
(* lemma per part of the invariant of EmmcCmdInv says that every step      *)
(* keeps it; each has one step per action.                                 *)
(***************************************************************************)
EXTENDS EmmcCmdInv, TLAPS

LEMMA SubsetCap == ASSUME NEW S, NEW T, S \subseteq T PROVE S \cap T = S
  OBVIOUS

\* The initial state satisfies the invariant.
LEMMA InitInv == Init => IInv
<1> SUFFICES ASSUME Init PROVE IInv
  OBVIOUS
<1> USE BoundAssumption DEF Init, NoCommand, NoSample
<1>1. TypeOK
  <2>1. ControlOK
    BY DEF ControlOK, States, Codes
  <2>2. FlagsOK
    BY DEF FlagsOK
  <2>3. RegsOK
    BY DEF RegsOK, Channels, Info1Bits, Info2Bits
  <2>4. DeviceOK
    BY DEF DeviceOK, Phases, Channels, States
  <2> QED
    BY <2>1, <2>2, <2>3, <2>4 DEF TypeOK
<1>2. FlagInv /\ SampleInv /\ BufferInv /\ AnswerInv /\ BusyInv
  BY DEF FlagInv, SampleInv, BufferInv, AnswerInv, BusyInv, NoFlags, InCall, Polled, Taken
<1>3. PhaseInv /\ ErrorInv
  BY DEF PhaseInv, ErrorInv, InCall, Polled, Taken, Resting
<1>4. DmaInv /\ MovedInv /\ WakeInv
  BY DEF DmaInv, MovedInv, WakeInv, InCall, Polled, Taken
<1> QED
  BY <1>1, <1>2, <1>3, <1>4 DEF IInv, BaseInv, ResetInv

\* The control state and the command keep their types.
LEMMA ControlStep ==
  TypeOK /\ [Next]_vars => ControlOK'
<1> SUFFICES ASSUME TypeOK, [Next]_vars PROVE ControlOK'
  OBVIOUS
<1> USE DEF TypeOK, ControlOK, States, Codes, control, flags, regs, device, history
<1> USE CommandsAssumption, BoundAssumption
<1>1. ASSUME NEW c \in Commands, NEW e \in BOOLEAN, Call(c, e) PROVE ControlOK'
  BY <1>1 DEF Call, Prepare, SendsIdle, EnablesDma
<1>2. CASE LeaveLoop
  BY <1>2 DEF LeaveLoop, EnterReset
<1>3. CASE ResetWait
  BY <1>3 DEF ResetWait, StillPolling
<1>4. CASE ResetDone
  BY <1>4 DEF ResetDone, StillPolling, MasksOff
<1>5. CASE Sample
  BY <1>5 DEF Sample
<1>6. CASE HandleError
  BY <1>6 DEF HandleError, Cause, Unblock, MasksOff
<1>7. CASE HandleBuffer
  BY <1>7 DEF HandleBuffer, Cause, Unblock, CanMove
<1>8. CASE HandleDma
  BY <1>8 DEF HandleDma, Cause, Unblock, DmaFailed
<1>9. CASE HandleInfo1
  BY <1>9 DEF HandleInfo1, Cause, Unblock, Acknowledge
<1>10. CASE HandleNothing
  BY <1>10 DEF HandleNothing, Cause
<1>11. CASE SwitchBegin
  BY <1>11 DEF SwitchBegin, Goto, CardBusy
<1>12. CASE SwitchNonResp
  BY <1>12
     DEF SwitchNonResp, GiveUp, ResponseGood, ResponseError, Goto, MasksOff
<1>13. ASSUME NEW b \in BOOLEAN, SwitchRcvResp(b) PROVE ControlOK'
  BY <1>13 DEF SwitchRcvResp, GiveUp, ResponseGood, ResponseError, Goto
<1>14. CASE SwitchBusy
  BY <1>14 DEF SwitchBusy, GiveUp, Goto
<1>15. CASE SwitchCheck
  BY <1>15 DEF SwitchCheck, Goto
<1>16. CASE SwitchDataTransfer
  BY <1>16 DEF SwitchDataTransfer, Goto
<1>17. CASE SwitchTransferComplete
  BY <1>17 DEF SwitchTransferComplete, GiveUp, Goto, TransferCode
<1>18. CASE SwitchAccessEnd
  BY <1>18 DEF SwitchAccessEnd, Goto, MasksOff
<1>19. CASE SwitchError
  BY <1>19 DEF SwitchError, EnterReset
<1>20. CASE HwResponse
  BY <1>20 DEF HwResponse, HwUnchanged
<1>21. CASE HwBusyEnd
  BY <1>21 DEF HwBusyEnd, HwUnchanged
<1>22. CASE HwBufferReady
  BY <1>22 DEF HwBufferReady, HwUnchanged
<1>23. ASSUME NEW b \in BOOLEAN, HwDmaEnd(b) PROVE ControlOK'
  BY <1>23 DEF HwDmaEnd, HwUnchanged
<1>24. CASE HwAccessEnd
  BY <1>24 DEF HwAccessEnd, HwUnchanged
<1>25. ASSUME NEW b \in BOOLEAN, HwFail(b) PROVE ControlOK'
  BY <1>25 DEF HwFail, HwUnchanged
<1>26. CASE HwRelease
  BY <1>26 DEF HwRelease, HwUnchanged
<1>27. CASE UNCHANGED vars
  BY <1>27 DEF vars
<1> HIDE DEF TypeOK, ControlOK, States, Codes, control, flags, regs, device, history
<1> QED
  BY <1>1, <1>2, <1>3, <1>4, <1>5, <1>6, <1>7, <1>8, <1>9, <1>10, <1>11,
     <1>12, <1>13, <1>14, <1>15, <1>16, <1>17, <1>18, <1>19, <1>20, <1>21,
     <1>22, <1>23, <1>24, <1>25, <1>26, <1>27
     DEF Next, Caller, Cpu, Hw, Handle, Switch

\* The driver's flags stay Boolean.
LEMMA FlagsStep ==
  TypeOK /\ [Next]_vars => FlagsOK'
<1> SUFFICES ASSUME TypeOK, [Next]_vars PROVE FlagsOK'
  OBVIOUS
<1> USE DEF TypeOK, FlagsOK, ControlOK, control, flags, regs, device, history
<1> USE CommandsAssumption, BoundAssumption
<1>1. ASSUME NEW c \in Commands, NEW e \in BOOLEAN, Call(c, e) PROVE FlagsOK'
  BY <1>1 DEF Call, Prepare, SendsIdle, EnablesDma
<1>2. CASE LeaveLoop
  BY <1>2 DEF LeaveLoop, EnterReset
<1>3. CASE ResetWait
  BY <1>3 DEF ResetWait, StillPolling
<1>4. CASE ResetDone
  BY <1>4 DEF ResetDone, StillPolling, MasksOff
<1>5. CASE Sample
  BY <1>5 DEF Sample
<1>6. CASE HandleError
  BY <1>6 DEF HandleError, Cause, Unblock, MasksOff
<1>7. CASE HandleBuffer
  BY <1>7 DEF HandleBuffer, Cause, Unblock, CanMove
<1>8. CASE HandleDma
  BY <1>8 DEF HandleDma, Cause, Unblock, DmaFailed
<1>9. CASE HandleInfo1
  BY <1>9 DEF HandleInfo1, Cause, Unblock, Acknowledge
<1>10. CASE HandleNothing
  BY <1>10 DEF HandleNothing, Cause
<1>11. CASE SwitchBegin
  BY <1>11 DEF SwitchBegin, Goto, CardBusy
<1>12. CASE SwitchNonResp
  BY <1>12
     DEF SwitchNonResp, GiveUp, ResponseGood, ResponseError, Goto, MasksOff
<1>13. ASSUME NEW b \in BOOLEAN, SwitchRcvResp(b) PROVE FlagsOK'
  BY <1>13 DEF SwitchRcvResp, GiveUp, ResponseGood, ResponseError, Goto
<1>14. CASE SwitchBusy
  BY <1>14 DEF SwitchBusy, GiveUp, Goto
<1>15. CASE SwitchCheck
  BY <1>15 DEF SwitchCheck, Goto
<1>16. CASE SwitchDataTransfer
  BY <1>16 DEF SwitchDataTransfer, Goto
<1>17. CASE SwitchTransferComplete
  BY <1>17 DEF SwitchTransferComplete, GiveUp, Goto, TransferCode
<1>18. CASE SwitchAccessEnd
  BY <1>18 DEF SwitchAccessEnd, Goto, MasksOff
<1>19. CASE SwitchError
  BY <1>19 DEF SwitchError, EnterReset
<1>20. CASE HwResponse
  BY <1>20 DEF HwResponse, HwUnchanged
<1>21. CASE HwBusyEnd
  BY <1>21 DEF HwBusyEnd, HwUnchanged
<1>22. CASE HwBufferReady
  BY <1>22 DEF HwBufferReady, HwUnchanged
<1>23. ASSUME NEW b \in BOOLEAN, HwDmaEnd(b) PROVE FlagsOK'
  BY <1>23 DEF HwDmaEnd, HwUnchanged
<1>24. CASE HwAccessEnd
  BY <1>24 DEF HwAccessEnd, HwUnchanged
<1>25. ASSUME NEW b \in BOOLEAN, HwFail(b) PROVE FlagsOK'
  BY <1>25 DEF HwFail, HwUnchanged
<1>26. CASE HwRelease
  BY <1>26 DEF HwRelease, HwUnchanged
<1>27. CASE UNCHANGED vars
  BY <1>27 DEF vars
<1> HIDE DEF TypeOK, FlagsOK, ControlOK, control, flags, regs, device, history
<1> QED
  BY <1>1, <1>2, <1>3, <1>4, <1>5, <1>6, <1>7, <1>8, <1>9, <1>10, <1>11,
     <1>12, <1>13, <1>14, <1>15, <1>16, <1>17, <1>18, <1>19, <1>20, <1>21,
     <1>22, <1>23, <1>24, <1>25, <1>26, <1>27
     DEF Next, Caller, Cpu, Hw, Handle, Switch

\* Registers and samples hold only their own bits.
LEMMA RegsStep ==
  TypeOK /\ [Next]_vars => RegsOK'
<1> SUFFICES ASSUME TypeOK, [Next]_vars PROVE RegsOK'
  OBVIOUS
<1> USE DEF TypeOK, ControlOK, RegsOK, DeviceOK, Channels, Info1Bits,
            Info2Bits, control, flags, regs, device, history
<1> USE CommandsAssumption, BoundAssumption
<1>1. ASSUME NEW c \in Commands, NEW e \in BOOLEAN, Call(c, e) PROVE RegsOK'
  BY <1>1 DEF Call, Prepare, SendsIdle, EnablesDma
<1>2. CASE LeaveLoop
  BY <1>2 DEF LeaveLoop, EnterReset
<1>3. CASE ResetWait
  BY <1>3 DEF ResetWait, StillPolling
<1>4. CASE ResetDone
  BY <1>4 DEF ResetDone, StillPolling, MasksOff
<1>5. CASE Sample
  BY <1>5 DEF Sample
<1>6. CASE HandleError
  BY <1>6 DEF HandleError, Cause, Unblock, MasksOff
<1>7. CASE HandleBuffer
  BY <1>7 DEF HandleBuffer, Cause, Unblock, CanMove
<1>8. CASE HandleDma
  BY <1>8 DEF HandleDma, Cause, Unblock, DmaFailed
<1>9. CASE HandleInfo1
  BY <1>9 DEF HandleInfo1, Cause, Unblock, Acknowledge
<1>10. CASE HandleNothing
  BY <1>10 DEF HandleNothing, Cause
<1>11. CASE SwitchBegin
  BY <1>11 DEF SwitchBegin, Goto, CardBusy
<1>12. CASE SwitchNonResp
  BY <1>12
     DEF SwitchNonResp, GiveUp, ResponseGood, ResponseError, Goto, MasksOff
<1>13. ASSUME NEW b \in BOOLEAN, SwitchRcvResp(b) PROVE RegsOK'
  BY <1>13 DEF SwitchRcvResp, GiveUp, ResponseGood, ResponseError, Goto
<1>14. CASE SwitchBusy
  BY <1>14 DEF SwitchBusy, GiveUp, Goto
<1>15. CASE SwitchCheck
  BY <1>15 DEF SwitchCheck, Goto
<1>16. CASE SwitchDataTransfer
  BY <1>16 DEF SwitchDataTransfer, Goto
<1>17. CASE SwitchTransferComplete
  BY <1>17 DEF SwitchTransferComplete, GiveUp, Goto, TransferCode
<1>18. CASE SwitchAccessEnd
  BY <1>18 DEF SwitchAccessEnd, Goto, MasksOff
<1>19. CASE SwitchError
  BY <1>19 DEF SwitchError, EnterReset
<1>20. CASE HwResponse
  BY <1>20 DEF HwResponse, HwUnchanged
<1>21. CASE HwBusyEnd
  BY <1>21 DEF HwBusyEnd, HwUnchanged
<1>22. CASE HwBufferReady
  BY <1>22 DEF HwBufferReady, HwUnchanged
<1>23. ASSUME NEW b \in BOOLEAN, HwDmaEnd(b) PROVE RegsOK'
  BY <1>23 DEF HwDmaEnd, HwUnchanged
<1>24. CASE HwAccessEnd
  BY <1>24 DEF HwAccessEnd, HwUnchanged
<1>25. ASSUME NEW b \in BOOLEAN, HwFail(b) PROVE RegsOK'
  BY <1>25 DEF HwFail, HwUnchanged
<1>26. CASE HwRelease
  BY <1>26 DEF HwRelease, HwUnchanged
<1>27. CASE UNCHANGED vars
  BY <1>27 DEF vars
<1> HIDE DEF TypeOK, ControlOK, RegsOK, DeviceOK, Channels, Info1Bits,
            Info2Bits, control, flags, regs, device, history
<1> QED
  BY <1>1, <1>2, <1>3, <1>4, <1>5, <1>6, <1>7, <1>8, <1>9, <1>10, <1>11,
     <1>12, <1>13, <1>14, <1>15, <1>16, <1>17, <1>18, <1>19, <1>20, <1>21,
     <1>22, <1>23, <1>24, <1>25, <1>26, <1>27
     DEF Next, Caller, Cpu, Hw, Handle, Switch

\* The controller and the history keep their types.
LEMMA DeviceStep ==
  TypeOK /\ [Next]_vars => DeviceOK'
<1> SUFFICES ASSUME TypeOK, [Next]_vars PROVE DeviceOK'
  OBVIOUS
<1> USE DEF TypeOK, ControlOK, FlagsOK, RegsOK, DeviceOK, Phases, Channels,
            States, control, flags, regs, device, history
<1> USE CommandsAssumption, BoundAssumption
<1>1. ASSUME NEW c \in Commands, NEW e \in BOOLEAN, Call(c, e) PROVE DeviceOK'
  BY <1>1 DEF Call, Prepare, SendsIdle, EnablesDma
<1>2. CASE LeaveLoop
  BY <1>2 DEF LeaveLoop, EnterReset
<1>3. CASE ResetWait
  BY <1>3 DEF ResetWait, StillPolling
<1>4. CASE ResetDone
  BY <1>4 DEF ResetDone, StillPolling, MasksOff
<1>5. CASE Sample
  BY <1>5 DEF Sample
<1>6. CASE HandleError
  BY <1>6 DEF HandleError, Cause, Unblock, MasksOff
<1>7. CASE HandleBuffer
  BY <1>7 DEF HandleBuffer, Cause, Unblock, CanMove
<1>8. CASE HandleDma
  BY <1>8 DEF HandleDma, Cause, Unblock, DmaFailed
<1>9. CASE HandleInfo1
  BY <1>9 DEF HandleInfo1, Cause, Unblock, Acknowledge
<1>10. CASE HandleNothing
  BY <1>10 DEF HandleNothing, Cause
<1>11. CASE SwitchBegin
  BY <1>11 DEF SwitchBegin, Goto, CardBusy
<1>12. CASE SwitchNonResp
  BY <1>12
     DEF SwitchNonResp, GiveUp, ResponseGood, ResponseError, Goto, MasksOff
<1>13. ASSUME NEW b \in BOOLEAN, SwitchRcvResp(b) PROVE DeviceOK'
  BY <1>13 DEF SwitchRcvResp, GiveUp, ResponseGood, ResponseError, Goto
<1>14. CASE SwitchBusy
  BY <1>14 DEF SwitchBusy, GiveUp, Goto
<1>15. CASE SwitchCheck
  BY <1>15 DEF SwitchCheck, Goto
<1>16. CASE SwitchDataTransfer
  BY <1>16 DEF SwitchDataTransfer, Goto
<1>17. CASE SwitchTransferComplete
  BY <1>17, ZenonT(40) DEF SwitchTransferComplete, GiveUp, Goto, TransferCode
<1>18. CASE SwitchAccessEnd
  BY <1>18 DEF SwitchAccessEnd, Goto, MasksOff
<1>19. CASE SwitchError
  BY <1>19 DEF SwitchError, EnterReset
<1>20. CASE HwResponse
  BY <1>20 DEF HwResponse, HwUnchanged
<1>21. CASE HwBusyEnd
  BY <1>21 DEF HwBusyEnd, HwUnchanged
<1>22. CASE HwBufferReady
  BY <1>22 DEF HwBufferReady, HwUnchanged
<1>23. ASSUME NEW b \in BOOLEAN, HwDmaEnd(b) PROVE DeviceOK'
  BY <1>23 DEF HwDmaEnd, HwUnchanged
<1>24. CASE HwAccessEnd
  BY <1>24 DEF HwAccessEnd, HwUnchanged
<1>25. ASSUME NEW b \in BOOLEAN, HwFail(b) PROVE DeviceOK'
  BY <1>25 DEF HwFail, HwUnchanged
<1>26. CASE HwRelease
  BY <1>26 DEF HwRelease, HwUnchanged
<1>27. CASE UNCHANGED vars
  BY <1>27 DEF vars
<1> HIDE DEF TypeOK, ControlOK, FlagsOK, RegsOK, DeviceOK, Phases, Channels,
            States, control, flags, regs, device, history
<1> QED
  BY <1>1, <1>2, <1>3, <1>4, <1>5, <1>6, <1>7, <1>8, <1>9, <1>10, <1>11,
     <1>12, <1>13, <1>14, <1>15, <1>16, <1>17, <1>18, <1>19, <1>20, <1>21,
     <1>22, <1>23, <1>24, <1>25, <1>26, <1>27
     DEF Next, Caller, Cpu, Hw, Handle, Switch

\* Masks and flags stay as the driver state says: the handler only unblocks the
\* machine, and each case of the switch sets what the next state relies on.
LEMMA FlagStep ==
  TypeOK /\ FlagInv /\ SampleInv /\ BufferInv /\ [Next]_vars => FlagInv'
<1> SUFFICES ASSUME TypeOK, FlagInv, SampleInv, BufferInv, [Next]_vars PROVE FlagInv'
  OBVIOUS
<1> USE DEF FlagInv, SampleInv, InCall, Polled, Taken, Awaiting, Answered, Failing,
            BufferBit, NoFlags, TypeOK, ControlOK, FlagsOK, RegsOK, Info1Bits,
            Info2Bits, States, ResponseGood, NoCommand, Responses, control,
            flags, regs, device, history
<1> USE CommandsAssumption
<1>1. ASSUME NEW c \in Commands, NEW e \in BOOLEAN, Call(c, e) PROVE FlagInv'
  BY <1>1 DEF Call, Prepare, SendsIdle, EnablesDma
<1>2. CASE LeaveLoop
  BY <1>2 DEF LeaveLoop, EnterReset
<1>3. CASE ResetWait
  BY <1>3 DEF ResetWait, StillPolling
<1>4. CASE ResetDone
  BY <1>4 DEF ResetDone, StillPolling, MasksOff
<1>5. CASE Sample
  BY <1>5 DEF Sample
<1>6. CASE HandleError
  BY <1>6 DEF HandleError, Cause, Unblock, MasksOff
<1>7. CASE HandleBuffer
  <2>1. pc = "handle" /\ sample.ev2 \cap {"BWE", "BRE"} # {}
    BY <1>7 DEF HandleBuffer, Cause
  <2>2. /\ sample.ev2 \subseteq info2 /\ sample.ev2 \subseteq mask2
        /\ info2 \cap BufferBits # {} /\ mask2 \cap BufferBits # {}
    BY <2>1 DEF BufferBits
  <2>3. state \in {"DATA_TRANSFER_COMPLETE", "TRANSFER_ERROR"}
    BY <2>1, <2>2 DEF BufferBits
  <2>4. CanMove
    BY <2>1, <2>2, <2>3 DEF BufferInv, Served, CanMove
  <2>5. /\ pc' = "switch" /\ ~blocking' /\ ~duringXfer' /\ ~remain' /\ ~force'
        /\ UNCHANGED <<state, cmd, rtn, duringCmd, duringDma, dmaError, mask1, mask2, sample>>
        /\ "ERR" \notin sample.ev2
    BY <1>7, <2>4 DEF HandleBuffer, Unblock, Cause
  <2> QED
    BY <2>1, <2>3, <2>5
<1>8. CASE HandleDma
  BY <1>8 DEF HandleDma, Cause, Unblock, DmaFailed
<1>9. CASE HandleInfo1
  BY <1>9 DEF HandleInfo1, Cause, Unblock, Acknowledge
<1>10. CASE HandleNothing
  BY <1>10 DEF HandleNothing, Cause
<1>11. CASE SwitchBegin
  <2>1. CASE sample.cbsy
    <3>1. /\ pc' = "idle" /\ pc = "switch" /\ state = "BEGIN"
          /\ UNCHANGED <<state, cmd, rtn, remain>>
          /\ UNCHANGED <<blocking, force, duringCmd, duringXfer, duringDma, mask1, mask2>>
      BY <1>11, <2>1 DEF SwitchBegin, CardBusy
    <3> QED
      BY <3>1
  <2>2. CASE ~sample.cbsy /\ cmd.resp = "none"
    BY <1>11, <2>2 DEF SwitchBegin, CardBusy, Goto
  <2>3. CASE ~sample.cbsy /\ cmd.resp # "none"
    BY <1>11, <2>3 DEF SwitchBegin, CardBusy, Goto
  <2> QED
    BY <2>1, <2>2, <2>3 DEF SwitchBegin
<1>12. CASE SwitchNonResp
  BY <1>12
     DEF SwitchNonResp, GiveUp, ResponseGood, ResponseError, Goto, MasksOff
<1>13. ASSUME NEW b \in BOOLEAN, SwitchRcvResp(b) PROVE FlagInv'
  BY <1>13 DEF SwitchRcvResp, GiveUp, ResponseGood, ResponseError, Goto
<1>14. CASE SwitchBusy
  BY <1>14 DEF SwitchBusy, GiveUp, Goto
<1>15. CASE SwitchCheck
  BY <1>15 DEF SwitchCheck, Goto
<1>16. CASE SwitchDataTransfer
  <2>1. CASE cmd.dma
    BY <1>16, <2>1 DEF SwitchDataTransfer, Goto
  <2>2. CASE ~cmd.dma
    <3>1. /\ pc' = "sample" /\ pc = "switch" /\ state = "DATA_TRANSFER"
          /\ state' = "DATA_TRANSFER_COMPLETE"
          /\ duringXfer' /\ blocking' /\ mask2' = {"ERR"} \cup {BufferBit}
          /\ UNCHANGED <<cmd, rtn, remain, force, duringDma, mask1>>
      BY <1>16, <2>2 DEF SwitchDataTransfer, Goto
    <3> QED
      BY <2>2, <3>1
  <2> QED
    BY <2>1, <2>2
<1>17. CASE SwitchTransferComplete
  <2>1. CASE TransferCode # "SUCCESS"
    <3>1. /\ pc = "switch" /\ state = "DATA_TRANSFER_COMPLETE"
          /\ pc' = "sample" /\ state' = "TRANSFER_ERROR" /\ rtn' # "SUCCESS" /\ rtn' # "none"
          /\ UNCHANGED <<cmd, blocking, force, duringCmd, duringXfer, duringDma, dmaError,
                         remain, mask1, mask2, sample>>
      BY <1>17, <2>1 DEF SwitchTransferComplete, GiveUp, Goto, TransferCode
    <3> QED
      BY <3>1
  <2>2. CASE TransferCode = "SUCCESS"
    BY <1>17, <2>2 DEF SwitchTransferComplete, GiveUp, Goto, TransferCode
  <2> QED
    BY <2>1, <2>2
<1>18. CASE SwitchAccessEnd
  BY <1>18 DEF SwitchAccessEnd, Goto, MasksOff
<1>19. CASE SwitchError
  BY <1>19 DEF SwitchError, EnterReset
<1>20. CASE HwResponse
  BY <1>20 DEF HwResponse, HwUnchanged
<1>21. CASE HwBusyEnd
  BY <1>21 DEF HwBusyEnd, HwUnchanged
<1>22. CASE HwBufferReady
  BY <1>22 DEF HwBufferReady, HwUnchanged
<1>23. ASSUME NEW b \in BOOLEAN, HwDmaEnd(b) PROVE FlagInv'
  BY <1>23 DEF HwDmaEnd, HwUnchanged
<1>24. CASE HwAccessEnd
  BY <1>24 DEF HwAccessEnd, HwUnchanged
<1>25. ASSUME NEW b \in BOOLEAN, HwFail(b) PROVE FlagInv'
  BY <1>25 DEF HwFail, HwUnchanged
<1>26. CASE HwRelease
  BY <1>26 DEF HwRelease, HwUnchanged
<1>27. CASE UNCHANGED vars
  BY <1>27 DEF vars
<1> HIDE DEF FlagInv, SampleInv, InCall, Polled, Taken, Awaiting, Answered, Failing,
            BufferBit, NoFlags, TypeOK, ControlOK, FlagsOK, RegsOK, Info1Bits,
            Info2Bits, States, ResponseGood, NoCommand, Responses, control,
            flags, regs, device, history
<1> QED
  BY <1>1, <1>2, <1>3, <1>4, <1>5, <1>6, <1>7, <1>8, <1>9, <1>10, <1>11,
     <1>12, <1>13, <1>14, <1>15, <1>16, <1>17, <1>18, <1>19, <1>20, <1>21,
     <1>22, <1>23, <1>24, <1>25, <1>26, <1>27
     DEF Next, Caller, Cpu, Hw, Handle, Switch

\* Between the sample and the handler the controller only adds bits.
LEMMA SampleStep ==
  TypeOK /\ SampleInv /\ [Next]_vars => SampleInv'
<1> SUFFICES ASSUME TypeOK, SampleInv, [Next]_vars PROVE SampleInv'
  OBVIOUS
<1> USE DEF SampleInv, TypeOK, ControlOK, FlagsOK, RegsOK, Info1Bits,
            Info2Bits, control, flags, regs, device, history
<1>1. ASSUME NEW c \in Commands, NEW e \in BOOLEAN, Call(c, e) PROVE SampleInv'
  BY <1>1 DEF Call, Prepare, SendsIdle, EnablesDma
<1>2. CASE LeaveLoop
  BY <1>2 DEF LeaveLoop, EnterReset
<1>3. CASE ResetWait
  BY <1>3 DEF ResetWait, StillPolling
<1>4. CASE ResetDone
  BY <1>4 DEF ResetDone, StillPolling, MasksOff
<1>5. CASE Sample
  BY <1>5 DEF Sample
<1>6. CASE HandleError
  BY <1>6 DEF HandleError, Cause, Unblock, MasksOff
<1>7. CASE HandleBuffer
  BY <1>7 DEF HandleBuffer, Cause, Unblock, CanMove
<1>8. CASE HandleDma
  BY <1>8 DEF HandleDma, Cause, Unblock, DmaFailed
<1>9. CASE HandleInfo1
  BY <1>9 DEF HandleInfo1, Cause, Unblock, Acknowledge
<1>10. CASE HandleNothing
  BY <1>10 DEF HandleNothing, Cause
<1>11. CASE SwitchBegin
  BY <1>11 DEF SwitchBegin, Goto, CardBusy
<1>12. CASE SwitchNonResp
  BY <1>12
     DEF SwitchNonResp, GiveUp, ResponseGood, ResponseError, Goto, MasksOff
<1>13. ASSUME NEW b \in BOOLEAN, SwitchRcvResp(b) PROVE SampleInv'
  BY <1>13 DEF SwitchRcvResp, GiveUp, ResponseGood, ResponseError, Goto
<1>14. CASE SwitchBusy
  BY <1>14 DEF SwitchBusy, GiveUp, Goto
<1>15. CASE SwitchCheck
  BY <1>15 DEF SwitchCheck, Goto
<1>16. CASE SwitchDataTransfer
  BY <1>16 DEF SwitchDataTransfer, Goto
<1>17. CASE SwitchTransferComplete
  BY <1>17 DEF SwitchTransferComplete, GiveUp, Goto, TransferCode
<1>18. CASE SwitchAccessEnd
  BY <1>18 DEF SwitchAccessEnd, Goto, MasksOff
<1>19. CASE SwitchError
  BY <1>19 DEF SwitchError, EnterReset
<1>20. CASE HwResponse
  BY <1>20 DEF HwResponse, HwUnchanged
<1>21. CASE HwBusyEnd
  BY <1>21 DEF HwBusyEnd, HwUnchanged
<1>22. CASE HwBufferReady
  BY <1>22 DEF HwBufferReady, HwUnchanged
<1>23. ASSUME NEW b \in BOOLEAN, HwDmaEnd(b) PROVE SampleInv'
  BY <1>23 DEF HwDmaEnd, HwUnchanged
<1>24. CASE HwAccessEnd
  BY <1>24 DEF HwAccessEnd, HwUnchanged
<1>25. ASSUME NEW b \in BOOLEAN, HwFail(b) PROVE SampleInv'
  BY <1>25 DEF HwFail, HwUnchanged
<1>26. CASE HwRelease
  BY <1>26 DEF HwRelease, HwUnchanged
<1>27. CASE UNCHANGED vars
  BY <1>27 DEF vars
<1> HIDE DEF SampleInv, TypeOK, ControlOK, FlagsOK, RegsOK, Info1Bits,
            Info2Bits, control, flags, regs, device, history
<1> QED
  BY <1>1, <1>2, <1>3, <1>4, <1>5, <1>6, <1>7, <1>8, <1>9, <1>10, <1>11,
     <1>12, <1>13, <1>14, <1>15, <1>16, <1>17, <1>18, <1>19, <1>20, <1>21,
     <1>22, <1>23, <1>24, <1>25, <1>26, <1>27
     DEF Next, Caller, Cpu, Hw, Handle, Switch

\* A buffer event finds a transfer to serve, and a DMA flag no later transfer.
LEMMA BufferStep ==
  TypeOK /\ FlagInv /\ SampleInv /\ BufferInv /\ [Next]_vars => BufferInv'
<1> SUFFICES ASSUME TypeOK, FlagInv, SampleInv, BufferInv, [Next]_vars
             PROVE BufferInv'
  OBVIOUS
<1> USE DEF BufferInv, FlagInv, Failing, BufferBit, BufferBits, Served,
            OwnDma, CanMove, SampleInv, InCall, Polled, Taken, Awaiting,
            Answered, Failing, TypeOK, ControlOK, FlagsOK, RegsOK, Info1Bits,
            Info2Bits, States, ResponseGood, control, flags, regs, device,
            history
<1>1. ASSUME NEW c \in Commands, NEW e \in BOOLEAN, Call(c, e) PROVE BufferInv'
  BY <1>1 DEF Call, Prepare, SendsIdle, EnablesDma
<1>2. CASE LeaveLoop
  BY <1>2 DEF LeaveLoop, EnterReset
<1>3. CASE ResetWait
  BY <1>3 DEF ResetWait, StillPolling
<1>4. CASE ResetDone
  BY <1>4 DEF ResetDone, StillPolling, MasksOff
<1>5. CASE Sample
  BY <1>5 DEF Sample
<1>6. CASE HandleError
  BY <1>6 DEF HandleError, Cause, Unblock, MasksOff
<1>7. CASE HandleBuffer
  BY <1>7 DEF HandleBuffer, Cause, Unblock, CanMove
<1>8. CASE HandleDma
  BY <1>8 DEF HandleDma, Cause, Unblock, DmaFailed
<1>9. CASE HandleInfo1
  BY <1>9 DEF HandleInfo1, Cause, Unblock, Acknowledge
<1>10. CASE HandleNothing
  BY <1>10 DEF HandleNothing, Cause
<1>11. CASE SwitchBegin
  BY <1>11 DEF SwitchBegin, Goto, CardBusy
<1>12. CASE SwitchNonResp
  BY <1>12
     DEF SwitchNonResp, GiveUp, ResponseGood, ResponseError, Goto, MasksOff
<1>13. ASSUME NEW b \in BOOLEAN, SwitchRcvResp(b) PROVE BufferInv'
  BY <1>13 DEF SwitchRcvResp, GiveUp, ResponseGood, ResponseError, Goto
<1>14. CASE SwitchBusy
  BY <1>14 DEF SwitchBusy, GiveUp, Goto
<1>15. CASE SwitchCheck
  BY <1>15 DEF SwitchCheck, Goto
<1>16. CASE SwitchDataTransfer
  BY <1>16 DEF SwitchDataTransfer, Goto
<1>17. CASE SwitchTransferComplete
  <2>1. CASE TransferCode # "SUCCESS"
    <3>1. /\ pc = "switch" /\ state = "DATA_TRANSFER_COMPLETE"
          /\ pc' = "sample" /\ state' = "TRANSFER_ERROR"
          /\ UNCHANGED <<cmd, duringXfer, dmaError, remain, info2, mask2, dm1, dmask, phase,
                         dmaRun>>
      BY <1>17, <2>1 DEF SwitchTransferComplete, GiveUp, Goto
    <3>2. "ERR" \in sample.ev2 \/ dmaError \/ duringDma
      BY <2>1 DEF TransferCode
    <3>3. mask2 \cap BufferBits # {} => ~cmd.dma /\ "ERR" \notin sample.ev2 /\ dmaError
      BY <3>1, <3>2
    <3>4. mask2' \cap BufferBits # {} => CanMove' \/ Served'
      BY <3>1, <3>3
    <3> QED
      BY <3>1, <3>4
  <2>2. CASE TransferCode = "SUCCESS"
    BY <1>17, <2>2 DEF SwitchTransferComplete, GiveUp, Goto, TransferCode
  <2> QED
    BY <2>1, <2>2
<1>18. CASE SwitchAccessEnd
  BY <1>18 DEF SwitchAccessEnd, Goto, MasksOff
<1>19. CASE SwitchError
  BY <1>19 DEF SwitchError, EnterReset
<1>20. CASE HwResponse
  BY <1>20 DEF HwResponse, HwUnchanged
<1>21. CASE HwBusyEnd
  BY <1>21 DEF HwBusyEnd, HwUnchanged
<1>22. CASE HwBufferReady
  BY <1>22 DEF HwBufferReady, HwUnchanged
<1>23. ASSUME NEW b \in BOOLEAN, HwDmaEnd(b) PROVE BufferInv'
  BY <1>23 DEF HwDmaEnd, HwUnchanged
<1>24. CASE HwAccessEnd
  BY <1>24 DEF HwAccessEnd, HwUnchanged
<1>25. ASSUME NEW b \in BOOLEAN, HwFail(b) PROVE BufferInv'
  BY <1>25 DEF HwFail, HwUnchanged
<1>26. CASE HwRelease
  BY <1>26 DEF HwRelease, HwUnchanged
<1>27. CASE UNCHANGED vars
  BY <1>27 DEF vars
<1> HIDE DEF BufferInv, FlagInv, Failing, BufferBit, BufferBits, Served,
            OwnDma, CanMove, SampleInv, InCall, Polled, Taken, Awaiting,
            Answered, Failing, TypeOK, ControlOK, FlagsOK, RegsOK, Info1Bits,
            Info2Bits, States, ResponseGood, control, flags, regs, device,
            history
<1> QED
  BY <1>1, <1>2, <1>3, <1>4, <1>5, <1>6, <1>7, <1>8, <1>9, <1>10, <1>11,
     <1>12, <1>13, <1>14, <1>15, <1>16, <1>17, <1>18, <1>19, <1>20, <1>21,
     <1>22, <1>23, <1>24, <1>25, <1>26, <1>27
     DEF Next, Caller, Cpu, Hw, Handle, Switch

\* Past ESTATE_RCV_RESP the card has answered.
LEMMA AnswerStep ==
  TypeOK /\ FlagInv /\ SampleInv /\ AnswerInv /\ [Next]_vars => AnswerInv'
<1> SUFFICES ASSUME TypeOK, FlagInv, SampleInv, AnswerInv, [Next]_vars
             PROVE AnswerInv'
  OBVIOUS
<1> USE DEF AnswerInv, FlagInv, SampleInv, InCall, Polled, Taken, Awaiting,
            Answered, Failing, TypeOK, ControlOK, FlagsOK, RegsOK, Info1Bits,
            Info2Bits, States, ResponseGood, control, flags, regs, device,
            history
<1>1. ASSUME NEW c \in Commands, NEW e \in BOOLEAN, Call(c, e) PROVE AnswerInv'
  BY <1>1 DEF Call, Prepare, SendsIdle, EnablesDma
<1>2. CASE LeaveLoop
  BY <1>2 DEF LeaveLoop, EnterReset
<1>3. CASE ResetWait
  BY <1>3 DEF ResetWait, StillPolling
<1>4. CASE ResetDone
  BY <1>4 DEF ResetDone, StillPolling, MasksOff
<1>5. CASE Sample
  BY <1>5 DEF Sample
<1>6. CASE HandleError
  BY <1>6 DEF HandleError, Cause, Unblock, MasksOff
<1>7. CASE HandleBuffer
  BY <1>7 DEF HandleBuffer, Cause, Unblock, CanMove
<1>8. CASE HandleDma
  BY <1>8 DEF HandleDma, Cause, Unblock, DmaFailed
<1>9. CASE HandleInfo1
  BY <1>9 DEF HandleInfo1, Cause, Unblock, Acknowledge
<1>10. CASE HandleNothing
  BY <1>10 DEF HandleNothing, Cause
<1>11. CASE SwitchBegin
  BY <1>11 DEF SwitchBegin, Goto, CardBusy
<1>12. CASE SwitchNonResp
  BY <1>12
     DEF SwitchNonResp, GiveUp, ResponseGood, ResponseError, Goto, MasksOff
<1>13. ASSUME NEW b \in BOOLEAN, SwitchRcvResp(b) PROVE AnswerInv'
  BY <1>13 DEF SwitchRcvResp, GiveUp, ResponseGood, ResponseError, Goto
<1>14. CASE SwitchBusy
  BY <1>14 DEF SwitchBusy, GiveUp, Goto
<1>15. CASE SwitchCheck
  BY <1>15 DEF SwitchCheck, Goto
<1>16. CASE SwitchDataTransfer
  BY <1>16 DEF SwitchDataTransfer, Goto
<1>17. CASE SwitchTransferComplete
  BY <1>17 DEF SwitchTransferComplete, GiveUp, Goto, TransferCode
<1>18. CASE SwitchAccessEnd
  BY <1>18 DEF SwitchAccessEnd, Goto, MasksOff
<1>19. CASE SwitchError
  BY <1>19 DEF SwitchError, EnterReset
<1>20. CASE HwResponse
  BY <1>20 DEF HwResponse, HwUnchanged
<1>21. CASE HwBusyEnd
  BY <1>21 DEF HwBusyEnd, HwUnchanged
<1>22. CASE HwBufferReady
  BY <1>22 DEF HwBufferReady, HwUnchanged
<1>23. ASSUME NEW b \in BOOLEAN, HwDmaEnd(b) PROVE AnswerInv'
  BY <1>23 DEF HwDmaEnd, HwUnchanged
<1>24. CASE HwAccessEnd
  BY <1>24 DEF HwAccessEnd, HwUnchanged
<1>25. ASSUME NEW b \in BOOLEAN, HwFail(b) PROVE AnswerInv'
  BY <1>25 DEF HwFail, HwUnchanged
<1>26. CASE HwRelease
  BY <1>26 DEF HwRelease, HwUnchanged
<1>27. CASE UNCHANGED vars
  BY <1>27 DEF vars
<1> HIDE DEF AnswerInv, FlagInv, SampleInv, InCall, Polled, Taken, Awaiting,
            Answered, Failing, TypeOK, ControlOK, FlagsOK, RegsOK, Info1Bits,
            Info2Bits, States, ResponseGood, control, flags, regs, device,
            history
<1> QED
  BY <1>1, <1>2, <1>3, <1>4, <1>5, <1>6, <1>7, <1>8, <1>9, <1>10, <1>11,
     <1>12, <1>13, <1>14, <1>15, <1>16, <1>17, <1>18, <1>19, <1>20, <1>21,
     <1>22, <1>23, <1>24, <1>25, <1>26, <1>27
     DEF Next, Caller, Cpu, Hw, Handle, Switch

\* A controller at rest stays so until SD_CMD is written.
LEMMA BusyStep ==
  BusyInv /\ [Next]_vars => BusyInv'
<1> SUFFICES ASSUME BusyInv, [Next]_vars PROVE BusyInv'
  OBVIOUS
<1> USE DEF BusyInv, Taken, control, flags, regs, device, history
<1>1. ASSUME NEW c \in Commands, NEW e \in BOOLEAN, Call(c, e) PROVE BusyInv'
  BY <1>1 DEF Call, Prepare, SendsIdle, EnablesDma
<1>2. CASE LeaveLoop
  BY <1>2 DEF LeaveLoop, EnterReset
<1>3. CASE ResetWait
  BY <1>3 DEF ResetWait, StillPolling
<1>4. CASE ResetDone
  BY <1>4 DEF ResetDone, StillPolling, MasksOff
<1>5. CASE Sample
  BY <1>5 DEF Sample
<1>6. CASE HandleError
  BY <1>6 DEF HandleError, Cause, Unblock, MasksOff
<1>7. CASE HandleBuffer
  BY <1>7 DEF HandleBuffer, Cause, Unblock, CanMove
<1>8. CASE HandleDma
  BY <1>8 DEF HandleDma, Cause, Unblock, DmaFailed
<1>9. CASE HandleInfo1
  BY <1>9 DEF HandleInfo1, Cause, Unblock, Acknowledge
<1>10. CASE HandleNothing
  BY <1>10 DEF HandleNothing, Cause
<1>11. CASE SwitchBegin
  BY <1>11 DEF SwitchBegin, Goto, CardBusy
<1>12. CASE SwitchNonResp
  BY <1>12
     DEF SwitchNonResp, GiveUp, ResponseGood, ResponseError, Goto, MasksOff
<1>13. ASSUME NEW b \in BOOLEAN, SwitchRcvResp(b) PROVE BusyInv'
  BY <1>13 DEF SwitchRcvResp, GiveUp, ResponseGood, ResponseError, Goto
<1>14. CASE SwitchBusy
  BY <1>14 DEF SwitchBusy, GiveUp, Goto
<1>15. CASE SwitchCheck
  BY <1>15 DEF SwitchCheck, Goto
<1>16. CASE SwitchDataTransfer
  BY <1>16 DEF SwitchDataTransfer, Goto
<1>17. CASE SwitchTransferComplete
  BY <1>17 DEF SwitchTransferComplete, GiveUp, Goto, TransferCode
<1>18. CASE SwitchAccessEnd
  BY <1>18 DEF SwitchAccessEnd, Goto, MasksOff
<1>19. CASE SwitchError
  BY <1>19 DEF SwitchError, EnterReset
<1>20. CASE HwResponse
  BY <1>20 DEF HwResponse, HwUnchanged
<1>21. CASE HwBusyEnd
  BY <1>21 DEF HwBusyEnd, HwUnchanged
<1>22. CASE HwBufferReady
  BY <1>22 DEF HwBufferReady, HwUnchanged
<1>23. ASSUME NEW b \in BOOLEAN, HwDmaEnd(b) PROVE BusyInv'
  BY <1>23 DEF HwDmaEnd, HwUnchanged
<1>24. CASE HwAccessEnd
  BY <1>24 DEF HwAccessEnd, HwUnchanged
<1>25. ASSUME NEW b \in BOOLEAN, HwFail(b) PROVE BusyInv'
  BY <1>25 DEF HwFail, HwUnchanged
<1>26. CASE HwRelease
  BY <1>26 DEF HwRelease, HwUnchanged
<1>27. CASE UNCHANGED vars
  BY <1>27 DEF vars
<1> HIDE DEF BusyInv, Taken, control, flags, regs, device, history
<1> QED
  BY <1>1, <1>2, <1>3, <1>4, <1>5, <1>6, <1>7, <1>8, <1>9, <1>10, <1>11,
     <1>12, <1>13, <1>14, <1>15, <1>16, <1>17, <1>18, <1>19, <1>20, <1>21,
     <1>22, <1>23, <1>24, <1>25, <1>26, <1>27
     DEF Next, Caller, Cpu, Hw, Handle, Switch

\* The controller's phase stays in step with the driver.
LEMMA PhaseStep ==
  TypeOK /\ FlagInv /\ SampleInv /\ AnswerInv /\ PhaseInv /\ ErrorInv
    /\ [Next]_vars => PhaseInv'
<1> SUFFICES ASSUME TypeOK, FlagInv, SampleInv, AnswerInv, PhaseInv, ErrorInv, [Next]_vars
             PROVE PhaseInv'
  OBVIOUS
<1> USE DEF FlagInv, SampleInv, AnswerInv, PhaseInv, ErrorInv, NoFlags,
            TypeOK, ControlOK, FlagsOK, RegsOK, DeviceOK, Info1Bits,
            Info2Bits, States, Phases, InCall, Polled, Taken, Awaiting,
            Answered, Failing, Resting, ResponseGood, control, flags, regs, device,
            history
<1>1. ASSUME NEW c \in Commands, NEW e \in BOOLEAN, Call(c, e) PROVE PhaseInv'
  BY <1>1 DEF Call, Prepare, SendsIdle, EnablesDma
<1>2. CASE LeaveLoop
  BY <1>2 DEF LeaveLoop, EnterReset
<1>3. CASE ResetWait
  BY <1>3 DEF ResetWait, StillPolling
<1>4. CASE ResetDone
  BY <1>4 DEF ResetDone, StillPolling, MasksOff
<1>5. CASE Sample
  BY <1>5 DEF Sample
<1>6. CASE HandleError
  BY <1>6 DEF HandleError, Cause, Unblock, MasksOff
<1>7. CASE HandleBuffer
  BY <1>7 DEF HandleBuffer, Cause, Unblock, CanMove
<1>8. CASE HandleDma
  BY <1>8 DEF HandleDma, Cause, Unblock, DmaFailed
<1>9. CASE HandleInfo1
  BY <1>9 DEF HandleInfo1, Cause, Unblock, Acknowledge
<1>10. CASE HandleNothing
  BY <1>10 DEF HandleNothing, Cause
<1>11. CASE SwitchBegin
  BY <1>11 DEF SwitchBegin, Goto, CardBusy
<1>12. CASE SwitchNonResp
  BY <1>12
     DEF SwitchNonResp, GiveUp, ResponseGood, ResponseError, Goto, MasksOff
<1>13. ASSUME NEW b \in BOOLEAN, SwitchRcvResp(b) PROVE PhaseInv'
  BY <1>13 DEF SwitchRcvResp, GiveUp, ResponseGood, ResponseError, Goto
<1>14. CASE SwitchBusy
  <2>1. CASE state' \in Failing
    BY <1>14, <2>1 DEF SwitchBusy, GiveUp, Goto
  <2>2. CASE state' \notin Failing
    <3>1. /\ pc = "switch" /\ state = "RCV_RESPONSE_BUSY" /\ "ERR" \notin sample.ev2
          /\ pc' = "sample"
          /\ state' = state \/ (sample.dat0 /\ state' = "CHECK_RESPONSE_COMPLETE")
          /\ UNCHANGED <<cmd, sample, info1, phase, responded, moved, failed>>
      BY <1>14, <2>2 DEF SwitchBusy, GiveUp, Goto
    <3> QED
      BY <3>1
  <2> QED
    BY <1>14, <2>1, <2>2 DEF SwitchBusy, GiveUp, Goto
<1>15. CASE SwitchCheck
  BY <1>15 DEF SwitchCheck, Goto
<1>16. CASE SwitchDataTransfer
  BY <1>16 DEF SwitchDataTransfer, Goto
<1>17. CASE SwitchTransferComplete
  <2>1. CASE state' \in Failing
    <3>1. /\ pc = "switch" /\ state = "DATA_TRANSFER_COMPLETE"
          /\ pc' = "sample" /\ state' = "TRANSFER_ERROR"
          /\ UNCHANGED <<cmd, sample, info1, phase, responded, moved, failed>>
      BY <1>17, <2>1 DEF SwitchTransferComplete, GiveUp, Goto
    <3> QED
      BY <3>1
  <2>2. CASE state' \notin Failing
    <3>1. /\ pc = "switch" /\ state = "DATA_TRANSFER_COMPLETE"
          /\ pc' = "sample" /\ state' = "ACCESS_END"
          /\ UNCHANGED <<cmd, sample, info1, phase, responded, moved, failed>>
      BY <1>17, <2>2 DEF SwitchTransferComplete, GiveUp, Goto
    <3> QED
      BY <3>1
  <2> QED
    BY <1>17, <2>1, <2>2 DEF SwitchTransferComplete, GiveUp, Goto, TransferCode
<1>18. CASE SwitchAccessEnd
  <2>1. CASE state' \in Failing
    BY <1>18, <2>1 DEF SwitchAccessEnd, Goto, MasksOff
  <2>2. CASE state' \notin Failing
    BY <1>18, <2>2 DEF SwitchAccessEnd, Goto, MasksOff
  <2> QED
    BY <1>18, <2>1, <2>2 DEF SwitchAccessEnd, Goto, MasksOff
<1>19. CASE SwitchError
  BY <1>19 DEF SwitchError, EnterReset
<1>20. CASE HwResponse
  BY <1>20 DEF HwResponse, HwUnchanged
<1>21. CASE HwBusyEnd
  BY <1>21 DEF HwBusyEnd, HwUnchanged
<1>22. CASE HwBufferReady
  BY <1>22 DEF HwBufferReady, HwUnchanged
<1>23. ASSUME NEW b \in BOOLEAN, HwDmaEnd(b) PROVE PhaseInv'
  BY <1>23 DEF HwDmaEnd, HwUnchanged
<1>24. CASE HwAccessEnd
  BY <1>24 DEF HwAccessEnd, HwUnchanged
<1>25. ASSUME NEW b \in BOOLEAN, HwFail(b) PROVE PhaseInv'
  BY <1>25 DEF HwFail, HwUnchanged
<1>26. CASE HwRelease
  BY <1>26 DEF HwRelease, HwUnchanged
<1>27. CASE UNCHANGED vars
  BY <1>27 DEF vars
<1> HIDE DEF FlagInv, SampleInv, AnswerInv, PhaseInv, ErrorInv, NoFlags,
            TypeOK, ControlOK, FlagsOK, RegsOK, DeviceOK, Info1Bits,
            Info2Bits, States, Phases, InCall, Polled, Taken, Awaiting,
            Answered, Failing, Resting, ResponseGood, control, flags, regs, device,
            history
<1> QED
  BY <1>1, <1>2, <1>3, <1>4, <1>5, <1>6, <1>7, <1>8, <1>9, <1>10, <1>11,
     <1>12, <1>13, <1>14, <1>15, <1>16, <1>17, <1>18, <1>19, <1>20, <1>21,
     <1>22, <1>23, <1>24, <1>25, <1>26, <1>27
     DEF Next, Caller, Cpu, Hw, Handle, Switch

\* An error bit is pending until the poll whose switch turns it into a code.
LEMMA ErrorStep ==
  TypeOK /\ FlagInv /\ SampleInv /\ AnswerInv /\ PhaseInv /\ ErrorInv
    /\ [Next]_vars => ErrorInv'
<1> SUFFICES ASSUME TypeOK, FlagInv, SampleInv, AnswerInv, PhaseInv, ErrorInv, [Next]_vars
             PROVE ErrorInv'
  OBVIOUS
<1> USE DEF FlagInv, SampleInv, AnswerInv, PhaseInv, ErrorInv, NoFlags,
            TypeOK, ControlOK, FlagsOK, RegsOK, DeviceOK, Info1Bits,
            Info2Bits, States, Phases, InCall, Polled, Taken, Awaiting,
            Answered, Failing, Resting, ResponseGood, control, flags, regs, device,
            history
<1>1. ASSUME NEW c \in Commands, NEW e \in BOOLEAN, Call(c, e) PROVE ErrorInv'
  BY <1>1 DEF Call, Prepare, SendsIdle, EnablesDma
<1>2. CASE LeaveLoop
  BY <1>2 DEF LeaveLoop, EnterReset
<1>3. CASE ResetWait
  BY <1>3 DEF ResetWait, StillPolling
<1>4. CASE ResetDone
  BY <1>4 DEF ResetDone, StillPolling, MasksOff
<1>5. CASE Sample
  BY <1>5 DEF Sample
<1>6. CASE HandleError
  BY <1>6, ZenonT(40) DEF HandleError, Cause, Unblock, MasksOff
<1>7. CASE HandleBuffer
  BY <1>7 DEF HandleBuffer, Cause, Unblock, CanMove
<1>8. CASE HandleDma
  BY <1>8 DEF HandleDma, Cause, Unblock, DmaFailed
<1>9. CASE HandleInfo1
  BY <1>9 DEF HandleInfo1, Cause, Unblock, Acknowledge
<1>10. CASE HandleNothing
  BY <1>10 DEF HandleNothing, Cause
<1>11. CASE SwitchBegin
  BY <1>11 DEF SwitchBegin, Goto, CardBusy
<1>12. CASE SwitchNonResp
  BY <1>12
     DEF SwitchNonResp, GiveUp, ResponseGood, ResponseError, Goto, MasksOff
<1>13. ASSUME NEW b \in BOOLEAN, SwitchRcvResp(b) PROVE ErrorInv'
  <2>1. CASE state' \in Failing
    BY <1>13, <2>1 DEF SwitchRcvResp, GiveUp, ResponseGood, ResponseError, Goto
  <2>2. CASE state' \notin Failing
    <3>1. /\ pc = "switch" /\ state = "RCV_RESP" /\ "ERR" \notin sample.ev2
          /\ pc' = "sample" /\ state' \in {"RCV_RESPONSE_BUSY", "CHECK_RESPONSE_COMPLETE"}
          /\ UNCHANGED <<info2, failed, errSeen>>
      BY <1>13, <2>2
         DEF SwitchRcvResp, GiveUp, ResponseGood, ResponseError, Goto
    <3> QED
      BY <2>2, <3>1
  <2> QED
    BY <1>13, <2>1, <2>2
       DEF SwitchRcvResp, GiveUp, ResponseGood, ResponseError, Goto
<1>14. CASE SwitchBusy
  <2>1. CASE state' \in Failing
    BY <1>14, <2>1 DEF SwitchBusy, GiveUp, Goto
  <2>2. CASE state' \notin Failing
    <3>1. /\ pc = "switch" /\ state = "RCV_RESPONSE_BUSY" /\ "ERR" \notin sample.ev2
          /\ pc' = "sample" /\ state' \in {"RCV_RESPONSE_BUSY", "CHECK_RESPONSE_COMPLETE"}
          /\ UNCHANGED <<info2, failed, errSeen>>
      BY <1>14, <2>2 DEF SwitchBusy, GiveUp, Goto
    <3> QED
      BY <2>2, <3>1
  <2> QED
    BY <1>14, <2>1, <2>2 DEF SwitchBusy, GiveUp, Goto
<1>15. CASE SwitchCheck
  BY <1>15 DEF SwitchCheck, Goto
<1>16. CASE SwitchDataTransfer
  BY <1>16 DEF SwitchDataTransfer, Goto
<1>17. CASE SwitchTransferComplete
  <2>1. CASE state' \in Failing
    BY <1>17, <2>1 DEF SwitchTransferComplete, GiveUp, Goto, TransferCode
  <2>2. CASE state' \notin Failing
    <3>1. /\ pc = "switch" /\ state = "DATA_TRANSFER_COMPLETE" /\ "ERR" \notin sample.ev2
          /\ pc' = "sample" /\ state' = "ACCESS_END"
          /\ UNCHANGED <<info2, failed, errSeen>>
      BY <1>17, <2>2 DEF SwitchTransferComplete, GiveUp, Goto, TransferCode
    <3> QED
      BY <2>2, <3>1
  <2> QED
    BY <1>17, <2>1, <2>2 DEF SwitchTransferComplete, GiveUp, Goto, TransferCode
<1>18. CASE SwitchAccessEnd
  <2>1. CASE state' \in Failing
    BY <1>18, <2>1 DEF SwitchAccessEnd, Goto, MasksOff
  <2>2. CASE state' \notin Failing
    BY <1>18, <2>2 DEF SwitchAccessEnd, Goto, MasksOff
  <2> QED
    BY <1>18, <2>1, <2>2 DEF SwitchAccessEnd, Goto, MasksOff
<1>19. CASE SwitchError
  BY <1>19 DEF SwitchError, EnterReset
<1>20. CASE HwResponse
  BY <1>20 DEF HwResponse, HwUnchanged
<1>21. CASE HwBusyEnd
  BY <1>21 DEF HwBusyEnd, HwUnchanged
<1>22. CASE HwBufferReady
  BY <1>22 DEF HwBufferReady, HwUnchanged
<1>23. ASSUME NEW b \in BOOLEAN, HwDmaEnd(b) PROVE ErrorInv'
  BY <1>23 DEF HwDmaEnd, HwUnchanged
<1>24. CASE HwAccessEnd
  BY <1>24 DEF HwAccessEnd, HwUnchanged
<1>25. ASSUME NEW b \in BOOLEAN, HwFail(b) PROVE ErrorInv'
  BY <1>25 DEF HwFail, HwUnchanged
<1>26. CASE HwRelease
  BY <1>26 DEF HwRelease, HwUnchanged
<1>27. CASE UNCHANGED vars
  BY <1>27 DEF vars
<1> HIDE DEF FlagInv, SampleInv, AnswerInv, PhaseInv, ErrorInv, NoFlags,
            TypeOK, ControlOK, FlagsOK, RegsOK, DeviceOK, Info1Bits,
            Info2Bits, States, Phases, InCall, Polled, Taken, Awaiting,
            Answered, Failing, Resting, ResponseGood, control, flags, regs, device,
            history
<1> QED
  BY <1>1, <1>2, <1>3, <1>4, <1>5, <1>6, <1>7, <1>8, <1>9, <1>10, <1>11,
     <1>12, <1>13, <1>14, <1>15, <1>16, <1>17, <1>18, <1>19, <1>20, <1>21,
     <1>22, <1>23, <1>24, <1>25, <1>26, <1>27
     DEF Next, Caller, Cpu, Hw, Handle, Switch

\* End flags of the DMA unit belong to the running transfer.
LEMMA DmaStep ==
  /\ ~LateDma /\ TypeOK /\ FlagInv /\ SampleInv /\ AnswerInv /\ PhaseInv /\ ErrorInv /\ DmaInv
    /\ [Next]_vars => DmaInv'
<1> SUFFICES ASSUME ~LateDma, TypeOK, FlagInv, SampleInv, AnswerInv, PhaseInv, ErrorInv, DmaInv,
                    [Next]_vars PROVE DmaInv'
  OBVIOUS
<1> USE DEF FlagInv, SampleInv, ErrorInv, DmaInv, NoFlags, TypeOK, ControlOK,
            FlagsOK, RegsOK, DeviceOK, Info1Bits, Info2Bits, States, Phases,
            Channels, InCall, Polled, Taken, Awaiting, Answered, Failing, Resting,
            ResponseGood, control, flags, regs, device, history
<1>1. ASSUME NEW c \in Commands, NEW e \in BOOLEAN, Call(c, e) PROVE DmaInv'
  BY <1>1 DEF Call, Prepare, SendsIdle, EnablesDma
<1>2. CASE LeaveLoop
  BY <1>2 DEF LeaveLoop, EnterReset
<1>3. CASE ResetWait
  BY <1>3 DEF ResetWait, StillPolling
<1>4. CASE ResetDone
  BY <1>4 DEF ResetDone, StillPolling, MasksOff
<1>5. CASE Sample
  <2>1. dm1 \subseteq dmask /\ dm2 \subseteq dmask
    OBVIOUS
  <2>2. dm1 \cap dmask = dm1 /\ dm2 \cap dmask = dm2
    BY ONLY <2>1, SubsetCap
  <2> QED
    BY <1>5, <2>2 DEF Sample
<1>6. CASE HandleError
  BY <1>6 DEF HandleError, Cause, Unblock, MasksOff
<1>7. CASE HandleBuffer
  BY <1>7 DEF HandleBuffer, Cause, Unblock, CanMove
<1>8. CASE HandleDma
  BY <1>8 DEF HandleDma, Cause, Unblock, DmaFailed
<1>9. CASE HandleInfo1
  BY <1>9 DEF HandleInfo1, Cause, Unblock, Acknowledge
<1>10. CASE HandleNothing
  BY <1>10 DEF HandleNothing, Cause
<1>11. CASE SwitchBegin
  BY <1>11, ZenonT(40) DEF SwitchBegin, Goto, CardBusy
<1>12. CASE SwitchNonResp
  BY <1>12
     DEF SwitchNonResp, GiveUp, ResponseGood, ResponseError, Goto, MasksOff
<1>13. ASSUME NEW b \in BOOLEAN, SwitchRcvResp(b) PROVE DmaInv'
  BY <1>13 DEF SwitchRcvResp, GiveUp, ResponseGood, ResponseError, Goto
<1>14. CASE SwitchBusy
  BY <1>14 DEF SwitchBusy, GiveUp, Goto
<1>15. CASE SwitchCheck
  BY <1>15 DEF SwitchCheck, Goto
<1>16. CASE SwitchDataTransfer
  BY <1>16, ZenonT(40) DEF SwitchDataTransfer, Goto
<1>17. CASE SwitchTransferComplete
  BY <1>17 DEF SwitchTransferComplete, GiveUp, Goto, TransferCode
<1>18. CASE SwitchAccessEnd
  BY <1>18 DEF SwitchAccessEnd, Goto, MasksOff
<1>19. CASE SwitchError
  BY <1>19 DEF SwitchError, EnterReset
<1>20. CASE HwResponse
  BY <1>20 DEF HwResponse, HwUnchanged
<1>21. CASE HwBusyEnd
  BY <1>21 DEF HwBusyEnd, HwUnchanged
<1>22. CASE HwBufferReady
  BY <1>22 DEF HwBufferReady, HwUnchanged
<1>23. ASSUME NEW b \in BOOLEAN, HwDmaEnd(b) PROVE DmaInv'
  BY <1>23 DEF HwDmaEnd, HwUnchanged
<1>24. CASE HwAccessEnd
  BY <1>24 DEF HwAccessEnd, HwUnchanged
<1>25. ASSUME NEW b \in BOOLEAN, HwFail(b) PROVE DmaInv'
  BY <1>25 DEF HwFail, HwUnchanged
<1>26. CASE HwRelease
  BY <1>26 DEF HwRelease, HwUnchanged
<1>27. CASE UNCHANGED vars
  BY <1>27 DEF vars
<1> HIDE DEF FlagInv, SampleInv, ErrorInv, DmaInv, NoFlags, TypeOK, ControlOK,
            FlagsOK, RegsOK, DeviceOK, Info1Bits, Info2Bits, States, Phases,
            Channels, InCall, Polled, Taken, Awaiting, Answered, Failing, Resting,
            ResponseGood, control, flags, regs, device, history
<1> QED
  BY <1>1, <1>2, <1>3, <1>4, <1>5, <1>6, <1>7, <1>8, <1>9, <1>10, <1>11,
     <1>12, <1>13, <1>14, <1>15, <1>16, <1>17, <1>18, <1>19, <1>20, <1>21,
     <1>22, <1>23, <1>24, <1>25, <1>26, <1>27
     DEF Next, Caller, Cpu, Hw, Handle, Switch

\* A command that goes on past its data phase has moved its data or met an error.
LEMMA MovedStep ==
  /\ ~LateDma /\ TypeOK /\ FlagInv /\ SampleInv /\ AnswerInv /\ PhaseInv /\ ErrorInv /\ DmaInv
    /\ MovedInv /\ [Next]_vars => MovedInv'
<1> SUFFICES ASSUME ~LateDma, TypeOK, FlagInv, SampleInv, AnswerInv, PhaseInv, ErrorInv, DmaInv,
                    MovedInv, [Next]_vars PROVE MovedInv'
  OBVIOUS
<1> USE DEF FlagInv, SampleInv, AnswerInv, PhaseInv, ErrorInv, DmaInv,
            MovedInv, NoFlags, BufferBit, TypeOK, ControlOK, FlagsOK, RegsOK,
            DeviceOK, Info1Bits, Info2Bits, States, Phases, Channels, InCall,
            Polled, Taken, Awaiting, Answered, Failing, Resting, ResponseGood, control,
            flags, regs, device, history
<1>1. ASSUME NEW c \in Commands, NEW e \in BOOLEAN, Call(c, e) PROVE MovedInv'
  BY <1>1 DEF Call, Prepare, SendsIdle, EnablesDma
<1>2. CASE LeaveLoop
  BY <1>2 DEF LeaveLoop, EnterReset
<1>3. CASE ResetWait
  BY <1>3 DEF ResetWait, StillPolling
<1>4. CASE ResetDone
  BY <1>4 DEF ResetDone, StillPolling, MasksOff
<1>5. CASE Sample
  BY <1>5 DEF Sample
<1>6. CASE HandleError
  BY <1>6 DEF HandleError, Cause, Unblock, MasksOff
<1>7. CASE HandleBuffer
  BY <1>7 DEF HandleBuffer, Cause, Unblock, CanMove
<1>8. CASE HandleDma
  BY <1>8 DEF HandleDma, Cause, Unblock, DmaFailed
<1>9. CASE HandleInfo1
  BY <1>9 DEF HandleInfo1, Cause, Unblock, Acknowledge
<1>10. CASE HandleNothing
  BY <1>10 DEF HandleNothing, Cause
<1>11. CASE SwitchBegin
  BY <1>11 DEF SwitchBegin, Goto, CardBusy
<1>12. CASE SwitchNonResp
  BY <1>12
     DEF SwitchNonResp, GiveUp, ResponseGood, ResponseError, Goto, MasksOff
<1>13. ASSUME NEW b \in BOOLEAN, SwitchRcvResp(b) PROVE MovedInv'
  BY <1>13 DEF SwitchRcvResp, GiveUp, ResponseGood, ResponseError, Goto
<1>14. CASE SwitchBusy
  BY <1>14 DEF SwitchBusy, GiveUp, Goto
<1>15. CASE SwitchCheck
  BY <1>15 DEF SwitchCheck, Goto
<1>16. CASE SwitchDataTransfer
  BY <1>16 DEF SwitchDataTransfer, Goto
<1>17. CASE SwitchTransferComplete
  BY <1>17 DEF SwitchTransferComplete, GiveUp, Goto, TransferCode
<1>18. CASE SwitchAccessEnd
  <2>1. CASE state' \in Failing
    BY <1>18, <2>1 DEF SwitchAccessEnd, Goto, MasksOff
  <2>2. CASE state' \notin Failing
    BY <1>18, <2>2 DEF SwitchAccessEnd, Goto, MasksOff
  <2> QED
    BY <1>18, <2>1, <2>2 DEF SwitchAccessEnd, Goto, MasksOff
<1>19. CASE SwitchError
  BY <1>19 DEF SwitchError, EnterReset
<1>20. CASE HwResponse
  BY <1>20 DEF HwResponse, HwUnchanged
<1>21. CASE HwBusyEnd
  BY <1>21 DEF HwBusyEnd, HwUnchanged
<1>22. CASE HwBufferReady
  BY <1>22 DEF HwBufferReady, HwUnchanged
<1>23. ASSUME NEW b \in BOOLEAN, HwDmaEnd(b) PROVE MovedInv'
  BY <1>23 DEF HwDmaEnd, HwUnchanged
<1>24. CASE HwAccessEnd
  BY <1>24 DEF HwAccessEnd, HwUnchanged
<1>25. ASSUME NEW b \in BOOLEAN, HwFail(b) PROVE MovedInv'
  BY <1>25 DEF HwFail, HwUnchanged
<1>26. CASE HwRelease
  BY <1>26 DEF HwRelease, HwUnchanged
<1>27. CASE UNCHANGED vars
  BY <1>27 DEF vars
<1> HIDE DEF FlagInv, SampleInv, AnswerInv, PhaseInv, ErrorInv, DmaInv,
            MovedInv, NoFlags, BufferBit, TypeOK, ControlOK, FlagsOK, RegsOK,
            DeviceOK, Info1Bits, Info2Bits, States, Phases, Channels, InCall,
            Polled, Taken, Awaiting, Answered, Failing, Resting, ResponseGood, control,
            flags, regs, device, history
<1> QED
  BY <1>1, <1>2, <1>3, <1>4, <1>5, <1>6, <1>7, <1>8, <1>9, <1>10, <1>11,
     <1>12, <1>13, <1>14, <1>15, <1>16, <1>17, <1>18, <1>19, <1>20, <1>21,
     <1>22, <1>23, <1>24, <1>25, <1>26, <1>27
     DEF Next, Caller, Cpu, Hw, Handle, Switch

\* The event the driver waits for stays latched until it is handled.
LEMMA WakeStep ==
  /\ ~LateDma /\ TypeOK /\ FlagInv /\ SampleInv /\ AnswerInv /\ PhaseInv /\ ErrorInv /\ DmaInv
    /\ WakeInv /\ [Next]_vars => WakeInv'
<1> SUFFICES ASSUME ~LateDma, TypeOK, FlagInv, SampleInv, AnswerInv, PhaseInv, ErrorInv, DmaInv,
                    WakeInv, [Next]_vars PROVE WakeInv'
  OBVIOUS
<1> USE DEF FlagInv, SampleInv, AnswerInv, PhaseInv, ErrorInv, DmaInv,
            WakeInv, Expecting, NoFlags, BufferBit, TypeOK, ControlOK, FlagsOK, RegsOK,
            DeviceOK, Info1Bits, Info2Bits, States, Phases, Channels, InCall,
            Polled, Taken, Awaiting, Answered, Failing, Resting, ResponseGood, control,
            flags, regs, device, history
<1>1. ASSUME NEW c \in Commands, NEW e \in BOOLEAN, Call(c, e) PROVE WakeInv'
  BY <1>1 DEF Call, Prepare, SendsIdle, EnablesDma
<1>2. CASE LeaveLoop
  BY <1>2 DEF LeaveLoop, EnterReset
<1>3. CASE ResetWait
  BY <1>3 DEF ResetWait, StillPolling
<1>4. CASE ResetDone
  BY <1>4 DEF ResetDone, StillPolling, MasksOff
<1>5. CASE Sample
  BY <1>5 DEF Sample
<1>6. CASE HandleError
  BY <1>6 DEF HandleError, Cause, Unblock, MasksOff
<1>7. CASE HandleBuffer
  BY <1>7 DEF HandleBuffer, Cause, Unblock, CanMove
<1>8. CASE HandleDma
  BY <1>8 DEF HandleDma, Cause, Unblock, DmaFailed
<1>9. CASE HandleInfo1
  BY <1>9 DEF HandleInfo1, Cause, Unblock, Acknowledge
<1>10. CASE HandleNothing
  BY <1>10 DEF HandleNothing, Cause
<1>11. CASE SwitchBegin
  BY <1>11 DEF SwitchBegin, Goto, CardBusy
<1>12. CASE SwitchNonResp
  BY <1>12
     DEF SwitchNonResp, GiveUp, ResponseGood, ResponseError, Goto, MasksOff
<1>13. ASSUME NEW b \in BOOLEAN, SwitchRcvResp(b) PROVE WakeInv'
  BY <1>13 DEF SwitchRcvResp, GiveUp, ResponseGood, ResponseError, Goto
<1>14. CASE SwitchBusy
  <2>1. ~cmd.data
    BY <1>14 DEF SwitchBusy
  <2>2. cmd' = cmd /\ state' \in {"ERROR", "CHECK_RESPONSE_COMPLETE", "RCV_RESPONSE_BUSY"}
    BY <1>14 DEF SwitchBusy, GiveUp, Goto
  <2> QED
    BY <2>1, <2>2
<1>15. CASE SwitchCheck
  BY <1>15 DEF SwitchCheck, Goto
<1>16. CASE SwitchDataTransfer
  BY <1>16 DEF SwitchDataTransfer, Goto
<1>17. CASE SwitchTransferComplete
  BY <1>17 DEF SwitchTransferComplete, GiveUp, Goto, TransferCode
<1>18. CASE SwitchAccessEnd
  <2>1. CASE state' \in Failing
    BY <1>18, <2>1 DEF SwitchAccessEnd, Goto, MasksOff
  <2>2. CASE state' \notin Failing
    BY <1>18, <2>2 DEF SwitchAccessEnd, Goto, MasksOff
  <2> QED
    BY <1>18, <2>1, <2>2 DEF SwitchAccessEnd, Goto, MasksOff
<1>19. CASE SwitchError
  BY <1>19 DEF SwitchError, EnterReset
<1>20. CASE HwResponse
  BY <1>20 DEF HwResponse, HwUnchanged
<1>21. CASE HwBusyEnd
  BY <1>21 DEF HwBusyEnd, HwUnchanged
<1>22. CASE HwBufferReady
  BY <1>22 DEF HwBufferReady, HwUnchanged
<1>23. ASSUME NEW b \in BOOLEAN, HwDmaEnd(b) PROVE WakeInv'
  BY <1>23 DEF HwDmaEnd, HwUnchanged
<1>24. CASE HwAccessEnd
  BY <1>24 DEF HwAccessEnd, HwUnchanged
<1>25. ASSUME NEW b \in BOOLEAN, HwFail(b) PROVE WakeInv'
  BY <1>25 DEF HwFail, HwUnchanged
<1>26. CASE HwRelease
  BY <1>26 DEF HwRelease, HwUnchanged
<1>27. CASE UNCHANGED vars
  BY <1>27 DEF vars
<1> HIDE DEF FlagInv, SampleInv, AnswerInv, PhaseInv, ErrorInv, DmaInv,
            WakeInv, Expecting, NoFlags, BufferBit, TypeOK, ControlOK, FlagsOK, RegsOK,
            DeviceOK, Info1Bits, Info2Bits, States, Phases, Channels, InCall,
            Polled, Taken, Awaiting, Answered, Failing, Resting, ResponseGood, control,
            flags, regs, device, history
<1> QED
  BY <1>1, <1>2, <1>3, <1>4, <1>5, <1>6, <1>7, <1>8, <1>9, <1>10, <1>11,
     <1>12, <1>13, <1>14, <1>15, <1>16, <1>17, <1>18, <1>19, <1>20, <1>21,
     <1>22, <1>23, <1>24, <1>25, <1>26, <1>27
     DEF Next, Caller, Cpu, Hw, Handle, Switch

\* IInv is an invariant of the specification.
THEOREM Invariance == Spec => []IInv
<1>1. Init => IInv
  BY InitInv
<1>2. IInv /\ [Next]_vars => IInv'
  <2> SUFFICES ASSUME IInv, [Next]_vars PROVE IInv'
    OBVIOUS
  <2> USE DEF IInv, BaseInv, ResetInv
  <2>1. TypeOK'
    BY ControlStep, FlagsStep, RegsStep, DeviceStep DEF TypeOK
  <2>2. FlagInv' /\ SampleInv' /\ BufferInv' /\ AnswerInv' /\ BusyInv'
    BY FlagStep, SampleStep, BufferStep, AnswerStep, BusyStep
  <2>3. ASSUME ~LateDma PROVE PhaseInv' /\ ErrorInv' /\ DmaInv' /\ MovedInv' /\ WakeInv'
    BY <2>3, PhaseStep, ErrorStep, DmaStep, MovedStep, WakeStep
  <2> QED
    BY <2>1, <2>2, <2>3
<1> QED
  BY <1>1, <1>2, PTL DEF Spec

\* Every variable keeps its type.
THEOREM Typing == Spec => []TypeOK
<1>1. IInv => TypeOK
  BY DEF IInv, BaseInv
<1> QED
  BY <1>1, Invariance, PTL

\* Between calls nothing is left that would refuse or end the next call.
THEOREM CleanBetweenCalls == Spec => []IdleClean
<1>1. IInv => IdleClean
  BY DEF IInv, BaseInv, FlagInv, IdleClean, NoFlags
<1> QED
  BY <1>1, Invariance, PTL

\* The forced termination of emmc_exec_cmd is never taken.
THEOREM ForcedTerminationIsDead == Spec => []NeverForced
<1>1. IInv => NeverForced
  BY DEF IInv, BaseInv, FlagInv, NeverForced
<1> QED
  BY <1>1, Invariance, PTL

\* EMMC_SUCCESS is returned only for a command the card answered, even when a
\* transfer may outlive a soft reset.
THEOREM SuccessAnswered == Spec => []SuccessIsAnswered
<1>1. IInv => SuccessIsAnswered
  BY DEF IInv, BaseInv, AnswerInv, SuccessIsAnswered
<1> QED
  BY <1>1, Invariance, PTL

\* When the DMA unit stops at a soft reset, EMMC_SUCCESS without an error means
\* that the data has moved.
THEOREM SuccessMoved == ASSUME ~LateDma PROVE Spec => []SuccessMovedData
<1>1. IInv => SuccessMovedData
  BY DEF IInv, ResetInv, MovedInv, SuccessMovedData
<1> QED
  BY <1>1, Invariance, PTL

\* When the DMA unit stops at a soft reset, an error is masked by EMMC_SUCCESS
\* only in ESTATE_ACCESS_END.
THEOREM ErrorsReported == ASSUME ~LateDma PROVE Spec => []ErrorIsReported
<1>1. IInv => ErrorIsReported
  BY DEF IInv, ResetInv, MovedInv, ErrorIsReported
<1> QED
  BY <1>1, Invariance, PTL

\* When the DMA unit stops at a soft reset, the loop of emmc_exec_cmd never waits
\* for an event that a write to a status register or a mask has lost
\* (emmc_interrupt.c:78-201, emmc_cmd.c:132-135, 171-172, 338-339).
THEOREM WakeupsKept == ASSUME ~LateDma PROVE Spec => []NoLostWakeup
<1>1. IInv => NoLostWakeup
  <2> SUFFICES ASSUME IInv, pc = "sample", blocking, phase \in Resting, dmaRun = "off"
               PROVE  info1 \cap mask1 # {} \/ info2 \cap mask2 # {} \/ dm1 \cap dmask # {}
    BY DEF NoLostWakeup, Resting
  <2> USE DEF IInv, BaseInv, ResetInv, Polled, InCall
  <2>1. state \in Awaiting \cup {"DATA_TRANSFER_COMPLETE", "ACCESS_END"}
    BY DEF FlagInv, NoFlags, Answered, Failing, Awaiting, TypeOK, ControlOK, States
  <2>2. CASE state \in Awaiting
    BY <2>2 DEF WakeInv, FlagInv, Resting
  <2>3. CASE state = "DATA_TRANSFER_COMPLETE" /\ cmd.dma
    BY <2>3 DEF WakeInv
  <2>4. CASE state = "DATA_TRANSFER_COMPLETE" /\ ~cmd.dma
    <3>1. cmd.data /\ mask2 = {"ERR", BufferBit}
      BY <2>4 DEF FlagInv
    <3>2. BufferBit \in info2 \/ "ERR" \in info2
      BY <2>4, <3>1 DEF WakeInv, Expecting
    <3> QED
      BY <3>1, <3>2
  <2>5. CASE state = "ACCESS_END"
    BY <2>5 DEF WakeInv, Expecting, FlagInv
  <2> QED
    BY <2>1, <2>2, <2>3, <2>4, <2>5
<1> QED
  BY <1>1, Invariance, PTL

\* SD_CMD is written only to a controller that has finished the last command.
THEOREM CommandOnlyWhenReady == Spec => NoCommandWhileBusy
<1>1. IInv /\ [Next]_vars => (duringCmd' /\ ~duringCmd => phase = "idle")
  <2> SUFFICES ASSUME IInv, [Next]_vars, duringCmd', ~duringCmd PROVE phase = "idle"
    OBVIOUS
  <2>1. SwitchBegin
    BY
       DEF Next, Caller, Cpu, Hw, Handle, Switch, vars, Call, Prepare, LeaveLoop,
           ResetWait, ResetDone,
           EnterReset, Sample, HandleError, HandleBuffer, HandleDma, HandleInfo1, HandleNothing,
           SwitchNonResp, SwitchRcvResp, SwitchBusy, SwitchCheck, SwitchDataTransfer,
           SwitchTransferComplete, SwitchAccessEnd, SwitchError, GiveUp,
           HwResponse, HwBusyEnd, HwBufferReady,
           HwDmaEnd, HwAccessEnd, HwFail, HwRelease, HwUnchanged, control, flags
  <2> QED
    BY <2>1 DEF SwitchBegin, CardBusy, flags, IInv, BaseInv, BusyInv, Taken
<1> QED
  BY <1>1, Invariance, PTL DEF Spec, NoCommandWhileBusy

\* With a DMA unit that stops at a soft reset, every step of the engine is a
\* step of the contract of emmc_exec_cmd, or none at all.
THEOREM Refinement == ASSUME ~LateDma PROVE Spec => Contract!Spec
<1>1. Init => Contract!Init
  BY DEF Init, Contract!Init, NoCommand
<1>2. IInv /\ [Next]_vars => [Contract!Next]_(Contract!vars)
  <2> SUFFICES ASSUME IInv, [Next]_vars PROVE [Contract!Next]_(Contract!vars)
    OBVIOUS
  <2> USE DEF IInv, BaseInv, ResetInv, TypeOK, control, flags, regs, device, history
  <2>1. ASSUME NEW c \in Commands, NEW e \in BOOLEAN, Call(c, e) PROVE Contract!Submit(c)
    BY <2>1 DEF Call, Prepare, SendsIdle, Contract!Submit, Codes
  <2>2. CASE LeaveLoop
    <3>1. Contract!Complete
      BY <2>2 DEF LeaveLoop, Contract!Complete, FlagInv, AnswerInv, MovedInv, InCall
    <3> QED
      BY <3>1 DEF Contract!Next, Contract!Return
  <2>3. CASE ResetDone
    <3>1. CASE rtn = "SUCCESS"
      BY <2>3, <3>1
         DEF ResetDone, AnswerInv, MovedInv, Contract!Complete, Contract!Return,
                        Contract!Next
    <3>2. CASE rtn # "SUCCESS" /\ rtn # "none"
      BY <2>3, <3>2
         DEF ResetDone, ControlOK, Contract!Abort, Contract!Return, Contract!Next
    <3> QED
      BY <3>1, <3>2, <2>3 DEF Contract!Next, Contract!Return, ResetDone, FlagInv
  <2>4. CASE SwitchBegin
    <3>1. CASE sample.cbsy
      BY <2>4, <3>1
         DEF SwitchBegin, CardBusy, Contract!Abort, Codes, Contract!Next,
             Contract!Return
    <3>2. CASE ~sample.cbsy
      BY <2>4, <3>2 DEF SwitchBegin, CardBusy, Goto, Contract!vars
    <3> QED
      BY <3>1, <3>2
  <2>5. CASE HandleBuffer
    <3>1. pc # "idle" /\ pc' # "idle" /\ UNCHANGED <<cmd, result, responded, failed>>
      BY <2>5 DEF HandleBuffer, Unblock
    <3>2. CASE moved' # moved
      <4>1. pc = "handle" /\ duringXfer /\ moved' = TRUE
        BY <2>5, <3>2 DEF HandleBuffer, CanMove, Unblock, DeviceOK, FlagsOK
      <4>2. state \in {"DATA_TRANSFER_COMPLETE", "ACCESS_END", "TRANSFER_ERROR"}
        <5>1. sample.ev2 \cap {"BWE", "BRE"} # {}
          BY <2>5 DEF HandleBuffer, Cause
        <5> QED
          BY <4>1, <5>1
             DEF SampleInv, FlagInv, NoFlags, InCall, Taken, Polled, Awaiting, Answered,
                 ControlOK, States
      <4>3. responded /\ cmd.data
        BY <4>1, <4>2 DEF FlagInv, AnswerInv, InCall
      <4> QED
        BY <3>1, <4>1, <4>3 DEF Contract!Next, Contract!Progress, DeviceOK
    <3> QED
      BY <3>1, <3>2 DEF Contract!vars
  <2>6. CASE HwResponse
    <3>1. pc # "idle"
      BY <2>6 DEF HwResponse, PhaseInv, Resting
    <3> QED
      BY <2>6, <3>1 DEF HwResponse, HwUnchanged, Contract!Next, Contract!Progress
  <2>7. ASSUME NEW b \in BOOLEAN, HwDmaEnd(b) PROVE [Contract!Next]_(Contract!vars)
    <3>1. UNCHANGED <<pc, cmd, result, responded, failed>>
      BY <2>7 DEF HwDmaEnd, HwUnchanged
    <3>2. CASE moved' # moved
      <4>1. duringDma /\ moved' = TRUE
        BY <2>7, <3>2 DEF HwDmaEnd, DeviceOK, FlagsOK
      <4>2. InCall /\ state \in {"DATA_TRANSFER_COMPLETE", "TRANSFER_ERROR"}
        BY <4>1 DEF FlagInv, NoFlags, InCall, Awaiting, Answered, Failing, ControlOK, States
      <4>3. pc # "idle" /\ responded /\ cmd.data
        BY <4>2 DEF FlagInv, AnswerInv, InCall
      <4> QED
        BY <3>1, <4>1, <4>3 DEF Contract!Next, Contract!Progress
    <3> QED
      BY <3>1, <3>2 DEF Contract!vars
  <2>8. ASSUME NEW b \in BOOLEAN, HwFail(b) PROVE Contract!Progress
    <3>1. pc # "idle"
      BY <2>8 DEF HwFail, PhaseInv, Resting
    <3> QED
      BY <2>8, <3>1 DEF HwFail, HwUnchanged, Contract!Progress
  <2>9. ASSUME NEW b \in BOOLEAN, SwitchRcvResp(b) PROVE UNCHANGED Contract!vars
    BY <2>9 DEF SwitchRcvResp, GiveUp, Goto, Contract!vars
  <2>10. CASE \/ ResetWait \/ Sample \/ HandleError \/ HandleDma \/ HandleInfo1 \/ HandleNothing
              \/ SwitchNonResp \/ SwitchBusy \/ SwitchCheck \/ SwitchDataTransfer
              \/ SwitchTransferComplete \/ SwitchAccessEnd \/ SwitchError
    BY <2>10
       DEF ResetWait, Sample, HandleError, HandleDma, HandleInfo1, HandleNothing,
           Unblock,
                 SwitchNonResp, SwitchBusy, SwitchCheck, SwitchDataTransfer,
                 SwitchTransferComplete, SwitchAccessEnd, SwitchError,
                 GiveUp, EnterReset, Goto, Contract!vars
  <2>11. CASE HwBusyEnd \/ HwBufferReady \/ HwAccessEnd \/ HwRelease \/ UNCHANGED vars
    BY <2>11
       DEF HwBusyEnd, HwBufferReady, HwAccessEnd, HwRelease, HwUnchanged, vars,
                 Contract!vars
  <2> QED
    BY <2>1, <2>2, <2>3, <2>4, <2>5, <2>6, <2>7, <2>8, <2>9, <2>10, <2>11
       DEF Next, Caller, Cpu, Hw, Handle, Switch, Contract!Next
<1> QED
  BY <1>1, <1>2, Invariance, PTL DEF Spec, Contract!Spec
=============================================================================
