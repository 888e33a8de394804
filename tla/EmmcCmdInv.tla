----------------------------- MODULE EmmcCmdInv -----------------------------
(***************************************************************************)
(* The inductive invariant behind the safety properties of EmmcCmd: what   *)
(* each driver state means for the masks, the flags, the controller's      *)
(* phase and the history, at each of the three points of a poll.           *)
(***************************************************************************)
EXTENDS EmmcCmdRefines

InCall == pc \in {"sample", "handle", "switch"}
Polled == pc \in {"sample", "handle"}
Taken  == pc \in {"handle", "switch"}

Resting == {"idle", "hung"}
NoFlags == ~blocking /\ ~duringCmd /\ ~duringXfer /\ ~duringDma
Awaiting == {"NON_RESP_CMD", "RCV_RESP"}
Answered == {"RCV_RESPONSE_BUSY", "CHECK_RESPONSE_COMPLETE", "DATA_TRANSFER"}
Failing  == {"TRANSFER_ERROR", "ERROR"}
BufferBits == {"BWE", "BRE"}
BufferBit == IF cmd.dir = "write" THEN "BWE" ELSE "BRE"

\* What is enabled and which flags are up, by driver state.
FlagInv ==
  /\ ~force /\ rtn # "none"
  /\ cmd.data => cmd.resp = "R1"
  /\ cmd.dma => cmd.data
  /\ pc = "idle" => NoFlags /\ mask1 = {} /\ mask2 \subseteq {"ERR"}
  /\ pc = "reset" => NoFlags /\ ~dmaError
  /\ pc = "switch" => ~blocking
  /\ pc = "switch" /\ "ERR" \in sample.ev2 => mask1 = {} /\ mask2 = {}
  /\ Taken => state # "END"
  /\ InCall /\ state \notin Failing => rtn = "SUCCESS"
  /\ InCall /\ state = "BEGIN" => NoFlags /\ mask1 = {} /\ mask2 \subseteq {"ERR"}
  /\ Polled /\ state \in Awaiting => blocking /\ mask1 = {"INFO0"} /\ mask2 = {"ERR"}
  /\ InCall /\ state \in Awaiting \cup Answered => ~duringXfer /\ ~duringDma
  /\ InCall /\ state \in Awaiting \cup Answered \cup {"BEGIN"} => (remain <=> cmd.data)
  /\ InCall /\ state \in Answered =>
       /\ ~blocking /\ mask1 = {}
       /\ mask2 \subseteq (IF cmd.resp = "R1b" THEN {"ERR"} ELSE {})
  /\ InCall /\ state = "RCV_RESPONSE_BUSY" =>
       mask2 = {"ERR"} \/ (pc = "switch" /\ "ERR" \in sample.ev2)
  /\ InCall /\ state = "NON_RESP_CMD" => cmd.resp = "none"
  /\ InCall /\ state = "RCV_RESPONSE_BUSY" => cmd.resp = "R1b"
  /\ InCall /\ state \in {"DATA_TRANSFER", "DATA_TRANSFER_COMPLETE", "ACCESS_END",
                          "TRANSFER_ERROR"} => cmd.data
  /\ InCall /\ state = "TRANSFER_ERROR" => rtn # "SUCCESS"
  /\ Polled /\ state = "DATA_TRANSFER_COMPLETE" =>
       /\ blocking /\ duringXfer /\ (duringDma <=> cmd.dma) /\ remain
       /\ mask1 = {} /\ mask2 = {"ERR"} \cup (IF cmd.dma THEN {} ELSE {BufferBit})
  /\ Polled /\ state = "ACCESS_END" => blocking /\ mask1 = {"INFO2"} /\ mask2 = {"ERR"}
  /\ pc = "switch" /\ state = "DATA_TRANSFER_COMPLETE" =>
       /\ duringDma => cmd.dma
       /\ mask1 = {} /\ mask2 \subseteq {"ERR"} \cup (IF cmd.dma THEN {} ELSE {BufferBit})
  /\ InCall /\ state \in {"ACCESS_END", "END"} => ~duringDma
  /\ InCall /\ state = "TRANSFER_ERROR" =>
       /\ ~blocking /\ mask1 = {}
       /\ mask2 \subseteq {"ERR"} \cup (IF cmd.dma THEN {} ELSE {BufferBit})
  /\ InCall /\ state = "ERROR" => ~blocking /\ ~duringDma /\ mask1 = {} /\ mask2 = {}
  /\ InCall /\ state = "END" => ~blocking /\ mask1 = {} /\ mask2 \subseteq {"ERR"}

\* A sample holds bits that were set and enabled, and stay so until handled.
SampleInv ==
  pc = "handle" => /\ sample.ev1 \subseteq info1 \cap mask1
                   /\ sample.ev2 \subseteq info2 \cap mask2
                   /\ sample.dm1 \subseteq dm1 \cap dmask
                   /\ sample.dm2 \subseteq dm2

\* Where SD_BUF asks for the processor, and where an end flag of the DMA unit can
\* meet a later transfer: a poll in ESTATE_TRANSFER_ERROR never finds a buffer
\* event it cannot serve.
Served == info2 \cap BufferBits = {} /\ phase \in {"drain", "idle", "hung"}
OwnDma == InCall /\ cmd.dma /\ state \in {"DATA_TRANSFER_COMPLETE", "TRANSFER_ERROR"}
BufferInv ==
  /\ info2 \cap BufferBits # {} => phase \in {"ready", "drain", "idle", "hung"}
  /\ InCall /\ state # "BEGIN" => info2 \cap BufferBits \subseteq {BufferBit}
  /\ dmaError /\ ~OwnDma => dmaRun = "off" /\ dm1 \cap dmask = {}
  /\ dm1 \cap dmask # {} /\ dmaRun # "off" =>
       /\ OwnDma
       /\ pc = "switch" => state = "DATA_TRANSFER_COMPLETE" /\ "ERR" \in sample.ev2
       /\ state = "TRANSFER_ERROR" => mask2 = {} /\ (pc = "handle" => sample.dm1 # {})
  /\ pc = "switch" /\ state = "DATA_TRANSFER_COMPLETE" /\ ~cmd.dma /\ dmaError
       /\ "ERR" \notin sample.ev2 => CanMove \/ Served
  /\ Polled /\ state = "TRANSFER_ERROR" /\ mask2 \cap BufferBits # {} => CanMove \/ Served

\* The response: the end bit is the card's, or came with an error bit.
AnswerInv ==
  /\ InCall /\ state \in Answered \cup {"DATA_TRANSFER_COMPLETE", "ACCESS_END",
                                       "TRANSFER_ERROR", "END"} => responded
  /\ Polled /\ state \in Awaiting /\ "INFO0" \in info1 => responded \/ "ERR" \in info2
  /\ Taken /\ state \in Awaiting /\ ResponseGood => responded
  /\ (pc = "reset" \/ (InCall /\ state = "ERROR")) /\ rtn = "SUCCESS" => responded
  /\ pc = "idle" /\ result = "SUCCESS" => responded

\* The controller's phase agrees with the command and its history.
PhaseInv ==
  /\ pc = "idle" \/ (InCall /\ state = "BEGIN") => phase \in Resting
  /\ phase = "cmd" => ~responded
  /\ InCall /\ state = "BEGIN" => ~responded /\ ~moved
  /\ phase = "busy" => responded /\ ~cmd.data /\ cmd.resp = "R1b"
  /\ phase \in {"data", "ready", "drain"} => responded /\ cmd.data
  /\ failed => phase \in Resting
  /\ failed /\ responded => cmd.data \/ cmd.resp = "R1b"
  /\ InCall /\ state # "BEGIN" /\ "INFO2" \in info1 => phase \in Resting
  /\ InCall /\ ~cmd.data /\ state \in {"CHECK_RESPONSE_COMPLETE", "END"} =>
       ~failed /\ phase \in Resting
  /\ Taken /\ state = "RCV_RESPONSE_BUSY" /\ sample.dat0 /\ "ERR" \notin sample.ev2 =>
       ~failed /\ phase \in Resting
  /\ Taken /\ state = "ACCESS_END" /\ "INFO2" \in sample.ev1 /\ "ERR" \notin sample.ev2 =>
       ~failed /\ phase \in Resting
  /\ InCall /\ state = "END" => phase \in Resting

\* An error bit is pending or has been consumed, and where.
ErrorInv ==
  /\ pc = "idle" \/ (InCall /\ state \in {"BEGIN", "END"}) => "ERR" \notin info2
  /\ InCall /\ state = "BEGIN" => ~failed
  /\ InCall /\ "ERR" \in info2 => failed
  /\ Taken /\ "ERR" \in sample.ev2 => failed
  /\ Polled /\ state \notin Failing \cup {"END"} /\ failed => "ERR" \in info2
  /\ pc = "switch" /\ state \notin Failing /\ failed => "ERR" \in info2 \/ "ERR" \in sample.ev2
  /\ Taken /\ state \in {"BEGIN", "CHECK_RESPONSE_COMPLETE", "DATA_TRANSFER", "ERROR"} =>
       "ERR" \notin sample.ev2
  /\ Polled /\ state \notin Failing \cup {"END"} => errSeen = {}
  /\ pc = "switch" /\ state \notin Failing =>
       errSeen = (IF "ERR" \in sample.ev2 THEN {state} ELSE {})
  /\ InCall /\ state = "END" /\ failed => errSeen = {"ACCESS_END"}

\* With no transfer outliving a reset, a DMA end flag is consumed by the poll
\* of ESTATE_BEGIN or belongs to the transfer of this command.
DmaInv ==
  /\ dm1 \subseteq dmask /\ dm2 \subseteq dm1
  /\ \A c, d \in dmask: c = d
  /\ dmaRun # "off" =>
       /\ dmask = {dmaRun} /\ dm1 = {}
       /\ \/ pc = "reset"
          \/ InCall /\ state \in {"DATA_TRANSFER_COMPLETE", "TRANSFER_ERROR"} /\ duringDma
  /\ InCall /\ state \notin {"BEGIN", "DATA_TRANSFER_COMPLETE", "TRANSFER_ERROR"} => dm1 = {}
  /\ pc = "switch" /\ state = "BEGIN" => dm1 = {}
  /\ pc = "handle" /\ state = "BEGIN" => sample.dm1 = dm1
  /\ InCall /\ state = "DATA_TRANSFER_COMPLETE" /\ ~duringDma => dm1 = {}
  /\ pc = "handle" /\ sample.dm1 # {} => sample.dm1 = dm1 /\ sample.dm2 = dm2

\* Where the data of a command that goes on without error is.
MovedInv ==
  LET done == moved \/ failed IN
  /\ Polled /\ state = "DATA_TRANSFER_COMPLETE" /\ dm1 # {} /\ dm2 = {} => done
  /\ pc = "switch" /\ state = "DATA_TRANSFER_COMPLETE" /\ "ERR" \notin sample.ev2
       /\ ~duringDma /\ ~dmaError => done
  /\ InCall /\ state \in {"ACCESS_END", "END"} /\ cmd.data => done
  /\ InCall /\ state = "END" => (cmd.dma => ~extMode)
  /\ pc = "switch" /\ state = "ACCESS_END" => "INFO2" \in sample.ev1 \/ "ERR" \in sample.ev2
  /\ (pc = "reset" \/ (InCall /\ state = "ERROR")) /\ rtn = "SUCCESS" =>
       /\ failed /\ errSeen = {"ACCESS_END"} /\ phase \in Resting
       /\ cmd.dma => ~extMode
  /\ pc = "idle" /\ result = "SUCCESS" =>
       /\ cmd.data => done
       /\ cmd.dma => ~extMode
       /\ failed => errSeen = {"ACCESS_END"}

\* The busy bit sampled before ESTATE_BEGIN is still right when SD_CMD is written.
BusyInv == Taken /\ state = "BEGIN" /\ ~sample.cbsy => phase = "idle"

\* While the driver waits for an event and the controller has nothing left to do,
\* that event is latched: the response, the buffer event or the end flag of the
\* DMA unit, the access end - or an error in place of any of them.
Expecting == Awaiting \cup Answered \cup {"DATA_TRANSFER_COMPLETE", "ACCESS_END"}
WakeInv ==
  /\ Polled /\ state \in Awaiting /\ phase # "cmd" => "INFO0" \in info1 \/ "ERR" \in info2
  /\ InCall /\ cmd.data /\ (Polled \/ "ERR" \notin sample.ev2) =>
       /\ state \in Expecting /\ phase \in Resting =>
            \/ "INFO2" \in info1 \/ "ERR" \in info2
            \/ pc = "switch" /\ state = "ACCESS_END"
       /\ state \in Expecting \ {"ACCESS_END"} /\ phase \in {"ready", "drain"} \cup Resting =>
            \/ BufferBit \in info2 \/ "ERR" \in info2
            \/ state = "DATA_TRANSFER_COMPLETE" /\ (cmd.dma \/ pc = "switch")
  /\ Polled /\ state = "DATA_TRANSFER_COMPLETE" /\ cmd.dma /\ dmaRun = "off" =>
       dm1 \cap dmask # {}

\* What holds whether or not a transfer may outlive a reset.
BaseInv == TypeOK /\ FlagInv /\ SampleInv /\ BufferInv /\ AnswerInv /\ BusyInv
\* What needs the DMA unit to stop at a soft reset.
ResetInv == PhaseInv /\ ErrorInv /\ DmaInv /\ MovedInv /\ WakeInv

\* The whole inductive invariant.
IInv == BaseInv /\ (~LateDma => ResetInv)
=============================================================================
