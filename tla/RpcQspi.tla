------------------------------- MODULE RpcQspi -------------------------------
(***************************************************************************)
(* The flash driver down to the registers: the operations of               *)
(* spiflash1drv.c over the register sequences of rpcqspidrv.c, the SPI     *)
(* multi I/O bus controller, and the serial NOR flash behind it.           *)
(*                                                                         *)
(* The controller has two faces.  In manual mode the driver writes the     *)
(* parts of a command into registers, starts it with SMCR and waits for    *)
(* the end of the transfer; a page to be programmed goes through a write   *)
(* buffer of 256 bytes.  In external address mode the flash appears in the *)
(* address space, and what has been read stays in a read cache until       *)
(* DRCR.RCF clears it.                                                     *)
(*                                                                         *)
(* A cell is a page of 256 bytes here.  A driver function is a sequence of *)
(* operations, tuples whose first component names their kind; ip is the    *)
(* next one to run.                                                        *)
(***************************************************************************)
EXTENDS NorFlash, Sequences

CONSTANTS
  Window,    \* cells that a 3-byte address reaches (16 MB)
  CellsOf,   \* cells of 4, 64 and 256 KB
  Parts,     \* the parts that may be fitted
  Calls,     \* what the commands call: <<operation, first cell, last cell>>
  MaxCalls   \* bound on the calls of a behaviour

Operations ==
  {"identify", "erase", "parameterErase", "bulkErase", "save", "page", "read", "sectorRead"}
Sizes == {4, 64, 256}

\* A cell is a page; the ranges of the calls lie in the flash.
ASSUME RpcAssumption ==
  /\ Page = 1 /\ Window \in 1..FlashSize /\ MaxCalls \in Nat
  /\ \A kb \in Sizes: CellsOf[kb] \in Nat \ {0} /\ FlashSize % CellsOf[kb] = 0 /\ Window % CellsOf[kb] = 0
  /\ \A c \in Calls: c \in Operations \X Cells \X Cells /\ c[2] <= c[3] /\ (c[1] = "page" => c[2] = c[3])

VARIABLES
  part,  \* the fitted part
  chip,  \* its state
  rpc,   \* the registers of the controller
  cache, \* its read cache: from cells to contents
  known, \* CheckQspiFlashId has identified the part
  call,  \* the call in progress or the last one
  ip,    \* its next operation
  goal,  \* history: what it is to make of the flash, NoGoal at the prompt
  calls  \* the calls so far
vars == <<part, chip, rpc, cache, known, call, ip, goal, calls>>

-----------------------------------------------------------------------------
(* The parts CheckQspiFlashId knows: KB of a sector and MB in all.         *)

Each(kb, mb, devices) == [name: devices, kb: {kb}, mb: {mb}]

CYPRESS == Each(256, 64, {"S25FS512S"}) \cup Each(256, 16, {"S25FS128S"})

WINBOND ==
  Each(64, 8, {"W25Q64JV", "W25Q64JW"}) \cup Each(64, 16, {"W25Q128JV", "W25Q128JW"})
  \cup Each(64, 32, {"W25Q256", "W25M512JV", "W25M512JW"})
  \cup Each(64, 64, {"W25Q512JV", "W25Q512JV_DTR"})

MACRONIX ==
  Each(64, 16, {"MX25L12805"}) \cup Each(64, 32, {"MX25L25645G", "MX66U25635F"})
  \cup Each(64, 64, {"MX25L51245G", "MX66U51235F"}) \cup Each(64, 128, {"MX66UM1G45G", "MX66UW1G45G"})

MICRON ==
  Each(64, 16, {"MT25QL128", "MT25QU128"}) \cup Each(64, 32, {"MT25QL256", "MT25QU256"})
  \cup Each(64, 64, {"MT25QL512", "MT25QU512"}) \cup Each(64, 128, {"MT25QL01G", "MT25QU01G"})
  \cup Each(64, 256, {"MT25QL02G", "MT25QU02G"})

DIALOG == Each(64, 16, {"AT25QL128A"})

Devices == CYPRESS \cup WINBOND \cup MACRONIX \cup MICRON \cup DIALOG
CheckQspiFlashId == [n \in {d.name: d \in Devices} |-> CHOOSE d \in Devices: d.name = n]

Supported(p) == p \in DOMAIN CheckQspiFlashId

-----------------------------------------------------------------------------
(* Faulty variants of definitions below, each of which breaks a property.  *)

RCF_Missing == << <<"write", "drcr", "burst">> >>
SetSectorErase_Never == << >>
FourBytes_Over32(p) == Supported(p) /\ CheckQspiFlashId[p].mb > 32

-----------------------------------------------------------------------------
\* gQspi_sa_size, with a value that no call uses for other parts, and whether
\* gQspi_end_addess > TOTAL_SIZE_16MB.
gQspi_sa_size(p) == IF Supported(p) THEN CellsOf[CheckQspiFlashId[p].kb] ELSE 1
FourBytes(p) == Supported(p) /\ CheckQspiFlashId[p].mb > 16

Contract == INSTANCE FlashContract
  WITH Small <- CellsOf[4], sector <- gQspi_sa_size(part), cells <- chip.cells

-----------------------------------------------------------------------------
(* rpcqspidrv.c: a command in manual mode.  width is the number of address *)
(* bytes, size that of data bytes, way the SMCR request.                   *)

Bus(memory, buffered) == << <<"write", "phycnt", [memory |-> memory, buffered |-> buffered]>> >>
RCF == << <<"write", "drcr", "clear">> >>
WaitRpcTxEnd == << <<"WaitRpcTxEnd">> >>

Manual(code, width, at, size, way) ==
  << <<"write", "cmncr", "manual">>, <<"write", "smcmr", code>>, <<"write", "smadr", at>>,
     <<"write", "smenr", [width |-> width, size |-> size]>>, <<"start", way>> >> \o WaitRpcTxEnd

Command(code, width, at, size, way) == Bus("QSPI", FALSE) \o Manual(code, width, at, size, way)

WriteCommandQspiFlash(code)         == Command(code, 0, 0, 0, "none")
ReadQspiFlashID                     == Command("9F", 0, 0, 4, "read")
ReadStatusQspiFlash                 == Command("05", 0, 0, 4, "read")
ReadAnyRegisterQspiFlash            == Command("65", 3, 0, 1, "read")
SectorErase4QspiFlash(at)           == Command("DC", 4, at, 0, "none")
SectorEraseQspiFlash(at)            == Command("D8", 3, at, 0, "none")
ParameterSectorErase4QspiFlash(at)  == Command("21", 4, at, 0, "none")
ParameterSectorErase3QspiFlash(at)  == Command("20", 3, at, 0, "none")

\* The bus is left in HyperFlash mode and the read cache cleared.
WriteAnyRegisterQspiFlash(value) ==
  << <<"write", "smwdr0", value>> >> \o Command("71", 3, 0, 1, "write") \o Bus("HyperFlash", FALSE) \o RCF

\* The write buffer is filled from memory, here with page i of the data.
Buffered(code, width, at, i) ==
  RCF \o Bus("QSPI", TRUE) \o << <<"write", "wrbuf", i>> >>
  \o Manual(code, width, at, 256, "write") \o Bus("HyperFlash", FALSE) \o RCF
WriteData4ppWithBufferQspiFlash(at, i) == Buffered("12", 4, at, i)
WriteDataPpWithBufferQspiFlash(at, i)  == Buffered("02", 3, at, i)

\* External address mode: the read command the controller sends by itself.
ExtMode(code, width) ==
  Bus("QSPI", FALSE) \o << <<"write", "cmncr", "external">>, <<"write", "drcr", "burst">>,
    <<"write", "drcmr", code>>, <<"write", "drenr", width>> >>
InitRPC_QspiFlash4FastReadExtMode == ExtMode("0C", 4)
InitRPC_QspiFlashFastReadExtMode  == ExtMode("0B", 3)

-----------------------------------------------------------------------------
(* spiflash1drv.c.                                                         *)

mem_copy(from, to) == [i \in 1..(to - from + 1) |-> <<"load", from + i - 1>>]
FastRd(p, from, to) ==
  (IF FourBytes(p) THEN InitRPC_QspiFlash4FastReadExtMode ELSE InitRPC_QspiFlashFastReadExtMode)
  \o mem_copy(from, to)

SectorTop(p, a) == a - (a % gQspi_sa_size(p))
SectorRdQspiFlash(p, at) == FastRd(p, SectorTop(p, at), SectorTop(p, at) + gQspi_sa_size(p) - 1)

\* The status is read until BIT0, busy, is clear.
UntilReady == ReadStatusQspiFlash \o << <<"ready?", Len(ReadStatusQspiFlash)>> >>
WREN == WriteCommandQspiFlash("06")

SectorEraseQspiFlashInternal(p, at) ==
  WREN \o (IF FourBytes(p) THEN SectorErase4QspiFlash(at) ELSE SectorEraseQspiFlash(at)) \o UntilReady
ParameterSectorErase4kbQspiFlash(p, at) ==
  WREN \o (IF FourBytes(p) THEN ParameterSectorErase4QspiFlash(at) ELSE ParameterSectorErase3QspiFlash(at))
  \o UntilReady
BulkEraseQspiFlash == WREN \o WriteCommandQspiFlash("60") \o UntilReady

PageProgramWithBuffeQspiFlashNoWait(p, at, i) ==
  WREN \o (IF FourBytes(p) THEN WriteData4ppWithBufferQspiFlash(at, i) ELSE WriteDataPpWithBufferQspiFlash(at, i))
PageProgramWithBuffeQspiFlash(p, at, i) == PageProgramWithBuffeQspiFlashNoWait(p, at, i) \o UntilReady

\* The operations of a loop, the turns of which are equally long.
Turns(seqs) ==
  LET len == Len(seqs[1]) IN
  [k \in 1..(Len(seqs) * len) |-> seqs[1 + ((k - 1) \div len)][1 + ((k - 1) % len)]]

SaveDataWithBuffeQspiFlash(p, from, to) ==
  WREN \o Turns([i \in 1..(to - from + 1) |-> PageProgramWithBuffeQspiFlash(p, from + i - 1, i - 1)])

\* The S25FS128S may erase 64 or 256 KB at a time, as CR3V says.
SetSectorErase256kbQspiFlashCypress ==
  LET change == WREN \o WriteAnyRegisterQspiFlash(CellsOf[256]) \o UntilReady
  IN  ReadAnyRegisterQspiFlash \o << <<"unit?", "256KB", Len(change)>> >> \o change

\* The sectors of size cells from the one that holds from to the one that holds to.
Blocks(size, from, to, Erase(_)) ==
  Turns([i \in 1..(to \div size - from \div size + 1) |-> Erase((from \div size + i - 1) * size)])

SectorEraseQspi_Flash(p, from, to) ==
  (IF p = "S25FS128S" THEN SetSectorErase256kbQspiFlashCypress ELSE << >>)
  \o Blocks(gQspi_sa_size(p), from, to, LAMBDA a: SectorEraseQspiFlashInternal(p, a))
ParameterSectorEraseQspiFlash(p, from, to) ==
  Blocks(CellsOf[4], from, to, LAMBDA a: ParameterSectorErase4kbQspiFlash(p, a))

\* What the commands call.  "page" is a page of a stream: the status is polled
\* before it and not after it (dgmodul4.c).
Function(p, c) ==
  CASE c[1] = "none"            -> << >>
    [] c[1] = "identify"        -> ReadQspiFlashID \o << <<"known?">> >>
    [] c[1] = "erase"           -> SectorEraseQspi_Flash(p, c[2], c[3])
    [] c[1] = "parameterErase"  -> ParameterSectorEraseQspiFlash(p, c[2], c[3])
    [] c[1] = "bulkErase"       -> BulkEraseQspiFlash
    [] c[1] = "save"            -> SaveDataWithBuffeQspiFlash(p, c[2], c[3])
    [] c[1] = "page"            -> UntilReady \o PageProgramWithBuffeQspiFlashNoWait(p, c[2], 0)
    [] c[1] = "read"            -> FastRd(p, c[2], c[3])
    [] c[1] = "sectorRead"      -> SectorRdQspiFlash(p, c[2])

NoCall == <<"none", 0, 0>>
Fits(p, c) == c[1] = "identify" \/ (Supported(p) /\ c[3] < IF CheckQspiFlashId[p].mb > 16 THEN FlashSize ELSE Window)
Script == [p \in Parts |-> [c \in {d \in Calls: Fits(p, d)} \cup {NoCall} |-> Function(p, c)]]

-----------------------------------------------------------------------------
(* The flash (external): the command bytes, how many bytes of address and  *)
(* data follow them, and what they do.                                     *)

AddressBytes(code) ==
  CASE code \in {"06", "60", "05", "9F"} -> 0
    [] code \in {"D8", "20", "02", "65", "71", "0B"} -> 3
    [] code \in {"DC", "21", "12", "0C"} -> 4
DataBytes(code) ==
  CASE code \in {"05", "9F"} -> 4 [] code \in {"65", "71"} -> 1 [] code \in {"02", "12"} -> 256 [] OTHER -> 0
Way(code) ==
  CASE code \in {"05", "9F", "65"} -> "read" [] code \in {"71", "02", "12"} -> "write" [] OTHER -> "none"

Sent(at, width) == IF width = 3 THEN at % Window ELSE at

Executed(c, code, at) ==
  CASE code = "06" -> WriteEnable(c)
    [] code = "60" -> BulkErase(c)
    [] code \in {"D8", "DC"} -> BlockErase(c, at, c.unit)
    [] code \in {"20", "21"} -> BlockErase(c, at, CellsOf[4])
    [] code \in {"02", "12"} -> PageProgram(c, at, [i \in {0} |-> Contract!Datum(rpc.wrbuf)])
    [] code = "71" -> [Begin(c, c.cells) EXCEPT !.unit = rpc.smwdr0]
    [] OTHER -> c

Answer(c, code) ==
  IF code = "05" THEN (IF c.wip THEN "busy" ELSE "ready")
  ELSE IF c.wip THEN "nothing"
  ELSE CASE code = "9F" -> part
         [] code = "65" -> IF c.unit = CellsOf[256] THEN "256KB" ELSE "64KB"
         [] OTHER -> rpc.smrdr0

-----------------------------------------------------------------------------
Was(a) == <<"was", a>>

Registers ==
  [phycnt |-> [memory |-> "HyperFlash", buffered |-> FALSE], cmncr |-> "external", drcr |-> "burst",
   smcmr |-> "none", smadr |-> 0, smenr |-> [width |-> 0, size |-> 0], smcr |-> "none",
   smwdr0 |-> 0, wrbuf |-> 0, smrdr0 |-> "nothing", drcmr |-> "none", drenr |-> 0, busy |-> FALSE]

\* A part with one erase size has that of the table.
Init ==
  /\ part \in Parts
  /\ \E unit \in {CellsOf[64], CellsOf[256]}:
       /\ Supported(part) /\ part # "S25FS128S" => unit = gQspi_sa_size(part)
       /\ chip = Chip([a \in Cells |-> Was(a)], unit)
  /\ rpc = Registers /\ cache = << >> /\ known = FALSE
  /\ call = NoCall /\ ip = 1 /\ goal = Contract!NoGoal /\ calls = 0

Idle == goal = Contract!NoGoal
Ended == ip > Len(Script[part][call])
Op == Script[part][call][ip]
At(kind) == ~Idle /\ ~Ended /\ Op[1] = kind
Step == ip' = ip + 1

\* A command identifies the part before anything else and again when it has left
\* the flash busy with the last page of a stream.
Call(c) ==
  /\ Idle /\ calls < MaxCalls
  /\ c[1] # "identify" => known /\ Fits(part, c)
  /\ call[1] = "page" => c[1] \in {"identify", "page"}
  /\ call' = c /\ ip' = 1 /\ calls' = calls + 1
  /\ goal' = Contract!Wanted(c)
  /\ UNCHANGED <<part, chip, rpc, cache, known>>

Return ==
  /\ ~Idle /\ Ended /\ goal' = Contract!NoGoal
  /\ UNCHANGED <<part, chip, rpc, cache, known, call, ip, calls>>

\* A write to a register of the controller; one to DRCR may clear the cache.
Write ==
  /\ At("write") /\ Step
  /\ rpc' = [rpc EXCEPT ![Op[2]] = Op[3]]
  /\ cache' = IF Op[2] = "drcr" /\ Op[3] = "clear" THEN << >> ELSE cache
  /\ UNCHANGED <<part, chip, known, call, goal, calls>>

\* The write to SMCR starts the transfer.
Start ==
  /\ At("start") /\ Step
  /\ rpc' = [rpc EXCEPT !.smcr = Op[2], !.busy = TRUE]
  /\ UNCHANGED <<part, chip, cache, known, call, goal, calls>>

\* TEND.
AwaitEnd ==
  /\ At("WaitRpcTxEnd") /\ ~rpc.busy /\ Step
  /\ UNCHANGED <<part, chip, rpc, cache, known, call, goal, calls>>

PollReady ==
  /\ At("ready?")
  /\ ip' = IF rpc.smrdr0 = "busy" THEN ip - Op[2] ELSE ip + 1
  /\ UNCHANGED <<part, chip, rpc, cache, known, call, goal, calls>>

SkipIfUnit ==
  /\ At("unit?")
  /\ ip' = IF rpc.smrdr0 = Op[2] THEN ip + Op[3] + 1 ELSE ip + 1
  /\ UNCHANGED <<part, chip, rpc, cache, known, call, goal, calls>>

Identify ==
  /\ At("known?") /\ Step /\ known' = Supported(rpc.smrdr0)
  /\ UNCHANGED <<part, chip, rpc, cache, call, goal, calls>>

\* A load from the address space: out of the cache, or from the flash by way of it.
Load ==
  /\ At("load") /\ Step
  /\ cache' \in {cache, [a \in {Op[2]} |-> chip.cells[a]]}
  /\ Op[2] \in DOMAIN cache'
  /\ UNCHANGED <<part, chip, rpc, known, call, goal, calls>>

\* The controller sends what the registers say.
Transfer ==
  /\ rpc.busy
  /\ rpc' = [rpc EXCEPT !.busy = FALSE, !.smrdr0 = Answer(chip, rpc.smcmr)]
  /\ chip' = Executed(chip, rpc.smcmr, Sent(rpc.smadr, rpc.smenr.width))
  /\ UNCHANGED <<part, cache, known, call, ip, goal, calls>>

\* The flash ends an operation.
Ready ==
  /\ chip.wip /\ chip' = Finish(chip)
  /\ UNCHANGED <<part, rpc, cache, known, call, ip, goal, calls>>

Cpu == Return \/ Write \/ Start \/ AwaitEnd \/ PollReady \/ SkipIfUnit \/ Identify \/ Load

Next == (\E c \in Calls: Call(c)) \/ Cpu \/ Transfer \/ Ready

\* The driver does not stop, the controller ends its transfers and the flash what
\* it has begun; nobody has to call.
Spec == Init /\ [][Next]_vars /\ WF_vars(Cpu) /\ WF_vars(Transfer) /\ WF_vars(Ready)

-----------------------------------------------------------------------------
(* Properties.                                                             *)

\* Every transfer is what the flash understands: the bus is in QSPI mode, the
\* command is followed by as many bytes of address and data as it takes, an address
\* of three bytes loses nothing, the write buffer is connected for a page program
\* only, and a busy flash is asked for its status or its ID only.  The driver does
\* not touch a register before the transfer has ended (rpcqspidrv.c:709).
FramesFit ==
  /\ rpc.busy =>
       /\ rpc.phycnt = [memory |-> "QSPI", buffered |-> rpc.smcmr \in {"02", "12"}]
       /\ rpc.cmncr = "manual" /\ rpc.smcr = Way(rpc.smcmr)
       /\ rpc.smenr = [width |-> AddressBytes(rpc.smcmr), size |-> DataBytes(rpc.smcmr)]
       /\ Sent(rpc.smadr, rpc.smenr.width) = rpc.smadr
       /\ chip.wip => rpc.smcmr \in {"05", "9F"}
       /\ At("WaitRpcTxEnd")
  /\ At("load") =>
       /\ rpc.phycnt = [memory |-> "QSPI", buffered |-> FALSE] /\ rpc.cmncr = "external"
       /\ rpc.drenr = AddressBytes(rpc.drcmr) /\ Sent(Op[2], rpc.drenr) = Op[2]
       /\ ~chip.wip

\* What the read cache holds is what the flash holds, except that it may hide an
\* erase: no erase clears it (rpcqspidrv.c:217, :939), every page program does, so
\* that no read can miss what has been programmed.
CacheHidesNoProgram == \A a \in DOMAIN cache: cache[a] = chip.cells[a] \/ chip.cells[a] = FF

\* The driver keeps its contract (FlashContract), the liveness of which says that
\* no poll lasts for ever while the controller and the flash go on.
ImplementsContract == Contract!Spec
=============================================================================
