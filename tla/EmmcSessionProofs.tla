-------------------------- MODULE EmmcSessionProofs --------------------------
(***************************************************************************)
(* Proofs about the eMMC commands of the monitor, for every size of the    *)
(* areas, every length of an image and of a chunk, and every set of cards. *)
(* The first part is the inductive invariant, in named parts; one lemma    *)
(* per part says that every step keeps it.                                 *)
(***************************************************************************)
EXTENDS EmmcSession, TLAPS

\* Inside emmc_mount and around it, and inside the command's own work.
Mounting   == MountSteps \cup {"init", "enter", "stop"}
Switching  == {"cmd6", "cmd13", "cmd8"}
WriteSteps == {"cmd16", "cmd23", "cmd25", "cmd13w"}
EraseSteps == {"cmd35", "cmd36", "cmd38", "cmd13e"}
Serving    == {"prompt", "select", "begin", "reread"} \cup Switching \cup WriteSteps \cup EraseSteps

\* The types, of the program's variables and of the card's.
ProgramOK ==
  /\ pc \in {"idle"} \cup Mounting \cup Serving
  /\ op \in [kind: Kinds \cup {"none"}, area: Areas, start: Nat, count: Nat,
             field: Fields \cup {"none"}]
  /\ outcome \in {"none", "complete", "error", "cancelled"}
  /\ call \in {"select", "group", "user"}
  /\ chunk \in [buf: Nat, sector: Nat, left: Nat]
  /\ polls \in 0..OcrPolls
DriverOK ==
  /\ emmcInit \in BOOLEAN /\ mount \in BOOLEAN /\ selected \in BOOLEAN /\ clock \in BOOLEAN
  /\ freq \in {"off", Mhz0_4, Mhz20, Mhz26, Mhz52}
  /\ hostWidth \in {1, 8} /\ cached \in Areas /\ csdType \in Types
CardOK ==
  /\ card \in Cards
  /\ cState \in {"idle", "ready", "ident", "stby", "tran"}
  /\ cWidth \in {1, 8} /\ cHs \in BOOLEAN /\ cArea \in Areas /\ cSwitchError \in BOOLEAN
  /\ store \in [Areas -> [Sectors -> Int]]
HistoryOK ==
  /\ stale \subseteq {"switch", "misread"} /\ dropped \in BOOLEAN
  /\ overridden \subseteq {"BUS_WIDTH", "HS_TIMING"}
TypeOK == ProgramOK /\ DriverOK /\ CardOK /\ HistoryOK

\* Which command is at a step, and who called emmc_set_ext_csd.
KindInv ==
  /\ pc # "idle" => op.kind \in Kinds /\ outcome = "none"
  /\ pc \in Mounting \cup {"prompt"} => call = "group"
  /\ pc = "prompt" => op.kind \in {"EM_W", "EM_E", "EM_SECSD"}
  /\ pc \in {"select", "begin"} => op.kind \in {"EM_W", "EM_E"}
  /\ pc \in Switching =>
       op.kind \in (IF call = "select" THEN {"EM_W", "EM_E"} ELSE {"EM_SECSD"})
  /\ pc = "reread" => op.kind \in {"EM_SECSD", "EM_DECSD"}
  /\ pc \in WriteSteps => op.kind = "EM_W"
  /\ pc \in EraseSteps => op.kind = "EM_E"

\* A command is served exactly when the driver has been initialised, and from
\* then on the card is in its transfer state; before, it is where emmc_mount
\* has brought it.
StateAt(l) ==
  CASE l \in {"clockIdle", "cmd1"} -> {"idle"}
    [] l \in {"init", "enter", "clockId", "stop"} -> {"idle", "ready", "ident", "stby", "tran"}
    [] OTHER -> StateFor(l)
StateInv ==
  /\ pc \in Mounting => ~emmcInit
  /\ pc \in Serving => emmcInit
  /\ pc \in Mounting => cState \in StateAt(pc)
  /\ emmcInit => cState = "tran"

\* The two ends of the bus: 1 bit wide after the reset of each, 8 after CMD6.
Wide   == {"cmd13bw", "cmd8bw"}
Narrow == MountSteps \ (Wide \cup {"clockId", "cmd0"})
WidthInv ==
  /\ pc \in (MountSteps \cup {"enter"}) \ Wide => hostWidth = 1
  /\ pc \in Narrow => cWidth = 1
  /\ pc \in Wide => hostWidth = 8 /\ cWidth = 8
  /\ emmcInit => hostWidth = 8 /\ (cWidth = 8 \/ "BUS_WIDTH" \in overridden)

\* Where sectors are written or erased, the card is in the area asked for.
AreaInv ==
  /\ pc \in {"begin"} \cup WriteSteps \cup EraseSteps /\ stale = {} => cArea = op.area
  /\ pc \in {"cmd13", "cmd8"} /\ call = "select" => cArea = op.area

\* Before that no sector has been touched.
StoreInv == pc \in Mounting \cup (Serving \ (WriteSteps \cup EraseSteps)) => store = Untouched

\* The loop of emmc_write_sector: the sectors done and the sectors left make up
\* the image, and a CMD25 moves at least one.
ChunkInv ==
  pc \in WriteSteps =>
    /\ chunk.left > 0
    /\ chunk.buf + chunk.left = op.count
    /\ chunk.sector = op.start + chunk.buf

\* The sectors of the image that are on the card.
Done == IF pc = "cmd13w" THEN chunk.buf + Trans ELSE chunk.buf
DataInv ==
  stale = {} =>
    /\ pc \in WriteSteps /\ ~dropped =>
         \A i \in 0..(Done - 1):
           op.start + i \in Sectors /\ store[op.area][op.start + i] = i
    /\ pc = "cmd13e" => \A s \in 0..(Size[op.area] - 1): store[op.area][s] = Erased

IInv ==
  /\ TypeOK /\ KindInv /\ StateInv /\ WidthInv /\ CacheCoherent
  /\ AreaInv /\ StoreInv /\ ChunkInv /\ DataInv
  /\ OnlyTargetTouched /\ CompleteMeansDone

-----------------------------------------------------------------------------
(* Lemmas about the operators of the model.                                *)

\* Where a step that went well leads; the CASE of Route leaves it to After.
LEMMA AfterIs ==
  /\ After["clockId"] = "cmd0" /\ After["clockIdle"] = "cmd1"
  /\ After["clockCsd"] = "cmd16i" /\ After["clockHs"] = "cmd13hs"
  /\ After["cmd0"] = "clockIdle" /\ After["cmd1"] = "cmd2" /\ After["cmd2"] = "cmd3"
  /\ After["cmd3"] = "cmd9" /\ After["cmd9"] = "cmd7" /\ After["cmd7"] = "clockCsd"
  /\ After["cmd16i"] = "cmd8i" /\ After["cmd6hs"] = "clockHs"
  /\ After["cmd13hs"] = "cmd6bw" /\ After["cmd6bw"] = "cmd13bw" /\ After["cmd13bw"] = "cmd8bw"
  /\ After["cmd6"] = "cmd13" /\ After["cmd13"] = "cmd8"
  /\ After["cmd16"] = "cmd23" /\ After["cmd23"] = "cmd25" /\ After["cmd25"] = "cmd13w"
  /\ After["cmd35"] = "cmd36" /\ After["cmd36"] = "cmd38" /\ After["cmd38"] = "cmd13e"
  /\ After["cmd13e"] = "done"
BY DEF After

\* The steps that send a command are those of emmc_mount and those of the
\* command's own work.
ServingCommands == {"reread"} \cup Switching \cup WriteSteps \cup EraseSteps
LEMMA CommandStepsAre ==
  CommandSteps = (MountSteps \ ClockSteps) \cup ServingCommands
BY DEF CommandSteps, MountSteps, ClockSteps, Identify, DataSteps, ReadExtCsd, StatusSteps,
       ServingCommands, Switching, WriteSteps, EraseSteps

\* The size of a chunk, and what is left after it.
LEMMA TransIs ==
  ASSUME chunk \in [buf: Nat, sector: Nat, left: Nat]
  PROVE  /\ Trans \in Nat /\ Trans <= chunk.left
         /\ NextChunk(Trans) \in [buf: Nat, sector: Nat, left: Nat]
         /\ chunk.left > 0 => Trans > 0
BY SessionBounds DEF Trans, NextChunk

\* Sector numbers are the naturals below the size of some area.
LEMMA SectorsAre ==
  /\ Sectors \subseteq Nat
  /\ \A a \in Areas: 0..(Size[a] - 1) \subseteq Sectors
BY SizeAssumption DEF Sectors

\* A command that succeeds: where the program goes.
LEMMA SucceedsGoes ==
  ASSUME Succeeds
  PROVE  /\ outcome' = (IF pc' = "idle" THEN "complete" ELSE outcome)
         /\ pc = "cmd0" => pc' = "clockIdle"
         /\ pc = "cmd1" => pc' = "cmd2"
         /\ pc = "cmd2" => pc' = "cmd3"
         /\ pc = "cmd3" => pc' = "cmd9"
         /\ pc = "cmd9" => pc' = "cmd7"
         /\ pc = "cmd7" => pc' = "clockCsd"
         /\ pc = "cmd16i" => pc' = "cmd8i"
         /\ pc = "cmd8i" => pc' \in {"cmd6hs", "clockHs"}
         /\ pc = "cmd6hs" => pc' = "clockHs"
         /\ pc = "cmd13hs" => pc' = "cmd6bw"
         /\ pc = "cmd6bw" => pc' = "cmd13bw"
         /\ pc = "cmd13bw" => pc' = "cmd8bw"
         /\ pc = "cmd8bw" => pc' = (IF Serve(op.kind) = "done" THEN "idle" ELSE Serve(op.kind))
         /\ pc = "cmd6" => pc' = "cmd13"
         /\ pc = "cmd13" => pc' = "cmd8"
         /\ pc = "cmd8" => pc' = (IF call = "select" THEN "begin" ELSE "reread")
         /\ pc = "reread" =>
              pc' = (IF op.kind = "EM_SECSD" /\ call = "group" THEN "prompt" ELSE "idle")
         /\ pc = "cmd16" => pc' = "cmd23"
         /\ pc = "cmd23" => pc' = "cmd25"
         /\ pc = "cmd25" => pc' = "cmd13w"
         /\ pc = "cmd13w" => pc' = (IF chunk.left > Trans THEN "cmd16" ELSE "idle")
         /\ pc = "cmd35" => pc' = "cmd36"
         /\ pc = "cmd36" => pc' = "cmd38"
         /\ pc = "cmd38" => pc' = "cmd13e"
         /\ pc = "cmd13e" => pc' = "idle"
<1>1. PICK t: GoTo(Route(pc, t))
  BY DEF Succeeds
<1>2. pc' = (IF Route(pc, t) = "done" THEN "idle" ELSE Route(pc, t))
      /\ outcome' = (IF Route(pc, t) = "done" THEN "complete" ELSE outcome)
  BY <1>1 DEF GoTo
<1>3. pc \in CommandSteps
  BY DEF Succeeds
<1>4. outcome' = (IF pc' = "idle" THEN "complete" ELSE outcome)
  <2>1. Route(pc, t) # "idle"
    BY <1>3, AfterIs, CommandStepsAre
       DEF Route, Serve, MountSteps, ClockSteps, Identify, ServingCommands, Switching,
           WriteSteps, EraseSteps
  <2> QED
    BY <1>2, <2>1
<1>5. \A l \in {"cmd0", "cmd1", "cmd2", "cmd3", "cmd9", "cmd7", "cmd16i", "cmd6hs", "cmd13hs",
               "cmd6bw", "cmd13bw", "cmd6", "cmd13", "cmd16", "cmd23", "cmd25", "cmd35",
               "cmd36", "cmd38", "cmd13e"}: Route(l, t) = After[l]
  BY DEF Route
<1> QED
  BY <1>2, <1>4, <1>5, AfterIs DEF Route, Serve

-----------------------------------------------------------------------------
(* The initial states.                                                     *)

\* The initial states satisfy the invariant.
LEMMA InitInv == Init => IInv
<1> SUFFICES ASSUME Init PROVE IInv
  OBVIOUS
<1> USE DEF Init
<1>1. TypeOK
  <2>1. ProgramOK
    BY SessionBounds DEF ProgramOK, NoOp, Areas, NoChunk
  <2>2. DriverOK
    <3>1. cached \in Areas /\ hostWidth \in {1, 8}
      BY DEF Areas
    <3> QED
      BY <3>1 DEF DriverOK, Types
  <2>3. CardOK
    <3>1. Untouched \in [Areas -> [Sectors -> Int]]
      BY DEF Untouched, Old
    <3>2. cState \in {"idle", "ready", "ident", "stby", "tran"} /\ cWidth \in {1, 8}
      OBVIOUS
    <3> QED
      BY <3>1, <3>2 DEF CardOK
  <2>4. HistoryOK
    BY DEF HistoryOK
  <2> QED
    BY <2>1, <2>2, <2>3, <2>4 DEF TypeOK
<1>2. pc \notin Mounting /\ pc \notin Serving
  BY DEF Mounting, MountSteps, ClockSteps, Identify, Serving, Switching, WriteSteps, EraseSteps
<1>3. KindInv /\ StateInv /\ AreaInv /\ StoreInv /\ ChunkInv
  BY <1>2 DEF KindInv, StateInv, AreaInv, StoreInv, ChunkInv, Mounting, Serving, Switching
<1>4. WidthInv
  BY <1>2 DEF WidthInv, Mounting, Narrow, Wide, MountSteps, ClockSteps, Identify
<1>5. CacheCoherent /\ DataInv /\ OnlyTargetTouched /\ CompleteMeansDone
  BY DEF CacheCoherent, DataInv, OnlyTargetTouched, CompleteMeansDone
<1> QED
  BY <1>1, <1>3, <1>4, <1>5 DEF IInv

-----------------------------------------------------------------------------
(* The types.                                                              *)

LEMMA ProgramStep ==
  TypeOK /\ KindInv /\ [Next]_vars => ProgramOK'
<1> SUFFICES ASSUME TypeOK, KindInv, [Next]_vars PROVE ProgramOK'
  OBVIOUS
<1> USE SessionBounds DEF TypeOK, ProgramOK, driver, device, history, command
<1>1. ASSUME NEW k \in Kinds, Start(k) PROVE ProgramOK'
  BY <1>1 DEF Start, NoOp, NoChunk, Areas, Serve, Mounting, Serving, Switching
<1>2. ASSUME NEW k \in Kinds, NEW o \in Answers(k), Answer(o) PROVE ProgramOK'
  <2>1. o \in [kind: Kinds, area: Areas, start: Nat, count: Nat, field: Fields \cup {"none"}]
    BY SectorsAre DEF Answers, Kinds
  <2> QED
    BY <1>2, <2>1 DEF Answer, Serving, Switching
<1>3. CASE EmmcInit
  BY <1>3 DEF EmmcInit, Mounting
<1>4. CASE EnterMount
  BY <1>4 DEF EnterMount, GoTo, Abandon, Mounting, MountSteps, ClockSteps
<1>5. CASE SetClock
  <2>1. pc \in ClockSteps => After[pc] \in MountSteps
    BY AfterIs DEF ClockSteps, MountSteps, Identify
  <2> QED
    BY <1>5, <2>1 DEF SetClock, GoTo, Abandon, Mounting
<1>6. CASE StopClock
  BY <1>6 DEF StopClock
<1>7. CASE Select
  BY <1>7 DEF Select, GoTo, Abandon, Serving, Switching, Mounting
<1>8. CASE Begin
  BY <1>8 DEF Begin, GoTo, Abandon, Serving, Mounting, WriteSteps, EraseSteps
<1>9. CASE Succeeds
  <2>1. pc' \in {"idle"} \cup Mounting \cup Serving
    BY <1>9, SucceedsGoes, CommandStepsAre
       DEF Succeeds, Mounting, MountSteps, ClockSteps, Identify, ServingCommands,
           Serving, Switching, WriteSteps, EraseSteps, Serve
  <2>2. outcome' \in {"none", "complete", "error", "cancelled"}
    BY <1>9, SucceedsGoes
  <2>3. chunk' \in [buf: Nat, sector: Nat, left: Nat]
    BY <1>9, TransIs DEF Succeeds
  <2> QED
    BY <1>9, <2>1, <2>2, <2>3 DEF Succeeds
<1>10. CASE StillBusy
  BY <1>10 DEF StillBusy, Abandon, Mounting
<1>11. CASE Fails
  BY <1>11 DEF Fails, Abandon, Mounting
<1>12. CASE UNCHANGED vars
  BY <1>12 DEF vars
<1> HIDE DEF TypeOK, ProgramOK, driver, device, history, command
<1> QED
  BY <1>1, <1>2, <1>3, <1>4, <1>5, <1>6, <1>7, <1>8, <1>9, <1>10, <1>11, <1>12
     DEF Next, Step, User

LEMMA DriverStep ==
  TypeOK /\ [Next]_vars => DriverOK'
<1> SUFFICES ASSUME TypeOK, [Next]_vars PROVE DriverOK'
  OBVIOUS
<1> USE CardsAssumption DEF TypeOK, DriverOK, CardOK, driver, device, CardKinds
<1>1. ASSUME NEW k \in Kinds, Start(k) PROVE DriverOK'
  BY <1>1 DEF Start
<1>2. ASSUME NEW k \in Kinds, NEW o \in Answers(k), Answer(o) PROVE DriverOK'
  BY <1>2 DEF Answer
<1>3. CASE EmmcInit
  <2>1. cached' \in Areas /\ hostWidth' \in {1, 8} /\ csdType' \in Types
    BY <1>3 DEF EmmcInit, Areas, Types
  <2> QED
    BY <1>3, <2>1 DEF EmmcInit
<1>4. CASE EnterMount
  BY <1>4 DEF EnterMount
<1>5. CASE SetClock
  <2>1. ClockAt(pc) \in {Mhz0_4, Mhz20, Mhz26, Mhz52}
    BY <1>5 DEF SetClock, ClockAt, ClockSteps, HighSpeedClock
  <2> QED
    BY <1>5, <2>1 DEF SetClock
<1>6. CASE StopClock
  BY <1>6 DEF StopClock, InitReturns
<1>7. CASE Select
  BY <1>7 DEF Select
<1>8. CASE Begin
  BY <1>8 DEF Begin
<1>9. CASE Succeeds
  BY <1>9 DEF Succeeds, Keeps, InitReturns
<1>10. CASE StillBusy
  BY <1>10 DEF StillBusy
<1>11. CASE Fails
  BY <1>11 DEF Fails, Keeps
<1>12. CASE UNCHANGED vars
  BY <1>12 DEF vars
<1> HIDE DEF TypeOK, DriverOK, CardOK, driver, device, CardKinds
<1> QED
  BY <1>1, <1>2, <1>3, <1>4, <1>5, <1>6, <1>7, <1>8, <1>9, <1>10, <1>11, <1>12
     DEF Next, Step, User

\* What a command does to the card leaves it a card.
LEMMA ExecutesType ==
  ASSUME TypeOK, NEW m \in Nat, Executes(pc, m), card' = card
  PROVE  CardOK' /\ overridden' \subseteq {"BUS_WIDTH", "HS_TIMING"}
<1> USE DEF TypeOK
<1>1. StoreAfter(pc, m) \in [Areas -> [Sectors -> Int]]
  BY SectorsAre DEF StoreAfter, CardOK, ProgramOK, Erased
<1>2. cWidth' \in {1, 8} /\ cHs' \in BOOLEAN /\ cSwitchError' \in BOOLEAN
  BY DEF Executes, CardOK
<1>3. cArea' \in Areas
  BY DEF Executes, CardOK, ProgramOK, Areas
<1>4. cState' \in {"idle", "ready", "ident", "stby", "tran"}
  BY DEF Executes, CardOK
<1>5. overridden' \subseteq {"BUS_WIDTH", "HS_TIMING"}
  BY DEF Executes, HistoryOK
<1> QED
  BY <1>1, <1>2, <1>3, <1>4, <1>5 DEF Executes, CardOK

LEMMA CardStep ==
  TypeOK /\ [Next]_vars => CardOK' /\ HistoryOK'
<1> SUFFICES ASSUME TypeOK, [Next]_vars PROVE CardOK' /\ HistoryOK'
  OBVIOUS
<1> USE DEF TypeOK, CardOK, HistoryOK, driver, device, history
<1>1. ASSUME NEW k \in Kinds, Start(k) PROVE CardOK' /\ HistoryOK'
  <2>1. Untouched \in [Areas -> [Sectors -> Int]]
    BY DEF Untouched, Old
  <2> QED
    BY <1>1, <2>1 DEF Start
<1>2. ASSUME NEW k \in Kinds, NEW o \in Answers(k), Answer(o) PROVE CardOK' /\ HistoryOK'
  BY <1>2 DEF Answer
<1>3. CASE EmmcInit
  BY <1>3 DEF EmmcInit
<1>4. CASE EnterMount
  BY <1>4 DEF EnterMount
<1>5. CASE SetClock
  BY <1>5 DEF SetClock
<1>6. CASE StopClock
  BY <1>6 DEF StopClock
<1>7. CASE Select
  BY <1>7 DEF Select
<1>8. CASE Begin
  BY <1>8 DEF Begin
<1>9. CASE Succeeds
  <2>1. PICK clean \in {TRUE, pc \notin DataSteps}, m \in 0..Trans:
          /\ Executes(pc, m)
          /\ dropped' = (dropped \/ (pc = "cmd25" /\ ~clean))
          /\ stale' \in {stale, {}, {"misread"}}
    BY <1>9 DEF Succeeds
  <2>2. m \in Nat
    BY TransIs DEF ProgramOK
  <2>3. card' = card
    BY <1>9 DEF Succeeds
  <2>4. CardOK' /\ overridden' \subseteq {"BUS_WIDTH", "HS_TIMING"}
    BY <2>1, <2>2, <2>3, ExecutesType
  <2> QED
    BY <2>1, <2>4
<1>10. CASE StillBusy
  BY <1>10 DEF StillBusy
<1>11. CASE Fails
  <2>1. stale' \subseteq {"switch", "misread"} /\ dropped' \in BOOLEAN /\ card' = card
    BY <1>11 DEF Fails
  <2>2. ASSUME NEW m \in 0..Trans, Executes(pc, m)
        PROVE CardOK' /\ overridden' \subseteq {"BUS_WIDTH", "HS_TIMING"}
    <3>1. m \in Nat
      BY TransIs DEF ProgramOK
    <3> QED
      BY <2>1, <2>2, <3>1, ExecutesType
  <2>3. ASSUME cSwitchError' = (cSwitchError /\ ~(CanSend(pc) /\ pc \in StatusSteps)),
               UNCHANGED <<cState, cWidth, cHs, cArea, store, overridden>>
        PROVE CardOK' /\ overridden' \subseteq {"BUS_WIDTH", "HS_TIMING"}
    BY <2>1, <2>3
  <2> QED
    BY <1>11, <2>1, <2>2, <2>3 DEF Fails
<1>12. CASE UNCHANGED vars
  BY <1>12 DEF vars
<1> HIDE DEF TypeOK, CardOK, HistoryOK, driver, device, history
<1> QED
  BY <1>1, <1>2, <1>3, <1>4, <1>5, <1>6, <1>7, <1>8, <1>9, <1>10, <1>11, <1>12
     DEF Next, Step, User

LEMMA TypeStep ==
  TypeOK /\ KindInv /\ [Next]_vars => TypeOK'
BY ProgramStep, DriverStep, CardStep DEF TypeOK

-----------------------------------------------------------------------------
(* Where a step leads and who is at it.                                    *)

\* A step that fails ends the command, or emmc_mount.
LEMMA AbandonGoes ==
  ASSUME Abandon
  PROVE  /\ pc \in MountSteps => pc' = "stop" /\ outcome' = outcome
         /\ pc \notin MountSteps => pc' = "idle" /\ outcome' = "error"
BY DEF Abandon

\* Every step asked for by a command is one of that command.
LEMMA KindStep ==
  TypeOK /\ KindInv /\ [Next]_vars => KindInv'
<1> SUFFICES ASSUME TypeOK, KindInv, [Next]_vars PROVE KindInv'
  OBVIOUS
<1> USE DEF KindInv, driver, device, history, command, Mounting, Switching, WriteSteps, EraseSteps
<1>1. ASSUME NEW k \in Kinds, Start(k) PROVE KindInv'
  BY <1>1 DEF Start, NoOp, Serve, MountSteps, ClockSteps, Identify, Kinds
<1>2. ASSUME NEW k \in Kinds, k = op.kind, NEW o \in Answers(k), Answer(o) PROVE KindInv'
  <2>1. o.kind = k
    BY DEF Answers
  <2> QED
    BY <1>2, <2>1 DEF Answer, MountSteps, ClockSteps, Identify
<1>3. CASE EmmcInit
  BY <1>3 DEF EmmcInit, MountSteps, ClockSteps, Identify
<1>4. CASE EnterMount
  BY <1>4 DEF EnterMount, Abandon, GoTo, MountSteps, ClockSteps, Identify
<1>5. CASE SetClock
  <2>1. pc' \in MountSteps \cup {"stop"} /\ pc # "idle" /\ outcome' = outcome
    BY <1>5, AfterIs, AbandonGoes DEF SetClock, GoTo, ClockSteps, MountSteps, Identify
  <2> QED
    BY <1>5, <2>1 DEF SetClock, MountSteps, ClockSteps, Identify
<1>6. CASE StopClock
  BY <1>6 DEF StopClock, MountSteps, ClockSteps, Identify
<1>7. CASE Select
  BY <1>7 DEF Select, Abandon, GoTo, MountSteps, ClockSteps, Identify
<1>8. CASE Begin
  BY <1>8 DEF Begin, Abandon, GoTo, MountSteps, ClockSteps, Identify
<1>9. CASE Succeeds
  <2>1. UNCHANGED <<op, call>> /\ pc \in (MountSteps \ ClockSteps) \cup ServingCommands
    BY <1>9, CommandStepsAre DEF Succeeds
  <2>2. CASE pc \in MountSteps
    <3>1. CASE pc = "cmd8bw"
      <4>1. pc' = (IF Serve(op.kind) = "done" THEN "idle" ELSE Serve(op.kind))
            /\ outcome' = (IF pc' = "idle" THEN "complete" ELSE outcome)
        BY <1>9, <3>1, SucceedsGoes
      <4>2. op.kind \in Kinds /\ outcome = "none" /\ call = "group"
        BY <2>2, <3>1
      <4> QED
        BY <2>1, <4>1, <4>2 DEF Serve, Kinds, MountSteps, ClockSteps, Identify
    <3>2. CASE pc # "cmd8bw"
      <4>1. pc' \in MountSteps /\ outcome' = outcome
        BY <1>9, <2>1, <2>2, <3>2, SucceedsGoes DEF MountSteps, ClockSteps, Identify, ServingCommands
      <4> QED
        BY <2>1, <2>2, <3>2, <4>1 DEF MountSteps, ClockSteps, Identify
    <3> QED
      BY <3>1, <3>2
  <2>3. CASE pc \in ServingCommands
    BY <1>9, <2>1, <2>3, SucceedsGoes DEF ServingCommands, MountSteps, ClockSteps, Identify
  <2> QED
    BY <2>1, <2>2, <2>3
<1>10. CASE StillBusy
  BY <1>10 DEF StillBusy, Abandon, MountSteps, ClockSteps, Identify
<1>11. CASE Fails
  BY <1>11, AbandonGoes, CommandStepsAre
     DEF Fails, ServingCommands, MountSteps, ClockSteps, Identify
<1>12. CASE UNCHANGED vars
  BY <1>12 DEF vars
<1> HIDE DEF KindInv, driver, device, history, command, Mounting, Switching, WriteSteps, EraseSteps
<1> QED
  BY <1>1, <1>2, <1>3, <1>4, <1>5, <1>6, <1>7, <1>8, <1>9, <1>10, <1>11, <1>12
     DEF Next, Step, User

\* emmcInit and the state of the card go with the step.
LEMMA StateStep ==
  TypeOK /\ TypeOK' /\ StateInv /\ [Next]_vars => StateInv'
<1> SUFFICES ASSUME TypeOK, TypeOK', StateInv, [Next]_vars PROVE StateInv'
  OBVIOUS
<1> USE DEF StateInv, driver, device, history, command, Mounting, Serving, Switching,
            WriteSteps, EraseSteps, MountSteps, ClockSteps, Identify
<1>0. cState' \in {"idle", "ready", "ident", "stby", "tran"}
  BY DEF TypeOK, CardOK
<1>1. ASSUME NEW k \in Kinds, Start(k) PROVE StateInv'
  BY <1>1 DEF Start, Serve, StateAt, TypeOK, CardOK
<1>2. ASSUME NEW k \in Kinds, k = op.kind, NEW o \in Answers(k), Answer(o) PROVE StateInv'
  BY <1>2 DEF Answer
<1>3. CASE EmmcInit
  BY <1>0, <1>3 DEF EmmcInit, StateAt
<1>4. CASE EnterMount
  BY <1>0, <1>4 DEF EnterMount, Abandon, GoTo, StateAt
<1>5. CASE SetClock
  <2>1. CASE Abandon
    BY <1>0, <1>5, <2>1, AbandonGoes DEF SetClock, StateAt
  <2>2. CASE GoTo(After[pc])
    <3>1. /\ pc = "clockId" => pc' = "cmd0"
          /\ pc = "clockIdle" => pc' = "cmd1"
          /\ pc = "clockCsd" => pc' = "cmd16i"
          /\ pc = "clockHs" => pc' = "cmd13hs"
      BY <2>2, AfterIs DEF GoTo
    <3> QED
      BY <1>0, <1>5, <3>1 DEF SetClock, StateAt, StateFor
  <2> QED
    BY <1>5, <2>1, <2>2 DEF SetClock
<1>6. CASE StopClock
  BY <1>6 DEF StopClock, InitReturns
<1>7. CASE Select
  BY <1>7 DEF Select, Abandon, GoTo
<1>8. CASE Begin
  BY <1>8 DEF Begin, Abandon, GoTo
<1>9. CASE Succeeds
  <2>1. PICK m \in 0..Trans: Executes(pc, m)
    BY <1>9 DEF Succeeds
  <2>2. cState' = (CASE pc = "cmd0" -> "idle"  [] pc = "cmd1" -> "ready"
                    [] pc = "cmd2" -> "ident" [] pc = "cmd3" -> "stby"
                    [] pc = "cmd7" -> "tran"  [] OTHER -> cState)
    BY <2>1 DEF Executes
  <2>3. /\ pc = "cmd8bw" => emmcInit'
        /\ pc # "cmd8bw" => emmcInit' = emmcInit
        /\ cState \in StateFor(pc)
    BY <1>9 DEF Succeeds, InitReturns, Accepts
  <2>4. CASE pc \in MountSteps \ ClockSteps
    <3>1. CASE pc = "cmd8bw"
      BY <1>9, <2>2, <2>3, <3>1, SucceedsGoes DEF Serve, StateFor, KindInv
    <3>2. CASE pc # "cmd8bw"
      BY <1>9, <2>2, <2>3, <2>4, <3>2, SucceedsGoes DEF StateAt, StateFor
    <3> QED
      BY <3>1, <3>2
  <2>5. CASE pc \in ServingCommands
    BY <1>9, <2>2, <2>3, <2>5, SucceedsGoes DEF ServingCommands
  <2> QED
    BY <1>9, <2>4, <2>5, CommandStepsAre DEF Succeeds
<1>10. CASE StillBusy
  BY <1>0, <1>10 DEF StillBusy, Abandon, StateAt
<1>11. CASE Fails
  <2>1. emmcInit' = emmcInit /\ Abandon
    BY <1>11 DEF Fails
  <2>2. CASE pc \in MountSteps \ ClockSteps
    BY <1>0, <2>1, <2>2, AbandonGoes DEF StateAt
  <2>3. CASE pc \in ServingCommands
    <3>1. cState' = cState
      BY <1>11, <2>3 DEF Fails, Executes, ServingCommands
    <3> QED
      BY <2>1, <2>3, <3>1, AbandonGoes DEF ServingCommands
  <2> QED
    BY <1>11, <2>2, <2>3, CommandStepsAre DEF Fails
<1>12. CASE UNCHANGED vars
  BY <1>12 DEF vars, StateAt, StateFor
<1> HIDE DEF StateInv, driver, device, history, command, Mounting, Serving, Switching,
             WriteSteps, EraseSteps, MountSteps, ClockSteps, Identify
<1> QED
  BY <1>1, <1>2, <1>3, <1>4, <1>5, <1>6, <1>7, <1>8, <1>9, <1>10, <1>11, <1>12
     DEF Next, Step, User

\* The widths of the bus at both ends.
LEMMA WidthStep ==
  TypeOK /\ StateInv /\ WidthInv /\ [Next]_vars => WidthInv'
<1> SUFFICES ASSUME TypeOK, StateInv, WidthInv, [Next]_vars PROVE WidthInv'
  OBVIOUS
<1> USE DEF WidthInv, driver, device, history, command, Wide, Narrow,
            MountSteps, ClockSteps, Identify
<1>0. ASSUME emmcInit PROVE pc \notin MountSteps \cup {"init", "enter", "stop"}
  BY <1>0 DEF StateInv, Mounting
<1>1. ASSUME NEW k \in Kinds, Start(k) PROVE WidthInv'
  BY <1>1 DEF Start, Serve
<1>2. ASSUME NEW k \in Kinds, k = op.kind, NEW o \in Answers(k), Answer(o) PROVE WidthInv'
  BY <1>2 DEF Answer
<1>3. CASE EmmcInit
  BY <1>0, <1>3 DEF EmmcInit
<1>4. CASE EnterMount
  BY <1>4 DEF EnterMount, Abandon, GoTo
<1>5. CASE SetClock
  <2>1. CASE Abandon
    BY <1>5, <2>1, AbandonGoes DEF SetClock
  <2>2. CASE GoTo(After[pc])
    <3>1. /\ pc = "clockId" => pc' = "cmd0"
          /\ pc = "clockIdle" => pc' = "cmd1"
          /\ pc = "clockCsd" => pc' = "cmd16i"
          /\ pc = "clockHs" => pc' = "cmd13hs"
      BY <2>2, AfterIs DEF GoTo
    <3> QED
      BY <1>5, <3>1 DEF SetClock
  <2> QED
    BY <1>5, <2>1, <2>2 DEF SetClock
<1>6. CASE StopClock
  BY <1>6 DEF StopClock, InitReturns
<1>7. CASE Select
  BY <1>7 DEF Select, Abandon, GoTo
<1>8. CASE Begin
  BY <1>8 DEF Begin, Abandon, GoTo
<1>9. CASE Succeeds
  <2>1. PICK m \in 0..Trans: Executes(pc, m)
    BY <1>9 DEF Succeeds
  <2>2. /\ cWidth' = (CASE pc = "cmd0" \/ UserSets(pc, "BUS_WIDTH") -> 1
                       [] pc = "cmd6bw" -> 8 [] OTHER -> cWidth)
        /\ overridden' = overridden \cup {f \in {"BUS_WIDTH", "HS_TIMING"}: UserSets(pc, f)}
    BY <2>1 DEF Executes
  <2>3. /\ hostWidth' = (IF pc = "cmd6bw" THEN 8 ELSE hostWidth)
        /\ pc # "cmd8bw" => emmcInit' = emmcInit
    BY <1>9 DEF Succeeds, InitReturns
  <2>4. CASE pc \in MountSteps \ ClockSteps
    BY <1>0, <1>9, <2>2, <2>3, <2>4, SucceedsGoes DEF UserSets, Serve
  <2>5. CASE pc \in ServingCommands
    <3>1. pc' \notin MountSteps \cup {"enter"}
      BY <1>9, <2>5, SucceedsGoes
         DEF ServingCommands, Switching, WriteSteps, EraseSteps
    <3>2. cWidth' = cWidth \/ (pc = "cmd6" /\ "BUS_WIDTH" \in overridden')
      BY <2>2, <2>5 DEF UserSets, ServingCommands, Switching, WriteSteps, EraseSteps
    <3>3. overridden \subseteq overridden' /\ hostWidth' = hostWidth /\ emmcInit' = emmcInit
      BY <2>2, <2>3, <2>5 DEF ServingCommands, Switching, WriteSteps, EraseSteps
    <3> QED
      BY <3>1, <3>2, <3>3
  <2> QED
    BY <1>9, <2>4, <2>5, CommandStepsAre DEF Succeeds
<1>10. CASE StillBusy
  BY <1>10 DEF StillBusy, Abandon
<1>11. CASE Fails
  <2>1. emmcInit' = emmcInit /\ hostWidth' = hostWidth /\ pc' \in {"stop", "idle"}
    BY <1>11, AbandonGoes DEF Fails
  <2>2. ASSUME emmcInit
        PROVE  /\ overridden \subseteq overridden'
               /\ cWidth' = cWidth \/ "BUS_WIDTH" \in overridden'
    <3>1. CASE UNCHANGED <<cWidth, overridden>>
      BY <3>1
    <3>2. ASSUME NEW m \in 0..Trans, Executes(pc, m)
          PROVE  /\ overridden \subseteq overridden'
                 /\ cWidth' = cWidth \/ "BUS_WIDTH" \in overridden'
      BY <1>0, <2>2, <3>2 DEF Executes
    <3> QED
      BY <1>11, <3>1, <3>2 DEF Fails
  <2> QED
    BY <2>1, <2>2
<1>12. CASE UNCHANGED vars
  BY <1>12 DEF vars
<1> HIDE DEF WidthInv, driver, device, history, command, Wide, Narrow,
             MountSteps, ClockSteps, Identify
<1> QED
  BY <1>1, <1>2, <1>3, <1>4, <1>5, <1>6, <1>7, <1>8, <1>9, <1>10, <1>11, <1>12
     DEF Next, Step, User

\* ext_csd_data and the card.
LEMMA CacheStep ==
  TypeOK /\ StateInv /\ CacheCoherent /\ [Next]_vars => CacheCoherent'
<1> SUFFICES ASSUME TypeOK, StateInv, CacheCoherent, [Next]_vars PROVE CacheCoherent'
  OBVIOUS
<1> USE DEF CacheCoherent, driver, device, history, command
<1>0. ASSUME emmcInit PROVE pc \notin MountSteps \cup {"init", "enter", "stop"}
  BY <1>0 DEF StateInv, Mounting
<1>1. ASSUME NEW k \in Kinds, Start(k) PROVE CacheCoherent'
  <2>1. pc \notin {"cmd13", "cmd8"}
    BY <1>1 DEF Start
  <2> QED
    BY <1>1, <2>1 DEF Start
<1>2. ASSUME NEW k \in Kinds, k = op.kind, NEW o \in Answers(k), Answer(o) PROVE CacheCoherent'
  BY <1>2 DEF Answer
<1>3. CASE EmmcInit
  BY <1>3 DEF EmmcInit
<1>4. CASE EnterMount
  BY <1>0, <1>4 DEF EnterMount
<1>5. CASE SetClock
  BY <1>0, <1>5 DEF SetClock, MountSteps
<1>6. CASE StopClock
  BY <1>0, <1>6 DEF StopClock, InitReturns
<1>7. CASE Select
  BY <1>7 DEF Select
<1>8. CASE Begin
  BY <1>8 DEF Begin
<1>9. CASE Succeeds
  <2>1. PICK clean \in {TRUE, pc \notin DataSteps}, m \in 0..Trans, a \in Areas:
          /\ clean => a = cArea
          /\ Executes(pc, m)
          /\ IF pc \in ReadExtCsd
             THEN cached' = a /\ stale' = (IF clean THEN {} ELSE {"misread"})
             ELSE UNCHANGED <<cached, stale>>
    BY <1>9 DEF Succeeds
  <2>2. CASE pc \in ReadExtCsd
    <3>1. cArea' = cArea
      BY <2>1, <2>2 DEF Executes, ReadExtCsd, UserSets
    <3> QED
      BY <2>1, <2>2, <3>1
  <2>3. CASE pc \notin ReadExtCsd /\ emmcInit
    <3>1. pc = "cmd6" => pc' = "cmd13"
      BY <1>9, SucceedsGoes
    <3>2. pc \notin {"cmd6", "cmd0"} => cArea' = cArea
      BY <2>1 DEF Executes, UserSets
    <3>3. pc = "cmd13" => pc' = "cmd8"
      BY <1>9, SucceedsGoes
    <3>4. pc # "cmd0" /\ pc # "cmd8"
      BY <1>0, <2>3 DEF MountSteps, Identify, ReadExtCsd
    <3> QED
      BY <2>1, <2>3, <3>1, <3>2, <3>3, <3>4
  <2>4. CASE pc \notin ReadExtCsd /\ ~emmcInit
    <3>1. ~emmcInit'
      BY <1>9, <2>4 DEF Succeeds, InitReturns, ReadExtCsd
    <3> QED
      BY <3>1
  <2> QED
    BY <2>2, <2>3, <2>4
<1>10. CASE StillBusy
  BY <1>0, <1>10 DEF StillBusy, MountSteps, Identify
<1>11. CASE Fails
  <2>1. /\ emmcInit' = emmcInit
        /\ cached' \in {cached, cArea}
        /\ stale' = stale \cup {r \in {"switch"}: pc \in {"cmd6", "cmd13", "cmd8"}}
    BY <1>11 DEF Fails
  <2>2. SUFFICES ASSUME emmcInit, stale' = {} PROVE cached' = cArea'
    BY <2>1
  <2>3. pc \notin {"cmd6", "cmd13", "cmd8"} /\ stale = {}
    BY <2>1, <2>2
  <2>4. pc # "cmd0"
    BY <1>0, <2>2 DEF MountSteps, Identify
  <2>5. cArea' = cArea
    BY <1>11, <2>3, <2>4 DEF Fails, Executes, UserSets
  <2> QED
    BY <2>1, <2>2, <2>3, <2>5
<1>12. CASE UNCHANGED vars
  BY <1>12 DEF vars
<1> HIDE DEF CacheCoherent, driver, device, history, command
<1> QED
  BY <1>1, <1>2, <1>3, <1>4, <1>5, <1>6, <1>7, <1>8, <1>9, <1>10, <1>11, <1>12
     DEF Next, Step, User

-----------------------------------------------------------------------------
(* The area, the chunks and the sectors.                                   *)

\* No step of the monitor's commands changes the area but CMD0 and CMD6, and
\* none but CMD25 and CMD38 a sector.
LEMMA ExecutesFrame ==
  ASSUME NEW m, Executes(pc, m)
  PROVE  /\ pc \notin {"cmd0", "cmd6"} => cArea' = cArea
         /\ pc = "cmd6" /\ call = "select" => cArea' = op.area
         /\ pc \notin {"cmd25", "cmd38"} => store' = store
BY DEF Executes, UserSets, StoreAfter

\* Where a command writes, the card is in its area.
LEMMA AreaStep ==
  TypeOK /\ StateInv /\ CacheCoherent /\ AreaInv /\ [Next]_vars => AreaInv'
<1> SUFFICES ASSUME TypeOK, StateInv, CacheCoherent, AreaInv, [Next]_vars PROVE AreaInv'
  OBVIOUS
<1> USE DEF AreaInv, driver, device, history, command, WriteSteps, EraseSteps
<1>1. ASSUME NEW k \in Kinds, Start(k) PROVE AreaInv'
  BY <1>1 DEF Start, Serve
<1>2. ASSUME NEW k \in Kinds, k = op.kind, NEW o \in Answers(k), Answer(o) PROVE AreaInv'
  BY <1>2 DEF Answer
<1>3. CASE EmmcInit
  BY <1>3 DEF EmmcInit
<1>4. CASE EnterMount
  BY <1>4 DEF EnterMount, Abandon, GoTo
<1>5. CASE SetClock
  BY <1>5, AfterIs, AbandonGoes DEF SetClock, GoTo, ClockSteps, MountSteps
<1>6. CASE StopClock
  BY <1>6 DEF StopClock
<1>7. CASE Select
  <2>1. pc' = "begin" => mount /\ cached = op.area
    BY <1>7 DEF Select, Abandon, GoTo, AreaSelected
  <2>2. emmcInit
    BY <1>7 DEF Select, StateInv, Serving
  <2>3. pc' \in {"begin", "cmd6", "stop", "idle"} /\ UNCHANGED <<op, stale, cArea>> /\ pc = "select"
    BY <1>7 DEF Select, Abandon, GoTo
  <2> QED
    BY <2>1, <2>2, <2>3 DEF CacheCoherent
<1>8. CASE Begin
  BY <1>8 DEF Begin, Abandon, GoTo
<1>9. CASE Succeeds
  <2>1. PICK m \in 0..Trans: Executes(pc, m)
    BY <1>9 DEF Succeeds
  <2>2. UNCHANGED <<op, call>> /\ pc \in (MountSteps \ ClockSteps) \cup ServingCommands
    BY <1>9, CommandStepsAre DEF Succeeds
  <2>3. pc \notin ReadExtCsd => stale' = stale
    BY <1>9 DEF Succeeds
  <2>4. CASE pc \in MountSteps
    <3>1. pc = "cmd8bw" => pc' \in {"prompt", "cmd6", "reread", "idle"}
      BY <1>9, SucceedsGoes DEF Serve
    <3>2. pc' \in MountSteps \cup {"prompt", "cmd6", "reread", "idle"}
      BY <1>9, <2>2, <2>4, <3>1, SucceedsGoes
         DEF MountSteps, ClockSteps, Identify, ServingCommands, Switching
    <3> QED
      BY <3>2 DEF MountSteps, ClockSteps, Identify
  <2>5. CASE pc \in Switching
    <3>1. pc = "cmd6" => pc' = "cmd13" /\ (call = "select" => cArea' = op.area)
      BY <1>9, <2>1, SucceedsGoes, ExecutesFrame
    <3>2. pc = "cmd13" => pc' = "cmd8" /\ cArea' = cArea
      BY <1>9, <2>1, SucceedsGoes, ExecutesFrame
    <3>3. pc = "cmd8" => pc' = (IF call = "select" THEN "begin" ELSE "reread") /\ cArea' = cArea
      BY <1>9, <2>1, SucceedsGoes, ExecutesFrame
    <3> QED
      BY <2>2, <2>5, <3>1, <3>2, <3>3 DEF Switching
  <2>6. CASE pc \in {"reread"}
    BY <1>9, <2>6, SucceedsGoes
  <2>7. CASE pc \in WriteSteps \cup EraseSteps
    <3>1. pc' \in WriteSteps \cup EraseSteps \cup {"idle"}
      BY <1>9, <2>7, SucceedsGoes
    <3>2. cArea' = cArea /\ stale' = stale
      BY <2>1, <2>3, <2>7, ExecutesFrame DEF ReadExtCsd
    <3> QED
      BY <2>2, <2>7, <3>1, <3>2
  <2> QED
    BY <2>2, <2>4, <2>5, <2>6, <2>7 DEF ServingCommands
<1>10. CASE StillBusy
  BY <1>10 DEF StillBusy, Abandon
<1>11. CASE Fails
  BY <1>11, AbandonGoes DEF Fails
<1>12. CASE UNCHANGED vars
  BY <1>12 DEF vars
<1> HIDE DEF AreaInv, driver, device, history, command, WriteSteps, EraseSteps
<1> QED
  BY <1>1, <1>2, <1>3, <1>4, <1>5, <1>6, <1>7, <1>8, <1>9, <1>10, <1>11, <1>12
     DEF Next, Step, User

\* Nothing is written before CMD25 or CMD38.
LEMMA StoreStep ==
  TypeOK /\ StoreInv /\ [Next]_vars => StoreInv'
<1> SUFFICES ASSUME TypeOK, StoreInv, [Next]_vars PROVE StoreInv'
  OBVIOUS
<1> USE DEF StoreInv, driver, device, history, command, Mounting, Serving, Switching,
            WriteSteps, EraseSteps, MountSteps, ClockSteps, Identify
<1>1. ASSUME NEW k \in Kinds, Start(k) PROVE StoreInv'
  BY <1>1 DEF Start
<1>2. ASSUME NEW k \in Kinds, k = op.kind, NEW o \in Answers(k), Answer(o) PROVE StoreInv'
  BY <1>2 DEF Answer
<1>3. CASE EmmcInit
  BY <1>3 DEF EmmcInit
<1>4. CASE EnterMount
  BY <1>4 DEF EnterMount
<1>5. CASE SetClock
  BY <1>5 DEF SetClock
<1>6. CASE StopClock
  BY <1>6 DEF StopClock
<1>7. CASE Select
  BY <1>7 DEF Select
<1>8. CASE Begin
  BY <1>8 DEF Begin
<1>9. CASE Succeeds
  <2>1. PICK m \in 0..Trans: Executes(pc, m)
    BY <1>9 DEF Succeeds
  <2>2. pc \in (MountSteps \ ClockSteps) \cup ServingCommands
    BY <1>9, CommandStepsAre DEF Succeeds
  <2>3. CASE pc \in WriteSteps \cup EraseSteps
    BY <1>9, <2>3, SucceedsGoes
  <2>4. CASE pc \notin WriteSteps \cup EraseSteps
    BY <2>1, <2>2, <2>4, ExecutesFrame DEF ServingCommands
  <2> QED
    BY <2>3, <2>4
<1>10. CASE StillBusy
  BY <1>10 DEF StillBusy
<1>11. CASE Fails
  <2>1. CASE pc' = "stop"
    <3>1. pc \in MountSteps
      BY <1>11, <2>1, AbandonGoes DEF Fails
    <3> QED
      BY <1>11, <3>1, ExecutesFrame DEF Fails
  <2> QED
    BY <1>11, <2>1, AbandonGoes DEF Fails
<1>12. CASE UNCHANGED vars
  BY <1>12 DEF vars
<1> HIDE DEF StoreInv, driver, device, history, command, Mounting, Serving, Switching,
             WriteSteps, EraseSteps, MountSteps, ClockSteps, Identify
<1> QED
  BY <1>1, <1>2, <1>3, <1>4, <1>5, <1>6, <1>7, <1>8, <1>9, <1>10, <1>11, <1>12
     DEF Next, Step, User

\* Which steps lead into the loop of emmc_write_sector and to its parts.
LEMMA WriteEntered ==
  ASSUME TypeOK, [Next]_vars, pc' \in WriteSteps \cup {"cmd13e"}
  PROVE  \/ Begin /\ pc' = "cmd16" /\ op.count > 0
         \/ Succeeds /\ pc \in WriteSteps /\ pc' \in WriteSteps
         \/ Succeeds /\ pc \in EraseSteps /\ pc' = "cmd13e" /\ pc = "cmd38"
         \/ UNCHANGED vars
<1> USE DEF WriteSteps, EraseSteps
<1>1. ASSUME NEW k \in Kinds, Start(k) PROVE FALSE
  BY <1>1 DEF Start, Serve
<1>2. ASSUME NEW k \in Kinds, k = op.kind, NEW o \in Answers(k), Answer(o) PROVE FALSE
  BY <1>2 DEF Answer
<1>3. CASE EmmcInit
  BY <1>3 DEF EmmcInit
<1>4. CASE EnterMount
  BY <1>4 DEF EnterMount, Abandon, GoTo
<1>5. CASE SetClock
  BY <1>5, AfterIs, AbandonGoes DEF SetClock, GoTo, ClockSteps, MountSteps
<1>6. CASE StopClock
  BY <1>6 DEF StopClock
<1>7. CASE Select
  BY <1>7 DEF Select, Abandon, GoTo
<1>8. CASE Begin
  BY <1>8 DEF Begin, Abandon, GoTo
<1>9. CASE Succeeds
  <2>1. pc \in (MountSteps \ ClockSteps) \cup ServingCommands
    BY <1>9, CommandStepsAre DEF Succeeds
  <2>2. CASE pc \in MountSteps
    <3>1. pc = "cmd8bw" => pc' \in {"prompt", "cmd6", "reread", "idle"}
      BY <1>9, SucceedsGoes DEF Serve
    <3>2. pc' \in MountSteps \cup {"prompt", "cmd6", "reread", "idle"}
      BY <1>9, <2>1, <2>2, <3>1, SucceedsGoes
         DEF MountSteps, ClockSteps, Identify, ServingCommands, Switching
    <3> QED
      BY <3>2 DEF MountSteps, ClockSteps, Identify
  <2>3. CASE pc \in {"reread"} \cup Switching
    BY <1>9, <2>3, SucceedsGoes DEF Switching
  <2>4. CASE pc \in WriteSteps \cup EraseSteps
    BY <1>9, <2>4, SucceedsGoes
  <2> QED
    BY <2>1, <2>2, <2>3, <2>4 DEF ServingCommands
<1>10. CASE StillBusy
  BY <1>10 DEF StillBusy, Abandon
<1>11. CASE Fails
  BY <1>11, AbandonGoes DEF Fails
<1>12. CASE UNCHANGED vars
  BY <1>12
<1> HIDE DEF WriteSteps, EraseSteps
<1> QED
  BY <1>1, <1>2, <1>3, <1>4, <1>5, <1>6, <1>7, <1>8, <1>9, <1>10, <1>11, <1>12
     DEF Next, Step, User

\* The chunks of an image follow one another without a gap.
LEMMA ChunkStep ==
  TypeOK /\ ChunkInv /\ [Next]_vars => ChunkInv'
<1> SUFFICES ASSUME TypeOK, ChunkInv, [Next]_vars, pc' \in WriteSteps
             PROVE  /\ chunk'.left > 0
                    /\ chunk'.buf + chunk'.left = op'.count
                    /\ chunk'.sector = op'.start + chunk'.buf
  BY DEF ChunkInv
<1>1. op \in [kind: Kinds \cup {"none"}, area: Areas, start: Nat, count: Nat,
              field: Fields \cup {"none"}]
      /\ chunk \in [buf: Nat, sector: Nat, left: Nat]
  BY DEF TypeOK, ProgramOK
<1>2. CASE Begin /\ op.count > 0
  BY <1>1, <1>2 DEF Begin
<1>3. CASE Succeeds /\ pc \in WriteSteps
  <2>1. op' = op /\ chunk' = (IF pc = "cmd13w" THEN NextChunk(Trans) ELSE chunk)
    BY <1>3 DEF Succeeds
  <2>2. pc = "cmd13w" => chunk.left > Trans
    BY <1>3, SucceedsGoes DEF WriteSteps
  <2>3. Trans \in Nat
    BY <1>1, TransIs
  <2> QED
    BY <1>1, <1>3, <2>1, <2>2, <2>3 DEF ChunkInv, NextChunk
<1>4. CASE UNCHANGED vars
  BY <1>4 DEF vars, command, ChunkInv
<1>5. pc' # "cmd13e"
  BY DEF WriteSteps
<1> QED
  BY <1>2, <1>3, <1>4, <1>5, WriteEntered

\* What CMD25 leaves in the area: the chunk's part of the image, and the rest as
\* it was.
LEMMA WriteStores ==
  ASSUME TypeOK, ChunkInv, pc = "cmd25", Accepts(pc), NEW m \in 0..Trans, Executes(pc, m),
         cArea = op.area
  PROVE  \A s \in Sectors:
           store'[op.area][s] = (IF s \in chunk.sector..(chunk.sector + m - 1)
                                 THEN s - op.start ELSE store[op.area][s])
<1>1. store' = [store EXCEPT ![cArea] = [s \in Sectors |->
          IF s \in chunk.sector..(chunk.sector + m - 1)
          THEN chunk.buf + (s - chunk.sector) ELSE store[cArea][s]]]
  BY DEF Executes, StoreAfter
<1>2. chunk.sector = op.start + chunk.buf /\ chunk.buf \in Nat /\ op.start \in Nat
  BY DEF ChunkInv, WriteSteps, TypeOK, ProgramOK
<1>3. op.area \in Areas /\ store \in [Areas -> [Sectors -> Int]]
  BY DEF TypeOK, ProgramOK, CardOK
<1> QED
  BY <1>1, <1>2, <1>3, SectorsAre

\* The part of the image that should be on the card is there.
LEMMA DataStep ==
  TypeOK /\ AreaInv /\ ChunkInv /\ DataInv /\ [Next]_vars => DataInv'
<1> SUFFICES ASSUME TypeOK, AreaInv, ChunkInv, DataInv, [Next]_vars, stale' = {},
                    pc' \in WriteSteps \cup {"cmd13e"}
             PROVE  DataInv'
  BY DEF DataInv
<1>1. op \in [kind: Kinds \cup {"none"}, area: Areas, start: Nat, count: Nat,
              field: Fields \cup {"none"}]
      /\ chunk \in [buf: Nat, sector: Nat, left: Nat]
      /\ store \in [Areas -> [Sectors -> Int]] /\ cArea \in Areas /\ dropped \in BOOLEAN
  BY DEF TypeOK, ProgramOK, CardOK, HistoryOK
<1>2. CASE Begin /\ pc' = "cmd16"
  BY <1>2 DEF Begin, DataInv, Done
<1>3. CASE Succeeds /\ pc \in WriteSteps /\ pc' \in WriteSteps
  <2>1. PICK clean \in {TRUE, pc \notin DataSteps}, m \in 0..Trans:
          /\ clean => m = Trans
          /\ Executes(pc, m)
          /\ dropped' = (dropped \/ (pc = "cmd25" /\ ~clean))
    BY <1>3 DEF Succeeds
  <2>2. /\ op' = op /\ chunk' = (IF pc = "cmd13w" THEN NextChunk(Trans) ELSE chunk)
        /\ stale' = stale /\ Accepts(pc)
    BY <1>3 DEF Succeeds, ReadExtCsd, WriteSteps
  <2>3. cArea = op.area
    BY <1>3, <2>2 DEF AreaInv
  <2>4. Trans \in Nat /\ pc' # "cmd13e"
    BY <1>1, <1>3, TransIs DEF WriteSteps
  <2>5. SUFFICES ASSUME ~dropped', NEW i \in 0..(Done' - 1)
                 PROVE  op.start + i \in Sectors /\ store'[op.area][op.start + i] = i
    BY <1>3, <2>2, <2>4 DEF DataInv
  <2>6. ~dropped /\ (pc = "cmd25" => m = Trans)
    BY <2>1, <2>5
  <2>7. \A j \in 0..(Done - 1): op.start + j \in Sectors /\ store[op.area][op.start + j] = j
    BY <1>3, <2>2, <2>6 DEF DataInv
  <2>8. CASE pc = "cmd25"
    <3>1. pc' = "cmd13w"
      BY <1>3, <2>8, SucceedsGoes
    <3>2. Done' = chunk.buf + Trans /\ Done = chunk.buf
      BY <2>2, <2>8, <3>1 DEF Done, Trans
    <3>3. chunk.sector + Trans <= Size[op.area]
      BY <2>2, <2>3, <2>8 DEF Accepts
    <3>4. chunk.sector = op.start + chunk.buf
      BY <1>3 DEF ChunkInv
    <3>5. op.start + i \in 0..(Size[op.area] - 1)
      BY <1>1, <2>4, <2>5, <3>2, <3>3, <3>4, SizeAssumption
    <3>6. op.start + i \in Sectors
      BY <1>1, <3>5, SectorsAre
    <3>7. \A s \in Sectors:
            store'[op.area][s] = (IF s \in chunk.sector..(chunk.sector + m - 1)
                                  THEN s - op.start ELSE store[op.area][s])
      BY <2>1, <2>2, <2>3, <2>8, WriteStores
    <3>8. CASE i < chunk.buf
      <4>1. op.start + i \notin chunk.sector..(chunk.sector + m - 1)
        BY <1>1, <2>1, <2>5, <3>2, <3>4, <3>8
      <4> QED
        BY <2>4, <2>5, <2>7, <3>2, <3>6, <3>7, <3>8, <4>1, <1>1
    <3>9. CASE i >= chunk.buf
      <4>1. op.start + i \in chunk.sector..(chunk.sector + m - 1)
        BY <1>1, <2>4, <2>5, <2>6, <2>8, <3>2, <3>4, <3>9
      <4>2. (op.start + i) - op.start = i
        BY <1>1, <2>4, <2>5, <3>2
      <4> QED
        BY <3>6, <3>7, <4>1, <4>2
    <3>10. i \in Int /\ chunk.buf \in Int
      BY <1>1, <2>4, <2>5, <3>2
    <3> QED
      BY <3>6, <3>8, <3>9, <3>10
  <2>9. CASE pc # "cmd25"
    <3>1. store' = store
      BY <1>3, <2>1, <2>9, ExecutesFrame DEF WriteSteps
    <3>2. pc = "cmd13w" => pc' = "cmd16"
      BY <1>3, SucceedsGoes DEF WriteSteps
    <3>3. pc # "cmd13w" => pc' # "cmd13w"
      BY <1>3, <2>9, SucceedsGoes DEF WriteSteps
    <3>4. Done' = Done
      BY <2>2, <3>2, <3>3 DEF Done, NextChunk
    <3> QED
      BY <2>5, <2>7, <3>1, <3>4
  <2> QED
    BY <2>8, <2>9
<1>4. CASE Succeeds /\ pc' = "cmd13e" /\ pc = "cmd38"
  <2>1. PICK m \in 0..Trans: Executes(pc, m)
    BY <1>4 DEF Succeeds
  <2>2. op' = op /\ stale' = stale
    BY <1>4 DEF Succeeds, ReadExtCsd
  <2>3. cArea = op.area
    BY <1>4, <2>2 DEF AreaInv, EraseSteps
  <2>4. store' = [store EXCEPT ![cArea] = [s \in Sectors |->
          IF s \in 0..EraseEnd(op.area) THEN Erased ELSE store[cArea][s]]]
    BY <1>4, <2>1 DEF Executes, StoreAfter
  <2>5. \A s \in 0..(Size[op.area] - 1): store'[op.area][s] = Erased
    BY <1>1, <2>3, <2>4, SectorsAre DEF EraseEnd
  <2>6. pc' \notin WriteSteps
    BY <1>4 DEF WriteSteps
  <2> QED
    BY <2>2, <2>5, <2>6 DEF DataInv
<1>5. CASE UNCHANGED vars
  BY <1>5 DEF vars, command, device, history, DataInv, Done, Trans
<1> QED
  BY <1>2, <1>3, <1>4, <1>5, WriteEntered

\* What a step may do to a sector: forget it, at a new command, or write or
\* erase it in the area asked for.
LEMMA SectorStep ==
  ASSUME TypeOK, KindInv, StateInv, AreaInv, StoreInv, ChunkInv, [Next]_vars, stale' = {}
  PROVE  \/ store' = Untouched
         \/ UNCHANGED <<op, store>> /\ stale = {}
         \/ /\ UNCHANGED op
            /\ stale = {}
            /\ \A a \in Areas, s \in Sectors:
                 \/ store'[a][s] = store[a][s]
                 \/ /\ a = op.area /\ s < Size[a]
                    /\ op.kind = "EM_E" \/ (op.kind = "EM_W" /\ s \in op.start..(op.start + op.count - 1))
<1> USE DEF driver, device, history, command
<1>0. op \in [kind: Kinds \cup {"none"}, area: Areas, start: Nat, count: Nat,
              field: Fields \cup {"none"}]
      /\ chunk \in [buf: Nat, sector: Nat, left: Nat]
      /\ store \in [Areas -> [Sectors -> Int]] /\ cArea \in Areas
  BY DEF TypeOK, ProgramOK, CardOK
<1> DEFINE Target(a, s) ==
             /\ a = op.area /\ s < Size[a]
             /\ op.kind = "EM_E" \/ (op.kind = "EM_W" /\ s \in op.start..(op.start + op.count - 1))
           Within == \A a \in Areas, s \in Sectors: store'[a][s] = store[a][s] \/ Target(a, s)
<1>a. ASSUME NEW m \in 0..Trans, Executes(pc, m), Accepts(pc), pc \in {"cmd25", "cmd38"},
             cArea = op.area
      PROVE  Within
  <2>1. CASE pc = "cmd25"
    <3>1. \A s \in Sectors:
            store'[op.area][s] = (IF s \in chunk.sector..(chunk.sector + m - 1)
                                  THEN s - op.start ELSE store[op.area][s])
      BY <1>a, <2>1, WriteStores
    <3>2. \A a \in Areas: a # op.area => store'[a] = store[a]
      BY <1>a, <1>0, <2>1 DEF Executes, StoreAfter
    <3>3. op.kind = "EM_W"
      BY <2>1 DEF KindInv, WriteSteps
    <3>4. chunk.sector + Trans <= Size[op.area] /\ Size[op.area] \in Nat /\ Trans \in Nat
      BY <1>a, <1>0, <2>1, TransIs, SizeAssumption DEF Accepts
    <3>5. /\ chunk.sector = op.start + chunk.buf /\ chunk.buf + chunk.left = op.count
          /\ Trans <= chunk.left
      BY <1>0, <2>1, TransIs DEF ChunkInv, WriteSteps
    <3>6. ASSUME NEW s \in Sectors, s \in chunk.sector..(chunk.sector + m - 1)
          PROVE  s < Size[op.area] /\ s \in op.start..(op.start + op.count - 1)
      BY <1>a, <1>0, <3>4, <3>5, <3>6
    <3> QED
      BY <3>1, <3>2, <3>3, <3>6
  <2>2. CASE pc = "cmd38"
    <3>1. store' = [store EXCEPT ![cArea] = [s \in Sectors |->
            IF s \in 0..EraseEnd(op.area) THEN Erased ELSE store[cArea][s]]]
      BY <1>a, <2>2 DEF Executes, StoreAfter
    <3>2. op.kind = "EM_E"
      BY <2>2 DEF KindInv, EraseSteps
    <3>3. ASSUME NEW s \in 0..EraseEnd(op.area) PROVE s < Size[op.area]
      BY <1>0, SizeAssumption DEF EraseEnd
    <3>4. ASSUME NEW a \in Areas, NEW s \in Sectors, store'[a][s] # store[a][s]
          PROVE  a = op.area /\ s \in 0..EraseEnd(op.area)
      BY <1>a, <1>0, <3>1, <3>4
    <3> QED
      BY <3>2, <3>3, <3>4
  <2> QED
    BY <1>a, <2>1, <2>2
<1>1. ASSUME NEW k \in Kinds, Start(k) PROVE store' = Untouched
  BY <1>1 DEF Start
<1>2. ASSUME NEW k \in Kinds, k = op.kind, NEW o \in Answers(k), Answer(o)
      PROVE  store' = Untouched
  BY <1>2 DEF Answer, StoreInv, Serving, WriteSteps, EraseSteps
<1>3. CASE EmmcInit
  BY <1>3 DEF EmmcInit
<1>4. CASE EnterMount
  BY <1>4 DEF EnterMount
<1>5. CASE SetClock
  BY <1>5 DEF SetClock
<1>6. CASE StopClock
  BY <1>6 DEF StopClock
<1>7. CASE Select
  BY <1>7 DEF Select
<1>8. CASE Begin
  BY <1>8 DEF Begin
<1>9. CASE Succeeds
  <2>1. PICK m \in 0..Trans: Executes(pc, m)
    BY <1>9 DEF Succeeds
  <2>2. op' = op /\ Accepts(pc) /\ pc \in (MountSteps \ ClockSteps) \cup ServingCommands
    BY <1>9, CommandStepsAre DEF Succeeds
  <2>3. CASE pc \in ReadExtCsd
    BY <2>1, <2>3, ExecutesFrame
       DEF StoreInv, ReadExtCsd, Mounting, MountSteps, Serving, Switching, WriteSteps, EraseSteps
  <2>4. CASE pc \in {"cmd25", "cmd38"}
    <3>1. stale = {}
      BY <1>9, <2>4 DEF Succeeds, ReadExtCsd
    <3>2. cArea = op.area
      BY <2>4, <3>1 DEF AreaInv, WriteSteps, EraseSteps
    <3> QED
      BY <1>a, <2>1, <2>2, <2>4, <3>1, <3>2
  <2>5. CASE pc \notin ReadExtCsd \cup {"cmd25", "cmd38"}
    BY <1>9, <2>1, <2>2, <2>5, ExecutesFrame DEF Succeeds
  <2> QED
    BY <2>3, <2>4, <2>5
<1>10. CASE StillBusy
  BY <1>10 DEF StillBusy
<1>11. CASE Fails
  <2>1. op' = op /\ stale = {}
    BY <1>11 DEF Fails
  <2>2. CASE store' = store
    BY <2>1, <2>2
  <2>3. ASSUME NEW m \in 0..Trans, Executes(pc, m), Accepts(pc), pc \in {"cmd25", "cmd38"}
        PROVE  Within
    <3>1. cArea = op.area
      BY <2>1, <2>3 DEF AreaInv, WriteSteps, EraseSteps
    <3> QED
      BY <1>a, <2>3, <3>1
  <2>4. ASSUME NEW m \in 0..Trans, Executes(pc, m), pc \notin {"cmd25", "cmd38"}
        PROVE  store' = store
    BY <2>4, ExecutesFrame
  <2> QED
    BY <1>11, <2>1, <2>2, <2>3, <2>4 DEF Fails
<1>12. CASE UNCHANGED vars
  BY <1>12 DEF vars
<1> QED
  BY <1>1, <1>2, <1>3, <1>4, <1>5, <1>6, <1>7, <1>8, <1>9, <1>10, <1>11, <1>12
     DEF Next, Step, User

\* No sector outside the range asked for changes.
LEMMA TargetStep ==
  TypeOK /\ KindInv /\ StateInv /\ AreaInv /\ StoreInv /\ ChunkInv /\ OnlyTargetTouched /\ [Next]_vars
    => OnlyTargetTouched'
<1> SUFFICES ASSUME TypeOK, KindInv, StateInv, AreaInv, StoreInv, ChunkInv, OnlyTargetTouched,
                    [Next]_vars, stale' = {}
             PROVE  OnlyTargetTouched'
  BY DEF OnlyTargetTouched
<1>1. CASE store' = Untouched
  BY <1>1 DEF OnlyTargetTouched, Untouched
<1>2. CASE UNCHANGED <<op, store>> /\ stale = {}
  BY <1>2 DEF OnlyTargetTouched
<1>3. CASE /\ UNCHANGED op
           /\ stale = {}
           /\ \A a \in Areas, s \in Sectors:
                \/ store'[a][s] = store[a][s]
                \/ /\ a = op.area /\ s < Size[a]
                   /\ op.kind = "EM_E" \/ (op.kind = "EM_W" /\ s \in op.start..(op.start + op.count - 1))
  BY <1>3 DEF OnlyTargetTouched
<1> QED
  BY <1>1, <1>2, <1>3, SectorStep

\* How a command comes to be complete, outside the loops of the card's data.
LEMMA CompletesBy ==
  ASSUME TypeOK, KindInv, [Next]_vars, outcome' = "complete"
  PROVE  \/ op'.kind \notin {"EM_W", "EM_E"}
         \/ Succeeds /\ pc = "cmd13w" /\ ~(chunk.left > Trans)
         \/ Succeeds /\ pc = "cmd13e"
         \/ outcome = "complete" /\ UNCHANGED vars
<1> USE DEF driver, device, history, command
<1>1. ASSUME NEW k \in Kinds, Start(k) PROVE op'.kind \notin {"EM_W", "EM_E"}
  BY <1>1 DEF Start, Serve, NoOp
<1>2. ASSUME NEW k \in Kinds, k = op.kind, NEW o \in Answers(k), Answer(o) PROVE FALSE
  BY <1>2 DEF Answer, KindInv
<1>3. CASE EmmcInit
  BY <1>3 DEF EmmcInit, KindInv
<1>4. CASE EnterMount
  BY <1>4 DEF EnterMount, Abandon, GoTo, KindInv
<1>5. CASE SetClock
  BY <1>5, AfterIs, AbandonGoes DEF SetClock, GoTo, ClockSteps, MountSteps, KindInv
<1>6. CASE StopClock
  BY <1>6 DEF StopClock
<1>7. CASE Select
  BY <1>7 DEF Select, Abandon, GoTo, KindInv
<1>8. CASE Begin
  BY <1>8 DEF Begin, Abandon, GoTo, KindInv
<1>9. CASE Succeeds
  <2>1. op' = op /\ pc \in (MountSteps \ ClockSteps) \cup ServingCommands
    BY <1>9, CommandStepsAre DEF Succeeds
  <2>2. outcome = "none" /\ pc' = "idle"
    <3>1. pc # "idle"
      BY <2>1 DEF MountSteps, ClockSteps, Identify, ServingCommands, Switching, WriteSteps, EraseSteps
    <3> QED
      BY <1>9, <3>1, SucceedsGoes DEF KindInv
  <2>3. CASE pc = "cmd8bw"
    BY <1>9, <2>1, <2>2, <2>3, SucceedsGoes DEF Serve
  <2>4. CASE pc \in (MountSteps \ ClockSteps) \ {"cmd8bw"}
    BY <1>9, <2>2, <2>4, SucceedsGoes DEF MountSteps, ClockSteps, Identify
  <2>5. CASE pc = "reread"
    BY <2>1, <2>5 DEF KindInv
  <2>6. CASE pc \in Switching
    BY <1>9, <2>2, <2>6, SucceedsGoes DEF Switching
  <2>7. CASE pc \in WriteSteps \cup EraseSteps
    BY <1>9, <2>2, <2>7, SucceedsGoes DEF WriteSteps, EraseSteps
  <2> QED
    BY <2>1, <2>3, <2>4, <2>5, <2>6, <2>7 DEF ServingCommands
<1>10. CASE StillBusy
  BY <1>10 DEF StillBusy, Abandon, KindInv
<1>11. CASE Fails
  <2>1. pc # "idle"
    BY <1>11, CommandStepsAre
       DEF Fails, MountSteps, ClockSteps, Identify, ServingCommands, Switching, WriteSteps, EraseSteps
  <2> QED
    BY <1>11, <2>1, AbandonGoes DEF Fails, KindInv
<1>12. CASE UNCHANGED vars
  BY <1>12 DEF vars
<1> QED
  BY <1>1, <1>2, <1>3, <1>4, <1>5, <1>6, <1>7, <1>8, <1>9, <1>10, <1>11, <1>12
     DEF Next, Step, User

\* A complete EM_W or EM_E has done its work.
LEMMA CompleteStep ==
  TypeOK /\ KindInv /\ ChunkInv /\ DataInv /\ CompleteMeansDone /\ [Next]_vars
    => CompleteMeansDone'
<1> SUFFICES ASSUME TypeOK, KindInv, ChunkInv, DataInv, CompleteMeansDone, [Next]_vars,
                    outcome' = "complete", stale' = {}
             PROVE  CompleteMeansDone'
  BY DEF CompleteMeansDone
<1>1. CASE op'.kind \notin {"EM_W", "EM_E"}
  BY <1>1 DEF CompleteMeansDone
<1>2. CASE Succeeds /\ pc = "cmd13w" /\ ~(chunk.left > Trans)
  <2>1. op' = op /\ stale' = stale /\ op.kind = "EM_W" /\ dropped' = dropped
    <3>1. dropped \in BOOLEAN
      BY DEF TypeOK, HistoryOK
    <3> QED
      BY <1>2, <3>1 DEF Succeeds, ReadExtCsd, KindInv, WriteSteps
  <2>2. store' = store
    BY <1>2, ExecutesFrame DEF Succeeds
  <2>3. /\ chunk \in [buf: Nat, sector: Nat, left: Nat] /\ op.count \in Nat
        /\ Trans \in Nat /\ Trans <= chunk.left
    BY TransIs DEF TypeOK, ProgramOK
  <2>4. Done = op.count /\ op.count > 0
    BY <1>2, <2>3 DEF Done, ChunkInv, WriteSteps
  <2>5. ~dropped => \A i \in 0..(op.count - 1): store[op.area][op.start + i] = i
    BY <1>2, <2>1, <2>4 DEF DataInv, WriteSteps
  <2> QED
    BY <2>1, <2>2, <2>4, <2>5 DEF CompleteMeansDone
<1>3. CASE Succeeds /\ pc = "cmd13e"
  <2>1. op' = op /\ stale' = stale /\ op.kind = "EM_E"
    BY <1>3 DEF Succeeds, ReadExtCsd, KindInv, EraseSteps
  <2>2. store' = store
    BY <1>3, ExecutesFrame DEF Succeeds
  <2> QED
    BY <1>3, <2>1, <2>2 DEF CompleteMeansDone, DataInv
<1>4. CASE outcome = "complete" /\ UNCHANGED vars
  BY <1>4 DEF vars, command, device, history, CompleteMeansDone
<1> QED
  BY <1>1, <1>2, <1>3, <1>4, CompletesBy

-----------------------------------------------------------------------------
(* The theorems.                                                           *)

\* The invariant holds in every reachable state.
THEOREM Invariant == Spec => []IInv
<1>1. Init => IInv
  BY InitInv
<1>2. IInv /\ [Next]_vars => IInv'
  BY TypeStep, KindStep, StateStep, WidthStep, CacheStep, AreaStep, StoreStep, ChunkStep,
     DataStep, TargetStep, CompleteStep
     DEF IInv
<1> QED
  BY <1>1, <1>2, PTL DEF Spec

\* Every variable keeps its type: in particular the number of sectors left to
\* write (emmc_write.c: remain) never becomes negative, and an answer of the card
\* never takes the driver to a step that does not exist.
THEOREM TypeCorrect == Spec => []TypeOK
<1>1. IInv => TypeOK
  BY DEF IInv
<1> QED
  BY <1>1, Invariant, PTL

\* emmc_mount.c, emmc_write.c, emmc_erase.c: every command is sent in a state of
\* the card that takes it, and data moves only between equal bus widths.
THEOREM CommandsFitCard == Spec => []StepsFitCard
<1>1. IInv => StepsFitCard
  <2> SUFFICES ASSUME IInv PROVE StepsFitCard
    OBVIOUS
  <2>1. pc \in CommandSteps => cState \in StateFor(pc)
    <3>1. CASE pc \in MountSteps \ ClockSteps
      BY <3>1 DEF IInv, StateInv, Mounting, StateAt, StateFor, MountSteps, ClockSteps, Identify
    <3>2. CASE pc \in ServingCommands
      BY <3>2 DEF IInv, StateInv, Serving, StateFor, ServingCommands, Switching, WriteSteps, EraseSteps
    <3> QED
      BY <3>1, <3>2, CommandStepsAre
  <2>2. pc \in DataSteps => hostWidth = cWidth \/ "BUS_WIDTH" \in overridden
    <3>1. CASE pc \in {"cmd8i", "cmd8bw"}
      BY <3>1 DEF IInv, WidthInv, MountSteps, ClockSteps, Identify, Narrow, Wide
    <3>2. CASE pc \in {"cmd8", "reread", "cmd25"}
      BY <3>2 DEF IInv, WidthInv, StateInv, Serving, Switching, WriteSteps
    <3> QED
      BY <3>1, <3>2 DEF DataSteps, ReadExtCsd
  <2> QED
    BY <2>1, <2>2 DEF StepsFitCard
<1> QED
  BY <1>1, Invariant, PTL

\* emmc_select_partition trusts PARTITION_ACCESS in ext_csd_data: with no failed
\* switch or EXT_CSD read since the last good one, it is the card's.
THEOREM CacheIsCoherent == Spec => []CacheCoherent
<1>1. IInv => CacheCoherent
  BY DEF IInv
<1> QED
  BY <1>1, Invariant, PTL

\* emmc_write_sector and emmc_erase_sector after emmc_select_partition: no sector
\* outside the area and the range asked for changes.
THEOREM TargetIsRespected == Spec => []OnlyTargetTouched
<1>1. IInv => OnlyTargetTouched
  BY DEF IInv
<1> QED
  BY <1>1, Invariant, PTL

\* dg_emmc_write and dg_emmc_erase: when they say complete, the whole image is in
\* its place, or the whole area is erased.
THEOREM CompleteIsDone == Spec => []CompleteMeansDone
<1>1. IInv => CompleteMeansDone
  BY DEF IInv
<1> QED
  BY <1>1, Invariant, PTL
=============================================================================
