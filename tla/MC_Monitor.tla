----------------------------- MODULE MC_Monitor -----------------------------
(* The parts of the monitor that do without the card and the flash: the    *)
(* console, the memory commands, the memory tests, the image loader and    *)
(* the prompts for numbers.                                                *)
(* They share nothing but the processor, so one is chosen at the start.    *)
(*                                                                         *)
(* In the table of the console, as in MonCom, one name begins another (D   *)
(* and DM), and two names share a beginning that is no name (SUP and SUD). *)
EXTENDS Console, MemState, SrecState

CONSTANTS
  Size, Bits, Unroll, DdrStarts, DdrSize,                               \* RamCheck
  Radix, Digits, Full, Ten, Positions, CellSizes, AddressUnit, StartUnit, DefaultTop,
  BootUnit, Cards, KeyMax                                               \* Prompts

VARIABLES
  part,
  cells, fault, test, start, size, region, pass, p, error,
  dialogue, asks, vals, cell, digits, card, answers, last

MCTable ==
  << [name |-> <<"s", "u">>, does |-> "fast"],
     [name |-> <<"s", "n">>, does |-> "slow"],
     [name |-> <<"n">>, does |-> "return"],
     [name |-> <<"n", "u">>, does |-> "edit"],
     [name |-> <<"y">>, does |-> "change"] >>

\* A card with boot partitions, and one without.
MCCards == {[multi |-> 2, count |-> 5], [multi |-> 0, count |-> 7]}

\* Two banks of DDR memory.
MCDdrStarts == <<0, 3>>

\* Every line, but for the longest: of these, those of digits and blanks.
MCLines ==
  UNION {[1..n -> -3..(Radix - 1)]: n \in 0..(KeyMax - 1)} \cup [1..KeyMax -> -1..(Radix - 1)]

Memory == INSTANCE MemCommands
Ram    == INSTANCE RamCheck
Srec   == INSTANCE SrecLoad
Keypad == INSTANCE Prompts WITH Lines <- MCLines, typed <- answers

ASSUME MemoryBounds == MemAssumption
ASSUME RamBounds    == Ram!RamAssumption
ASSUME SrecBounds   == SrecAssumption
ASSUME KeypadBounds == Keypad!PromptsAssumption

\* The variables of the parts; outcome belongs to two of them.
memory == <<gUDump, gDumpMode, gUMem, cmd, width, add, end, asked, dumped, wrote>>
ram    == <<cells, fault, test, start, size, region, pass, p, error>>
srec   == <<pc, loader, top, sector, mem, ptr, workAdd_Max, prevLoadAddress, image, SecCnt, records, sent, ordered>>
keypad == <<dialogue, asks, vals, cell, digits, card, answers, last>>

Off(x) == x = "off"
NoMemory == Off(gUDump) /\ Off(gDumpMode) /\ Off(gUMem) /\ Off(cmd) /\ Off(width) /\ Off(add) /\ Off(end)
              /\ Off(asked) /\ Off(dumped) /\ Off(wrote)
NoRam == Off(cells) /\ Off(fault) /\ Off(test) /\ Off(start) /\ Off(size) /\ Off(region)
           /\ Off(pass) /\ Off(p) /\ Off(error)
NoSrec == Off(pc) /\ Off(loader) /\ Off(top) /\ Off(sector) /\ Off(mem) /\ Off(ptr) /\ Off(workAdd_Max)
            /\ Off(prevLoadAddress) /\ Off(image) /\ Off(SecCnt) /\ Off(records) /\ Off(sent) /\ Off(ordered)
NoKeypad == Off(dialogue) /\ Off(asks) /\ Off(vals) /\ Off(cell) /\ Off(digits) /\ Off(card)
              /\ Off(answers) /\ Off(last)

MCInit ==
  /\ Init
  /\ \/ part = "console" /\ NoMemory /\ NoRam /\ NoSrec /\ NoKeypad /\ Off(outcome)
     \/ part = "memory" /\ Memory!Init /\ NoRam /\ NoSrec /\ NoKeypad /\ Off(outcome)
     \/ part = "ram" /\ Ram!Init /\ NoMemory /\ NoSrec /\ NoKeypad
     \/ part = "srec" /\ Srec!Init /\ NoMemory /\ NoRam /\ NoKeypad
     \/ part = "keypad" /\ Keypad!Init /\ NoMemory /\ NoRam /\ NoSrec /\ Off(outcome)

InConsole(A) == part = "console" /\ A /\ UNCHANGED <<part, memory, ram, srec, keypad, outcome>>
InMemory(A)  == part = "memory" /\ A /\ UNCHANGED <<part, vars, ram, srec, keypad, outcome>>
InRam(A)     == part = "ram" /\ A /\ UNCHANGED <<part, vars, memory, srec, keypad>>
InSrec(A)    == part = "srec" /\ A /\ UNCHANGED <<part, vars, memory, ram, keypad>>
InKeypad(A) == part = "keypad" /\ A /\ UNCHANGED <<part, vars, memory, ram, srec, outcome>>

\* The disjuncts of the five next-state relations, one by one.
MCNext ==
  \/ InConsole(\E key \in Keys: FirstKey(key)) \/ InConsole(\E key \in Letters: Letter(key))
  \/ InConsole(BackSpace) \/ InConsole(LineFeed) \/ InConsole(EndCommand) \/ InConsole(EndEdit)
  \/ InConsole(EditDone) \/ InConsole(EndChange) \/ InConsole(EndValue)
  \/ InConsole(Parse) \/ InConsole(Send) \/ InConsole(SetSpeed)
  \/ InMemory(Memory!Start) \/ InMemory(Memory!Loop)
  \/ InMemory(Memory!EditCell) \/ InMemory(Memory!EditMove) \/ InMemory(Memory!EditEnd)
  \/ InRam(\E first \in Ram!Memory, n \in 0..Size: Ram!Ramck(first, n))
  \/ InRam(Ram!RamckRefused) \/ InRam(Ram!Ddrck) \/ InRam(Ram!Test)
  \/ InSrec(\E c \in Commands, t \in Tops, s \in 0..(CardSize - 1): Srec!Start(c, t, s))
  \/ InSrec(\E addr \in Places, length \in 0..LengthMax:
              addr + length <= Word32 /\ Srec!Record(addr, length))
  \/ InSrec(Srec!EndRecord) \/ InSrec(\E length \in 0..WorkSize: Srec!Binary(length))
  \/ InSrec(Srec!Stop) \/ InSrec(Srec!Prompt)
  \/ InKeypad(\E c \in Keypad!Dialogues: Keypad!Begin(c))
  \/ InKeypad(\E l \in MCLines: Keypad!Take(l))
  \/ InKeypad(\E l \in MCLines: Keypad!Keep(l))
  \/ InKeypad(\E l \in MCLines: Keypad!Leave(l))
  \/ InKeypad(\E l \in MCLines: Keypad!Again(l))

MCSpec == MCInit /\ [][MCNext]_<<part, vars, memory, ram, srec, keypad, outcome>>

\* The properties of the memory commands and of the loader are checked as they stand,
\* as they name the commands they are about.
VerdictRight  == part = "ram"    => Ram!VerdictRight
NumbersAgree  == part = "keypad" => Keypad!NumbersAgree
=============================================================================
