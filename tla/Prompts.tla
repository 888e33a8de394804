------------------------------ MODULE Prompts ------------------------------
(***************************************************************************)
(* Numbers on the console: the conversions of common.c, and the prompts    *)
(* that take a number from a line (memory_cmd.c, dgmodul4.c,               *)
(* dg_emmc_access.c), command by command.                                  *)
(*                                                                         *)
(* A key is the digit it stands for, or a blank, a full stop or another    *)
(* character.  The keys ^ of M, and EM_SECSD, are elsewhere (MemCommands,  *)
(* EmmcCard); one cell stands for all those M comes to.                    *)
(***************************************************************************)
EXTENDS Integers, SequencesExt

CONSTANTS
  Radix, Digits, Full, \* of a number (16), of 32 bits (8) and of 64 bits (16)
  Ten, Positions,      \* of a decimal number (10, 10)
  CellSizes,           \* the digits of a cell of M (2, 4, 8, 16)
  AddressUnit,         \* of an address of the flash and of its image (4)
  StartUnit,           \* of the start address of EM_W (512)
  DefaultTop,          \* 0x40000000
  BootUnit,            \* sectors of a unit of BOOT_SIZE_MULTI (256)
  Cards,               \* what the EXT_CSD of a card says: [multi, count]
  KeyMax,              \* the longest line (15; the code lets a longer one overflow)
  Lines                \* the lines typed

Blank == -1
Dot   == -2
Other == -3
NoNumber == -1

\* What the constants must satisfy: assumed by the module that gives them values.
PromptsAssumption ==
  /\ {Radix, Ten} \subseteq Nat \ {0, 1} /\ Digits \in 1..Full /\ CellSizes \subseteq 1..Full
  /\ Ten^Positions >= Radix^Digits
  /\ {AddressUnit, StartUnit, BootUnit} \subseteq Nat \ {0} /\ DefaultTop \in 0..(Radix^Digits - 1)
  /\ \A c \in Cards: c.count < Radix^Digits /\ c.multi * BootUnit < Radix^Digits
  /\ \A l \in Lines: Len(l) <= KeyMax /\ \A i \in DOMAIN l: l[i] \in -3..(Radix - 1)

VARIABLES
  dialogue, asks, \* the command that runs, or "none", and the prompts it has still to go through
  vals,           \* the variable of each prompt: gUserPrgStartAdd, gUserPrgSize, ...
  cell, digits,   \* the cell M, or the word XINFO_BP_S, shows, and its digits
  card,           \* the card
  typed,          \* history: for each prompt what was meant, or NoNumber
  last            \* history: the last answer, what it did and the number meant
vars == <<dialogue, asks, vals, cell, digits, card, typed, last>>

-----------------------------------------------------------------------------
(* Faulty variants of definitions below, each of which breaks a property.  *)

HexAscii2Data_AnyLength(text) ==
  IF \A i \in DOMAIN text: text[i] \in 0..(Radix - 1)
  THEN FoldLeft(LAMBDA v, d: (v * Radix + d) % Radix^Digits, 0, text) ELSE NoNumber
InputEmmcSector_UpTo(max) ==
  [room |-> Digits, empty |-> "leave", dot |-> FALSE, unit |-> 1, below |-> max + 1]
AfterDot_Kept(p) == vals

-----------------------------------------------------------------------------
(* The conversions.                                                        *)

\* GetStrBlk: the first word, how much of the line is used up with what ends the
\* word, and whether that is a blank.
GetStrBlk(line) ==
  LET n     == Len(line)
      first == Min({i \in 1..n: line[i] # Blank} \cup {n + 1})
      after == Min({i \in first..n: line[i] = Blank} \cup {n + 1})
  IN [text |-> SubSeq(line, first, after - 1), chPtr |-> after, more |-> after <= n]

\* Shifted in digit by digit; no number if it is too long or has another key.
Shifted(text, n) == FoldLeft(LAMBDA v, d: (v * Radix + d) % Radix^n, 0, text)
AllDigits(text) == \A i \in DOMAIN text: text[i] \in 0..(Radix - 1)
HexAscii2Data(text) ==
  IF AllDigits(text) /\ Len(text) <= Digits THEN Shifted(text, Digits) ELSE NoNumber
HexAscii2Data_64(text) ==
  IF AllDigits(text) /\ Len(text) <= Full THEN Shifted(text, Full) ELSE NoNumber

\* The number is moved to the top of the word, and its digits taken from there.
Data2HexAscii_64(v, size) ==
  [i \in 1..size |-> ((v * Radix^(Full - size + i - 1)) % Radix^Full) \div Radix^(Full - 1)]
Data2HexAscii(v, size) ==
  [i \in 1..size |-> ((v * Radix^(Digits - size + i - 1)) % Radix^Digits) \div Radix^(Digits - 1)]

\* From the last digit to the first.
Hex2Ascii(v) == [i \in 1..Digits |-> (v \div Radix^(Digits - i)) % Radix]

\* How often each power of ten goes into what is left, without zeros in front.
Hex2DecAscii(v) ==
  LET all   == [i \in 1..Positions |-> (v % Ten^(Positions - i + 1)) \div Ten^(Positions - i)]
      first == Min({i \in 1..Positions: all[i] # 0} \cup {Positions})
  IN SubSeq(all, first, Positions)

-----------------------------------------------------------------------------
(* The prompts: how long the line may be, what an empty one does, whether  *)
(* a full stop ends the prompt, and what the number must be a multiple of  *)
(* and below.                                                              *)

SetAddInputKey ==
  [room |-> Digits, empty |-> "again", dot |-> TRUE, unit |-> AddressUnit, below |-> Radix^Digits]
SetSizeInputKey ==
  [room |-> Digits, empty |-> "again", dot |-> TRUE, unit |-> 1, below |-> Radix^Digits]
SetData ==
  [room |-> Digits, empty |-> "again", dot |-> FALSE, unit |-> 1, below |-> Radix^Digits]
DisplayMemEd(size) ==
  [room |-> size, empty |-> "again", dot |-> TRUE, unit |-> 1, below |-> Radix^Full]
InputEmmcSectorArea ==
  [room |-> Digits, empty |-> "leave", dot |-> FALSE, unit |-> 1, below |-> 3]
InputEmmcSector(max) ==
  [room |-> Digits, empty |-> "leave", dot |-> FALSE, unit |-> 1, below |-> max]
InputEmmcPrgStartAdd ==
  [room |-> Digits, empty |-> "leave", dot |-> FALSE, unit |-> StartUnit, below |-> Radix^Digits]
InputFileSize ==
  [room |-> KeyMax, empty |-> "leave", dot |-> FALSE, unit |-> 1, below |-> Radix^Digits]

Asked == {"top", "length", "save", "data", "cell", "area", "sector", "start", "size"}
Dialogues == {"M", "XINFO_BP_S", "XLS2", "XLS3", "EM_W", "EM_WB", "EM_E"}
Route(c) ==
  CASE c = "M" -> <<"cell">>
    [] c = "XINFO_BP_S" -> <<"data">>
    [] c = "XLS2" -> <<"top", "save">>
    [] c = "XLS3" -> <<"length", "save">>
    [] c = "EM_W" -> <<"area", "sector", "start">>
    [] c = "EM_WB" -> <<"area", "sector", "size">>
    [] c = "EM_E" -> <<"area">>

\* SetSectorData: the sectors of the user area (0) and of the boot partitions.
SetSectorData(area) == IF area = 0 THEN card.count ELSE card.multi * BootUnit

\* DispAreaData: its size in kilobytes and its last sector.
DispAreaData(area) ==
  [kb |-> Hex2DecAscii(SetSectorData(area) \div 2), last |-> Hex2Ascii(SetSectorData(area) - 1)]

\* What M and XINFO_BP_S show of a cell.
Shown == IF dialogue = "M" THEN Data2HexAscii_64(cell, digits) ELSE Data2HexAscii(cell, digits)

Rule(p) ==
  CASE p \in {"top", "save"} -> SetAddInputKey
    [] p = "length" -> SetSizeInputKey
    [] p = "data" -> SetData
    [] p = "cell" -> DisplayMemEd(digits)
    [] p = "area" -> InputEmmcSectorArea
    [] p = "sector" -> InputEmmcSector(SetSectorData(vals.area))
    [] p = "start" -> InputEmmcPrgStartAdd
    [] p = "size" -> InputFileSize

-----------------------------------------------------------------------------
(* What a line does at a prompt.                                           *)

Empty(line)  == ~GetStrBlk(line).more /\ GetStrBlk(line).chPtr = 1
Dotted(p, line) ==
  LET b == GetStrBlk(line) IN
  Rule(p).dot /\ ~b.more /\ b.text # <<>> /\ b.text[1] = Dot
Number(p, line) ==
  LET text == GetStrBlk(line).text IN
  IF p = "cell" THEN HexAscii2Data_64(text) ELSE HexAscii2Data(text)
Allowed(p, v) == v % Rule(p).unit = 0 /\ v < Rule(p).below
Taken(p, line) ==
  LET b == GetStrBlk(line) IN
  /\ ~b.more /\ b.chPtr \in 2..(Rule(p).room + 1) /\ ~Dotted(p, line)
  /\ Number(p, line) # NoNumber /\ Allowed(p, Number(p, line))

\* What the user means: blanks, then digits, as far as there is room for both.
\* Blanks alone mean 0.
Meant(p, line) ==
  LET n == Len(line)
      k == Cardinality({i \in 1..n: \A j \in 1..i: line[j] = Blank})
  IN IF /\ n \in 1..Rule(p).room /\ AllDigits(SubSeq(line, k + 1, n))
        /\ n - k <= (IF p = "cell" THEN Full ELSE Digits)
     THEN MapThenSumSet(LAMBDA i: line[i] * Radix^(n - i), (k + 1)..n)
     ELSE NoNumber

Nothing == [p \in Asked |-> 0]
Untyped == [p \in Asked |-> NoNumber]
NoAnswer == [prompt |-> "none", did |-> "none", meant |-> NoNumber]

Init ==
  /\ dialogue = "none" /\ asks = <<>> /\ vals = Nothing /\ cell = 0 /\ digits = Full
  /\ card \in Cards /\ typed = Untyped /\ last = NoAnswer

\* A command starts.  gUserPrgSize keeps the value the last XLS3 gave it, and
\* gUserPrgStartAdd is cleared; the others are variables of the command.
Begin(c) ==
  /\ asks = <<>>
  /\ dialogue' = c /\ asks' = Route(c) /\ typed' = Untyped /\ last' = NoAnswer
  /\ vals' = [Nothing EXCEPT !.length = vals.length]
  /\ digits' \in (IF c = "M" THEN CellSizes ELSE {Digits})
  /\ cell' \in (IF c \in {"M", "XINFO_BP_S"} THEN 0..(Radix^digits' - 1) ELSE {0})
  /\ UNCHANGED card

Answered(did, p, line) == last' = [prompt |-> p, did |-> did, meant |-> Meant(p, line)]

\* M goes on with the next cell.
Take(line) ==
  LET p == Head(asks)
      v == Number(p, line) IN
  /\ asks # <<>> /\ Taken(p, line)
  /\ vals' = [vals EXCEPT ![p] = v] /\ typed' = [typed EXCEPT ![p] = Meant(p, line)]
  /\ cell' = (IF p \in {"cell", "data"} THEN v % Radix^digits ELSE cell)
  /\ asks' = (IF p = "cell" THEN asks ELSE Tail(asks)) /\ Answered("take", p, line)
  /\ UNCHANGED <<dialogue, digits, card>>

\* A full stop.  That of an address stores the default in gUserPrgStartAdd, whichever
\* address was asked for.
AfterDot(p) == IF p \in {"top", "save"} THEN [vals EXCEPT !.top = DefaultTop] ELSE vals
Keep(line) ==
  LET p == Head(asks) IN
  /\ asks # <<>> /\ Dotted(p, line)
  /\ vals' = AfterDot(p) /\ asks' = Tail(asks) /\ Answered("keep", p, line)
  /\ UNCHANGED <<dialogue, cell, digits, card, typed>>

Leave(line) ==
  LET p == Head(asks) IN
  /\ asks # <<>> /\ Empty(line) /\ Rule(p).empty = "leave"
  /\ dialogue' = "none" /\ asks' = <<>> /\ vals' = [Nothing EXCEPT !.length = vals.length]
  /\ typed' = Untyped /\ Answered("leave", p, line)
  /\ UNCHANGED <<cell, digits, card>>

\* An error message, or none, and the prompt again.
Again(line) ==
  LET p == Head(asks) IN
  /\ asks # <<>> /\ ~Taken(p, line) /\ ~Dotted(p, line)
  /\ Empty(line) => Rule(p).empty = "again"
  /\ Answered("again", p, line)
  /\ UNCHANGED <<dialogue, asks, vals, cell, digits, card, typed>>

Next ==
  \/ \E c \in Dialogues: Begin(c)
  \/ \E line \in Lines: Take(line)
  \/ \E line \in Lines: Keep(line)
  \/ \E line \in Lines: Leave(line)
  \/ \E line \in Lines: Again(line)

Spec == Init /\ [][Next]_vars

-----------------------------------------------------------------------------
(* Properties.                                                             *)

\* A prompt takes the number that was meant, and takes every one it allows.
TakesWhatIsMeant ==
  /\ last.did = "take" => last.meant # NoNumber /\ vals[last.prompt] = last.meant
  /\ last.did = "again" /\ last.meant # NoNumber => ~Allowed(last.prompt, last.meant)

\* What M and XINFO_BP_S show of a cell is taken, when it is typed as it is shown, for
\* what is in the cell; and the cell holds what was typed, with no digit cut off.
CellIsShown ==
  asks \in {<<"cell">>, <<"data">>} =>
    Taken(Head(asks), Shown) /\ Number(Head(asks), Shown) = cell
CellIsTyped ==
  last.did = "take" /\ last.prompt \in {"cell", "data"} => cell = last.meant

\* The range EM_W and EM_E show of an area that the card has: its last sector is
\* allowed and the one behind is not, and the size is that of its sectors.
AreasShown ==
  \A area \in 0..2:
    LET max  == SetSectorData(area)
        kb   == DispAreaData(area).kb
        text == HexAscii2Data(DispAreaData(area).last) IN
    max > 0 =>
      /\ text < InputEmmcSector(max).below /\ text + 1 >= InputEmmcSector(max).below
      /\ MapThenSumSet(LAMBDA i: kb[i] * Ten^(Len(kb) - i), DOMAIN kb) = max \div 2
      /\ Len(kb) > 1 => kb[1] # 0

\* The load of XLS2 starts with the addresses typed.  An address that was left with
\* a full stop is the default, or 0 for the flash; a full stop at the second
\* takes the first back as well.
LoadAsTyped ==
  asks = <<>> /\ dialogue = "XLS2" =>
    /\ vals.top = IF NoNumber \in {typed.top, typed.save} THEN DefaultTop ELSE typed.top
    /\ vals.save = IF typed.save = NoNumber THEN 0 ELSE typed.save

\* The numbers on the screen, those in the program and those the user means agree.
NumbersAgree == TakesWhatIsMeant /\ CellIsShown /\ CellIsTyped /\ AreasShown /\ LoadAsTyped
=============================================================================
