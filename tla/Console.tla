------------------------------ MODULE Console ------------------------------
(***************************************************************************)
(* The console: the command loop (main.c), the reading of a line (common.c)*)
(* with the prompts that use it, and the speed of the serial port          *)
(* (dgmodul1.c, scifdrv.c).                                                *)
(*                                                                         *)
(* A line is read through a pointer into a buffer and a count of its       *)
(* characters that belongs to the caller, and echoed to the terminal.  The *)
(* command loop clears the count before each line, M does it in its own    *)
(* reader; CheckDataChange and SetData never give theirs a value.          *)
(*                                                                         *)
(* Letters stand for the characters of a command or a datum, Table for     *)
(* MonCom, with names as short as their prefixes allow.  Upper and lower   *)
(* case are one.                                                           *)
(***************************************************************************)
EXTENDS Integers, Sequences, FiniteSetsExt

CONSTANTS
  Letters,  \* what is typed: strings, among them "y", "n", " " and "."
  Table,    \* a sequence of [name: Seq(Letters), does: Deeds]
  LineMax,  \* bounds a line; the code does not
  CountMod, \* the count is modulo this (256)
  Garbage,  \* values of a count that was never given one
  Fifo      \* characters the transmitter holds (16)

Deeds == {"return", "edit", "change", "fast", "slow"}
ASSUME ConsoleAssumption ==
  /\ LineMax \in Nat \ {0} /\ CountMod \in Nat \ {0} /\ LineMax < CountMod
  /\ Garbage \subseteq 0..(CountMod - 1) /\ Fifo \in Nat \ {0}
ASSUME TableAssumption ==
  /\ Letters \cap {"NUL", "BS", "LF", "CR"} = {} /\ Len(Table) \in Nat
  /\ \A i \in 1..Len(Table): /\ Table[i].name \in Seq(Letters \ {" "}) \ {<<>>}
                           /\ Table[i].does \in Deeds

Keys == Letters \cup {"BS", "LF", "CR"}

VARIABLES
  reader,  \* who reads or runs: "start", "command", "edit", "change", "value", "parse", "drain"
  buf, at, \* the buffer, and the offset of the pointer into it
  count,   \* the count of the caller (chCnt)
  shown, cursor, \* the line of the terminal behind the prompt
  typed,   \* the line the user means: each BS takes the last character back
  odd,     \* the line began at start-up with a BS or a LF
  ran,     \* the entry of the table that was run last, or 0
  speed,   \* of the port
  target, sending \* the speed to come, characters not sent yet
line == <<buf, at, count, shown, cursor, typed, odd>>
port == <<speed, target, sending>>
vars == <<reader, line, ran, port>>

Offsets == 0..LineMax
Blank == [i \in -1..LineMax |-> " "]

Init ==
  /\ reader = "start" /\ buf = [i \in Offsets |-> "NUL"] /\ at = 0 /\ count = 1
  /\ shown = Blank /\ cursor = 0 /\ typed = <<>> /\ odd = FALSE /\ ran = 0
  /\ speed = "slow" /\ target = "slow" /\ sending = 0

Put(i, key) == IF i \in Offsets THEN [buf EXCEPT ![i] = key] ELSE buf

-----------------------------------------------------------------------------
(* Faulty variants of definitions below, each of which breaks a property.  *)

StartOfLine_Stale(r, c) == reader' = r /\ count' = count /\ at' = 0 /\ shown' = Blank /\ cursor' = 0 /\ typed' = <<>> /\ odd' = FALSE
Erased_BackOnly == cursor' = cursor - 1 /\ UNCHANGED shown
SameName_Prefix(word, name) == Len(word) <= Len(name) /\ SubSeq(name, 1, Len(word)) = word

-----------------------------------------------------------------------------
(* A key.                                                                  *)

\* A prompt, and a new line behind it.
StartOfLine(r, c) ==
  /\ reader' = r /\ count' = c /\ at' = 0
  /\ shown' = Blank /\ cursor' = 0 /\ typed' = <<>> /\ odd' = FALSE

Echoed(key) == shown' = [shown EXCEPT ![cursor] = key] /\ cursor' = cursor + 1

\* BS, a blank, BS.
Erased == shown' = [shown EXCEPT ![cursor - 1] = " "] /\ cursor' = cursor - 1
CountAfterBS == (count - 1) % CountMod

\* The first key of all is not read by GetStr.
FirstKey(key) ==
  /\ reader = "start" /\ buf' = [buf EXCEPT ![0] = key]
  /\ IF key = "CR" THEN StartOfLine("command", 0)
     ELSE /\ reader' = "command" /\ at' = 1 /\ count' = 1
          /\ odd' = (key \in {"BS", "LF"})
          /\ CASE key = "LF" -> UNCHANGED <<shown, cursor, typed>>
               [] key = "BS" -> cursor' = -1 /\ UNCHANGED <<shown, typed>>
               [] OTHER -> Echoed(key) /\ typed' = <<key>>
  /\ UNCHANGED <<ran, port>>

Reading == reader \in {"command", "edit", "change", "value"}

\* GetStr and GetStr_MemEd: every key is stored where the pointer is before it is
\* looked at.  A full stop at the start of a line of M ends it at once.
Letter(key) ==
  /\ Reading /\ key \in Letters /\ Len(typed) < LineMax /\ at < LineMax /\ cursor < LineMax
  /\ ~(reader = "edit" /\ key = "." /\ at = 0)
  /\ buf' = Put(at, key) /\ at' = at + 1 /\ count' = (count + 1) % CountMod
  /\ Echoed(key) /\ typed' = Append(typed, key)
  /\ UNCHANGED <<reader, odd, ran, port>>

BackSpace ==
  /\ Reading /\ buf' = Put(at, "BS")
  /\ typed' = SubSeq(typed, 1, Len(typed) - 1)
  /\ IF count = 0 THEN UNCHANGED <<at, count, shown, cursor>>
     ELSE /\ at > -LineMax /\ cursor >= 0  \* bounds the way before the line
          /\ at' = at - 1 /\ count' = CountAfterBS /\ Erased
  /\ UNCHANGED <<reader, odd, ran, port>>

LineFeed ==
  /\ Reading /\ buf' = Put(at, "LF")
  /\ UNCHANGED <<reader, at, count, shown, cursor, typed, odd, ran, port>>

-----------------------------------------------------------------------------
(* A line.                                                                 *)

\* The text of the buffer, and its first word (GetStrBlk).
EndOfText(b) == Min({i \in Offsets: b[i] = "NUL"} \cup {LineMax + 1})
WordOf(b) ==
  LET n     == EndOfText(b)
      first == Min({i \in 0..(n - 1): b[i] # " "} \cup {n})
      after == Min({i \in first..(n - 1): b[i] = " "} \cup {n})
  IN [i \in 1..(after - first) |-> b[first + i - 1]]

Ended == Put(at, "NUL")

EndCommand ==
  /\ reader = "command"
  /\ reader' = "parse" /\ buf' = Ended
  /\ UNCHANGED <<at, count, shown, cursor, typed, odd, ran, port>>

\* A line of M: a datum, Return or nonsense, and the next cell is shown.
EndEdit ==
  /\ reader = "edit"
  /\ buf' = Ended /\ StartOfLine("edit", 0)
  /\ UNCHANGED <<ran, port>>
EditDone ==
  /\ reader = "edit" /\ at = 0 /\ "." \in Letters
  /\ buf' = [buf EXCEPT ![0] = ".", ![1] = "NUL"] /\ StartOfLine("command", 0)
  /\ UNCHANGED <<ran, port>>

\* "Change ?(Y/N)": the answer counts when the count is 1.
Answered == count = 1 /\ buf[0] \in {"y", "n"}
EndChange ==
  /\ reader = "change" /\ buf' = Ended
  /\ IF ~Answered THEN StartOfLine("change", count)
     ELSE IF buf[0] = "n" THEN StartOfLine("command", 0)
     ELSE \E c \in Garbage: StartOfLine("value", c)
  /\ UNCHANGED <<ran, port>>

\* A datum, or none, or a bad one.
EndValue ==
  /\ reader = "value" /\ buf' = Ended
  /\ \/ StartOfLine("value", count)
     \/ EndOfText(Ended) # 0 /\ StartOfLine("command", 0)
  /\ UNCHANGED <<ran, port>>

-----------------------------------------------------------------------------
(* A command.                                                              *)

SameName(word, name) ==
  /\ Len(word) <= Len(name) /\ SubSeq(name, 1, Len(word)) = word
  /\ Len(name) = Len(word)
Found == {i \in 1..Len(Table): SameName(WordOf(buf), Table[i].name)}

\* An empty line runs nothing; one of blanks only is not found.
Parse ==
  /\ reader = "parse" /\ UNCHANGED buf
  /\ IF EndOfText(buf) = 0 \/ Found = {}
     THEN ran' = 0 /\ StartOfLine("command", 0) /\ UNCHANGED port
     ELSE LET i == Min(Found) IN
          /\ ran' = i
          /\ CASE Table[i].does = "return" -> StartOfLine("command", 0) /\ UNCHANGED port
               [] Table[i].does = "edit"   -> StartOfLine("edit", 0) /\ UNCHANGED port
               [] Table[i].does = "change" -> UNCHANGED port /\ \E c \in Garbage: StartOfLine("change", c)
               [] OTHER ->
                    \* The message: the processor waits while the transmitter is full.
                    /\ reader' = "drain" /\ target' = Table[i].does /\ sending' \in 1..Fifo
                    /\ UNCHANGED <<at, count, shown, cursor, typed, odd, speed>>

Send ==
  /\ sending > 0 /\ sending' = sending - 1
  /\ UNCHANGED <<reader, line, ran, speed, target>>

\* The speed is set when everything is sent; setting it empties the transmitter.
SendEnd == sending = 0
SetSpeed ==
  /\ reader = "drain" /\ SendEnd
  /\ speed' = target /\ sending' = 0
  /\ UNCHANGED <<buf, ran, target>> /\ StartOfLine("command", 0)

Next ==
  \/ \E key \in Keys: FirstKey(key)
  \/ \E key \in Letters: Letter(key)
  \/ BackSpace \/ LineFeed
  \/ EndCommand \/ EndEdit \/ EditDone \/ EndChange \/ EndValue
  \/ Parse \/ Send \/ SetSpeed

Spec == Init /\ [][Next]_vars

-----------------------------------------------------------------------------
(* Properties.                                                             *)

\* Lines whose count was given a value: those of the commands and of M, but for
\* the first one of all when it begins with a key that is not part of it.
Sound == reader \in {"command", "edit"} /\ ~odd

\* The buffer holds what the user means, with the count and the pointer on it: the
\* pointer cannot go before the line, nor a character taken back stay in it.  The
\* terminal shows the same, and nothing that was taken back.
LineIsTyped ==
  Sound =>
    /\ at = Len(typed) /\ count = at /\ cursor = at
    /\ \A i \in 1..Len(typed): buf[i - 1] = typed[i]
    /\ \A i \in 0..LineMax: shown[i] = IF i < cursor THEN typed[i + 1] ELSE " "

\* The command that runs has the very name the user typed, and not one that only
\* begins with it; an unknown name runs nothing.
IsWord(word) ==
  \E i \in 0..Len(typed), n \in 0..Len(typed):
    /\ i + n <= Len(typed) /\ SubSeq(typed, i + 1, i + n) = word
    /\ \A j \in 1..i: typed[j] = " "
    /\ i + n < Len(typed) => typed[i + n + 1] = " "
RunsWhatIsTyped ==
  [][reader = "parse" /\ ~odd =>
       IF ran' = 0 THEN \A i \in 1..Len(Table): ~IsWord(Table[i].name)
       ELSE IsWord(Table[ran'].name)]_vars
=============================================================================
