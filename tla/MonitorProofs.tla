--------------------------- MODULE MonitorProofs ---------------------------
(***************************************************************************)
(* Theorems about the console, the memory tests and the image loader.      *)
(*                                                                         *)
(* The console: a line is what the user means, and the command that runs is*)
(* the one whose very name it holds.  That needs the ends of words, which  *)
(* the model takes as least elements of sets of offsets: that such a least *)
(* element exists comes from the well-foundedness of the naturals          *)
(* (LeastNatural in Arithmetic).                                           *)
(*                                                                         *)
(* RAMCK and DDRCK: a test that passes has overlooked no fault, and one    *)
(* that fails names an address that is broken.                             *)
(*                                                                         *)
(* EM_W, EM_WB and XLS2: an image is where its records say, for every work *)
(* memory, every program start and every sequence of records.              *)
(***************************************************************************)
EXTENDS MC_Monitor, Arithmetic, FiniteSetTheorems, TLAPS

Readers == {"start", "command", "edit", "change", "value", "parse", "drain"}

\* Every variable is where the code keeps it.
ConsoleTypes ==
  /\ reader \in Readers
  /\ buf \in [Offsets -> Letters \cup {"BS", "LF", "CR", "NUL"}]
  /\ at \in Int /\ count \in 0..(CountMod - 1)
  /\ shown \in [-1..LineMax -> Letters \cup {" "}] /\ cursor \in -1..LineMax
  /\ typed \in Seq(Letters) /\ Len(typed) <= LineMax
  /\ odd \in BOOLEAN /\ ran \in 0..Len(Table)
  /\ speed \in {"slow", "fast"} /\ target \in {"slow", "fast"}
  /\ sending \in 0..Fifo

\* Before the first key nothing is typed or shown.
AtStart ==
  reader = "start" => at = 0 /\ cursor = 0 /\ shown = Blank /\ typed = <<>>

\* A line that has ended is what the user typed, with a NUL behind it.
Parsed ==
  reader = "parse" /\ ~odd =>
    /\ at = Len(typed) /\ buf[at] = "NUL"
    /\ \A i \in 1..Len(typed): buf[i - 1] = typed[i]

\* Characters are sent only before a change of the speed.
Idle == sending # 0 => reader = "drain"

ConsoleInv == ConsoleTypes /\ AtStart /\ LineIsTyped /\ Parsed /\ Idle

-----------------------------------------------------------------------------
(* Types.                                                                  *)

\* What a key leaves in the buffer is a character.
LEMMA PutTyped ==
  ASSUME ConsoleTypes, NEW i, NEW key \in Letters \cup {"BS", "LF", "CR", "NUL"}
  PROVE  Put(i, key) \in [Offsets -> Letters \cup {"BS", "LF", "CR", "NUL"}]
BY DEF ConsoleTypes, Put, Offsets

\* A new line has the type of one.
LEMMA StartTyped ==
  ASSUME NEW r \in Readers, NEW c \in 0..(CountMod - 1), StartOfLine(r, c)
  PROVE  /\ reader' \in Readers /\ at' \in Int /\ count' \in 0..(CountMod - 1)
         /\ shown' \in [-1..LineMax -> Letters \cup {" "}] /\ cursor' \in -1..LineMax
         /\ typed' \in Seq(Letters) /\ Len(typed') <= LineMax /\ odd' \in BOOLEAN
<1>1. LineMax \in Nat  BY ConsoleAssumption
<1>2. shown' \in [-1..LineMax -> Letters \cup {" "}]  BY <1>1 DEF StartOfLine, Blank
<1>3. typed' \in Seq(Letters) /\ Len(typed') = 0  BY DEF StartOfLine
<1>4. reader' \in Readers /\ count' \in 0..(CountMod - 1)  BY DEF StartOfLine
<1>5. at' \in Int  BY DEF StartOfLine
<1>6. cursor' \in -1..LineMax  BY <1>1 DEF StartOfLine
<1>7. odd' \in BOOLEAN  BY DEF StartOfLine
<1>8. Len(typed') <= LineMax  BY <1>1, <1>3
<1> QED  BY <1>2, <1>3, <1>4, <1>5, <1>6, <1>7, <1>8

\* The shape of ConsoleTypes for a step: part of it that a line changes, and the rest.
LineTyped ==
  /\ reader \in Readers /\ at \in Int /\ count \in 0..(CountMod - 1)
  /\ shown \in [-1..LineMax -> Letters \cup {" "}] /\ cursor \in -1..LineMax
  /\ typed \in Seq(Letters) /\ Len(typed) <= LineMax /\ odd \in BOOLEAN
PortTyped ==
  /\ speed \in {"slow", "fast"} /\ target \in {"slow", "fast"} /\ sending \in 0..Fifo
BufTyped == buf \in [Offsets -> Letters \cup {"BS", "LF", "CR", "NUL"}]

LEMMA Parts == ConsoleTypes <=> BufTyped /\ LineTyped /\ PortTyped /\ ran \in 0..Len(Table)
BY DEF ConsoleTypes, BufTyped, LineTyped, PortTyped
LEMMA PartsNext ==
  BufTyped' /\ LineTyped' /\ PortTyped' /\ ran' \in 0..Len(Table) => ConsoleTypes'
BY DEF ConsoleTypes, BufTyped, LineTyped, PortTyped

\* The Min of a set of natural numbers is its least element.
LEMMA MinIsLeast ==
  ASSUME NEW T \in SUBSET Nat, T # {}
  PROVE  Min(T) \in T /\ \A y \in T: Min(T) <= y
<1>1. \E x \in T: \A y \in T: x <= y  BY LeastNatural
<1> QED  BY <1>1 DEF Min

LEMMA FoundLeast ==
  Found # {} => Min(Found) \in Found
<1>1. Found \in SUBSET Nat
  <2>1. Len(Table) \in Nat  BY TableAssumption
  <2> QED  BY <2>1 DEF Found
<1> QED  BY <1>1, MinIsLeast

\* Types are kept by every step.
LEMMA TypeStep ==
  ASSUME ConsoleTypes, AtStart, Next
  PROVE  ConsoleTypes'
<1>0. /\ LineMax \in Nat /\ LineMax > 0 /\ CountMod \in Nat /\ CountMod > 0 /\ LineMax < CountMod
      /\ Garbage \subseteq 0..(CountMod - 1) /\ Fifo \in Nat /\ Fifo > 0
  BY ConsoleAssumption
<1>a. BufTyped /\ LineTyped /\ PortTyped /\ ran \in 0..Len(Table)  BY Parts
<1>z. 0 \in 0..(CountMod - 1) /\ count \in 0..(CountMod - 1)
  <2>1. 0 \in 0..(CountMod - 1)  BY <1>0
  <2>2. count \in 0..(CountMod - 1)  BY <1>a DEF LineTyped
  <2> QED  BY <2>1, <2>2
<1>n. at \in Int  BY <1>a DEF LineTyped
<1>c. cursor \in Int /\ cursor <= LineMax /\ -1 <= cursor
  <2>1. cursor \in -1..LineMax  BY <1>a DEF LineTyped
  <2> QED  BY <2>1, <1>0
<1>s. ASSUME NEW r \in Readers, NEW c \in 0..(CountMod - 1), StartOfLine(r, c)
      PROVE  LineTyped'
  BY <1>s, StartTyped DEF LineTyped
<1>p. UNCHANGED port => PortTyped'  BY <1>a DEF port, PortTyped
<1>r. UNCHANGED ran => ran' \in 0..Len(Table)  BY <1>a
<1>b. ASSUME NEW i, NEW key \in Letters \cup {"BS", "LF", "CR", "NUL"}, buf' = Put(i, key)
      PROVE  BufTyped'
  BY <1>b, PutTyped DEF BufTyped
<1>1. ASSUME NEW key \in Keys, FirstKey(key) PROVE ConsoleTypes'
  <2>1. BufTyped'  BY <1>1, <1>a, <1>0 DEF FirstKey, BufTyped, Keys, Offsets
  <2>2. PortTyped' /\ ran' \in 0..Len(Table)  BY <1>1, <1>p, <1>r DEF FirstKey
  <2>3. LineTyped'
    <3>1. CASE key = "CR"
      <4>1. "command" \in Readers  BY DEF Readers
      <4> QED  BY <1>1, <3>1, <4>1, <1>s, <1>z DEF FirstKey
    <3>2. CASE key # "CR"
      <4>1. /\ reader' = "command" /\ at' = 1 /\ count' = 1 /\ odd' = (key \in {"BS", "LF"})
        BY <1>1, <3>2 DEF FirstKey
      <4>2. cursor = 0 /\ typed = <<>>  BY <1>1 DEF FirstKey, AtStart
      <4>3. shown' \in [-1..LineMax -> Letters \cup {" "}]
        <5>1. CASE key \in {"BS", "LF"}  BY <1>1, <3>2, <5>1, <1>a DEF FirstKey, LineTyped
        <5>2. CASE key \notin {"BS", "LF"}
          <6>1. key \in Letters  BY <3>2, <5>2 DEF Keys
          <6>2. shown' = [shown EXCEPT ![cursor] = key]  BY <1>1, <3>2, <5>2 DEF FirstKey, Echoed
          <6> QED  BY <6>1, <6>2, <1>a DEF LineTyped
        <5> QED  BY <5>1, <5>2
      <4>4. cursor' \in -1..LineMax
        BY <1>1, <3>2, <4>2, <1>0 DEF FirstKey, Echoed
      <4>5. typed' \in Seq(Letters) /\ Len(typed') <= LineMax
        <5>1. CASE key \in {"BS", "LF"}  BY <1>1, <3>2, <5>1, <1>a DEF FirstKey, LineTyped
        <5>2. CASE key \notin {"BS", "LF"}
          <6>1. key \in Letters  BY <3>2, <5>2 DEF Keys
          <6>2. typed' = <<key>>  BY <1>1, <3>2, <5>2 DEF FirstKey
          <6> QED  BY <6>1, <6>2, <1>0
        <5> QED  BY <5>1, <5>2
      <4>6. count' \in 0..(CountMod - 1) /\ reader' \in Readers /\ at' \in Int
        BY <4>1, <1>0 DEF Readers
      <4>7. odd' \in BOOLEAN  BY <4>1
      <4> QED  BY <4>3, <4>4, <4>5, <4>6, <4>7 DEF LineTyped
    <3> QED  BY <3>1, <3>2
  <2> QED  BY <2>1, <2>2, <2>3, PartsNext
<1>2. ASSUME NEW key \in Letters, Letter(key) PROVE ConsoleTypes'
  <2>1. BufTyped'  BY <1>2, <1>b DEF Letter
  <2>2. PortTyped' /\ ran' \in 0..Len(Table)  BY <1>2, <1>p, <1>r DEF Letter
  <2>3. shown' \in [-1..LineMax -> Letters \cup {" "}]
    <3>1. shown' = [shown EXCEPT ![cursor] = key]  BY <1>2 DEF Letter, Echoed
    <3> QED  BY <3>1, <1>a DEF LineTyped
  <2>4. cursor' \in -1..LineMax
    <3>1. cursor \in -1..LineMax  BY <1>a DEF LineTyped
    <3> QED  BY <1>2, <3>1, <1>0 DEF Letter, Echoed
  <2>5. typed' \in Seq(Letters) /\ Len(typed') <= LineMax
    <3>1. typed \in Seq(Letters)  BY <1>a DEF LineTyped
    <3>2. typed' = Append(typed, key) /\ Len(typed) < LineMax  BY <1>2 DEF Letter
    <3> QED  BY <3>1, <3>2, <1>0
  <2>6. count' \in 0..(CountMod - 1)
    <3>1. count + 1 \in Nat  BY <1>z, <1>0
    <3>2. count' = (count + 1) % CountMod  BY <1>2 DEF Letter
    <3> QED  BY <3>1, <3>2, <1>0
  <2>7. reader' = reader /\ odd' = odd /\ at' = at + 1  BY <1>2 DEF Letter
  <2>8. reader' \in Readers /\ odd' \in BOOLEAN  BY <2>7, <1>a DEF LineTyped
  <2>9. at' \in Int
    <3>1. at' = at + 1  BY <2>7
    <3> QED  BY <3>1, <1>n
  <2> QED  BY <2>1, <2>2, <2>3, <2>4, <2>5, <2>6, <2>8, <2>9, PartsNext DEF LineTyped
<1>3. ASSUME BackSpace PROVE ConsoleTypes'
  <2>1. BufTyped'  BY <1>3, <1>b DEF BackSpace
  <2>2. PortTyped' /\ ran' \in 0..Len(Table)  BY <1>3, <1>p, <1>r DEF BackSpace
  <2>3. typed' \in Seq(Letters) /\ Len(typed') <= LineMax
    <3>1. typed \in Seq(Letters) /\ Len(typed) <= LineMax  BY <1>a DEF LineTyped
    <3>2. typed' = SubSeq(typed, 1, Len(typed) - 1)  BY <1>3 DEF BackSpace
    <3>3. CASE typed = <<>>
      <4>1. typed' = <<>>  BY <3>2, <3>3
      <4> QED  BY <4>1, <1>0
    <3>4. CASE typed # <<>>
      <4>1. Len(typed) \in Nat \ {0}  BY <3>1, <3>4
      <4>2. \A i \in 1..(Len(typed) - 1): typed[i] \in Letters  BY <3>1
      <4> QED  BY <3>1, <3>2, <4>1, <4>2, <1>0
    <3> QED  BY <3>3, <3>4
  <2>4. /\ shown' \in [-1..LineMax -> Letters \cup {" "}] /\ cursor' \in -1..LineMax
        /\ count' \in 0..(CountMod - 1) /\ at' \in Int
    <3>1. CASE count = 0
      <4>1. UNCHANGED <<at, count, shown, cursor>>  BY <1>3, <3>1 DEF BackSpace
      <4> QED  BY <4>1, <1>a DEF LineTyped
    <3>2. CASE count # 0
      <4>1. /\ cursor >= 0 /\ at' = at - 1 /\ count' = (count - 1) % CountMod
            /\ shown' = [shown EXCEPT ![cursor - 1] = " "] /\ cursor' = cursor - 1
        BY <1>3, <3>2 DEF BackSpace, CountAfterBS, Erased
      <4>2. /\ cursor \in -1..LineMax /\ at \in Int
            /\ shown \in [-1..LineMax -> Letters \cup {" "}]
        BY <1>a DEF LineTyped
      <4>3. shown' \in [-1..LineMax -> Letters \cup {" "}]  BY <4>1, <4>2
      <4>4. cursor' \in -1..LineMax
        <5>1. cursor >= 0 /\ cursor' = cursor - 1  BY <4>1
        <5> QED  BY <5>1, <1>c, <1>0
      <4>6. at' \in Int
        <5>1. at' = at - 1  BY <4>1
        <5> QED  BY <5>1, <1>n
      <4>5. count' \in 0..(CountMod - 1)
        <5>1. count - 1 \in Nat  BY <1>z, <1>0, <3>2
        <5>2. count' = (count - 1) % CountMod  BY <4>1
        <5> QED  BY <5>1, <5>2, <1>0
      <4> QED  BY <4>3, <4>4, <4>5, <4>6
    <3> QED  BY <3>1, <3>2
  <2>5. reader' \in Readers /\ odd' \in BOOLEAN  BY <1>3, <1>a DEF BackSpace, LineTyped
  <2> QED  BY <2>1, <2>2, <2>3, <2>4, <2>5, PartsNext DEF LineTyped
<1>4. ASSUME LineFeed PROVE ConsoleTypes'
  <2>1. BufTyped'  BY <1>4, <1>b DEF LineFeed
  <2>2. PortTyped' /\ ran' \in 0..Len(Table)  BY <1>4, <1>p, <1>r DEF LineFeed
  <2>3. LineTyped'  BY <1>4, <1>a DEF LineFeed, LineTyped
  <2> QED  BY <2>1, <2>2, <2>3, PartsNext
<1>e. buf' = Ended => BufTyped'  BY <1>b DEF Ended
<1>5. ASSUME EndCommand PROVE ConsoleTypes'
  <2>1. BufTyped'  BY <1>5, <1>e DEF EndCommand
  <2>2. PortTyped' /\ ran' \in 0..Len(Table)  BY <1>5, <1>p, <1>r DEF EndCommand
  <2>3. LineTyped'  BY <1>5, <1>a DEF EndCommand, LineTyped, Readers
  <2> QED  BY <2>1, <2>2, <2>3, PartsNext
<1>k. {"command", "edit", "change", "value"} \subseteq Readers  BY DEF Readers
<1>g. \A c \in Garbage: c \in 0..(CountMod - 1)  BY <1>0
<1>6. ASSUME EndEdit PROVE ConsoleTypes'
  <2>1. BufTyped' /\ LineTyped'  BY <1>6, <1>e, <1>s, <1>k, <1>z DEF EndEdit
  <2>2. PortTyped' /\ ran' \in 0..Len(Table)  BY <1>6, <1>p, <1>r DEF EndEdit
  <2> QED  BY <2>1, <2>2, PartsNext
<1>7. ASSUME EditDone PROVE ConsoleTypes'
  <2>1. LineTyped'  BY <1>7, <1>s, <1>k, <1>z DEF EditDone
  <2>2. PortTyped' /\ ran' \in 0..Len(Table)  BY <1>7, <1>p, <1>r DEF EditDone
  <2>3. BufTyped'  BY <1>7, <1>a, <1>0 DEF EditDone, BufTyped
  <2> QED  BY <2>1, <2>2, <2>3, PartsNext
<1>8. ASSUME EndChange PROVE ConsoleTypes'
  <2>1. BufTyped'  BY <1>8, <1>e DEF EndChange
  <2>2. LineTyped'  BY <1>8, <1>s, <1>k, <1>z, <1>g DEF EndChange
  <2>3. PortTyped' /\ ran' \in 0..Len(Table)  BY <1>8, <1>p, <1>r DEF EndChange
  <2> QED  BY <2>1, <2>2, <2>3, PartsNext
<1>9. ASSUME EndValue PROVE ConsoleTypes'
  <2>1. BufTyped' /\ LineTyped'  BY <1>9, <1>e, <1>s, <1>k, <1>z DEF EndValue
  <2>2. PortTyped' /\ ran' \in 0..Len(Table)  BY <1>9, <1>p, <1>r DEF EndValue
  <2> QED  BY <2>1, <2>2, PartsNext
<1>10. ASSUME Parse PROVE ConsoleTypes'
  <2>1. BufTyped'  BY <1>10, <1>a DEF Parse, BufTyped
  <2>2. CASE EndOfText(buf) = 0 \/ Found = {}
    <3>1. ran' = 0 /\ StartOfLine("command", 0) /\ UNCHANGED port  BY <1>10, <2>2 DEF Parse
    <3>2. ran' \in 0..Len(Table)
      <4>1. Len(Table) \in Nat  BY TableAssumption
      <4> QED  BY <3>1, <4>1
    <3> QED  BY <2>1, <3>1, <3>2, <1>p, <1>s, <1>k, <1>z, PartsNext
  <2>3. CASE ~(EndOfText(buf) = 0 \/ Found = {})
    <3>1. PICK i : i = Min(Found)  OBVIOUS
    <3>2. i \in 1..Len(Table)  BY <2>3, <3>1, FoundLeast DEF Found
    <3>3. Table[i].does \in Deeds  BY <3>2, TableAssumption
    <3>4. ran' = i  BY <1>10, <2>3, <3>1 DEF Parse
    <3>5. LineTyped' /\ PortTyped'
      <4>1. CASE Table[i].does \in {"return", "edit", "change"}
        BY <1>10, <2>3, <3>1, <4>1, <1>p, <1>s, <1>k, <1>z, <1>g DEF Parse
      <4>2. CASE Table[i].does \in {"slow", "fast"}
        <5>1. /\ reader' = "drain" /\ target' = Table[i].does /\ sending' \in 1..Fifo
              /\ UNCHANGED <<at, count, shown, cursor, typed, odd, speed>>
          BY <1>10, <2>3, <3>1, <4>2 DEF Parse
        <5>2. LineTyped'  BY <5>1, <1>a DEF LineTyped, Readers
        <5>3. speed' \in {"slow", "fast"} /\ target' \in {"slow", "fast"}
          BY <5>1, <4>2, <1>a DEF PortTyped
        <5>4. sending' \in 0..Fifo  BY <5>1, <1>0
        <5> QED  BY <5>2, <5>3, <5>4 DEF PortTyped
      <4> QED  BY <4>1, <4>2, <3>3 DEF Deeds
    <3> QED  BY <2>1, <3>2, <3>4, <3>5, PartsNext
  <2> QED  BY <2>2, <2>3
<1>11. ASSUME Send PROVE ConsoleTypes'
  <2>1. sending \in 0..Fifo  BY <1>a DEF PortTyped
  <2>2. PortTyped'  BY <1>11, <1>a, <2>1, <1>0 DEF Send, PortTyped
  <2>3. BufTyped' /\ LineTyped'  BY <1>11, <1>a DEF Send, line, BufTyped, LineTyped
  <2> QED  BY <1>11, <2>2, <2>3, <1>r, PartsNext DEF Send
<1>12. ASSUME SetSpeed PROVE ConsoleTypes'
  <2>1. PortTyped'  BY <1>12, <1>a, <1>0 DEF SetSpeed, PortTyped
  <2>2. BufTyped'  BY <1>12, <1>a DEF SetSpeed, BufTyped
  <2>3. LineTyped'  BY <1>12, <1>s, <1>k, <1>z DEF SetSpeed
  <2> QED  BY <1>12, <2>1, <2>2, <2>3, <1>r, PartsNext DEF SetSpeed
<1> QED  BY <1>1, <1>2, <1>3, <1>4, <1>5, <1>6, <1>7, <1>8, <1>9, <1>10, <1>11, <1>12 DEF Next

-----------------------------------------------------------------------------
(* The line.                                                               *)

\* What is known of the variables of a line, one by one.
LEMMA LineFacts ==
  ASSUME ConsoleTypes
  PROVE  /\ at \in Int /\ cursor \in Int /\ typed \in Seq(Letters) /\ Len(typed) \in Nat
         /\ Len(typed) <= LineMax /\ LineMax \in Nat /\ count \in Nat
         /\ CountMod \in Nat /\ LineMax < CountMod
         /\ shown \in [-1..LineMax -> Letters \cup {" "}]
         /\ buf \in [0..LineMax -> Letters \cup {"BS", "LF", "CR", "NUL"}]
<1>1. LineMax \in Nat /\ CountMod \in Nat /\ LineMax < CountMod  BY ConsoleAssumption
<1>2. cursor \in -1..LineMax  BY DEF ConsoleTypes
<1>3. cursor \in Int  BY <1>1, <1>2
<1>4. at \in Int  BY DEF ConsoleTypes
<1>5. typed \in Seq(Letters) /\ Len(typed) <= LineMax  BY DEF ConsoleTypes
<1>6. count \in 0..(CountMod - 1)  BY DEF ConsoleTypes
<1>7. count \in Nat  BY <1>1, <1>6
<1>8. Len(typed) \in Nat  BY <1>5
<1>9. buf \in [0..LineMax -> Letters \cup {"BS", "LF", "CR", "NUL"}]  BY DEF ConsoleTypes, Offsets
<1> QED  BY <1>1, <1>3, <1>4, <1>5, <1>7, <1>8, <1>9 DEF ConsoleTypes

\* A new line with a count of zero is what the user has typed: nothing.
LEMMA FreshLine ==
  ASSUME NEW r, StartOfLine(r, 0)
  PROVE  LineIsTyped'
<1>1. LineMax \in Nat  BY ConsoleAssumption
<1>2. at' = 0 /\ count' = 0 /\ cursor' = 0 /\ typed' = <<>> /\ shown' = Blank
  BY DEF StartOfLine
<1>3. \A i \in 0..LineMax: shown'[i] = IF i < cursor' THEN typed'[i + 1] ELSE " "
  <2>1. \A i \in 0..LineMax: Blank[i] = " "
    <3>1. \A i \in 0..LineMax: i \in -1..LineMax  BY <1>1
    <3> QED  BY <3>1 DEF Blank
  <2>2. \A i \in 0..LineMax: ~(i < cursor')  BY <1>1, <1>2
  <2> QED  BY <1>2, <2>1, <2>2
<1>4. Len(typed') = 0  BY <1>2
<1>5. \A i \in 1..Len(typed'): buf'[i - 1] = typed'[i]  BY <1>4
<1> QED  BY <1>2, <1>3, <1>4, <1>5 DEF LineIsTyped

\* Outside the command line and M nothing is said of a line.
LEMMA OtherLine ==
  ASSUME reader' \notin {"command", "edit"}
  PROVE  LineIsTyped'
BY DEF LineIsTyped, Sound

\* The beginning of a sequence.
LEMMA Shorter ==
  ASSUME NEW S, NEW s \in Seq(S), NEW k \in 0..Len(s)
  PROVE  Len(SubSeq(s, 1, k)) = k /\ \A i \in 1..k: SubSeq(s, 1, k)[i] = s[i]
OBVIOUS

\* A line stays what the user means.
LEMMA LineStep ==
  ASSUME ConsoleTypes, AtStart, LineIsTyped, Next
  PROVE  LineIsTyped'
<1>t. typed \in Seq(Letters) /\ Len(typed) \in Nat  BY LineFacts
<1>m. Len(typed) <= LineMax  BY LineFacts
<1>v. shown \in [-1..LineMax -> Letters \cup {" "}]  BY LineFacts
<1>b. buf \in [0..LineMax -> Letters \cup {"BS", "LF", "CR", "NUL"}]  BY LineFacts
<1>0. LineMax \in Nat /\ LineMax > 0 /\ CountMod \in Nat /\ LineMax < CountMod  BY ConsoleAssumption
<1>1. ASSUME NEW key \in Keys, FirstKey(key) PROVE LineIsTyped'
  <2>1. CASE key = "CR"  BY <1>1, <2>1, FreshLine DEF FirstKey
  <2>2. CASE key \in {"BS", "LF"}
    <3>1. odd' = TRUE  BY <1>1, <2>2 DEF FirstKey
    <3> QED  BY <3>1 DEF LineIsTyped, Sound
  <2>3. CASE key \notin {"BS", "LF", "CR"}
    <3>1. at = 0 /\ cursor = 0 /\ shown = Blank /\ typed = <<>>  BY <1>1 DEF FirstKey, AtStart
    <3>2. /\ at' = 1 /\ count' = 1 /\ buf' = [buf EXCEPT ![0] = key]
          /\ shown' = [shown EXCEPT ![cursor] = key] /\ cursor' = cursor + 1
          /\ typed' = <<key>>
      BY <1>1, <2>3 DEF FirstKey, Echoed
    <3>3. cursor' = 1 /\ Len(typed') = 1 /\ typed'[1] = key  BY <3>1, <3>2
    <3>4. \A i \in 1..Len(typed'): buf'[i - 1] = typed'[i]
      <4>1. buf'[0] = key
        <5>1. 0 \in 0..LineMax  BY <1>0
        <5> QED  BY <3>2, <5>1, <1>b
      <4> QED  BY <3>3, <4>1
    <3>5. \A i \in 0..LineMax: shown'[i] = IF i < cursor' THEN typed'[i + 1] ELSE " "
      <4>1. shown' = [Blank EXCEPT ![0] = key]  BY <3>1, <3>2
      <4>2. \A i \in 0..LineMax: shown'[i] = IF i = 0 THEN key ELSE " "
        <5>1. \A i \in 0..LineMax: i \in -1..LineMax  BY <1>0
        <5> QED  BY <4>1, <5>1 DEF Blank
      <4>3. \A i \in 0..LineMax: i < 1 <=> i = 0  BY <1>0
      <4>4. typed'[0 + 1] = key  BY <3>3
      <4> QED  BY <3>3, <4>2, <4>3, <4>4
    <3> QED  BY <3>2, <3>3, <3>4, <3>5 DEF LineIsTyped
  <2> QED  BY <2>1, <2>2, <2>3
<1>2. ASSUME NEW key \in Letters, Letter(key) PROVE LineIsTyped'
  <2> SUFFICES ASSUME Sound' PROVE LineIsTyped'  BY DEF LineIsTyped
  <2>1. /\ reader' = reader /\ odd' = odd /\ buf' = Put(at, key) /\ at' = at + 1
        /\ count' = (count + 1) % CountMod /\ typed' = Append(typed, key) /\ at < LineMax
        /\ shown' = [shown EXCEPT ![cursor] = key] /\ cursor' = cursor + 1
    BY <1>2 DEF Letter, Echoed
  <2>2. Sound  BY <2>1 DEF Sound
  <2>3. /\ at = Len(typed) /\ count = at /\ cursor = at
        /\ \A i \in 1..Len(typed): buf[i - 1] = typed[i]
        /\ \A i \in 0..LineMax: shown[i] = IF i < cursor THEN typed[i + 1] ELSE " "
    BY <2>2 DEF LineIsTyped
  <2> DEFINE n == Len(typed)
  <2>4. n \in Nat /\ n < LineMax  BY <2>1, <2>3, <1>t
  <2>5. Len(typed') = n + 1 /\ typed'[n + 1] = key /\ \A i \in 1..n: typed'[i] = typed[i]
    <3>1. typed' = Append(typed, key)  BY <2>1
    <3> QED  BY <3>1, <1>t
  <2>6. count' = n + 1
    <3>1. count' = (n + 1) % CountMod  BY <2>1, <2>3
    <3> HIDE DEF n
    <3> QED  BY <3>1, <2>4, <1>0
  <2>7. \A i \in 1..(n + 1): buf'[i - 1] = typed'[i]
    <3>1. n \in Offsets
      <4> HIDE DEF n
      <4> QED  BY <2>4, <1>0 DEF Offsets
    <3>2. buf' = [buf EXCEPT ![n] = key]  BY <2>1, <2>3, <3>1 DEF Put
    <3>3. \A i \in 0..LineMax: buf'[i] = IF i = n THEN key ELSE buf[i]
      BY <3>2, <1>b
    <3>4. \A i \in 1..n: buf[i - 1] = typed[i]  BY <2>3
    <3> HIDE DEF n
    <3> TAKE i \in 1..(n + 1)
    <3>5. i - 1 \in 0..LineMax /\ (i = n + 1 <=> i - 1 = n) /\ (i # n + 1 => i \in 1..n)
      BY <2>4, <1>0
    <3>6. buf'[i - 1] = IF i - 1 = n THEN key ELSE buf[i - 1]  BY <3>3, <3>5
    <3> QED  BY <3>4, <3>5, <3>6, <2>5
  <2>8. \A i \in 0..LineMax: shown'[i] = IF i < n + 1 THEN typed'[i + 1] ELSE " "
    <3>1. cursor = n  BY <2>3
    <3>2. \A i \in 0..LineMax: shown'[i] = IF i = n THEN key ELSE shown[i]
      <4>1. shown' = [shown EXCEPT ![n] = key]  BY <2>1, <3>1
      <4>2. \A i \in 0..LineMax: i \in -1..LineMax  BY <1>0
      <4> QED  BY <4>1, <4>2, <1>v
    <3>3. \A i \in 0..LineMax: shown[i] = IF i < n THEN typed[i + 1] ELSE " "  BY <2>3
    <3> HIDE DEF n
    <3> TAKE i \in 0..LineMax
    <3>4. CASE i < n
      <4>1. i + 1 \in 1..n /\ i # n /\ i < n + 1  BY <3>4, <2>4, <1>0
      <4> QED  BY <3>2, <3>3, <3>4, <4>1, <2>5
    <3>5. CASE i = n
      <4>1. i < n + 1  BY <3>5, <2>4
      <4> QED  BY <3>2, <3>5, <4>1, <2>5
    <3>6. CASE i > n
      <4>1. i # n /\ ~(i < n) /\ ~(i < n + 1)  BY <3>6, <2>4, <1>0
      <4> QED  BY <3>2, <3>3, <4>1
    <3>7. i < n \/ i = n \/ i > n  BY <2>4, <1>0
    <3> QED  BY <3>4, <3>5, <3>6, <3>7
  <2>9. at' = n + 1 /\ cursor' = n + 1  BY <2>1, <2>3
  <2> QED  BY <2>5, <2>6, <2>7, <2>8, <2>9 DEF LineIsTyped
<1>3. ASSUME BackSpace PROVE LineIsTyped'
  <2> SUFFICES ASSUME Sound' PROVE LineIsTyped'  BY DEF LineIsTyped
  <2>1. /\ reader' = reader /\ odd' = odd /\ buf' = Put(at, "BS")
        /\ typed' = SubSeq(typed, 1, Len(typed) - 1)
    BY <1>3 DEF BackSpace
  <2>2. Sound  BY <2>1 DEF Sound
  <2>3. /\ at = Len(typed) /\ count = at /\ cursor = at
        /\ \A i \in 1..Len(typed): buf[i - 1] = typed[i]
        /\ \A i \in 0..LineMax: shown[i] = IF i < cursor THEN typed[i + 1] ELSE " "
    BY <2>2 DEF LineIsTyped
  <2> DEFINE n == Len(typed)
  <2>4. n \in Nat /\ n <= LineMax  BY <1>t, <1>m
  <2>5. \A i \in 0..(n - 1): buf'[i] = buf[i]
    <3>1. \A i \in 0..LineMax: i # n => buf'[i] = buf[i]
      <4>1. n \in Offsets
        <5> HIDE DEF n
        <5> QED  BY <2>4, <1>0 DEF Offsets
      <4>2. buf' = [buf EXCEPT ![n] = "BS"]  BY <2>1, <2>3, <4>1 DEF Put
      <4> QED  BY <4>2, <1>b
    <3> HIDE DEF n
    <3> TAKE i \in 0..(n - 1)
    <3>2. i \in 0..LineMax /\ i # n  BY <2>4, <1>0
    <3> QED  BY <3>1, <3>2
  <2>6. CASE n = 0
    <3>1. count = 0  BY <2>3, <2>6
    <3>2. UNCHANGED <<at, count, shown, cursor>>  BY <1>3, <3>1 DEF BackSpace
    <3>3. typed' = <<>>
      <4>1. typed = <<>>  BY <2>6, <1>t
      <4> QED  BY <2>1, <4>1
    <3>4. Len(typed') = 0  BY <3>3
    <3>7. \A i \in 1..Len(typed'): buf'[i - 1] = typed'[i]  BY <3>4
    <3>5. \A i \in 0..LineMax: shown'[i] = IF i < cursor' THEN typed'[i + 1] ELSE " "
      <4>1. cursor = 0 /\ cursor' = 0 /\ shown' = shown  BY <2>3, <2>6, <3>2
      <4>2. \A i \in 0..LineMax: ~(i < 0)  BY <1>0
      <4> QED  BY <4>1, <4>2, <2>3
    <3>6. at' = 0 /\ count' = 0 /\ cursor' = 0  BY <2>3, <2>6, <3>2
    <3> QED  BY <3>4, <3>5, <3>6, <3>7 DEF LineIsTyped
  <2>7. CASE n # 0
    <3>1. count # 0  BY <2>3, <2>7
    <3>2. /\ at' = at - 1 /\ count' = (count - 1) % CountMod
          /\ shown' = [shown EXCEPT ![cursor - 1] = " "] /\ cursor' = cursor - 1
      BY <1>3, <3>1 DEF BackSpace, CountAfterBS, Erased
    <3>3. Len(typed') = n - 1 /\ \A i \in 1..(n - 1): typed'[i] = typed[i]
      <4>1. typed' = SubSeq(typed, 1, n - 1)  BY <2>1
      <4>2. n - 1 \in 0..n  BY <2>4, <2>7
      <4> QED  BY <4>1, <4>2, <1>t, Shorter
    <3>4. at' = n - 1 /\ cursor' = n - 1  BY <3>2, <2>3
    <3>5. count' = n - 1
      <4>1. count' = (n - 1) % CountMod  BY <3>2, <2>3
      <4> HIDE DEF n
      <4> QED  BY <4>1, <2>4, <2>7, <1>0
    <3>6. \A i \in 1..(n - 1): buf'[i - 1] = typed'[i]
      <4>1. \A i \in 1..n: buf[i - 1] = typed[i]  BY <2>3
      <4> HIDE DEF n
      <4> TAKE i \in 1..(n - 1)
      <4>2. i \in 1..n /\ i - 1 \in 0..(n - 1)  BY <2>4
      <4> QED  BY <4>1, <4>2, <2>5, <3>3
    <3>7. \A i \in 0..LineMax: shown'[i] = IF i < n - 1 THEN typed'[i + 1] ELSE " "
      <4>1. cursor - 1 = n - 1  BY <2>3
      <4>2. \A i \in 0..LineMax: shown'[i] = IF i = n - 1 THEN " " ELSE shown[i]
        <5>1. shown' = [shown EXCEPT ![n - 1] = " "]  BY <3>2, <4>1
        <5>2. \A i \in 0..LineMax: i \in -1..LineMax  BY <1>0
        <5> QED  BY <5>1, <5>2, <1>v
      <4>3. \A i \in 0..LineMax: shown[i] = IF i < n THEN typed[i + 1] ELSE " "  BY <2>3
      <4> HIDE DEF n
      <4> TAKE i \in 0..LineMax
      <4>4. CASE i < n - 1
        <5>1. i + 1 \in 1..(n - 1) /\ i # n - 1 /\ i < n  BY <4>4, <2>4, <1>0
        <5> QED  BY <4>2, <4>3, <4>4, <5>1, <3>3
      <4>5. CASE i = n - 1
        <5>1. ~(i < n - 1)  BY <4>5, <2>4
        <5> QED  BY <4>2, <4>5, <5>1
      <4>6. CASE i > n - 1
        <5>1. i # n - 1 /\ ~(i < n) /\ ~(i < n - 1)  BY <4>6, <2>4, <1>0
        <5> QED  BY <4>2, <4>3, <5>1
      <4>7. i < n - 1 \/ i = n - 1 \/ i > n - 1  BY <2>4, <1>0
      <4> QED  BY <4>4, <4>5, <4>6, <4>7
    <3> QED  BY <3>3, <3>4, <3>5, <3>6, <3>7 DEF LineIsTyped
  <2> QED  BY <2>6, <2>7
<1>4. ASSUME LineFeed PROVE LineIsTyped'
  <2> SUFFICES ASSUME Sound' PROVE LineIsTyped'  BY DEF LineIsTyped
  <2>1. UNCHANGED <<reader, at, count, shown, cursor, typed, odd>> /\ buf' = Put(at, "LF")
    BY <1>4 DEF LineFeed
  <2>2. Sound  BY <2>1 DEF Sound
  <2>3. /\ at = Len(typed) /\ count = at /\ cursor = at
        /\ \A i \in 1..Len(typed): buf[i - 1] = typed[i]
        /\ \A i \in 0..LineMax: shown[i] = IF i < cursor THEN typed[i + 1] ELSE " "
    BY <2>2 DEF LineIsTyped
  <2> DEFINE n == Len(typed)
  <2>4. n \in Nat /\ n <= LineMax  BY <1>t, <1>m
  <2>5. \A i \in 1..n: buf'[i - 1] = typed[i]
    <3>1. \A i \in 0..LineMax: i # n => buf'[i] = buf[i]
      <4>1. n \in Offsets
        <5> HIDE DEF n
        <5> QED  BY <2>4, <1>0 DEF Offsets
      <4>2. buf' = [buf EXCEPT ![n] = "LF"]  BY <2>1, <2>3, <4>1 DEF Put
      <4> QED  BY <4>2, <1>b
    <3>2. \A i \in 1..n: buf[i - 1] = typed[i]  BY <2>3
    <3> HIDE DEF n
    <3> TAKE i \in 1..n
    <3>3. i - 1 \in 0..LineMax /\ i - 1 # n  BY <2>4, <1>0
    <3> QED  BY <3>1, <3>2, <3>3
  <2> QED  BY <2>1, <2>3, <2>5 DEF LineIsTyped
<1>5. ASSUME EndCommand PROVE LineIsTyped'  BY <1>5, OtherLine DEF EndCommand
<1>6. ASSUME EndEdit PROVE LineIsTyped'  BY <1>6, FreshLine DEF EndEdit
<1>7. ASSUME EditDone PROVE LineIsTyped'  BY <1>7, FreshLine DEF EditDone
<1>o. ASSUME NEW c, \/ StartOfLine("change", c) \/ StartOfLine("value", c) PROVE LineIsTyped'
  BY <1>o, OtherLine DEF StartOfLine
<1>8. ASSUME EndChange PROVE LineIsTyped'  BY <1>8, <1>o, FreshLine DEF EndChange
<1>9. ASSUME EndValue PROVE LineIsTyped'  BY <1>9, <1>o, FreshLine DEF EndValue
<1>10. ASSUME Parse PROVE LineIsTyped'
  <2>1. CASE StartOfLine("command", 0) \/ StartOfLine("edit", 0)  BY <2>1, FreshLine
  <2>2. CASE \E c \in Garbage: StartOfLine("change", c)  BY <2>2, <1>o
  <2>3. CASE reader' = "drain"  BY <2>3, OtherLine
  <2> QED  BY <1>10, <2>1, <2>2, <2>3 DEF Parse
<1>11. ASSUME Send PROVE LineIsTyped'
  BY <1>11 DEF Send, line, LineIsTyped, Sound
<1>12. ASSUME SetSpeed PROVE LineIsTyped'  BY <1>12, FreshLine DEF SetSpeed
<1> QED  BY <1>1, <1>2, <1>3, <1>4, <1>5, <1>6, <1>7, <1>8, <1>9, <1>10, <1>11, <1>12 DEF Next

\* Only the first key is read at the start, and it leads away from it.
LEMMA StartStep ==
  ASSUME AtStart, Next
  PROVE  AtStart'
<1> SUFFICES ASSUME reader' = "start" PROVE AtStart'  BY DEF AtStart
<1>1. ASSUME NEW r, NEW c, StartOfLine(r, c), r # "start" PROVE FALSE  BY <1>1 DEF StartOfLine
<1>2. ~\E key \in Keys: FirstKey(key)  BY <1>1 DEF FirstKey
<1>3. ASSUME Reading, UNCHANGED reader PROVE FALSE  BY <1>3 DEF Reading
<1>4. ~\E key \in Letters: Letter(key)  BY <1>3 DEF Letter
<1>5. ~BackSpace /\ ~LineFeed  BY <1>3 DEF BackSpace, LineFeed
<1>6. ~EndCommand  BY DEF EndCommand
<1>7. ~EndEdit /\ ~EditDone /\ ~EndValue /\ ~SetSpeed  BY <1>1 DEF EndEdit, EditDone, EndValue, SetSpeed
<1>8. ~EndChange  BY <1>1 DEF EndChange
<1>9. ~Parse  BY <1>1 DEF Parse
<1>10. CASE Send  BY <1>10 DEF Send, line, AtStart
<1> QED  BY <1>2, <1>4, <1>5, <1>6, <1>7, <1>8, <1>9, <1>10 DEF Next

\* Only the end of a line of the command loop leads to the parser.
LEMMA ParsedStep ==
  ASSUME ConsoleTypes, LineIsTyped, Parsed, Next
  PROVE  Parsed'
<1> SUFFICES ASSUME reader' = "parse", ~odd' PROVE Parsed'  BY DEF Parsed
<1>1. ASSUME NEW r, NEW c, StartOfLine(r, c), r # "parse" PROVE FALSE  BY <1>1 DEF StartOfLine
<1>2. ~\E key \in Keys: FirstKey(key)  BY <1>1 DEF FirstKey
<1>3. ASSUME Reading, UNCHANGED reader PROVE FALSE  BY <1>3 DEF Reading
<1>4. ~\E key \in Letters: Letter(key)  BY <1>3 DEF Letter
<1>5. ~BackSpace /\ ~LineFeed  BY <1>3 DEF BackSpace, LineFeed
<1>6. CASE EndCommand
  <2>1. reader = "command" /\ buf' = Put(at, "NUL") /\ UNCHANGED <<at, typed, odd>>
    BY <1>6 DEF EndCommand, Ended
  <2>2. at = Len(typed) /\ \A i \in 1..Len(typed): buf[i - 1] = typed[i]
    BY <2>1 DEF LineIsTyped, Sound
  <2> DEFINE n == Len(typed)
  <2>3. n \in Nat /\ n <= LineMax /\ LineMax \in Nat  BY LineFacts
  <2>4. n \in 0..LineMax
    <3> HIDE DEF n
    <3> QED  BY <2>3
  <2>5. \A i \in 0..LineMax: buf'[i] = IF i = n THEN "NUL" ELSE buf[i]
    <3>1. buf' = [buf EXCEPT ![n] = "NUL"]  BY <2>1, <2>2, <2>4 DEF Put, Offsets
    <3>2. buf \in [0..LineMax -> Letters \cup {"BS", "LF", "CR", "NUL"}]  BY LineFacts
    <3> QED  BY <3>1, <3>2
  <2>6. \A i \in 1..n: buf'[i - 1] = typed[i]
    <3>1. \A i \in 1..n: buf[i - 1] = typed[i]  BY <2>2
    <3> HIDE DEF n
    <3> TAKE i \in 1..n
    <3>2. i - 1 \in 0..LineMax /\ i - 1 # n  BY <2>3
    <3> QED  BY <3>1, <3>2, <2>5
  <2>7. buf'[n] = "NUL"  BY <2>4, <2>5
  <2> QED  BY <2>1, <2>2, <2>6, <2>7 DEF Parsed
<1>7. ~EndEdit /\ ~EditDone /\ ~EndValue /\ ~SetSpeed  BY <1>1 DEF EndEdit, EditDone, EndValue, SetSpeed
<1>8. ~EndChange  BY <1>1 DEF EndChange
<1>9. ~Parse  BY <1>1 DEF Parse
<1>10. CASE Send  BY <1>10 DEF Send, line, Parsed
<1> QED  BY <1>2, <1>4, <1>5, <1>6, <1>7, <1>8, <1>9, <1>10 DEF Next

-----------------------------------------------------------------------------
(* The word and the name.                                                  *)

LEMMA MinIs ==
  ASSUME NEW T \in SUBSET Nat, NEW m \in T, \A y \in T: m <= y
  PROVE  Min(T) = m
<1>1. Min(T) \in T /\ \A y \in T: Min(T) <= y  BY MinIsLeast
<1>2. Min(T) <= m /\ m <= Min(T)  BY <1>1
<1>3. Min(T) \in Nat /\ m \in Nat  BY <1>1
<1> QED  BY <1>2, <1>3

\* A part of a sequence, by its elements.
LEMMA PartIs ==
  ASSUME NEW S, NEW s \in Seq(S), NEW i \in Nat, NEW n \in Nat, i + n <= Len(s)
  PROVE  /\ Len(SubSeq(s, i + 1, i + n)) = n
         /\ \A k \in 1..n: SubSeq(s, i + 1, i + n)[k] = s[i + k]
         /\ SubSeq(s, i + 1, i + n) = [k \in 1..n |-> s[i + k]]
OBVIOUS

\* The text of a line ends where what was typed does.
LEMMA TextIs ==
  ASSUME ConsoleTypes, Parsed, reader = "parse", ~odd
  PROVE  EndOfText(buf) = Len(typed)
<1> DEFINE n == Len(typed)
           T == {i \in Offsets: buf[i] = "NUL"} \cup {LineMax + 1}
<1>1. n \in Nat /\ n <= LineMax /\ LineMax \in Nat  BY LineFacts
<1>2. n \in 0..LineMax /\ LineMax + 1 \in Nat /\ n <= LineMax + 1
  <2> HIDE DEF n
  <2> QED  BY <1>1
<1>3. buf[n] = "NUL" /\ \A i \in 1..n: buf[i - 1] = typed[i]  BY DEF Parsed
<1>4. n \in T  BY <1>2, <1>3 DEF Offsets
<1>5. T \in SUBSET Nat  BY <1>1, <1>2 DEF Offsets
<1>6. \A i \in 1..n: typed[i] # "NUL"
  <2>1. typed \in Seq(Letters)  BY LineFacts
  <2>2. "NUL" \notin Letters  BY TableAssumption
  <2> QED  BY <2>1, <2>2
<1>7. \A i \in T: n <= i
  <2> HIDE DEF n
  <2> SUFFICES ASSUME NEW i \in T, i < n PROVE FALSE
    <3>1. \A i \in T: i \in Nat  BY <1>5
    <3> QED  BY <3>1, <1>1
  <2>1. i \in Nat /\ i # LineMax + 1  BY <1>1, <1>2, <1>5
  <2>2. buf[i] = "NUL"  BY <2>1
  <2>3. i + 1 \in 1..n /\ (i + 1) - 1 = i  BY <1>1, <2>1
  <2>4. buf[(i + 1) - 1] = typed[i + 1]  BY <1>3, <2>3
  <2> QED  BY <1>6, <2>2, <2>3, <2>4
<1>8. Min(T) = n  BY <1>4, <1>5, <1>7, MinIs
<1> QED  BY <1>8 DEF EndOfText

\* The first word of s is behind its first i characters and has m.
WordAt(s, i, m) ==
  /\ \A j \in 1..i: s[j] = " "
  /\ \A k \in 1..m: s[i + k] # " "
  /\ i + m < Len(s) => s[i + m + 1] = " "

\* A word has one place, if it is not empty or nothing is left of the sequence.
LEMMA OnePlace ==
  ASSUME NEW s, Len(s) \in Nat, NEW i \in Nat, NEW m \in Nat, NEW j \in Nat, NEW l \in Nat,
         i + m <= Len(s), j + l <= Len(s), WordAt(s, i, m), WordAt(s, j, l), m > 0,
         j = Len(s) \/ l > 0
  PROVE  i = j /\ m = l
<1> DEFINE n == Len(s)
<1>i. \A k \in 1..i: s[k] = " "  BY DEF WordAt
<1>j. \A k \in 1..j: s[k] = " "  BY DEF WordAt
<1>m. \A k \in 1..m: s[i + k] # " "  BY DEF WordAt
<1>l. \A k \in 1..l: s[j + k] # " "  BY DEF WordAt
<1>x. i + m < n => s[i + m + 1] = " "  BY DEF WordAt
<1>y. j + l < n => s[j + l + 1] = " "  BY DEF WordAt
<1> HIDE DEF n
<1>n. n \in Nat /\ i + m <= n /\ j + l <= n /\ (j = n \/ l > 0)  BY DEF n
<1>1. ~(i < j)
  <2> SUFFICES ASSUME i < j PROVE FALSE  OBVIOUS
  <2>1. i + 1 \in 1..j /\ 1 \in 1..m  OBVIOUS
  <2> QED  BY <1>j, <1>m, <2>1
<1>2. ~(j < i)
  <2> SUFFICES ASSUME j < i PROVE FALSE  OBVIOUS
  <2>1. j + 1 \in 1..i /\ 1 \in 1..l  BY <1>n
  <2> QED  BY <1>i, <1>l, <2>1
<1>3. i = j  BY <1>1, <1>2
<1>4. ~(m < l)
  <2> SUFFICES ASSUME m < l PROVE FALSE  OBVIOUS
  <2>1. m + 1 \in 1..l /\ i + m < n /\ j + (m + 1) = i + m + 1  BY <1>n, <1>3
  <2>2. s[j + (m + 1)] # " "  BY <1>l, <2>1
  <2> QED  BY <1>x, <2>1, <2>2
<1>5. ~(l < m)
  <2> SUFFICES ASSUME l < m PROVE FALSE  OBVIOUS
  <2>1. l + 1 \in 1..m /\ j + l < n /\ i + (l + 1) = j + l + 1  BY <1>n, <1>3
  <2>2. s[i + (l + 1)] # " "  BY <1>m, <2>1
  <2> QED  BY <1>y, <2>1, <2>2
<1> QED  BY <1>3, <1>4, <1>5

\* The first offset of a set, or else the end.
LEMMA FirstOf ==
  ASSUME NEW n \in Nat, NEW m \in Nat, m <= n, NEW T \in SUBSET (m..(n - 1))
  PROVE  LET first == Min(T \cup {n}) IN
         /\ first \in Nat /\ m <= first /\ first <= n /\ (first < n => first \in T)
         /\ \A i \in m..(n - 1): i < first => i \notin T
<1> DEFINE U == T \cup {n}
<1>1. \A i \in U: i \in Nat /\ m <= i /\ i <= n  OBVIOUS
<1>2. U \in SUBSET Nat /\ U # {}  BY <1>1
<1>3. Min(U) \in U /\ \A i \in U: Min(U) <= i
  <2> HIDE DEF U
  <2> QED  BY <1>2, MinIsLeast
<1>4. PICK first : first = Min(U)  OBVIOUS
<1>5. first \in Nat /\ m <= first /\ first <= n  BY <1>1, <1>3, <1>4
<1>6. first < n => first \in T  BY <1>3, <1>4, <1>5
<1>7. \A i \in m..(n - 1): i < first => i \notin T
  <2> SUFFICES ASSUME NEW i \in m..(n - 1), i < first, i \in T PROVE FALSE  OBVIOUS
  <2>1. first <= i  BY <1>3, <1>4
  <2> QED  BY <2>1, <1>5
<1> QED  BY <1>4, <1>5, <1>6, <1>7

\* The word that the parser takes from the buffer is the first of what was typed.
AtParser == ConsoleTypes /\ Parsed /\ reader = "parse" /\ ~odd
LEMMA WordIs ==
  ASSUME AtParser
  PROVE  \E f \in Nat, d \in Nat:
           /\ f + d <= Len(typed) /\ WordAt(typed, f, d) /\ (f = Len(typed) \/ d > 0)
           /\ WordOf(buf) = [k \in 1..d |-> typed[f + k]]
<1> DEFINE n == Len(typed)
<1>1. n \in Nat  BY LineFacts DEF AtParser
<1>2. \A i \in 1..n: buf[i - 1] = typed[i]  BY DEF AtParser, Parsed
<1>3. EndOfText(buf) = n  BY TextIs DEF AtParser
<1>4. PICK F \in SUBSET (0..(n - 1)) : F = {i \in 0..(n - 1): buf[i] # " "}  OBVIOUS
<1>5. PICK first : first = Min(F \cup {n})  OBVIOUS
<1>6. PICK A \in SUBSET (first..(n - 1)) : A = {i \in first..(n - 1): buf[i] = " "}  OBVIOUS
<1>7. PICK after : after = Min(A \cup {n})  OBVIOUS
<1>8. WordOf(buf) = [i \in 1..(after - first) |-> buf[first + i - 1]]
  BY <1>3, <1>4, <1>5, <1>6, <1>7 DEF WordOf
<1> HIDE DEF n
<1>9. /\ first \in Nat /\ first <= n /\ (first < n => first \in F)
      /\ \A i \in 0..(n - 1): i < first => i \notin F
  <2>1. PICK m \in Nat : m = 0  OBVIOUS
  <2>2. m <= n /\ F \in SUBSET (m..(n - 1))  BY <1>1, <2>1
  <2>3. /\ first \in Nat /\ first <= n /\ (first < n => first \in F)
        /\ \A i \in m..(n - 1): i < first => i \notin F
    BY <1>1, <1>5, <2>2, FirstOf
  <2> QED  BY <2>1, <2>3
<1>10. /\ after \in Nat /\ first <= after /\ after <= n /\ (after < n => after \in A)
       /\ \A i \in first..(n - 1): i < after => i \notin A
  BY <1>1, <1>7, <1>9, FirstOf
<1>11. first \in Nat /\ after \in Nat /\ first <= after /\ after <= n  BY <1>9, <1>10
<1>12. \A j \in 1..first: typed[j] = " "
  <2> TAKE j \in 1..first
  <2>1. j - 1 \in 0..(n - 1) /\ j \in 1..n /\ j - 1 < first  BY <1>1, <1>11
  <2>2. buf[j - 1] = " "  BY <2>1, <1>4, <1>9
  <2> QED  BY <1>2, <2>1, <2>2
<1>13. \A k \in 1..(after - first): typed[first + k] # " "
  <2> TAKE k \in 1..(after - first)
  <2>1. /\ first + k - 1 \in first..(n - 1) /\ first + k \in 1..n /\ first + k - 1 < after
        /\ (first + k) - 1 = first + k - 1
    BY <1>1, <1>11
  <2>2. buf[first + k - 1] # " "  BY <2>1, <1>6, <1>10
  <2>3. buf[(first + k) - 1] = typed[first + k]  BY <1>2, <2>1
  <2> QED  BY <2>1, <2>2, <2>3
<1>14. after < n => typed[after + 1] = " "
  <2> SUFFICES ASSUME after < n PROVE typed[after + 1] = " "  OBVIOUS
  <2>1. after + 1 \in 1..n /\ (after + 1) - 1 = after  BY <1>1, <1>11
  <2>2. buf[after] = " "  BY <1>6, <1>10
  <2> QED  BY <1>2, <2>1, <2>2
<1>15. first = n \/ first < after
  <2> SUFFICES ASSUME first < n, first = after PROVE FALSE  BY <1>1, <1>11
  <2>1. buf[first] # " "  BY <1>4, <1>9
  <2>2. buf[first] = " "  BY <1>6, <1>10
  <2> QED  BY <2>1, <2>2
<1>16. PICK d \in Nat : d = after - first  BY <1>11
<1>17. WordOf(buf) = [k \in 1..d |-> typed[first + k]]
  <2>1. \A k \in 1..d: buf[first + k - 1] = typed[first + k]
    <3> TAKE k \in 1..d
    <3>1. first + k \in 1..n /\ (first + k) - 1 = first + k - 1  BY <1>1, <1>11, <1>16
    <3>2. buf[(first + k) - 1] = typed[first + k]  BY <1>2, <3>1
    <3> QED  BY <3>1, <3>2
  <2> QED  BY <1>8, <1>16, <2>1
<1>18. \A k \in 1..d: typed[first + k] # " "  BY <1>13, <1>16
<1>19. first + d = after  BY <1>11, <1>16
<1>20. WordAt(typed, first, d)  BY <1>12, <1>14, <1>18, <1>19 DEF WordAt, n
<1>21. first + d <= n /\ (first = n \/ d > 0)  BY <1>11, <1>15, <1>16, <1>19
<1> QED  BY <1>11, <1>16, <1>17, <1>20, <1>21 DEF n

\* A name is what the user typed just if it is that word.
LEMMA Elements ==
  ASSUME NEW S, NEW s \in Seq(S), s # <<>>
  PROVE  Len(s) \in Nat /\ Len(s) > 0 /\ \A k \in 1..Len(s): s[k] \in S
OBVIOUS
LEMMA Wider ==
  ASSUME NEW S, NEW T, NEW s \in Seq(S \ T)
  PROVE  s \in Seq(S)
<1>1. Len(s) \in Nat /\ s \in [1..Len(s) -> S]  OBVIOUS
<1> QED  BY <1>1
Name(name) == name \in Seq(Letters \ {" "}) \ {<<>>}
LEMMA NameIs ==
  ASSUME AtParser, NEW name, Name(name)
  PROVE  IsWord(name) <=> name = WordOf(buf)
<1> DEFINE n == Len(typed)
<1>1. typed \in Seq(Letters) /\ n \in Nat  BY LineFacts DEF AtParser
<1>2. Len(name) \in Nat /\ Len(name) > 0  BY Elements DEF Name
<1>3. \A k \in 1..Len(name): name[k] # " "
  <2>1. \A k \in 1..Len(name): name[k] \in Letters \ {" "}  BY Elements DEF Name
  <2> QED  BY <2>1
<1>4. PICK f \in Nat, d \in Nat:
        /\ f + d <= n /\ WordAt(typed, f, d) /\ (f = n \/ d > 0)
        /\ WordOf(buf) = [k \in 1..d |-> typed[f + k]]
  BY WordIs
<1>5. ASSUME IsWord(name) PROVE name = WordOf(buf)
  <2>1. PICK i \in 0..n, m \in 0..n:
          /\ i + m <= n /\ SubSeq(typed, i + 1, i + m) = name
          /\ \A j \in 1..i: typed[j] = " "
          /\ i + m < n => typed[i + m + 1] = " "
    BY <1>5 DEF IsWord
  <2>2. i \in Nat /\ m \in Nat
    <3> HIDE DEF n
    <3> QED  BY <1>1
  <2>3. /\ Len(name) = m /\ \A k \in 1..m: name[k] = typed[i + k]
        /\ name = [k \in 1..m |-> typed[i + k]]
    <3>1. i + m <= Len(typed) /\ SubSeq(typed, i + 1, i + m) = name  BY <2>1
    <3> QED  BY <1>1, <2>2, <3>1, PartIs
  <2>4. m > 0 /\ \A k \in 1..m: typed[i + k] # " "
    <3>1. m > 0  BY <1>2, <2>3
    <3>2. \A k \in 1..m: typed[i + k] # " "  BY <1>3, <2>3
    <3> QED  BY <3>1, <3>2
  <2>5. WordAt(typed, i, m)  BY <2>1, <2>4 DEF WordAt
  <2>6. i + m <= n  BY <2>1
  <2>7. i = f /\ m = d  BY <1>1, <1>4, <2>2, <2>4, <2>5, <2>6, OnePlace
  <2> QED  BY <1>4, <2>3, <2>7
<1>6. ASSUME name = WordOf(buf) PROVE IsWord(name)
  <2>1. name = [k \in 1..d |-> typed[f + k]]  BY <1>4, <1>6
  <2>2. SubSeq(typed, f + 1, f + d) = name
    <3>1. f + d <= Len(typed)  BY <1>4
    <3> QED  BY <1>1, <2>1, <3>1, PartIs
  <2>3. f \in 0..n /\ d \in 0..n /\ f + d <= n
    <3>1. f + d <= n  BY <1>4
    <3> HIDE DEF n
    <3> QED  BY <1>1, <3>1
  <2>4. /\ \A j \in 1..f: typed[j] = " "
        /\ f + d < n => typed[f + d + 1] = " "
    BY <1>4 DEF WordAt
  <2> QED  BY <2>2, <2>3, <2>4 DEF IsWord
<1> QED  BY <1>5, <1>6

\* A name is the same as a word just if it is equal to it.
LEMMA SameIs ==
  ASSUME NEW S, NEW word \in Seq(S), NEW name \in Seq(S)
  PROVE  SameName(word, name) <=> name = word
<1>1. SubSeq(name, 1, Len(name)) = name  OBVIOUS
<1> QED  BY <1>1 DEF SameName

\* Nothing but the message of a change of the speed is sent.
LEMMA IdleStep ==
  ASSUME Idle, Next
  PROVE  Idle'
<1>1. ASSUME UNCHANGED port, reader # "drain" PROVE Idle'  BY <1>1 DEF port, Idle
<1>2. Reading => reader # "drain"  BY DEF Reading
<1>3. ASSUME NEW key \in Keys, FirstKey(key) PROVE Idle'  BY <1>1, <1>3 DEF FirstKey
<1>4. ASSUME NEW key \in Letters, Letter(key) PROVE Idle'  BY <1>1, <1>2, <1>4 DEF Letter
<1>5. CASE BackSpace \/ LineFeed  BY <1>1, <1>2, <1>5 DEF BackSpace, LineFeed
<1>6. CASE EndCommand \/ EndEdit \/ EditDone \/ EndValue
  BY <1>1, <1>6 DEF EndCommand, EndEdit, EditDone, EndValue
<1>7. CASE EndChange  BY <1>1, <1>7 DEF EndChange
<1>8. CASE Parse
  <2>1. reader # "drain"  BY <1>8 DEF Parse
  <2>2. UNCHANGED port \/ reader' = "drain"  BY <1>8 DEF Parse
  <2> QED  BY <1>1, <2>1, <2>2 DEF Idle
<1>9. CASE Send
  <2>1. reader = "drain"
    <3>1. sending # 0  BY <1>9 DEF Send
    <3> QED  BY <3>1 DEF Idle
  <2> QED  BY <1>9, <2>1 DEF Send, Idle
<1>10. CASE SetSpeed  BY <1>10 DEF SetSpeed, Idle
<1> QED  BY <1>3, <1>4, <1>5, <1>6, <1>7, <1>8, <1>9, <1>10 DEF Next

\* The command that runs has the name that was typed, and no other runs.
LEMMA RunsStep ==
  ASSUME AtParser, Parse
  PROVE  IF ran' = 0 THEN \A i \in 1..Len(Table): ~IsWord(Table[i].name)
         ELSE IsWord(Table[ran'].name)
<1>1. \A i \in 1..Len(Table): Name(Table[i].name)  BY TableAssumption DEF Name
<1>2. \A i \in 1..Len(Table): IsWord(Table[i].name) <=> Table[i].name = WordOf(buf)
  BY <1>1, NameIs
<1>3. typed \in Seq(Letters) /\ Len(typed) \in Nat  BY LineFacts DEF AtParser
<1>4. PICK f \in Nat, d \in Nat:
        f + d <= Len(typed) /\ WordOf(buf) = [k \in 1..d |-> typed[f + k]]
  BY WordIs
<1>5. WordOf(buf) \in Seq(Letters)
  <2>1. \A k \in 1..d: typed[f + k] \in Letters
    <3> TAKE k \in 1..d
    <3>1. f + k \in 1..Len(typed)  BY <1>3, <1>4
    <3> QED  BY <1>3, <3>1
  <2> QED  BY <1>4, <2>1
<1>6. \A i \in 1..Len(Table): Table[i].name \in Seq(Letters)
  <2> TAKE i \in 1..Len(Table)
  <2>1. Table[i].name \in Seq(Letters \ {" "})  BY <1>1 DEF Name
  <2> QED  BY <2>1, Wider
<1>7. \A i \in 1..Len(Table): i \in Found <=> IsWord(Table[i].name)
  BY <1>2, <1>5, <1>6, SameIs DEF Found
<1>8. CASE EndOfText(buf) = 0
  <2>1. ran' = 0  BY <1>8 DEF Parse
  <2>2. Len(typed) = 0  BY <1>8, TextIs DEF AtParser
  <2>3. WordOf(buf) = <<>>
    <3>1. d = 0  BY <1>4, <2>2
    <3> QED  BY <1>4, <3>1
  <2>4. \A i \in 1..Len(Table): Table[i].name # WordOf(buf)  BY <1>1, <2>3 DEF Name
  <2> QED  BY <1>2, <2>1, <2>4
<1>9. CASE Found = {}
  <2>1. ran' = 0  BY <1>9 DEF Parse
  <2> QED  BY <1>7, <1>9, <2>1
<1>10. CASE EndOfText(buf) # 0 /\ Found # {}
  <2>1. ran' = Min(Found)  BY <1>10 DEF Parse
  <2>2. Min(Found) \in Found  BY <1>10, FoundLeast
  <2>3. ran' \in 1..Len(Table) /\ ran' \in Found  BY <2>1, <2>2 DEF Found
  <2>4. ran' # 0  BY <2>3
  <2> QED  BY <1>7, <2>3, <2>4
<1> QED  BY <1>8, <1>9, <1>10

-----------------------------------------------------------------------------
(* Theorems.                                                               *)

LEMMA InitInv == Init => ConsoleInv
<1> SUFFICES ASSUME Init PROVE ConsoleInv  OBVIOUS
<1>0. LineMax \in Nat /\ LineMax > 0 /\ CountMod \in Nat /\ LineMax < CountMod /\ Fifo \in Nat
  BY ConsoleAssumption
<1>1. ConsoleTypes
  <2>1. BufTyped  BY DEF Init, BufTyped, Offsets
  <2>2. PortTyped  BY <1>0 DEF Init, PortTyped
  <2>3. ran \in 0..Len(Table)
    <3>1. Len(Table) \in Nat  BY TableAssumption
    <3> QED  BY <3>1 DEF Init
  <2>4. typed \in Seq(Letters) /\ Len(typed) <= LineMax  BY <1>0 DEF Init
  <2>5. shown \in [-1..LineMax -> Letters \cup {" "}]  BY DEF Init, Blank
  <2>6. count \in 0..(CountMod - 1) /\ cursor \in -1..LineMax  BY <1>0 DEF Init
  <2>7. reader \in Readers /\ at \in Int  BY DEF Init, Readers
  <2>8. odd \in BOOLEAN  BY DEF Init
  <2>9. LineTyped  BY <2>4, <2>5, <2>6, <2>7, <2>8 DEF LineTyped
  <2> QED  BY <2>1, <2>2, <2>3, <2>9, Parts
<1>2. AtStart  BY DEF Init, AtStart
<1>3. LineIsTyped /\ Parsed  BY DEF Init, LineIsTyped, Sound, Parsed
<1>4. Idle  BY DEF Init, Idle
<1> QED  BY <1>1, <1>2, <1>3, <1>4 DEF ConsoleInv

LEMMA StepInv == ConsoleInv /\ [Next]_vars => ConsoleInv'
<1> SUFFICES ASSUME ConsoleInv, [Next]_vars PROVE ConsoleInv'  OBVIOUS
<1>1. CASE Next
  <2>1. ConsoleTypes /\ AtStart /\ LineIsTyped /\ Parsed /\ Idle  BY DEF ConsoleInv
  <2> QED  BY <1>1, <2>1, TypeStep, StartStep, LineStep, ParsedStep, IdleStep DEF ConsoleInv
<1>2. CASE UNCHANGED vars
  <2>1. ConsoleTypes'  BY <1>2 DEF vars, line, port, ConsoleInv, ConsoleTypes
  <2>2. LineIsTyped' /\ Parsed'
    BY <1>2 DEF vars, line, port, ConsoleInv, LineIsTyped, Sound, Parsed
  <2>3. AtStart' /\ Idle'  BY <1>2 DEF vars, line, port, ConsoleInv, AtStart, Idle
  <2> QED  BY <2>1, <2>2, <2>3 DEF ConsoleInv
<1> QED  BY <1>1, <1>2

\* The inductive invariant.
THEOREM ConsoleInvariant == Spec => []ConsoleInv
BY InitInv, StepInv, PTL DEF Spec

\* Every variable is where the code keeps it: the pointer is an integer, a key that is
\* stored before the line is stored outside it, the count is a byte.
THEOREM ConsoleTypeCorrect == Spec => []ConsoleTypes
<1>1. ConsoleInv => ConsoleTypes  BY DEF ConsoleInv
<1> QED  BY <1>1, ConsoleInvariant, PTL

\* In a line of the command loop and of M, buffer, pointer, count and terminal agree
\* with what the user means, whatever is typed and taken back.
THEOREM LineAgrees == Spec => []LineIsTyped
<1>1. ConsoleInv => LineIsTyped  BY DEF ConsoleInv
<1> QED  BY <1>1, ConsoleInvariant, PTL

\* The command that runs is the one whose very name was typed, for every table of names.
THEOREM RunsTheNamed == Spec => RunsWhatIsTyped
<1>1. ASSUME ConsoleInv, Next, reader = "parse", ~odd
      PROVE  Parse
  <2>1. ~Reading  BY <1>1 DEF Reading
  <2>2. ~Send
    <3>1. sending = 0  BY <1>1 DEF ConsoleInv, Idle
    <3> QED  BY <3>1 DEF Send
  <2> QED
    BY <1>1, <2>1, <2>2 DEF Next, FirstKey, Letter, BackSpace, LineFeed, EndCommand, EndEdit,
                             EditDone, EndChange, EndValue, SetSpeed
<1>2. ASSUME ConsoleInv, [Next]_vars
      PROVE  [reader = "parse" /\ ~odd =>
                IF ran' = 0 THEN \A i \in 1..Len(Table): ~IsWord(Table[i].name)
                ELSE IsWord(Table[ran'].name)]_vars
  <2>1. CASE Next
    <3> SUFFICES ASSUME reader = "parse", ~odd
                 PROVE  IF ran' = 0 THEN \A i \in 1..Len(Table): ~IsWord(Table[i].name)
                        ELSE IsWord(Table[ran'].name)
      OBVIOUS
    <3>1. AtParser  BY <1>2 DEF ConsoleInv, AtParser
    <3>2. Parse  BY <1>1, <1>2, <2>1
    <3> QED  BY <3>1, <3>2, RunsStep
  <2> QED  BY <1>2, <2>1
<1> QED  BY <1>2, ConsoleInvariant, PTL DEF Spec, RunsWhatIsTyped

-----------------------------------------------------------------------------
(* Powers of two.                                                          *)

\* A set of one element more has twice as many subsets.
LEMMA Doubles ==
  ASSUME NEW n \in Nat
  PROVE  2^n \in Nat /\ 2^n > 0 /\ 2^(n + 1) = 2 * 2^n
<1> DEFINE S == 1..n
           T == 1..(n + 1)
           P == SUBSET S
           Q == {A \cup {n + 1}: A \in P}
<1>1. IsFiniteSet(S) /\ Cardinality(S) = n /\ IsFiniteSet(T) /\ Cardinality(T) = n + 1
  BY FS_Interval
<1>2. IsFiniteSet(P) /\ Cardinality(P) = 2^n  BY <1>1, FS_SUBSET
<1>3. IsFiniteSet(SUBSET T) /\ Cardinality(SUBSET T) = 2^(n + 1)  BY <1>1, FS_SUBSET
<1>4. n + 1 \notin S /\ T = S \cup {n + 1}  OBVIOUS
<1> HIDE DEF S, T
<1>5. SUBSET T = P \cup Q
  <2>1. ASSUME NEW B \in SUBSET T PROVE B \in P \cup Q
    <3>1. CASE n + 1 \in B
      <4>1. B \ {n + 1} \in P /\ B = (B \ {n + 1}) \cup {n + 1}  BY <1>4, <3>1
      <4> QED  BY <4>1
    <3>2. CASE n + 1 \notin B  BY <1>4, <3>2
    <3> QED  BY <3>1, <3>2
  <2>2. ASSUME NEW B \in P \cup Q PROVE B \in SUBSET T  BY <1>4
  <2> QED  BY <2>1, <2>2
<1>6. P \cap Q = {}
  <2>1. ASSUME NEW B \in P PROVE B \notin Q  BY <1>4
  <2> QED  BY <2>1
<1>7. ExistsBijection(P, Q)
  <2> DEFINE f == [A \in P |-> A \cup {n + 1}]
  <2>1. f \in [P -> Q]  OBVIOUS
  <2>2. \A A, B \in P: f[A] = f[B] => A = B
    <3> SUFFICES ASSUME NEW A \in P, NEW B \in P, A \cup {n + 1} = B \cup {n + 1} PROVE A = B
      OBVIOUS
    <3>1. n + 1 \notin A /\ n + 1 \notin B  BY <1>4
    <3> QED  BY <3>1
  <2>3. \A C \in Q: \E A \in P: f[A] = C  OBVIOUS
  <2>4. f \in Bijection(P, Q)
    BY <2>1, <2>2, <2>3 DEF Bijection, Injection, Surjection, IsInjective
  <2> QED  BY <2>4 DEF ExistsBijection
<1>8. IsFiniteSet(Q) /\ Cardinality(Q) = 2^n  BY <1>2, <1>7, FS_Bijection
<1>9. IsFiniteSet({}) /\ Cardinality({}) = 0 /\ 2^n \in Nat /\ (2^n = 0 => P = {})
  BY <1>2, FS_EmptySet, FS_CardinalityType
<1> HIDE DEF P, Q
<1>10. Cardinality(P \cup Q) = 2^n + 2^n - 0
  <2>1. Cardinality(P \cup Q) = Cardinality(P) + Cardinality(Q) - Cardinality(P \cap Q)
    BY <1>2, <1>8, FS_Union
  <2> QED  BY <1>2, <1>6, <1>8, <1>9, <2>1
<1>11. P # {}  BY DEF P
<1>12. PICK x \in Nat: x = 2^n  BY <1>9
<1>13. x > 0  BY <1>9, <1>11, <1>12
<1>14. 2^(n + 1) = x + x - 0
  <2>1. Cardinality(SUBSET T) = x + x - 0  BY <1>5, <1>10, <1>12
  <2> QED  BY <1>3, <2>1
<1>15. x + x - 0 = 2 * x  OBVIOUS
<1> QED  BY <1>12, <1>13, <1>14, <1>15

\* A smaller power divides a greater one, into an even number of parts.
LEMMA PowerSplits ==
  ASSUME NEW k \in Nat, NEW n \in Nat, k <= n
  PROVE  \E l \in Nat: 2^n = 2^k * l /\ (k < n => l % 2 = 0)
<1> DEFINE Good(d) == \E l \in Nat: 2^(k + d) = 2^k * l /\ (d > 0 => l % 2 = 0)
           T == {d \in Nat: ~Good(d)}
<1>1. T = {}
  <2>1. SUFFICES ASSUME T # {} PROVE FALSE  OBVIOUS
  <2>2. PICK d \in T: \A e \in T: d <= e
    <3>1. T \in SUBSET Nat  OBVIOUS
    <3> HIDE DEF T
    <3> QED  BY <2>1, <3>1, LeastNatural
  <2>3. d \in Nat /\ ~Good(d)  OBVIOUS
  <2>4. 2^k \in Nat  BY Doubles
  <2>5. CASE d = 0
    <3>1. k + 0 = k /\ 2^k = 2^k * 1 /\ 1 \in Nat  BY <2>4
    <3> QED  BY <2>3, <2>5, <3>1
  <2>6. CASE d > 0
    <3>1. d - 1 \in Nat /\ ~(d <= d - 1)  BY <2>3, <2>6
    <3>2. Good(d - 1)  BY <2>2, <3>1
    <3>3. PICK l \in Nat: 2^(k + (d - 1)) = 2^k * l  BY <3>2
    <3>4. k + (d - 1) \in Nat /\ (k + (d - 1)) + 1 = k + d  BY <2>3, <2>6
    <3>5. 2^(k + d) = 2 * 2^(k + (d - 1))  BY <3>4, Doubles
    <3>6. 2^(k + d) = 2^k * (2 * l) /\ 2 * l \in Nat /\ (2 * l) % 2 = 0
      <4>1. \A x, y \in Nat: 2 * (x * y) = x * (2 * y)  OBVIOUS
      <4> QED  BY <2>4, <3>3, <3>5, <4>1
    <3> QED  BY <2>3, <3>6
  <2> QED  BY <2>3, <2>5, <2>6
<1>2. n - k \in Nat /\ k + (n - k) = n /\ (k < n => n - k > 0)  OBVIOUS
<1>3. Good(n - k)
  <2>1. n - k \notin T  BY <1>1
  <2> QED  BY <1>2, <2>1
<1> QED  BY <1>2, <1>3

\* An even power is one more than a multiple of three.
LEMMA FoursByThree ==
  ASSUME NEW n \in Nat, n % 2 = 0
  PROVE  2^n % 3 = 1
<1> DEFINE T == {m \in Nat: 2^(2 * m) % 3 # 1}
<1>1. T = {}
  <2>1. SUFFICES ASSUME T # {} PROVE FALSE  OBVIOUS
  <2>2. PICK m \in T: \A e \in T: m <= e
    <3>1. T \in SUBSET Nat  OBVIOUS
    <3> HIDE DEF T
    <3> QED  BY <2>1, <3>1, LeastNatural
  <2>3. m \in Nat /\ 2^(2 * m) % 3 # 1  OBVIOUS
  <2>4. CASE m = 0
    <3>1. 2 * 0 = 0 /\ 2^0 % 3 = 1  OBVIOUS
    <3> QED  BY <2>3, <2>4, <3>1
  <2>5. CASE m > 0
    <3>1. m - 1 \in Nat /\ ~(m <= m - 1)  BY <2>3, <2>5
    <3> DEFINE e == 2 * (m - 1)
    <3>2. e \in Nat /\ e + 1 \in Nat /\ (e + 1) + 1 = 2 * m  BY <3>1
    <3>3. 2^e % 3 = 1  BY <2>2, <3>1
    <3> HIDE DEF e
    <3>4. 2^e \in Nat /\ 2^(e + 1) = 2 * 2^e /\ 2^(2 * m) = 2 * 2^(e + 1)  BY <3>2, Doubles
    <3>5. \A x \in Nat: x % 3 = 1 => (2 * (2 * x)) % 3 = 1  OBVIOUS
    <3>6. 2^(2 * m) = 2 * (2 * 2^e)  BY <3>4
    <3>7. (2 * (2 * 2^e)) % 3 = 1  BY <3>3, <3>4, <3>5
    <3> QED  BY <2>3, <3>6, <3>7
  <2> QED  BY <2>3, <2>4, <2>5
<1>2. PICK m \in Nat: n = 2 * m
  <2>1. n \div 2 \in Nat /\ n = 2 * (n \div 2)  OBVIOUS
  <2> QED  BY <2>1
<1>3. m \notin T  BY <1>1
<1> QED  BY <1>2, <1>3

\* Two numbers that make up all ones have opposite bits.
LEMMA Opposites ==
  ASSUME NEW n \in Nat, NEW k \in Nat, k < n, NEW x \in Nat, NEW y \in Nat, x + y = 2^n - 1
  PROVE  (x \div 2^k) % 2 # (y \div 2^k) % 2
<1> DEFINE M == 2^k
           q == x \div M
           r == x % M
<1>1. M \in Nat \ {0}  BY Doubles
<1>2. PICK l \in Nat: 2^n = M * l /\ l % 2 = 0  BY PowerSplits
<1> HIDE DEF M
<1>3. q \in Int /\ r \in 0..(M - 1) /\ x = M * q + r  BY <1>1, Divided
<1> HIDE DEF q, r
<1>4. y = M * (l - 1 - q) + (M - 1 - r)
  <2>1. M * (l - 1 - q) = M * l - M - M * q  BY <1>1, <1>3
  <2>2. M * l \in Int /\ M * q \in Int  BY <1>1, <1>3
  <2> QED  BY <1>1, <1>2, <1>3, <2>1, <2>2
<1>5. y \div M = l - 1 - q
  <2>1. M - 1 - r \in 0..(M - 1) /\ l - 1 - q \in Int  BY <1>1, <1>3
  <2> QED  BY <1>1, <1>4, <2>1, DividedOnce
<1>6. q % 2 # (l - 1 - q) % 2  BY <1>2, <1>3
<1> QED  BY <1>5, <1>6 DEF M, q

-----------------------------------------------------------------------------
(* The memory tests: the inductive invariant of RamCheck.                  *)

\* How many passes a test has, and what its first passes leave in the i-th cell.
RamPasses == IF test = "RAMCK" THEN 7 ELSE 6
RamLeft(i) ==
  IF test = "RAMCK"
  THEN << Ram!P00, Ram!P55, Ram!PAA, Ram!PFF, Ram!PFF, Ram!Inc(i, 0), Ram!Inc(i, 0) >>
  ELSE << Ram!PAA, Ram!PAA, Ram!P55, Ram!P55, Ram!Inc(i, 8), Ram!Inc(i, 8) >>

\* Every variable has its type; the passes stay inside the cells of the test.
RamSpan == IF test = "RAMCK" THEN Ram!Touched(size) ELSE size
RamTypes ==
  /\ cells \in [Ram!Memory -> Int] /\ fault \in Ram!Faults
  /\ outcome = "running" =>
       /\ test \in {"RAMCK", "DDRCK"} /\ start \in Nat /\ size \in Nat
       /\ RamSpan \in Nat /\ start + RamSpan <= Size
       /\ pass \in 1..RamPasses /\ p \in start..(start + RamSpan)
       /\ test = "DDRCK" => region \in 1..Len(DdrStarts) /\ start = DdrStarts[region] /\ size = DdrSize

\* Pass q has been at address a.
RamSwept(a, q) == q < pass \/ (q = pass /\ a < p)

\* A cell that is not broken holds what was written to it last.
RamHolds ==
  outcome = "running" =>
    \A a \in Ram!Runs: ~Ram!Broken(a, Ram!Runs) =>
      LET k == IF a < p THEN pass ELSE pass - 1 IN
      k > 0 => cells[Ram!Cell(fault, a)] = RamLeft(a - start)[k]

\* A stuck bit that has been read is that of the pattern.
RamStuck ==
  outcome = "running" /\ fault.kind = "stuck" /\ fault.at \in Ram!Runs =>
    \A q \in 1..RamPasses: RamSwept(fault.at, q) =>
      LET e == Ram!Passes(fault.at - start)[q][1] IN
      e # Ram!None => Ram!Bit(e, fault.bit) = fault.as

\* RAMCK: the march of pass 2 tells apart the cells it has been at.
RamApart ==
  outcome = "running" /\ test = "RAMCK" =>
    /\ pass = 2 /\ fault.kind # "stuck" =>
         \A a \in Ram!Runs: a < p => cells[Ram!Cell(fault, a)] = Ram!P55
    /\ \A a, b \in Ram!Runs: a < b /\ RamSwept(b, 2) => Ram!Cell(fault, a) # Ram!Cell(fault, b)

\* DDRCK: pass 6 has found its number in every cell; the regions before are sound.
RamRegion(k) == DdrStarts[k]..(DdrStarts[k] + DdrSize - 1)
RamCounted ==
  outcome = "running" /\ test = "DDRCK" /\ pass = 6 /\ fault.kind # "stuck" =>
    \A a \in Ram!Runs: a < p => cells[Ram!Cell(fault, a)] = Ram!Inc(a - start, 8)
RamRegions ==
  outcome = "running" /\ test = "DDRCK" =>
    \A k \in 1..(region - 1): \A a \in RamRegion(k): ~Ram!Broken(a, RamRegion(k))

RamInv ==
  /\ RamTypes /\ RamHolds /\ RamStuck /\ RamApart /\ RamCounted /\ RamRegions
  /\ Ram!VerdictRight

LEMMA RamSizes ==
  /\ Size \in Nat /\ Unroll \in Nat \ {0} /\ Bits \in Nat /\ Bits % 2 = 0 /\ Bits > 0
  /\ DdrSize \in Nat \ {0} /\ DdrSize <= 2^Bits /\ 2^Bits \in Nat \ {0} /\ Len(DdrStarts) > 0
  /\ \A k \in 1..Len(DdrStarts): DdrStarts[k] \in Nat /\ DdrStarts[k] + DdrSize <= Size
  /\ Ram!Memory = 0..(Size - 1)
<1>1. /\ Size \in Nat \ {0} /\ Unroll \in Nat \ {0} /\ Bits \in Nat \ {0} /\ Bits % 2 = 0
      /\ DdrSize \in 1..2^Bits /\ Len(DdrStarts) > 0
      /\ \A k \in 1..Len(DdrStarts): DdrStarts[k] \in 0..(Size - DdrSize)
  BY RamBounds DEF Ram!RamAssumption
<1>2. 2^Bits \in Nat /\ 2^Bits > 0  BY <1>1, Doubles
<1>3. DdrSize \in Nat \ {0} /\ DdrSize <= 2^Bits  BY <1>1, <1>2
<1>4. \A k \in 1..Len(DdrStarts): DdrStarts[k] \in Nat /\ DdrStarts[k] + DdrSize <= Size
  BY <1>1, <1>3
<1> QED  BY <1>1, <1>2, <1>3, <1>4 DEF Ram!Memory

-----------------------------------------------------------------------------
(* The patterns.                                                           *)

LEMMA Patterns ==
  /\ Ram!P00 = 0 /\ Ram!P55 \in Nat /\ Ram!P55 > 0 /\ Ram!PAA \in Nat /\ Ram!PFF \in Nat
  /\ Ram!P55 + Ram!PAA = 2^Bits - 1 /\ Ram!P00 + Ram!PFF = 2^Bits - 1 /\ Ram!None = -1
  /\ \A i \in Nat, f \in Nat: Ram!Inc(i, f) \in Nat
<1> DEFINE N == 2^Bits
<1>1. N \in Nat \ {0} /\ N % 3 = 1  BY RamSizes, FoursByThree
<1>2. N > 1
  <2>1. Bits - 1 \in Nat /\ (Bits - 1) + 1 = Bits  BY RamSizes
  <2>2. 2^(Bits - 1) \in Nat /\ 2^(Bits - 1) > 0 /\ 2^Bits = 2 * 2^(Bits - 1)  BY <2>1, Doubles
  <2> QED  BY <2>2
<1>3. \A i \in Nat, f \in Nat: (f + i) % N \in Nat
  <2> HIDE DEF N
  <2>1. ASSUME NEW i \in Nat, NEW f \in Nat PROVE (f + i) % N \in Nat
    <3>1. f + i \in Int  OBVIOUS
    <3> QED  BY <1>1, <3>1, Divided
  <2> QED  BY <2>1
<1>4. Ram!PFF = N - 1  BY DEF Ram!PFF
<1>5. \A i, f: Ram!Inc(i, f) = (f + i) % N  BY DEF Ram!Inc
<1> HIDE DEF N
<1>6. (N - 1) \div 3 \in Nat /\ (N - 1) \div 3 > 0 /\ 3 * ((N - 1) \div 3) = N - 1
  BY <1>1, <1>2
<1>7. Ram!P55 = (N - 1) \div 3 /\ Ram!PAA = 2 * Ram!P55 /\ Ram!P00 = 0 /\ Ram!None = -1
  BY <1>4 DEF Ram!P55, Ram!PAA, Ram!P00, Ram!None
<1>8. /\ Ram!P55 \in Nat /\ Ram!P55 > 0 /\ Ram!PAA \in Nat /\ Ram!PFF \in Nat
      /\ Ram!P55 + Ram!PAA = N - 1 /\ Ram!P00 + Ram!PFF = N - 1
  BY <1>1, <1>4, <1>6, <1>7
<1> QED  BY <1>3, <1>5, <1>7, <1>8 DEF N

\* The numbers that DDRCK counts differ within a region.
LEMMA CountsDiffer ==
  ASSUME NEW i \in Nat, NEW j \in Nat, i < j, j < DdrSize
  PROVE  Ram!Inc(i, 8) # Ram!Inc(j, 8)
<1> DEFINE N == 2^Bits
<1>1. N \in Nat \ {0} /\ j < N  BY RamSizes
<1>2. Ram!Inc(i, 8) = (8 + i) % N /\ Ram!Inc(j, 8) = (8 + j) % N  BY DEF Ram!Inc
<1> HIDE DEF N
<1>3. SUFFICES ASSUME (8 + i) % N = (8 + j) % N PROVE FALSE  BY <1>2
<1>4. /\ (8 + i) \div N \in Int /\ 8 + i = N * ((8 + i) \div N) + ((8 + i) % N)
      /\ (8 + j) \div N \in Int /\ 8 + j = N * ((8 + j) \div N) + ((8 + j) % N)
      /\ (8 + i) % N \in Int /\ (8 + j) % N \in Int
  <2>1. 8 + i \in Int /\ 8 + j \in Int  OBVIOUS
  <2> QED  BY <1>1, <2>1, Divided
<1>5. PICK a \in Int, b \in Int, r \in Int: 8 + i = N * a + r /\ 8 + j = N * b + r
  BY <1>3, <1>4
<1>6. j - i = N * b - N * a /\ N * a \in Int /\ N * b \in Int  BY <1>1, <1>5
<1>7. N * a < N * b /\ N * b < N * a + N  BY <1>1, <1>6
<1>8. N * a + N <= N * b
  <2>1. (N * a) % N = 0 /\ (N * b) % N = 0  BY <1>1, TimesIsMultiple
  <2> QED  BY <1>1, <1>6, <1>7, <2>1, NextMultiple
<1> QED  BY <1>1, <1>6, <1>7, <1>8

\* A stuck bit has its value whatever is written.
LEMMA StuckBit ==
  ASSUME NEW x \in Int, NEW k \in Nat, NEW v \in {0, 1}
  PROVE  Ram!WithBit(x, k, v) \in Int /\ Ram!Bit(Ram!WithBit(x, k, v), k) = v
<1> DEFINE M == 2^k
           q == x \div M
           r == x % M
           b == q % 2
<1>1. M \in Nat \ {0}  BY Doubles
<1> HIDE DEF M
<1>2. q \in Int /\ r \in 0..(M - 1) /\ x = M * q + r  BY <1>1, Divided
<1> HIDE DEF q, r
<1>3. b \in {0, 1}  BY <1>2
<1>4. x + (v - b) * M = M * (q + (v - b)) + r
  <2>1. v - b \in Int  BY <1>3
  <2> HIDE DEF b
  <2>2. PICK d \in Int: d = v - b  BY <2>1
  <2>3. M * (q + d) = M * q + M * d /\ d * M = M * d  BY <1>1, <1>2, <2>2
  <2>4. M * q \in Int /\ M * d \in Int  BY <1>1, <1>2, <2>2
  <2> QED  BY <1>2, <2>2, <2>3, <2>4
<1>5. (x + (v - b) * M) \div M = q + (v - b) /\ x + (v - b) * M \in Int
  <2>1. q + (v - b) \in Int  BY <1>2, <1>3
  <2>2. (M * (q + (v - b)) + r) \div M = q + (v - b)  BY <1>1, <1>2, <2>1, DividedOnce
  <2>3. M * (q + (v - b)) + r \in Int  BY <1>1, <1>2, <2>1
  <2> QED  BY <1>4, <2>2, <2>3
<1>6. (q + (v - b)) % 2 = v  BY <1>2, <1>3
<1>7. Ram!WithBit(x, k, v) = x + (v - b) * M
  BY DEF Ram!WithBit, Ram!Bit, b, q, M
<1> QED  BY <1>5, <1>6, <1>7 DEF Ram!Bit, M

\* What a pass expects is what the passes before it have left.
LEMMA Chain ==
  ASSUME test \in {"RAMCK", "DDRCK"}, NEW i \in Nat, NEW q \in 1..RamPasses
  PROVE  LET e == Ram!Passes(i)[q][1]
             w == Ram!Passes(i)[q][2] IN
         /\ w \in Int
         /\ e # Ram!None => q > 1 /\ e = RamLeft(i)[q - 1]
         /\ w # Ram!None => RamLeft(i)[q] = w
         /\ w = Ram!None => q > 1 /\ RamLeft(i)[q] = RamLeft(i)[q - 1]
<1>1. /\ Ram!P00 \in Nat /\ Ram!P55 \in Nat /\ Ram!PAA \in Nat /\ Ram!PFF \in Nat
      /\ Ram!Inc(i, 0) \in Nat /\ Ram!Inc(i, 8) \in Nat /\ Ram!None = -1
  <2>1. 0 \in Nat /\ 8 \in Nat  OBVIOUS
  <2> QED  BY <2>1, Patterns
<1>2. CASE test = "RAMCK"
  <2>1. q \in {1, 2, 3, 4, 5, 6, 7}  BY <1>2 DEF RamPasses
  <2>2. Ram!Passes(i) = Ram!RamckPasses(i)  BY <1>2 DEF Ram!Passes
  <2>3. RamLeft(i) = << Ram!P00, Ram!P55, Ram!PAA, Ram!PFF, Ram!PFF, Ram!Inc(i, 0), Ram!Inc(i, 0) >>
    BY <1>2 DEF RamLeft
  <2> QED  BY <1>1, <2>1, <2>2, <2>3 DEF Ram!RamckPasses
<1>3. CASE test = "DDRCK"
  <2>1. q \in {1, 2, 3, 4, 5, 6}  BY <1>3 DEF RamPasses
  <2>2. Ram!Passes(i) = Ram!DdrckPasses(i)  BY <1>3 DEF Ram!Passes
  <2>3. RamLeft(i) = << Ram!PAA, Ram!PAA, Ram!P55, Ram!P55, Ram!Inc(i, 8), Ram!Inc(i, 8) >>
    BY <1>3 DEF RamLeft
  <2> QED  BY <1>1, <2>1, <2>2, <2>3 DEF Ram!DdrckPasses
<1> QED  BY <1>2, <1>3

-----------------------------------------------------------------------------
(* The memory and the cells of a test.                                     *)

LEMMA CellOf ==
  ASSUME fault \in Ram!Faults
  PROVE  /\ \A a \in Ram!Memory: Ram!Cell(fault, a) \in Ram!Memory
         /\ fault.kind = "stuck" =>
              /\ \A a: Ram!Cell(fault, a) = a
              /\ fault.at \in Ram!Memory /\ fault.bit \in Nat /\ fault.bit < Bits /\ fault.as \in {0, 1}
<1>1. /\ fault.kind = "alias" => fault.as \in Ram!Memory
      /\ fault.kind \in {"none", "stuck", "alias", "line"}
      /\ fault.kind = "stuck" =>
           fault.at \in Ram!Memory /\ fault.bit \in 0..(Bits - 1) /\ fault.as \in {0, 1}
  BY DEF Ram!Faults, Ram!Healthy
<1>2. CASE fault.kind = "alias"
  <2>1. \A a: Ram!Cell(fault, a) = IF fault.at = a THEN fault.as ELSE a  BY <1>2 DEF Ram!Cell
  <2> QED  BY <1>1, <1>2, <2>1
<1>3. CASE fault.kind = "line"
  <2>1. \A a: \/ Ram!Cell(fault, a) = a
              \/ Ram!Cell(fault, a) \in Ram!Memory
    BY <1>3 DEF Ram!Cell
  <2> QED  BY <1>3, <2>1
<1>4. CASE fault.kind \in {"none", "stuck"}
  <2>1. \A a: Ram!Cell(fault, a) = a  BY <1>4 DEF Ram!Cell
  <2>2. fault.kind = "stuck" => fault.bit \in Nat /\ fault.bit < Bits  BY <1>1, RamSizes
  <2> QED  BY <1>1, <2>1, <2>2
<1> QED  BY <1>1, <1>2, <1>3, <1>4

\* RAMCK goes to the end of the last run of cells.
LEMMA WholeRuns ==
  ASSUME NEW n \in Nat
  PROVE  /\ Ram!Touched(n) \in Nat /\ Ram!Touched(n) > 0 /\ n <= Ram!Touched(n)
         /\ Ram!Touched(n) % Unroll = 0
         /\ \A m \in Nat: m % Unroll = 0 /\ m > 0 /\ n <= m => Ram!Touched(n) <= m
<1>1. Unroll \in Nat \ {0} /\ 0 \in Int /\ 1 \in Int /\ Unroll \in Int  BY RamSizes
<1>2. Unroll % Unroll = 0 /\ 0 % Unroll = 0
  <2>1. (Unroll * 1) % Unroll = 0 /\ (Unroll * 0) % Unroll = 0  BY <1>1, TimesIsMultiple
  <2>2. Unroll * 1 = Unroll /\ Unroll * 0 = 0  BY <1>1
  <2> QED  BY <2>1, <2>2
<1>3. CASE n = 0
  <2>1. Ram!Touched(n) = Unroll  BY <1>3 DEF Ram!Touched
  <2>2. ASSUME NEW m \in Nat, m % Unroll = 0, m > 0 PROVE Unroll <= m
    <3>1. m \in Int /\ 0 < m  BY <2>2
    <3>2. 0 + Unroll <= m  BY <1>1, <1>2, <2>2, <3>1, NextMultiple
    <3> QED  BY <1>1, <3>2
  <2> QED  BY <1>1, <1>2, <1>3, <2>1, <2>2
<1>4. CASE n > 0
  <2> DEFINE z == n + Unroll - 1
             k == z \div Unroll
             t == Unroll * k
  <2>1. z \in Int /\ z = n + Unroll - 1  BY <1>1
  <2> HIDE DEF z
  <2>2. k \in Int /\ z % Unroll \in 0..(Unroll - 1) /\ z = t + (z % Unroll)
    BY <1>1, <2>1, Divided
  <2>3. Ram!Touched(n) = t
    <3>1. Ram!Touched(n) = k * Unroll  BY <1>4 DEF Ram!Touched, z
    <3> QED  BY <1>1, <2>2, <3>1
  <2>4. t \in Int /\ t % Unroll = 0  BY <1>1, <2>2, TimesIsMultiple
  <2> HIDE DEF k, t
  <2>5. n <= t /\ t < n + Unroll  BY <1>1, <2>1, <2>2, <2>4
  <2>6. ASSUME NEW m \in Nat, m % Unroll = 0, n <= m PROVE t <= m
    <3>1. SUFFICES ASSUME m < t PROVE FALSE  BY <2>4
    <3>2. m \in Int  OBVIOUS
    <3>3. m + Unroll <= t  BY <1>1, <2>4, <2>6, <3>1, <3>2, NextMultiple
    <3> QED  BY <1>1, <2>4, <2>5, <2>6, <3>3
  <2> QED  BY <1>4, <2>3, <2>4, <2>5, <2>6
<1> QED  BY <1>3, <1>4

\* Where a pass is, and where it ends.
LEMMA PassAt ==
  ASSUME RamTypes, outcome = "running"
  PROVE  /\ start \in Nat /\ size \in Nat /\ p \in Nat /\ start <= p /\ p <= start + RamSpan
         /\ RamSpan \in Nat /\ start + RamSpan <= Size /\ size <= RamSpan
         /\ pass \in Nat /\ pass \in 1..RamPasses /\ test \in {"RAMCK", "DDRCK"}
         /\ Ram!Runs = start..(start + RamSpan - 1) /\ Ram!Runs \subseteq Ram!Memory
         /\ ~Ram!PassEnds => p \in Ram!Runs
         /\ Ram!PassEnds => p = start + RamSpan
<1>1. /\ test \in {"RAMCK", "DDRCK"} /\ start \in Nat /\ size \in Nat
      /\ RamSpan \in Nat /\ start + RamSpan <= Size
      /\ pass \in 1..RamPasses /\ p \in start..(start + RamSpan)
  BY DEF RamTypes
<1>2. p \in Nat /\ start <= p /\ p <= start + RamSpan /\ pass \in Nat  BY <1>1 DEF RamPasses
<1>3. Ram!Runs = start..(start + RamSpan - 1)  BY DEF Ram!Runs, RamSpan
<1>4. Ram!Runs \subseteq Ram!Memory  BY <1>1, <1>3, RamSizes
<1>5. CASE test = "RAMCK"
  <2> DEFINE m == p - start
  <2>1. RamSpan = Ram!Touched(size)  BY <1>5 DEF RamSpan
  <2>2. m \in Nat /\ m <= RamSpan /\ p = start + m  BY <1>1, <1>2
  <2>3. Ram!PassEnds <=> m >= size /\ p > start /\ m % Unroll = 0  BY <1>5 DEF Ram!PassEnds
  <2> HIDE DEF m
  <2>4. /\ RamSpan > 0 /\ size <= RamSpan /\ RamSpan % Unroll = 0
        /\ m % Unroll = 0 /\ m > 0 /\ size <= m => RamSpan <= m
    BY <1>1, <2>1, <2>2, WholeRuns
  <2>5. Ram!PassEnds => m = RamSpan  BY <1>1, <2>2, <2>3, <2>4
  <2>6. m = RamSpan => Ram!PassEnds
    <3>1. ASSUME m = RamSpan PROVE m >= size /\ p > start /\ m % Unroll = 0
      BY <1>1, <2>2, <2>4, <3>1
    <3> QED  BY <2>3, <3>1
  <2> QED  BY <1>1, <1>2, <1>3, <1>4, <2>2, <2>4, <2>5, <2>6
<1>6. CASE test = "DDRCK"
  <2>1. RamSpan = size  BY <1>6 DEF RamSpan
  <2>2. Ram!PassEnds <=> p - start = size  BY <1>6 DEF Ram!PassEnds
  <2> QED  BY <1>1, <1>2, <1>3, <1>4, <2>1, <2>2
<1> QED  BY <1>1, <1>5, <1>6

\* What is read from a cell without a stuck bit, and from one with it.
LEMMA ReadsWhatIsThere ==
  ASSUME RamTypes, NEW a \in Ram!Memory
  PROVE  /\ ~(fault.kind = "stuck" /\ fault.at = a) => Ram!Read(a) = cells[Ram!Cell(fault, a)]
         /\ fault.kind = "stuck" /\ fault.at = a => Ram!Bit(Ram!Read(a), fault.bit) = fault.as
<1>1. /\ Ram!Cell(fault, a) \in Ram!Memory /\ cells[Ram!Cell(fault, a)] \in Int
      /\ fault.kind = "stuck" => Ram!Cell(fault, a) = a /\ fault.bit \in Nat /\ fault.as \in {0, 1}
  BY CellOf DEF RamTypes
<1>2. Ram!Read(a) = IF fault.kind = "stuck" /\ fault.at = Ram!Cell(fault, a)
                    THEN Ram!WithBit(cells[Ram!Cell(fault, a)], fault.bit, fault.as)
                    ELSE cells[Ram!Cell(fault, a)]
  BY DEF Ram!Read, Ram!Sensed
<1>3. ASSUME fault.kind = "stuck", fault.at = a
      PROVE  Ram!Bit(Ram!Read(a), fault.bit) = fault.as
  <2>1. Ram!Read(a) = Ram!WithBit(cells[Ram!Cell(fault, a)], fault.bit, fault.as)  BY <1>1, <1>2, <1>3
  <2>2. \A x \in Int, k \in Nat, v \in {0, 1}: Ram!Bit(Ram!WithBit(x, k, v), k) = v  BY StuckBit, ZenonT(40)
  <2> QED  BY <1>1, <1>3, <2>1, <2>2, ZenonT(40)
<1>4. ASSUME ~(fault.kind = "stuck" /\ fault.at = a)
      PROVE  Ram!Read(a) = cells[Ram!Cell(fault, a)]
  BY <1>1, <1>2, <1>4
<1> QED  BY <1>3, <1>4

\* A mismatch is at a broken address.
LEMMA MismatchBroken ==
  ASSUME RamInv, Ram!Mismatch
  PROVE  p \in Ram!Runs /\ Ram!Broken(p, Ram!Runs)
<1>1. /\ outcome = "running" /\ ~Ram!PassEnds /\ Ram!Expected # Ram!None /\ Ram!Read(p) # Ram!Expected
      /\ RamTypes
  BY DEF Ram!Mismatch, RamInv
<1>2. /\ start \in Nat /\ p \in Nat /\ start <= p /\ p \in Ram!Runs /\ p \in Ram!Memory
      /\ pass \in Nat /\ pass \in 1..RamPasses /\ test \in {"RAMCK", "DDRCK"}
  BY <1>1, PassAt
<1>3. SUFFICES ASSUME ~Ram!Broken(p, Ram!Runs) PROVE FALSE  BY <1>2
<1>4. p - start \in Nat  BY <1>2
<1>5. pass > 1 /\ Ram!Expected = RamLeft(p - start)[pass - 1]
  BY <1>1, <1>2, <1>4, Chain DEF Ram!Expected
<1>6. cells[Ram!Cell(fault, p)] = RamLeft(p - start)[pass - 1]
  <2>1. LET k == IF p < p THEN pass ELSE pass - 1 IN
        k > 0 => cells[Ram!Cell(fault, p)] = RamLeft(p - start)[k]
    BY <1>1, <1>2, <1>3 DEF RamInv, RamHolds
  <2>2. ~(p < p) /\ pass - 1 > 0  BY <1>2, <1>5
  <2> QED  BY <2>1, <2>2
<1>7. ~(fault.kind = "stuck" /\ fault.at = p)  BY <1>3 DEF Ram!Broken
<1> QED  BY <1>1, <1>2, <1>5, <1>6, <1>7, ReadsWhatIsThere

LEMMA RamMismatch ==
  ASSUME RamInv, Ram!Mismatch
  PROVE  RamInv'
<1>1. /\ outcome' = "NG" /\ error' = [at |-> p, data |-> Ram!Read(p), true |-> Ram!Expected]
      /\ Ram!Read(p) # Ram!Expected
      /\ cells' = cells /\ fault' = fault /\ test' = test /\ start' = start /\ size' = size
  BY DEF Ram!Mismatch, Ram!Failing
<1>2. Ram!Runs' = Ram!Runs  BY <1>1 DEF Ram!Runs
<1>3. p \in Ram!Runs /\ Ram!Broken(p, Ram!Runs)  BY MismatchBroken
<1>4. error'.at = p /\ error'.data # error'.true  BY <1>1
<1>5. Ram!Broken(error.at, Ram!Runs)'
  BY <1>1, <1>2, <1>3, <1>4 DEF Ram!Broken
<1>6. Ram!VerdictRight'  BY <1>1, <1>2, <1>3, <1>4, <1>5 DEF Ram!VerdictRight
<1>7. RamTypes'  BY <1>1 DEF RamInv, RamTypes
<1> QED
  BY <1>1, <1>6, <1>7 DEF RamInv, RamHolds, RamStuck, RamApart, RamCounted, RamRegions

LEMMA RamVisit ==
  ASSUME RamInv, Ram!Visit
  PROVE  RamInv'
<1> DEFINE i == p - start
           c == Ram!Cell(fault, p)
           e == Ram!Passes(i)[pass][1]
           w == Ram!Passes(i)[pass][2]
<1>1. /\ outcome = "running" /\ ~Ram!PassEnds /\ (e # Ram!None => Ram!Read(p) = e)
      /\ cells' = IF w = Ram!None THEN cells ELSE [cells EXCEPT ![c] = w]
      /\ p' = p + 1 /\ fault' = fault /\ test' = test /\ start' = start /\ size' = size
      /\ region' = region /\ pass' = pass /\ outcome' = outcome /\ error' = error
      /\ RamTypes
  BY DEF Ram!Visit, Ram!Expected, Ram!Written, RamInv
<1>2. /\ start \in Nat /\ p \in Nat /\ start <= p /\ p \in Ram!Runs /\ p \in Ram!Memory
      /\ RamSpan \in Nat /\ p < start + RamSpan
      /\ pass \in Nat /\ pass \in 1..RamPasses /\ test \in {"RAMCK", "DDRCK"}
      /\ Ram!Runs \subseteq Ram!Memory
  <2>1. Ram!Runs = start..(start + RamSpan - 1)  BY <1>1, PassAt
  <2>2. p \in Ram!Runs /\ start \in Nat /\ RamSpan \in Nat  BY <1>1, PassAt
  <2>3. p < start + RamSpan  BY <2>1, <2>2
  <2> QED  BY <1>1, <2>2, <2>3, PassAt
<1>3. i \in Nat  BY <1>2
<1>4. /\ w \in Int
      /\ e # Ram!None => pass > 1 /\ e = RamLeft(i)[pass - 1]
      /\ w # Ram!None => RamLeft(i)[pass] = w
      /\ w = Ram!None => pass > 1 /\ RamLeft(i)[pass] = RamLeft(i)[pass - 1]
  <2> HIDE DEF i
  <2> QED  BY <1>2, <1>3, Chain
<1>5. c \in Ram!Memory /\ cells \in [Ram!Memory -> Int] /\ fault \in Ram!Faults
  BY <1>1, <1>2, CellOf DEF RamTypes
<1>6. /\ cells' \in [Ram!Memory -> Int]
      /\ w # Ram!None => cells'[c] = w
      /\ w = Ram!None => cells' = cells
      /\ \A d \in Ram!Memory: d # c => cells'[d] = cells[d]
  <2> HIDE DEF c, w
  <2> QED  BY <1>1, <1>4, <1>5
<1>7. /\ Ram!Runs' = Ram!Runs /\ RamSpan' = RamSpan /\ RamPasses' = RamPasses
      /\ \A j: RamLeft(j)' = RamLeft(j) /\ Ram!Passes(j)' = Ram!Passes(j)
  BY <1>1 DEF Ram!Runs, RamSpan, RamPasses, RamLeft, Ram!Passes
<1>8. \A a \in Ram!Runs: a \in Nat /\ (a < p + 1 <=> a < p \/ a = p)
  BY <1>2, RamSizes
<1>9. \A a \in Ram!Runs: \A q: RamSwept(a, q)' <=> RamSwept(a, q) \/ (q = pass /\ a = p)
  BY <1>1, <1>8 DEF RamSwept
<1> HIDE DEF e, w, i, c
<1>10. RamTypes'
  <2>1. p + 1 \in start..(start + RamSpan)  BY <1>2
  <2> QED  BY <1>1, <1>6, <1>7, <2>1 DEF RamTypes
<1>11. RamHolds'
  <2> SUFFICES ASSUME NEW a \in Ram!Runs, ~Ram!Broken(a, Ram!Runs)',
                      (IF a < p + 1 THEN pass ELSE pass - 1) > 0
               PROVE  cells'[Ram!Cell(fault, a)] = RamLeft(a - start)[IF a < p + 1 THEN pass ELSE pass - 1]
    BY <1>1, <1>7 DEF RamHolds
  <2>1. ~Ram!Broken(a, Ram!Runs)  BY <1>1, <1>7 DEF Ram!Broken
  <2>2. LET k == IF a < p THEN pass ELSE pass - 1 IN
        k > 0 => cells[Ram!Cell(fault, a)] = RamLeft(a - start)[k]
    BY <1>1, <2>1 DEF RamInv, RamHolds
  <2>3. CASE a = p
    <3>1. a < p + 1 /\ ~(a < p)  BY <1>2, <2>3
    <3>2. pass - 1 > 0 => cells[c] = RamLeft(i)[pass - 1]  BY <2>2, <2>3, <3>1 DEF c, i
    <3>3. pass > 1 => pass - 1 > 0  BY <1>2
    <3>4. cells'[c] = RamLeft(i)[pass]  BY <1>4, <1>6, <3>2, <3>3
    <3> QED  BY <2>3, <3>1, <3>4 DEF c, i
  <2>4. CASE a # p
    <3>1. a < p + 1 <=> a < p  BY <1>8, <2>4
    <3>2. Ram!Cell(fault, a) # c  BY <1>2, <2>1, <2>4 DEF Ram!Broken, c
    <3>3. Ram!Cell(fault, a) \in Ram!Memory  BY <1>2, <1>5, CellOf
    <3>4. cells'[Ram!Cell(fault, a)] = cells[Ram!Cell(fault, a)]  BY <1>6, <3>2, <3>3
    <3> QED  BY <2>2, <3>1, <3>4
  <2> QED  BY <2>3, <2>4
<1>12. RamStuck'
  <2> SUFFICES ASSUME fault.kind = "stuck", fault.at \in Ram!Runs,
                      NEW q \in 1..RamPasses, RamSwept(fault.at, q)',
                      Ram!Passes(fault.at - start)[q][1] # Ram!None
               PROVE  Ram!Bit(Ram!Passes(fault.at - start)[q][1], fault.bit) = fault.as
    BY <1>1, <1>7 DEF RamStuck, RamSwept
  <2>1. CASE RamSwept(fault.at, q)  BY <1>1, <2>1 DEF RamInv, RamStuck
  <2>2. CASE q = pass /\ fault.at = p
    <3>1. Ram!Passes(fault.at - start)[q][1] = e  BY <2>2 DEF e, i
    <3>2. Ram!Read(p) = e  BY <1>1, <3>1
    <3>3. Ram!Bit(Ram!Read(p), fault.bit) = fault.as  BY <1>1, <1>2, <2>2, ReadsWhatIsThere
    <3> QED  BY <3>1, <3>2, <3>3
  <2>3. RamSwept(fault.at, q) \/ (q = pass /\ fault.at = p)
    <3>1. q < pass \/ (q = pass /\ fault.at < p + 1)  BY <1>1 DEF RamSwept
    <3> QED  BY <1>8, <3>1 DEF RamSwept
  <2> QED  BY <2>1, <2>2, <2>3
<1>13. RamApart'
  <2> SUFFICES ASSUME test = "RAMCK" PROVE RamApart'
    BY <1>1 DEF RamApart
  <2>1. CASE pass = 2
    <3>1. e = Ram!P00 /\ w = Ram!P55  BY <2>1 DEF e, w, Ram!Passes, Ram!RamckPasses
    <3>2. /\ fault.kind # "stuck" => \A a \in Ram!Runs: a < p => cells[Ram!Cell(fault, a)] = Ram!P55
          /\ \A a, b \in Ram!Runs: a < b /\ b < p => Ram!Cell(fault, a) # Ram!Cell(fault, b)
      BY <1>1, <2>1 DEF RamInv, RamApart, RamSwept
    <3>3. Ram!P00 # Ram!P55 /\ Ram!P00 # Ram!None /\ Ram!P55 # Ram!None
      <4>1. Ram!P00 = 0 /\ Ram!P55 \in Nat /\ Ram!P55 > 0 /\ Ram!None = -1  BY Patterns
      <4> QED  BY <4>1
    <3>4. cells'[c] = Ram!P55  BY <1>6, <3>1, <3>3
    <3>5. ASSUME fault.kind # "stuck", NEW a \in Ram!Runs, a < p + 1
          PROVE  cells'[Ram!Cell(fault, a)] = Ram!P55
      <4>1. CASE Ram!Cell(fault, a) = c  BY <3>4, <4>1
      <4>2. CASE Ram!Cell(fault, a) # c
        <5>1. a < p  BY <1>8, <3>5, <4>2 DEF c
        <5>2. Ram!Cell(fault, a) \in Ram!Memory  BY <1>2, <1>5, CellOf
        <5> QED  BY <1>6, <3>2, <3>5, <4>2, <5>1, <5>2
      <4> QED  BY <4>1, <4>2
    <3>6. ASSUME NEW a \in Ram!Runs, a < p PROVE Ram!Cell(fault, a) # c
      <4>1. CASE fault.kind = "stuck"
        <5>1. Ram!Cell(fault, a) = a /\ c = p  BY <1>5, <4>1, CellOf DEF c
        <5> QED  BY <1>2, <1>8, <3>6, <5>1
      <4>2. CASE fault.kind # "stuck"
        <5>1. Ram!Read(p) = cells[c]  BY <1>1, <1>2, <4>2, ReadsWhatIsThere DEF c
        <5>2. cells[c] = Ram!P00  BY <1>1, <3>1, <3>3, <5>1
        <5>3. cells[Ram!Cell(fault, a)] = Ram!P55  BY <3>2, <3>6, <4>2
        <5> QED  BY <3>3, <5>2, <5>3
      <4> QED  BY <4>1, <4>2
    <3>7. ASSUME NEW a \in Ram!Runs, NEW b \in Ram!Runs, a < b, b < p + 1
          PROVE  Ram!Cell(fault, a) # Ram!Cell(fault, b)
      <4>1. CASE b < p  BY <3>2, <3>7, <4>1
      <4>2. CASE b = p  BY <3>6, <3>7, <4>2 DEF c
      <4> QED  BY <1>8, <3>7, <4>1, <4>2
    <3>8. \A b \in Ram!Runs: RamSwept(b, 2)' <=> b < p + 1  BY <1>1, <2>1 DEF RamSwept
    <3> QED  BY <1>1, <1>7, <3>5, <3>7, <3>8 DEF RamApart
  <2>2. CASE pass # 2
    <3>1. \A b \in Ram!Runs: RamSwept(b, 2)' <=> RamSwept(b, 2)  BY <1>9, <2>2
    <3>2. \A a, b \in Ram!Runs: a < b /\ RamSwept(b, 2) => Ram!Cell(fault, a) # Ram!Cell(fault, b)
      BY <1>1 DEF RamInv, RamApart
    <3> QED  BY <1>1, <1>7, <2>2, <3>1, <3>2 DEF RamApart
  <2> QED  BY <2>1, <2>2
<1>14. RamCounted'
  <2> SUFFICES ASSUME test = "DDRCK", pass = 6, fault.kind # "stuck", NEW a \in Ram!Runs, a < p + 1
               PROVE  cells'[Ram!Cell(fault, a)] = Ram!Inc(a - start, 8)
    BY <1>1, <1>7 DEF RamCounted
  <2>1. e = Ram!Inc(i, 8) /\ w = Ram!None  BY DEF e, w, Ram!Passes, Ram!DdrckPasses
  <2>2. cells' = cells  BY <1>6, <2>1
  <2>3. CASE a < p  BY <1>1, <2>2, <2>3 DEF RamInv, RamCounted
  <2>4. CASE a = p
    <3>1. Ram!Read(p) = cells[c]  BY <1>1, <1>2, ReadsWhatIsThere DEF c
    <3>2. e # Ram!None  BY <1>3, <2>1, Patterns
    <3>3. cells[c] = Ram!Inc(i, 8)  BY <1>1, <2>1, <3>1, <3>2
    <3> QED  BY <2>2, <2>4, <3>3 DEF c, i
  <2> QED  BY <1>8, <2>3, <2>4
<1>15. RamRegions'
  BY <1>1 DEF RamInv, RamRegions, RamRegion, Ram!Broken
<1>16. Ram!VerdictRight'  BY <1>1 DEF Ram!VerdictRight
<1> QED  BY <1>10, <1>11, <1>12, <1>13, <1>14, <1>15, <1>16 DEF RamInv

\* A region that has been counted is sound.
LEMMA RegionSound ==
  ASSUME RamInv, outcome = "running", test = "DDRCK", pass = 6, p = start + DdrSize
  PROVE  \A a \in Ram!Runs: ~Ram!Broken(a, Ram!Runs)
<1>1. RamTypes /\ start \in Nat /\ size = DdrSize /\ DdrSize \in Nat
        /\ Ram!Runs = start..(start + DdrSize - 1)
  BY RamSizes DEF RamInv, RamTypes, Ram!Runs
<1>2. \A a \in Ram!Runs: a \in Nat /\ start <= a /\ a < p  BY <1>1
<1>3. SUFFICES ASSUME NEW a \in Ram!Runs, Ram!Broken(a, Ram!Runs) PROVE FALSE  OBVIOUS
<1>4. CASE fault.kind = "stuck" /\ fault.at = a
  <2>1. RamSwept(a, 2) /\ RamSwept(a, 4)  BY DEF RamSwept
  <2>2. 2 \in 1..RamPasses /\ 4 \in 1..RamPasses  BY DEF RamPasses
  <2>3. \A j: Ram!Passes(j)[2][1] = Ram!PAA /\ Ram!Passes(j)[4][1] = Ram!P55
    BY DEF Ram!Passes, Ram!DdrckPasses
  <2>4. /\ Ram!P55 \in Nat /\ Ram!PAA \in Nat /\ Ram!None = -1 /\ Ram!PAA + Ram!P55 = 2^Bits - 1
    BY Patterns
  <2>5. Ram!PAA # Ram!None /\ Ram!P55 # Ram!None  BY <2>4
  <2>6. Ram!Bit(Ram!PAA, fault.bit) = fault.as /\ Ram!Bit(Ram!P55, fault.bit) = fault.as
    BY <1>4, <2>1, <2>2, <2>3, <2>5 DEF RamInv, RamStuck
  <2>7. fault.bit \in Nat /\ fault.bit < Bits  BY <1>1, <1>4, CellOf DEF RamTypes
  <2> QED  BY <2>4, <2>6, <2>7, Opposites, RamSizes DEF Ram!Bit
<1>5. ASSUME NEW b \in Ram!Runs, b # a, Ram!Cell(fault, a) = Ram!Cell(fault, b) PROVE FALSE
  <2>1. fault.kind # "stuck"  BY <1>1, <1>5, CellOf DEF RamTypes
  <2>2. /\ cells[Ram!Cell(fault, a)] = Ram!Inc(a - start, 8)
        /\ cells[Ram!Cell(fault, b)] = Ram!Inc(b - start, 8)
    BY <1>2, <2>1 DEF RamInv, RamCounted
  <2>3. Ram!Inc(a - start, 8) = Ram!Inc(b - start, 8)  BY <1>5, <2>2
  <2>4. /\ a - start \in Nat /\ a - start < DdrSize /\ b - start \in Nat /\ b - start < DdrSize
        /\ (a - start < b - start \/ b - start < a - start)
    BY <1>1, <1>2, <1>5
  <2> QED  BY <2>3, <2>4, CountsDiffer
<1> QED  BY <1>3, <1>4, <1>5 DEF Ram!Broken

\* So is the range of RAMCK at its end.
LEMMA RangeSound ==
  ASSUME RamInv, outcome = "running", test = "RAMCK", pass = 7, Ram!PassEnds
  PROVE  \A a \in Ram!Range: ~Ram!Broken(a, Ram!Range)
<1>1. /\ RamTypes /\ start \in Nat /\ size \in Nat /\ RamSpan \in Nat /\ size <= RamSpan
      /\ Ram!Runs = start..(start + RamSpan - 1) /\ p = start + RamSpan
      /\ Ram!Range = start..(start + size - 1)
  BY PassAt DEF RamInv, Ram!Range
<1>2. \A a \in Ram!Range: a \in Ram!Runs /\ a \in Nat  BY <1>1
<1>3. SUFFICES ASSUME NEW a \in Ram!Range, Ram!Broken(a, Ram!Range) PROVE FALSE  OBVIOUS
<1>4. \A q: q \in {2, 5} => RamSwept(a, q)  BY DEF RamSwept
<1>5. CASE fault.kind = "stuck" /\ fault.at = a
  <2>1. 2 \in 1..RamPasses /\ 5 \in 1..RamPasses  BY DEF RamPasses
  <2>2. \A j: Ram!Passes(j)[2][1] = Ram!P00 /\ Ram!Passes(j)[5][1] = Ram!PFF
    BY DEF Ram!Passes, Ram!RamckPasses
  <2>3. /\ Ram!P00 = 0 /\ Ram!PFF \in Nat /\ Ram!None = -1 /\ Ram!P00 + Ram!PFF = 2^Bits - 1
    BY Patterns
  <2>4. Ram!P00 # Ram!None /\ Ram!PFF # Ram!None /\ Ram!P00 \in Nat  BY <2>3
  <2>5. Ram!Bit(Ram!P00, fault.bit) = fault.as /\ Ram!Bit(Ram!PFF, fault.bit) = fault.as
    BY <1>2, <1>4, <1>5, <2>1, <2>2, <2>4 DEF RamInv, RamStuck
  <2>6. fault.bit \in Nat /\ fault.bit < Bits  BY <1>1, <1>5, CellOf DEF RamTypes
  <2> QED  BY <2>3, <2>4, <2>5, <2>6, Opposites, RamSizes DEF Ram!Bit
<1>6. ASSUME NEW b \in Ram!Range, b # a, Ram!Cell(fault, a) = Ram!Cell(fault, b) PROVE FALSE
  <2>1. RamSwept(a, 2) /\ RamSwept(b, 2)  BY DEF RamSwept
  <2>2. a < b \/ b < a  BY <1>2, <1>6
  <2> QED  BY <1>2, <1>6, <2>1, <2>2 DEF RamInv, RamApart
<1> QED  BY <1>3, <1>5, <1>6 DEF Ram!Broken

LEMMA RamNextPass ==
  ASSUME RamInv, Ram!NextPass
  PROVE  RamInv'
<1>1. /\ outcome = "running" /\ Ram!PassEnds /\ pass < Len(Ram!Passes(0)) /\ pass' = pass + 1
      /\ p' = start /\ cells' = cells /\ fault' = fault /\ test' = test /\ start' = start
      /\ size' = size /\ region' = region /\ outcome' = outcome /\ error' = error /\ RamTypes
  BY DEF Ram!NextPass, Ram!Passed, RamInv
<1>2. /\ start \in Nat /\ RamSpan \in Nat /\ p = start + RamSpan /\ pass \in Nat /\ pass \in 1..RamPasses
      /\ Ram!Runs = start..(start + RamSpan - 1) /\ test \in {"RAMCK", "DDRCK"}
  BY <1>1, PassAt
<1>3. \A a \in Ram!Runs: a \in Nat /\ a < p /\ ~(a < start)  BY <1>2
<1>4. pass + 1 \in 1..RamPasses
  <2>1. Len(Ram!Passes(0)) = RamPasses
    BY <1>2 DEF Ram!Passes, Ram!RamckPasses, Ram!DdrckPasses, RamPasses
  <2>2. RamPasses \in Nat  BY DEF RamPasses
  <2> QED  BY <1>1, <1>2, <2>1, <2>2
<1>5. /\ Ram!Runs' = Ram!Runs /\ RamSpan' = RamSpan /\ RamPasses' = RamPasses
      /\ \A j: RamLeft(j)' = RamLeft(j) /\ Ram!Passes(j)' = Ram!Passes(j)
  BY <1>1 DEF Ram!Runs, RamSpan, RamPasses, RamLeft, Ram!Passes
<1>6. RamTypes'
  <2>1. start \in start..(start + RamSpan)  BY <1>2
  <2> QED  BY <1>1, <1>4, <1>5, <2>1 DEF RamTypes
<1>7. RamHolds'
  <2> SUFFICES ASSUME NEW a \in Ram!Runs, ~Ram!Broken(a, Ram!Runs)'
               PROVE  cells[Ram!Cell(fault, a)]
                        = RamLeft(a - start)[IF a < start THEN pass + 1 ELSE (pass + 1) - 1]
    BY <1>1, <1>5 DEF RamHolds
  <2>1. ~Ram!Broken(a, Ram!Runs)  BY <1>1, <1>5 DEF Ram!Broken
  <2>2. LET k == IF a < p THEN pass ELSE pass - 1 IN
        k > 0 => cells[Ram!Cell(fault, a)] = RamLeft(a - start)[k]
    BY <1>1, <2>1 DEF RamInv, RamHolds
  <2>3. pass > 0 /\ (pass + 1) - 1 = pass  BY <1>2
  <2> QED  BY <1>3, <2>2, <2>3
<1>8. \A a \in Ram!Runs, q \in Nat: RamSwept(a, q)' <=> RamSwept(a, q)
  BY <1>1, <1>2, <1>3 DEF RamSwept
<1>9. RamStuck'
  <2> SUFFICES ASSUME fault.kind = "stuck", fault.at \in Ram!Runs,
                      NEW q \in 1..RamPasses, RamSwept(fault.at, q)',
                      Ram!Passes(fault.at - start)[q][1] # Ram!None
               PROVE  Ram!Bit(Ram!Passes(fault.at - start)[q][1], fault.bit) = fault.as
    BY <1>1, <1>5 DEF RamStuck, RamSwept
  <2>1. q \in Nat  BY DEF RamPasses
  <2>2. q < pass + 1 \/ (q = pass + 1 /\ fault.at < start)  BY <1>1 DEF RamSwept
  <2>3. RamSwept(fault.at, q)  BY <1>2, <1>3, <2>1, <2>2 DEF RamSwept
  <2> QED  BY <1>1, <2>3 DEF RamInv, RamStuck
<1>10. RamApart'
  BY <1>1, <1>3, <1>5, <1>8 DEF RamInv, RamApart
<1>11. RamCounted'
  BY <1>1, <1>3, <1>5 DEF RamCounted
<1>12. RamRegions'
  BY <1>1 DEF RamInv, RamRegions, RamRegion, Ram!Broken
<1>13. Ram!VerdictRight'  BY <1>1 DEF Ram!VerdictRight
<1> QED  BY <1>6, <1>7, <1>9, <1>10, <1>11, <1>12, <1>13 DEF RamInv

\* A test begins with a range of its own, and knows nothing of its cells.
LEMMA RamBegins ==
  ASSUME RamInv, cells' = cells, fault' = fault, outcome' = "running", pass' = 1, p' = start',
         start' \in Nat, size' \in Nat, RamSpan' \in Nat, start' + RamSpan' <= Size,
         \/ test' = "RAMCK"
         \/ /\ test' = "DDRCK" /\ region' \in 1..Len(DdrStarts)
            /\ start' = DdrStarts[region'] /\ size' = DdrSize
            /\ \A k \in 1..(region' - 1): \A a \in RamRegion(k): ~Ram!Broken(a, RamRegion(k))
  PROVE  RamInv'
<1>1. RamTypes'
  <2>1. p' \in start'..(start' + RamSpan')
    <3>1. PICK s \in Nat, n \in Nat: s = start' /\ n = RamSpan'  OBVIOUS
    <3>2. s \in s..(s + n)  OBVIOUS
    <3> QED  BY <3>1, <3>2
  <2>2. 1 \in 1..RamPasses'  BY DEF RamPasses
  <2>3. cells \in [Ram!Memory -> Int] /\ fault \in Ram!Faults  BY DEF RamInv, RamTypes
  <2> QED  BY <2>1, <2>2, <2>3 DEF RamTypes
<1>2. Ram!Runs' = start'..(start' + RamSpan' - 1)  BY DEF Ram!Runs, RamSpan
<1>3. \A a \in Ram!Runs': ~(a < p')  BY <1>2
<1>4. RamHolds'
  <2>1. ~(1 - 1 > 0)  OBVIOUS
  <2> QED  BY <1>3, <2>1 DEF RamHolds
<1>5. \A a \in Ram!Runs', q \in Nat: q > 0 => ~RamSwept(a, q)'  BY <1>3 DEF RamSwept
<1>6. RamStuck'
  <2> SUFFICES ASSUME fault'.at \in Ram!Runs', NEW q \in 1..RamPasses', RamSwept(fault.at, q)' PROVE FALSE
    BY DEF RamStuck
  <2>1. q \in Nat /\ q > 0  BY DEF RamPasses
  <2>2. q < 1 \/ (q = 1 /\ fault'.at < p')  BY DEF RamSwept
  <2> QED  BY <1>3, <2>1, <2>2
<1>7. RamApart'  BY <1>5 DEF RamApart
<1>8. RamCounted'  BY DEF RamCounted
<1>9. RamRegions'  BY DEF RamRegions, RamRegion, Ram!Broken
<1>10. Ram!VerdictRight'  BY DEF Ram!VerdictRight
<1> QED  BY <1>1, <1>4, <1>6, <1>7, <1>8, <1>9, <1>10 DEF RamInv

LEMMA RamNextRegion ==
  ASSUME RamInv, Ram!NextRegion
  PROVE  RamInv'
<1>1. /\ outcome = "running" /\ Ram!PassEnds /\ pass = Len(Ram!Passes(0)) /\ test = "DDRCK"
      /\ region < Len(DdrStarts) /\ outcome' = outcome
      /\ test' = "DDRCK" /\ start' = DdrStarts[region + 1] /\ size' = DdrSize /\ pass' = 1 /\ p' = start'
      /\ region' = region + 1 /\ cells' = cells /\ fault' = fault /\ RamTypes
  BY DEF Ram!NextRegion, Ram!Passed, Ram!MoreRegions, Ram!DdrRegion, RamInv
<1>2. pass = 6  BY <1>1 DEF Ram!Passes, Ram!DdrckPasses
<1>3. /\ region \in 1..Len(DdrStarts) /\ start = DdrStarts[region] /\ size = DdrSize
      /\ p = start + DdrSize
  BY <1>1, PassAt DEF RamTypes, RamSpan
<1>4. region \in Nat /\ region + 1 \in 1..Len(DdrStarts)  BY <1>1, <1>3
<1>5. Ram!Runs = RamRegion(region)  BY <1>1, <1>3 DEF Ram!Runs, RamRegion
<1>6. \A a \in RamRegion(region): ~Ram!Broken(a, RamRegion(region))
  BY <1>1, <1>2, <1>3, <1>5, RegionSound
<1>7. \A k \in 1..(region - 1): \A a \in RamRegion(k): ~Ram!Broken(a, RamRegion(k))
  BY <1>1 DEF RamInv, RamRegions
<1>8. \A k \in 1..((region + 1) - 1): k = region \/ k \in 1..(region - 1)  BY <1>4
<1>9. \A k \in 1..(region' - 1): \A a \in RamRegion(k): ~Ram!Broken(a, RamRegion(k))
  BY <1>1, <1>6, <1>7, <1>8
<1>10. /\ start' \in Nat /\ size' \in Nat /\ RamSpan' \in Nat /\ start' + RamSpan' <= Size
       /\ RamSpan' = size'
  BY <1>1, <1>4, RamSizes DEF RamSpan
<1> QED  BY <1>1, <1>4, <1>9, <1>10, RamBegins

LEMMA RamAllPassed ==
  ASSUME RamInv, Ram!AllPassed
  PROVE  RamInv'
<1>1. /\ outcome = "running" /\ Ram!PassEnds /\ pass = Len(Ram!Passes(0)) /\ ~Ram!MoreRegions
      /\ outcome' = "OK" /\ cells' = cells /\ fault' = fault /\ test' = test /\ start' = start
      /\ size' = size /\ RamTypes
  BY DEF Ram!AllPassed, Ram!Passed, RamInv
<1>2. \A set \in Ram!Tested: \A a \in set: ~Ram!Broken(a, set)
  <2>1. CASE test = "RAMCK"
    <3>1. pass = 7  BY <1>1, <2>1 DEF Ram!Passes, Ram!RamckPasses
    <3> QED  BY <1>1, <2>1, <3>1, RangeSound DEF Ram!Tested
  <2>2. CASE test = "DDRCK"
    <3>1. pass = 6  BY <1>1, <2>2 DEF Ram!Passes, Ram!DdrckPasses
    <3>2. /\ region \in 1..Len(DdrStarts) /\ start = DdrStarts[region] /\ size = DdrSize
          /\ p = start + DdrSize /\ ~(region < Len(DdrStarts))
      BY <1>1, <2>2, PassAt DEF RamTypes, RamSpan, Ram!MoreRegions
    <3>3. Ram!Runs = RamRegion(region)  BY <2>2, <3>2 DEF Ram!Runs, RamRegion
    <3>4. \A a \in RamRegion(region): ~Ram!Broken(a, RamRegion(region))
      BY <1>1, <2>2, <3>1, <3>2, <3>3, RegionSound
    <3>5. \A k \in 1..(region - 1): \A a \in RamRegion(k): ~Ram!Broken(a, RamRegion(k))
      BY <1>1, <2>2 DEF RamInv, RamRegions
    <3>6. \A k \in 1..Len(DdrStarts): k = region \/ k \in 1..(region - 1)  BY <3>2
    <3>7. Ram!Tested = {RamRegion(k): k \in 1..Len(DdrStarts)}  BY <2>2 DEF Ram!Tested, RamRegion
    <3> QED  BY <3>4, <3>5, <3>6, <3>7
  <2> QED  BY <1>1, <2>1, <2>2, PassAt
<1>3. Ram!VerdictRight'
  BY <1>1, <1>2 DEF Ram!VerdictRight, Ram!Tested, Ram!Range, Ram!Broken
<1>4. RamTypes'  BY <1>1 DEF RamTypes
<1> QED
  BY <1>1, <1>3, <1>4 DEF RamInv, RamHolds, RamStuck, RamApart, RamCounted, RamRegions

LEMMA RamStarts ==
  ASSUME Ram!Init
  PROVE  RamInv
<1>1. cells = [c \in Ram!Memory |-> c % 2^Bits] /\ fault \in Ram!Faults /\ outcome = "none"
  BY DEF Ram!Init
<1>2. ASSUME NEW c \in Ram!Memory PROVE c % 2^Bits \in Int
  <2>1. c \in Int /\ 2^Bits \in Nat \ {0}  BY RamSizes
  <2> QED  BY <2>1, Divided
<1>3. cells \in [Ram!Memory -> Int]  BY <1>1, <1>2
<1> QED
  BY <1>1, <1>3
  DEF RamInv, RamTypes, RamHolds, RamStuck, RamApart, RamCounted, RamRegions, Ram!VerdictRight

LEMMA RamRamck ==
  ASSUME RamInv, NEW first \in Ram!Memory, NEW n \in 0..Size, Ram!Ramck(first, n)
  PROVE  RamInv'
<1>1. /\ cells' = cells /\ fault' = fault /\ outcome' = "running" /\ pass' = 1 /\ test' = "RAMCK"
      /\ start' = first /\ size' = n /\ p' = first /\ first + Ram!Touched(n) <= Size
  BY DEF Ram!Ramck
<1>2. first \in Nat /\ n \in Nat  BY RamSizes
<1>3. RamSpan' = Ram!Touched(n)  BY <1>1 DEF RamSpan, Ram!Touched
<1>4. Ram!Touched(n) \in Nat  BY <1>2, WholeRuns
<1> QED  BY <1>1, <1>2, <1>3, <1>4, RamBegins

LEMMA RamDdrck ==
  ASSUME RamInv, Ram!Ddrck
  PROVE  RamInv'
<1>1. /\ cells' = cells /\ fault' = fault /\ outcome' = "running" /\ pass' = 1 /\ test' = "DDRCK"
      /\ start' = DdrStarts[1] /\ size' = DdrSize /\ p' = start' /\ region' = 1
  BY DEF Ram!Ddrck, Ram!DdrRegion
<1>2. 1 \in 1..Len(DdrStarts) /\ DdrStarts[1] \in Nat /\ DdrSize \in Nat /\ DdrStarts[1] + DdrSize <= Size
  BY RamSizes DEF Ram!RamAssumption
<1>3. RamSpan' = DdrSize  BY <1>1 DEF RamSpan
<1>4. 1..(region' - 1) = {}  BY <1>1
<1> QED  BY <1>1, <1>2, <1>3, <1>4, RamBegins

LEMMA RamRefused ==
  ASSUME RamInv, Ram!RamckRefused
  PROVE  RamInv'
<1>1. cells' = cells /\ fault' = fault /\ outcome' = "refused"  BY DEF Ram!RamckRefused
<1> QED
  BY <1>1
  DEF RamInv, RamTypes, RamHolds, RamStuck, RamApart, RamCounted, RamRegions, Ram!VerdictRight

LEMMA RamStill ==
  ASSUME RamInv, UNCHANGED Ram!vars
  PROVE  RamInv'
<1>1. /\ cells' = cells /\ fault' = fault /\ test' = test /\ start' = start /\ size' = size
      /\ region' = region /\ pass' = pass /\ p' = p /\ outcome' = outcome /\ error' = error
  BY DEF Ram!vars
<1>2. /\ Ram!Runs' = Ram!Runs /\ RamSpan' = RamSpan /\ RamPasses' = RamPasses /\ Ram!Range' = Ram!Range
      /\ Ram!Tested' = Ram!Tested
  BY <1>1 DEF Ram!Runs, RamSpan, RamPasses, Ram!Range, Ram!Tested
<1>3. /\ \A j: RamLeft(j)' = RamLeft(j) /\ Ram!Passes(j)' = Ram!Passes(j)
      /\ \A a, q: RamSwept(a, q)' <=> RamSwept(a, q)
      /\ \A a, S: Ram!Broken(a, S)' <=> Ram!Broken(a, S)
  BY <1>1 DEF RamLeft, Ram!Passes, RamSwept, Ram!Broken
<1>4. RamTypes'  BY <1>1, <1>2 DEF RamInv, RamTypes
<1>5. RamHolds'  BY <1>1, <1>2, <1>3 DEF RamInv, RamHolds, Ram!Broken
<1>6. RamStuck'  BY <1>1, <1>2, <1>3 DEF RamInv, RamStuck, RamSwept
<1>7. RamApart'  BY <1>1, <1>2, <1>3 DEF RamInv, RamApart
<1>8. RamCounted'  BY <1>1, <1>2 DEF RamInv, RamCounted
<1>9. RamRegions'  BY <1>1 DEF RamInv, RamRegions, RamRegion, Ram!Broken
<1>10. Ram!VerdictRight'  BY <1>1, <1>2, <1>3 DEF RamInv, Ram!VerdictRight, Ram!Broken
<1> QED  BY <1>4, <1>5, <1>6, <1>7, <1>8, <1>9, <1>10 DEF RamInv

LEMMA RamStep ==
  ASSUME RamInv, [Ram!Next]_(Ram!vars)
  PROVE  RamInv'
<1>1. ASSUME Ram!Test PROVE RamInv'
  BY <1>1, RamMismatch, RamVisit, RamNextPass, RamNextRegion, RamAllPassed DEF Ram!Test
<1>2. CASE Ram!Next  BY <1>1, <1>2, RamRamck, RamRefused, RamDdrck DEF Ram!Next
<1>3. CASE UNCHANGED Ram!vars  BY <1>3, RamStill
<1> QED  BY <1>2, <1>3

\* The memory tests keep their invariant: what each pass has left in the cells
\* that are not broken, what a stuck bit was compared with, and that the march of
\* RAMCK and the count of DDRCK tell apart the cells they have been at.
THEOREM RamInvariant == Ram!Spec => []RamInv
<1>1. Ram!Init => RamInv  BY RamStarts
<1>2. RamInv /\ [Ram!Next]_(Ram!vars) => RamInv'  BY RamStep
<1> QED  BY <1>1, <1>2, PTL DEF Ram!Spec

\* RAMCK and DDRCK (ddrcheck.c) overlook no stuck bit and no two addresses with
\* one cell, and a test that fails names an address that is broken: for every
\* size of the memory, every even number of bits, every fault of the three kinds,
\* every range and every list of regions.
THEOREM RamVerdictRight == Ram!Spec => []Ram!VerdictRight
<1>1. RamInv => Ram!VerdictRight  BY DEF RamInv
<1> QED  BY <1>1, RamInvariant, PTL

\* The same of the monitor the runs check, where one part is chosen at the start.
THEOREM MonitorVerdictRight == MCSpec => []VerdictRight
<1> DEFINE Inv == part = "ram" => RamInv
<1>1. MCInit => Inv  BY RamStarts DEF MCInit
<1>2. ASSUME Inv, [MCNext]_<<part, vars, memory, ram, srec, keypad, outcome>> PROVE Inv'
  <2> SUFFICES ASSUME part' = "ram" PROVE RamInv'  OBVIOUS
  <2>1. part' = part
    BY <1>2 DEF MCNext, InConsole, InMemory, InRam, InSrec, InKeypad
  <2>2. part = "ram" /\ RamInv  BY <1>2, <2>1
  <2>3. [Ram!Next]_(Ram!vars)
    <3>1. CASE MCNext
      <4>1. \/ \E first \in Ram!Memory, n \in 0..Size: Ram!Ramck(first, n)
            \/ Ram!RamckRefused \/ Ram!Ddrck \/ Ram!Test
        BY <2>2, <3>1 DEF MCNext, InConsole, InMemory, InRam, InSrec, InKeypad
      <4> QED  BY <4>1 DEF Ram!Next
    <3>2. CASE UNCHANGED <<part, vars, memory, ram, srec, keypad, outcome>>
      BY <3>2 DEF Ram!vars, ram
    <3> QED  BY <1>2, <3>1, <3>2
  <2> QED  BY <2>2, <2>3, RamStep
<1>3. Inv => VerdictRight  BY DEF RamInv, VerdictRight
<1> QED  BY <1>1, <1>2, <1>3, PTL DEF MCSpec

-----------------------------------------------------------------------------
(* The image loader.                                                       *)

\* Every variable is where the code keeps it.
SrecTypes ==
  /\ pc \in {"idle", "load", "done"} /\ loader \in Srec!Commands
  /\ top \in 0..(Word32 - 1) /\ sector \in Nat
  /\ ptr \in Nat /\ workAdd_Max \in 0..(Word32 - 1) /\ prevLoadAddress \in 0..(Word32 - 1)
  /\ outcome \in {"none", "loaded", "stopped"} /\ ordered \in BOOLEAN
  /\ sent \in SUBSET Nat

\* During a load nothing is known of its outcome; EM_WB has nothing before the file.
Loading ==
  pc = "load" =>
    /\ outcome = "none"
    /\ loader = "EM_WB" => sent = {} /\ mem = [m \in Srec!WorkMemory |-> Srec!Cleared(loader)]

\* The two accounts of the place.
Accounts == ptr % Word32 = workAdd_Max

\* Where the last record ended: an end at Word32 is kept as 0.
Ending == IF Word32 - 1 \in sent THEN Word32 ELSE prevLoadAddress

\* Records in order: the pointer is at the place of their end, and nothing is beyond it.
InOrder ==
  loader # "EM_WB" /\ ordered =>
    /\ top <= Ending /\ ptr = Base + (Ending - top)
    /\ \A a \in sent: a < Ending

\* What has come in order and fits is at its place, whether the load goes on or not.
AllFit == \A a \in sent: Srec!Place(a) \in Srec!WorkMemory
InPlace == ordered /\ AllFit => Srec!Placed

\* The image of a complete load.
ImageIs ==
  outcome = "loaded" =>
    /\ image.min = Base /\ image.max \in Int /\ image.max <= Word32 - 2
    /\ loader # "EM_WB" => image.max = workAdd_Max - 1
    /\ loader = "EM_WB" => \A a \in sent: image.max >= Srec!Place(a)
    /\ loader # "XLS2" => SecCnt = Srec!CountOf(sector, image)

SrecInv == SrecTypes /\ Loading /\ Accounts /\ InOrder /\ InPlace /\ ImageIs

-----------------------------------------------------------------------------
(* Places and addresses.                                                   *)

LEMMA Spaces ==
  ASSUME Srec!SrecAssumption
  PROVE  /\ Word32 \in Nat \ {0} /\ Base \in Nat /\ WorkSize \in Nat /\ Sector \in Nat \ {0}
         /\ Word32 % Sector = 0 /\ Word32 > Base + WorkSize /\ Base < Word32
         /\ Places \subseteq 0..(Word32 - 1) /\ Tops \subseteq 0..(Word32 - 1)
<1>1. /\ Base \in Nat /\ WorkSize \in Nat /\ Sector \in Nat \ {0}
      /\ Word32 \in Nat /\ Word32 > Base + WorkSize
  BY DEF Srec!SrecAssumption
<1>2. Word32 # 0 /\ Base < Word32  BY <1>1
<1>3. Word32 % Sector = 0 /\ Places \subseteq 0..(Word32 - 1)  BY DEF Srec!SrecAssumption
<1>4. Tops \subseteq 0..(Word32 - 1)  BY DEF Srec!SrecAssumption
<1> QED  BY <1>1, <1>2, <1>3, <1>4

\* A number that wraps stays below Word32.
LEMMA WrapsTo ==
  ASSUME Srec!SrecAssumption, NEW a \in Int
  PROVE  a % Word32 \in 0..(Word32 - 1)
BY Spaces, Divided

LEMMA SrecFacts ==
  ASSUME Srec!SrecAssumption, SrecTypes
  PROVE  /\ Word32 \in Nat /\ Base \in Nat /\ WorkSize \in Nat /\ Word32 > Base + WorkSize
         /\ top \in Nat /\ top < Word32 /\ ptr \in Nat /\ workAdd_Max \in Nat
         /\ workAdd_Max < Word32 /\ prevLoadAddress \in Nat /\ prevLoadAddress < Word32
<1>1. /\ Word32 \in Nat /\ Base \in Nat /\ WorkSize \in Nat /\ Word32 > Base + WorkSize  BY Spaces
<1>2. top \in 0..(Word32 - 1) /\ workAdd_Max \in 0..(Word32 - 1) /\ prevLoadAddress \in 0..(Word32 - 1)
  BY DEF SrecTypes
<1>3. ptr \in Nat  BY DEF SrecTypes
<1> QED  BY <1>1, <1>2, <1>3

\* The work memory after a record that begins at first.
Written(first, addr, length) ==
  [a \in Srec!WorkMemory |->
     IF a \in first..(first + length - 1) THEN addr + (a - first)
     ELSE IF loader = "XLS2" /\ a \in ptr..(first - 1) THEN Srec!FF ELSE mem[a]]

\* What a record does, when it begins d behind the end of the last one.
Done(addr, length, d) ==
  /\ pc = "load" /\ loader # "EM_WB"
  /\ mem' = Written(ptr + d, addr, length)
  /\ ptr' = ptr + d + length /\ workAdd_Max' = (workAdd_Max + d + length) % Word32
  /\ prevLoadAddress' = (addr + length) % Word32
  /\ sent' = sent \cup addr..(addr + length - 1)
  /\ ordered' = (ordered /\ addr >= prevLoadAddress /\ \A a \in sent: a < addr)
  /\ UNCHANGED <<pc, loader, top, sector, outcome, image, SecCnt>>

LEMMA RecordIs ==
  ASSUME Srec!SrecAssumption, SrecTypes, NEW addr \in Places, NEW length \in 0..LengthMax,
         addr + length <= Word32, Srec!Record(addr, length)
  PROVE  \E d \in 0..(Word32 - 1):
           /\ addr \in Nat /\ addr < Word32 /\ length \in Nat /\ d \in Nat /\ d < Word32
           /\ d = (addr - prevLoadAddress) % Word32 /\ Done(addr, length, d)
<1>1. addr \in Nat /\ addr < Word32  BY Spaces
<1>2. length \in Nat  BY DEF Srec!SrecAssumption
<1>3. PICK d : d = (addr - prevLoadAddress) % Word32  OBVIOUS
<1>4. d \in 0..(Word32 - 1)
  <2>1. addr - prevLoadAddress \in Int  BY <1>1, SrecFacts
  <2> QED  BY <1>3, <2>1, WrapsTo
<1>5. Srec!Ahead(addr) = d  BY <1>3 DEF Srec!Ahead
<1>6. mem' = Written(ptr + d, addr, length)
  <2>1. mem' = Written(ptr + Srec!Ahead(addr), addr, length)  BY DEF Srec!Record, Written
  <2> QED  BY <2>1, <1>5
<1>7. /\ pc = "load" /\ loader # "EM_WB"
      /\ ptr' = Srec!PtrAfter(addr, length) /\ workAdd_Max' = Srec!MaxAfter(addr, length)
      /\ prevLoadAddress' = (addr + length) % Word32
      /\ sent' = sent \cup addr..(addr + length - 1)
      /\ ordered' = (ordered /\ addr >= prevLoadAddress /\ \A a \in sent: a < addr)
      /\ UNCHANGED <<pc, loader, top, sector, outcome, image, SecCnt>>
  BY Zenon DEF Srec!Record
<1>8. ptr' = ptr + d + length /\ workAdd_Max' = (workAdd_Max + d + length) % Word32
  BY <1>5, <1>7 DEF Srec!PtrAfter, Srec!MaxAfter
<1>9. d \in Nat /\ d < Word32  BY <1>4, Spaces
<1>10. Done(addr, length, d)  BY <1>6, <1>7, <1>8 DEF Done
<1> QED  BY <1>1, <1>2, <1>3, <1>4, <1>9, <1>10

\* The end of a load, with or without a file.
LEMMA EndIs ==
  ASSUME Srec!EndRecord
  PROVE  /\ pc = "load" /\ loader # "EM_WB" /\ pc' = "done" /\ outcome' = "loaded"
         /\ image' = [min |-> Base, max |-> workAdd_Max - 1]
         /\ SecCnt' = (IF loader = "XLS2" THEN 0 ELSE Srec!CountOf(sector, image'))
         /\ UNCHANGED <<loader, top, sector, mem, ptr, workAdd_Max, prevLoadAddress, sent, ordered>>
BY DEF Srec!EndRecord, Srec!Loaded

-----------------------------------------------------------------------------
(* The steps.                                                              *)

LEMMA SrecTypesStep ==
  ASSUME Srec!SrecAssumption, SrecTypes, Srec!Next
  PROVE  SrecTypes'
<1>0. Word32 \in Nat \ {0} /\ Base \in Nat /\ Base < Word32  BY Spaces
<1>1. ASSUME NEW c \in Srec!Commands, NEW t \in Tops, NEW s \in 0..(CardSize - 1), Srec!Start(c, t, s)
      PROVE  SrecTypes'
  <2>1. t \in 0..(Word32 - 1)  BY Spaces
  <2>2. s \in Nat
    <3>1. CardSize \in Nat  BY DEF Srec!SrecAssumption
    <3> QED  BY <3>1
  <2>3. Base \in 0..(Word32 - 1)  BY <1>0
  <2> QED  BY <1>0, <1>1, <2>1, <2>2, <2>3 DEF Srec!Start, SrecTypes
<1>2. ASSUME NEW addr \in Places, NEW length \in 0..LengthMax, addr + length <= Word32,
             Srec!Record(addr, length)
      PROVE  SrecTypes'
  <2>1. PICK d \in 0..(Word32 - 1):
           /\ addr \in Nat /\ addr < Word32 /\ length \in Nat /\ d \in Nat /\ d < Word32
           /\ d = (addr - prevLoadAddress) % Word32 /\ Done(addr, length, d)
    BY <1>2, RecordIs
  <2>2. ptr' \in Nat
    <3>1. ptr \in Nat /\ ptr' = ptr + d + length  BY <2>1 DEF SrecTypes, Done
    <3> QED  BY <2>1, <3>1
  <2>3. workAdd_Max' \in 0..(Word32 - 1)
    <3>1. workAdd_Max + d + length \in Int  BY <2>1, SrecFacts
    <3>2. workAdd_Max' = (workAdd_Max + d + length) % Word32  BY <2>1 DEF Done
    <3> QED  BY <3>1, <3>2, WrapsTo
  <2>4. prevLoadAddress' \in 0..(Word32 - 1)
    <3>1. addr + length \in Int  BY <2>1
    <3>2. prevLoadAddress' = (addr + length) % Word32  BY <2>1 DEF Done
    <3> QED  BY <3>1, <3>2, WrapsTo
  <2>5. sent' \in SUBSET Nat
    <3>1. sent' = sent \cup addr..(addr + length - 1) /\ sent \in SUBSET Nat
      BY <2>1 DEF SrecTypes, Done
    <3>2. \A a \in addr..(addr + length - 1): a \in Nat  BY <2>1
    <3> QED  BY <3>1, <3>2
  <2>6. ordered' \in BOOLEAN
    <3>1. ordered' = (ordered /\ addr >= prevLoadAddress /\ \A a \in sent: a < addr)
      BY <2>1 DEF Done
    <3> QED  BY <3>1
  <2>7. /\ pc' \in {"idle", "load", "done"} /\ loader' \in Srec!Commands /\ top' \in 0..(Word32 - 1)
        /\ sector' \in Nat /\ outcome' \in {"none", "loaded", "stopped"}
    BY <2>1 DEF SrecTypes, Done
  <2> QED  BY <2>2, <2>3, <2>4, <2>5, <2>6, <2>7 DEF SrecTypes
<1>3. CASE Srec!EndRecord
  <2>1. pc' = "done" /\ outcome' = "loaded"  BY <1>3, EndIs
  <2>2. UNCHANGED <<loader, top, sector, ptr, workAdd_Max, prevLoadAddress, sent, ordered>>
    BY <1>3, EndIs
  <2> QED  BY <2>1, <2>2 DEF SrecTypes
<1>4. ASSUME NEW n \in 0..WorkSize, Srec!Binary(n) PROVE SrecTypes'
  <2>1. /\ pc' = "done" /\ outcome' = "loaded" /\ sent' = top..(top + n - 1)
        /\ UNCHANGED <<loader, top, sector, ptr, workAdd_Max, prevLoadAddress, ordered>>
    BY <1>4 DEF Srec!Binary
  <2>2. sent' \in SUBSET Nat
    <3>1. top \in Nat /\ n \in Nat  BY SrecFacts
    <3>2. \A a \in top..(top + n - 1): a \in Nat  BY <3>1
    <3> QED  BY <2>1, <3>2
  <2> QED  BY <2>1, <2>2 DEF SrecTypes
<1>5. CASE Srec!Stop  BY <1>5 DEF Srec!Stop, SrecTypes
<1>6. CASE Srec!Prompt  BY <1>6 DEF Srec!Prompt, SrecTypes
<1> QED  BY <1>1, <1>2, <1>3, <1>4, <1>5, <1>6 DEF Srec!Next

LEMMA LoadingStep ==
  ASSUME Srec!SrecAssumption, SrecTypes, Loading, Srec!Next
  PROVE  Loading'
<1>1. ASSUME NEW c \in Srec!Commands, NEW t \in Tops, NEW s \in 0..(CardSize - 1), Srec!Start(c, t, s)
      PROVE  Loading'
  BY <1>1 DEF Srec!Start, Loading, Srec!Cleared
<1>2. ASSUME NEW addr \in Places, NEW length \in 0..LengthMax, addr + length <= Word32,
             Srec!Record(addr, length)
      PROVE  Loading'
  BY <1>2 DEF Srec!Record, Loading
<1>3. CASE Srec!EndRecord
  <2>1. pc' = "done"  BY <1>3, EndIs
  <2> QED  BY <2>1 DEF Loading
<1>4. ASSUME NEW n \in 0..WorkSize, Srec!Binary(n) PROVE Loading'
  BY <1>4 DEF Srec!Binary, Loading
<1>5. CASE Srec!Stop \/ Srec!Prompt  BY <1>5 DEF Srec!Stop, Srec!Prompt, Loading
<1> QED  BY <1>1, <1>2, <1>3, <1>4, <1>5 DEF Srec!Next

\* Both accounts advance by the same number; one of them wraps.
LEMMA AccountsStep ==
  ASSUME Srec!SrecAssumption, SrecTypes, Accounts, Srec!Next
  PROVE  Accounts'
<1>0. Word32 \in Nat \ {0} /\ Base \in Nat /\ Base < Word32  BY Spaces
<1>1. ASSUME NEW c \in Srec!Commands, NEW t \in Tops, NEW s \in 0..(CardSize - 1), Srec!Start(c, t, s)
      PROVE  Accounts'
  <2>1. Base % Word32 = Base  BY <1>0, Below
  <2> QED  BY <1>1, <2>1 DEF Srec!Start, Accounts
<1>2. ASSUME NEW addr \in Places, NEW length \in 0..LengthMax, addr + length <= Word32,
             Srec!Record(addr, length)
      PROVE  Accounts'
  <2>1. PICK d \in 0..(Word32 - 1):
           /\ addr \in Nat /\ addr < Word32 /\ length \in Nat /\ d \in Nat /\ d < Word32
           /\ d = (addr - prevLoadAddress) % Word32 /\ Done(addr, length, d)
    BY <1>2, RecordIs
  <2>2. ptr' = ptr + d + length /\ workAdd_Max' = (workAdd_Max + d + length) % Word32
    BY <2>1 DEF Done
  <2>3. PICK x \in Int : x = d + length  BY <2>1
  <2>4. ptr \in Int /\ workAdd_Max \in Int  BY SrecFacts
  <2>5. ptr + d + length = ptr + x /\ workAdd_Max + d + length = workAdd_Max + x
    BY <2>1, <2>3, <2>4
  <2>6. ((ptr % Word32) + x) % Word32 = (ptr + x) % Word32  BY <1>0, <2>4, RestOfSum
  <2> QED  BY <2>2, <2>5, <2>6 DEF Accounts
<1>3. CASE Srec!EndRecord
  <2>1. UNCHANGED <<ptr, workAdd_Max>>  BY <1>3, EndIs
  <2> QED  BY <2>1 DEF Accounts
<1>4. ASSUME NEW n \in 0..WorkSize, Srec!Binary(n) PROVE Accounts'
  BY <1>4 DEF Srec!Binary, Accounts
<1>5. CASE Srec!Stop \/ Srec!Prompt  BY <1>5 DEF Srec!Stop, Srec!Prompt, Accounts
<1> QED  BY <1>1, <1>2, <1>3, <1>4, <1>5 DEF Srec!Next

\* A record in order begins where its address has its place.
LEMMA RecordInOrder ==
  ASSUME Srec!SrecAssumption, SrecTypes, InOrder, NEW addr \in Nat, NEW length \in Nat,
         NEW d \in Nat, addr < Word32, d = (addr - prevLoadAddress) % Word32,
         Done(addr, length, d), ordered'
  PROVE  /\ ordered /\ loader # "EM_WB" /\ Ending = prevLoadAddress /\ prevLoadAddress <= addr
         /\ ptr = Base + (prevLoadAddress - top) /\ top <= addr /\ top <= prevLoadAddress
         /\ ptr + d = Srec!Place(addr) /\ d = addr - prevLoadAddress
         /\ \A a \in sent: a < prevLoadAddress
<1>1. ordered /\ addr >= prevLoadAddress /\ \A a \in sent: a < addr  BY DEF Done
<1>2. Word32 - 1 \notin sent
  <2>1. ~(Word32 - 1 < addr)  BY SrecFacts
  <2> QED  BY <1>1, <2>1
<1>3. Ending = prevLoadAddress  BY <1>2 DEF Ending
<1>4. loader # "EM_WB"  BY DEF Done
<1>5. /\ top <= prevLoadAddress /\ ptr = Base + (prevLoadAddress - top)
      /\ \A a \in sent: a < prevLoadAddress
  BY <1>1, <1>3, <1>4 DEF InOrder
<1>6. d = addr - prevLoadAddress
  <2>1. addr - prevLoadAddress \in Nat /\ addr - prevLoadAddress < Word32
    <3>1. addr >= prevLoadAddress  BY <1>1
    <3>2. prevLoadAddress \in Nat /\ Word32 \in Nat  BY SrecFacts
    <3> QED  BY <3>1, <3>2
  <2>2. Word32 \in Nat \ {0}  BY Spaces
  <2> QED  BY <2>1, <2>2, Below
<1>7. ptr + d = Srec!Place(addr) /\ top <= addr
  BY <1>1, <1>5, <1>6, SrecFacts DEF Srec!Place
<1> QED  BY <1>1, <1>3, <1>4, <1>5, <1>6, <1>7

LEMMA InOrderStep ==
  ASSUME Srec!SrecAssumption, SrecTypes, Loading, InOrder, Srec!Next
  PROVE  InOrder'
<1>0. Word32 \in Nat \ {0} /\ Base \in Nat /\ Base < Word32  BY Spaces
<1>1. ASSUME NEW c \in Srec!Commands, NEW t \in Tops, NEW s \in 0..(CardSize - 1), Srec!Start(c, t, s)
      PROVE  InOrder'
  <2>1. t \in Nat  BY Spaces
  <2>2. top' = t /\ prevLoadAddress' = t /\ sent' = {} /\ ptr' = Base  BY <1>1 DEF Srec!Start
  <2>3. Ending' = t  BY <2>2 DEF Ending
  <2>4. Base = Base + (t - t)  BY <1>0, <2>1
  <2> QED  BY <2>1, <2>2, <2>3, <2>4 DEF InOrder
<1>2. ASSUME NEW addr \in Places, NEW length \in 0..LengthMax, addr + length <= Word32,
             Srec!Record(addr, length)
      PROVE  InOrder'
  <2>1. PICK d \in 0..(Word32 - 1):
           /\ addr \in Nat /\ addr < Word32 /\ length \in Nat /\ d \in Nat /\ d < Word32
           /\ d = (addr - prevLoadAddress) % Word32 /\ Done(addr, length, d)
    BY <1>2, RecordIs
  <2> SUFFICES ASSUME ordered'
               PROVE  /\ top' <= Ending' /\ ptr' = Base + (Ending' - top')
                      /\ \A a \in sent': a < Ending'
    BY DEF InOrder
  <2>2. /\ prevLoadAddress <= addr /\ ptr = Base + (prevLoadAddress - top) /\ top <= addr
        /\ d = addr - prevLoadAddress /\ \A a \in sent: a < prevLoadAddress
    BY <2>1, RecordInOrder
  <2>3. /\ ptr' = ptr + d + length /\ prevLoadAddress' = (addr + length) % Word32
        /\ sent' = sent \cup addr..(addr + length - 1) /\ UNCHANGED top
    BY <2>1 DEF Done
  <2>n. /\ addr \in Nat /\ length \in Nat /\ addr < Word32 /\ addr + length <= Word32
        /\ prevLoadAddress \in Nat /\ top \in Nat /\ sent \in SUBSET Nat
    BY <1>2, <2>1, SrecFacts DEF SrecTypes
  <2>4. \A a \in sent': a < addr + length
    <3>1. \A a \in sent: a < addr + length
      <4>1. \A a \in sent: a \in Nat  BY <2>n
      <4> QED  BY <2>2, <2>n, <4>1
    <3>2. \A a \in addr..(addr + length - 1): a < addr + length  BY <2>n
    <3> QED  BY <2>3, <3>1, <3>2
  <2>5. Ending' = addr + length
    <3>1. CASE addr + length = Word32
      <4>1. length > 0 /\ Word32 - 1 \in addr..(addr + length - 1)  BY <1>0, <2>n, <3>1
      <4>2. Word32 - 1 \in sent'  BY <2>3, <4>1
      <4> QED  BY <3>1, <4>2 DEF Ending
    <3>2. CASE addr + length < Word32
      <4>1. ~(Word32 - 1 < addr + length)  BY <1>0, <2>n, <3>2
      <4>2. Word32 - 1 \notin sent'  BY <2>4, <4>1
      <4>3. addr + length \in Nat  BY <2>n
      <4>4. (addr + length) % Word32 = addr + length  BY <1>0, <3>2, <4>3, Below
      <4> QED  BY <2>3, <4>2, <4>4 DEF Ending
    <3> QED  BY <3>1, <3>2, <1>0, <2>n
  <2>6. ptr' = Base + ((addr + length) - top)
    <3>1. ptr' = Base + (prevLoadAddress - top) + (addr - prevLoadAddress) + length
      BY <2>2, <2>3
    <3> QED  BY <1>0, <2>n, <3>1
  <2>7. top <= addr + length  BY <2>2, <2>n
  <2> QED  BY <2>3, <2>4, <2>5, <2>6, <2>7
<1>3. CASE Srec!EndRecord
  <2>1. UNCHANGED <<loader, top, ptr, prevLoadAddress, sent, ordered>>  BY <1>3, EndIs
  <2> QED  BY <2>1 DEF InOrder, Ending
<1>4. ASSUME NEW n \in 0..WorkSize, Srec!Binary(n) PROVE InOrder'
  BY <1>4 DEF Srec!Binary, InOrder
<1>5. CASE Srec!Stop \/ Srec!Prompt  BY <1>5 DEF Srec!Stop, Srec!Prompt, InOrder, Ending
<1> QED  BY <1>1, <1>2, <1>3, <1>4, <1>5 DEF Srec!Next

\* A record in order writes its bytes to their places and leaves the earlier ones alone.
LEMMA RecordInPlace ==
  ASSUME Srec!SrecAssumption, SrecTypes, InOrder, InPlace, NEW addr \in Nat, NEW length \in Nat,
         NEW d \in Nat, addr < Word32, d = (addr - prevLoadAddress) % Word32,
         Done(addr, length, d), ordered', AllFit'
  PROVE  Srec!Placed'
<1>0. Word32 \in Nat /\ Base \in Nat /\ top \in Nat /\ sent \in SUBSET Nat /\ prevLoadAddress \in Nat
  BY SrecFacts DEF SrecTypes
<1>1. /\ ordered /\ prevLoadAddress <= addr /\ ptr = Base + (prevLoadAddress - top)
      /\ ptr + d = Srec!Place(addr) /\ \A a \in sent: a < prevLoadAddress
  BY RecordInOrder
<1>2. /\ mem' = Written(ptr + d, addr, length) /\ UNCHANGED <<loader, top>>
      /\ sent' = sent \cup addr..(addr + length - 1)
  BY DEF Done
<1>3. \A a: Srec!Place(a)' = Srec!Place(a)  BY <1>2 DEF Srec!Place
<1>4. AllFit
  <2>1. \A a \in sent: Srec!Place(a) \in Srec!WorkMemory  BY <1>2, <1>3 DEF AllFit
  <2> QED  BY <2>1 DEF AllFit
<1>5. /\ \A a \in sent: mem[Srec!Place(a)] = a
      /\ \A m \in Srec!WorkMemory: (\A a \in sent: Srec!Place(a) # m) => mem[m] = Srec!Cleared(loader)
  BY <1>1, <1>4 DEF InPlace, Srec!Placed
<1> DEFINE first == Srec!Place(addr)
<1>6. \A a \in Nat: /\ Srec!Place(a) \in first..(first + length - 1) <=> a \in addr..(addr + length - 1)
                    /\ addr + (Srec!Place(a) - first) = a
  BY <1>0 DEF Srec!Place
<1>7. \A m \in Srec!WorkMemory: mem'[m] =
        IF m \in first..(first + length - 1) THEN addr + (m - first)
        ELSE IF loader = "XLS2" /\ m \in ptr..(first - 1) THEN Srec!FF ELSE mem[m]
  BY <1>1, <1>2 DEF Written
<1>8. ASSUME NEW a \in sent' PROVE mem'[Srec!Place(a)] = a
  <2>0. a \in Nat /\ Srec!Place(a) \in Srec!WorkMemory
    <3>1. \A x \in addr..(addr + length - 1): x \in Nat  OBVIOUS
    <3> QED  BY <1>0, <1>2, <1>3, <1>8, <3>1 DEF AllFit
  <2>1. CASE a \in addr..(addr + length - 1)
    <3>1. Srec!Place(a) \in first..(first + length - 1) /\ addr + (Srec!Place(a) - first) = a
      BY <2>0, <2>1, <1>6
    <3> HIDE DEF first
    <3> QED  BY <1>7, <2>0, <3>1
  <2>2. CASE a \notin addr..(addr + length - 1)
    <3>1. a \in sent  BY <1>2, <2>2
    <3>2. Srec!Place(a) \notin first..(first + length - 1)  BY <2>0, <2>2, <1>6
    <3>3. Srec!Place(a) \notin ptr..(first - 1)
      <4>1. a < prevLoadAddress  BY <1>1, <3>1
      <4>2. Srec!Place(a) < ptr  BY <1>0, <1>1, <2>0, <4>1 DEF Srec!Place
      <4>3. Srec!Place(a) \in Int /\ ptr \in Int /\ first \in Int  BY <1>0, <1>1, <2>0 DEF Srec!Place
      <4> HIDE DEF first
      <4> QED  BY <4>2, <4>3
    <3> HIDE DEF first
    <3> QED  BY <1>5, <1>7, <2>0, <3>1, <3>2, <3>3
  <2> QED  BY <2>1, <2>2
<1>9. ASSUME NEW m \in Srec!WorkMemory, \A a \in sent': Srec!Place(a) # m
      PROVE  mem'[m] = Srec!Cleared(loader)
  <2>1. m \in Int  BY <1>0, Spaces DEF Srec!WorkMemory
  <2>2. m \notin first..(first + length - 1)
    <3> SUFFICES ASSUME m \in first..(first + length - 1) PROVE FALSE  OBVIOUS
    <3>1. PICK a \in Nat : a = addr + (m - first)  BY <1>0, <2>1 DEF Srec!Place
    <3>2. Srec!Place(a) = m  BY <1>0, <2>1, <3>1 DEF Srec!Place
    <3>3. a \in addr..(addr + length - 1)  BY <1>6, <3>2
    <3> QED  BY <1>2, <1>9, <3>2, <3>3
  <2>3. mem[m] = Srec!Cleared(loader)  BY <1>2, <1>5, <1>9
  <2>4. loader = "XLS2" => Srec!Cleared(loader) = Srec!FF  BY DEF Srec!Cleared
  <2> HIDE DEF first
  <2> QED  BY <1>7, <2>2, <2>3, <2>4
<1>10. Srec!Cleared(loader)' = Srec!Cleared(loader)  BY <1>2 DEF Srec!Cleared
<1> QED  BY <1>3, <1>8, <1>9, <1>10 DEF Srec!Placed

LEMMA InPlaceStep ==
  ASSUME Srec!SrecAssumption, SrecTypes, Loading, InOrder, InPlace, Srec!Next
  PROVE  InPlace'
<1>1. ASSUME NEW c \in Srec!Commands, NEW t \in Tops, NEW s \in 0..(CardSize - 1), Srec!Start(c, t, s)
      PROVE  InPlace'
  <2>1. sent' = {} /\ loader' = c /\ mem' = [a \in Srec!WorkMemory |-> Srec!Cleared(c)]
    BY <1>1 DEF Srec!Start
  <2>2. Srec!Cleared(loader)' = Srec!Cleared(c)  BY <2>1 DEF Srec!Cleared
  <2> QED  BY <2>1, <2>2 DEF InPlace, Srec!Placed
<1>2. ASSUME NEW addr \in Places, NEW length \in 0..LengthMax, addr + length <= Word32,
             Srec!Record(addr, length)
      PROVE  InPlace'
  <2>1. PICK d \in 0..(Word32 - 1):
           /\ addr \in Nat /\ addr < Word32 /\ length \in Nat /\ d \in Nat /\ d < Word32
           /\ d = (addr - prevLoadAddress) % Word32 /\ Done(addr, length, d)
    BY <1>2, RecordIs
  <2> SUFFICES ASSUME ordered', AllFit' PROVE Srec!Placed'  BY DEF InPlace
  <2> QED  BY <2>1, RecordInPlace
<1>3. CASE Srec!EndRecord \/ Srec!Stop \/ Srec!Prompt
  <2>1. UNCHANGED <<loader, top, mem, sent, ordered>>
    BY <1>3, EndIs DEF Srec!Stop, Srec!Prompt
  <2>2. (AllFit' <=> AllFit) /\ Srec!Cleared(loader)' = Srec!Cleared(loader)
    BY <2>1 DEF AllFit, Srec!Place, Srec!Cleared
  <2>3. Srec!Placed' <=> Srec!Placed  BY <2>1, <2>2 DEF Srec!Placed, Srec!Place
  <2> QED  BY <2>1, <2>2, <2>3 DEF InPlace
<1>4. ASSUME NEW n \in 0..WorkSize, Srec!Binary(n) PROVE InPlace'
  <2>1. /\ pc = "load" /\ loader = "EM_WB" /\ UNCHANGED <<loader, top>>
        /\ mem' = [a \in Srec!WorkMemory |-> IF a < Base + n THEN top + (a - Base) ELSE mem[a]]
        /\ sent' = top..(top + n - 1)
    BY <1>4 DEF Srec!Binary
  <2>2. /\ Base \in Nat /\ top \in Nat /\ n \in Nat  BY SrecFacts
  <2>3. mem = [m \in Srec!WorkMemory |-> Srec!Cleared(loader)]  BY <2>1 DEF Loading
  <2>4. \A a: Srec!Place(a)' = Srec!Place(a)  BY <2>1 DEF Srec!Place
  <2>5. Srec!Cleared(loader)' = Srec!Cleared(loader)  BY <2>1 DEF Srec!Cleared
  <2> SUFFICES ASSUME AllFit' PROVE Srec!Placed'  BY DEF InPlace
  <2>6. ASSUME NEW a \in sent' PROVE mem'[Srec!Place(a)] = a
    <3>1. a \in Int /\ top <= a /\ a < top + n  BY <2>1, <2>2, <2>6
    <3>2. Srec!Place(a) \in Srec!WorkMemory  BY <2>4, <2>6 DEF AllFit
    <3>3. Srec!Place(a) < Base + n /\ top + (Srec!Place(a) - Base) = a  BY <2>2, <3>1 DEF Srec!Place
    <3> QED  BY <2>1, <3>2, <3>3
  <2>7. ASSUME NEW m \in Srec!WorkMemory, \A a \in sent': Srec!Place(a) # m
        PROVE  mem'[m] = Srec!Cleared(loader)
    <3>1. m \in Int /\ Base <= m  BY <2>2, SrecFacts DEF Srec!WorkMemory
    <3>2. ~(m < Base + n)
      <4> SUFFICES ASSUME m < Base + n PROVE FALSE  OBVIOUS
      <4>1. PICK a \in Int : a = top + (m - Base)  BY <2>2, <3>1
      <4>2. a \in top..(top + n - 1) /\ Srec!Place(a) = m  BY <2>2, <3>1, <4>1 DEF Srec!Place
      <4> QED  BY <2>1, <2>7, <4>2
    <3> QED  BY <2>1, <2>3, <3>2
  <2> QED  BY <2>4, <2>5, <2>6, <2>7 DEF Srec!Placed
<1> QED  BY <1>1, <1>2, <1>3, <1>4 DEF Srec!Next

LEMMA ImageIsStep ==
  ASSUME Srec!SrecAssumption, SrecTypes, Loading, ImageIs, Srec!Next
  PROVE  ImageIs'
<1>1. ASSUME NEW c \in Srec!Commands, NEW t \in Tops, NEW s \in 0..(CardSize - 1), Srec!Start(c, t, s)
      PROVE  ImageIs'
  BY <1>1 DEF Srec!Start, ImageIs
<1>2. ASSUME NEW addr \in Places, NEW length \in 0..LengthMax, addr + length <= Word32,
             Srec!Record(addr, length)
      PROVE  ImageIs'
  <2>1. outcome' = "none"  BY <1>2 DEF Srec!Record, Loading
  <2> QED  BY <2>1 DEF ImageIs
<1>3. CASE Srec!EndRecord
  <2>1. /\ loader # "EM_WB" /\ image' = [min |-> Base, max |-> workAdd_Max - 1]
        /\ SecCnt' = (IF loader = "XLS2" THEN 0 ELSE Srec!CountOf(sector, image'))
        /\ UNCHANGED <<loader, sector, workAdd_Max>>
    BY <1>3, EndIs
  <2>2. workAdd_Max - 1 \in Int /\ workAdd_Max - 1 <= Word32 - 2  BY SrecFacts
  <2>3. image'.min = Base /\ image'.max = workAdd_Max - 1  BY <2>1
  <2>4. Srec!CountOf(sector, image)' = Srec!CountOf(sector, image')
    BY <2>1 DEF Srec!CountOf, Srec!StartAdd, Srec!EndAdd
  <2> QED  BY <2>1, <2>2, <2>3, <2>4 DEF ImageIs
<1>4. ASSUME NEW n \in 0..WorkSize, Srec!Binary(n) PROVE ImageIs'
  <2>1. /\ loader = "EM_WB" /\ image' = [min |-> Base, max |-> Base + n - 1]
        /\ SecCnt' = Srec!CountOf(sector, image') /\ sent' = top..(top + n - 1)
        /\ UNCHANGED <<loader, sector, top>>
    BY <1>4 DEF Srec!Binary
  <2>2. /\ Base \in Nat /\ top \in Nat /\ n \in Nat  BY SrecFacts
  <2>3. Base + n - 1 \in Int /\ Base + n - 1 <= Word32 - 2  BY <2>2, SrecFacts
  <2>4. image'.min = Base /\ image'.max = Base + n - 1  BY <2>1
  <2>5. Srec!CountOf(sector, image)' = Srec!CountOf(sector, image')
    BY <2>1 DEF Srec!CountOf, Srec!StartAdd, Srec!EndAdd
  <2>6. \A a \in sent': Base + n - 1 >= Srec!Place(a)'
    <3> SUFFICES ASSUME NEW a \in top..(top + n - 1)
                 PROVE  Base + n - 1 >= Base + (a - top)
      BY <2>1 DEF Srec!Place
    <3> QED  BY <2>2
  <2> QED  BY <2>1, <2>3, <2>4, <2>5, <2>6 DEF ImageIs
<1>5. CASE Srec!Stop  BY <1>5 DEF Srec!Stop, ImageIs
<1>6. CASE Srec!Prompt
  <2>1. UNCHANGED <<loader, top, sector, workAdd_Max, outcome, image, SecCnt, sent>>
    BY <1>6 DEF Srec!Prompt
  <2>2. Srec!CountOf(sector, image)' = Srec!CountOf(sector, image)
    BY <2>1 DEF Srec!CountOf, Srec!StartAdd, Srec!EndAdd
  <2> QED  BY <2>1, <2>2 DEF ImageIs, Srec!Place
<1> QED  BY <1>1, <1>2, <1>3, <1>4, <1>5, <1>6 DEF Srec!Next

-----------------------------------------------------------------------------
(* What a complete load has done.                                          *)

\* An image of d + 1 bytes from the start of a sector on that does not reach over a
\* multiple of n, the number of values of a word: its last sector, in words.
LEMMA SectorsOf ==
  ASSUME NEW n \in Nat \ {0}, NEW s \in Nat \ {0}, n % s = 0, NEW a \in Nat, a % s = 0,
         NEW d \in Nat, d < n - 1, a \div n = (a + d) \div n
  PROVE  \E e \in Nat:
           /\ ((((a % n) + d) % n) \div s - (a % n) \div s + 1) % n = e + 1
           /\ (e + 1) * s > d /\ e * s <= d
<1>1. PICK q \in Int, r \in 0..(n - 1) : a = n * q + r /\ r = a % n /\ q = a \div n
  <2>1. a \div n \in Int /\ a % n \in 0..(n - 1) /\ a = n * (a \div n) + (a % n)  BY Divided
  <2> QED  BY <2>1, Zenon
<1>2. PICK t \in 0..(n - 1) : a + d = n * q + t
  <2>1. a + d \in Int  OBVIOUS
  <2>2. (a + d) % n \in 0..(n - 1) /\ a + d = n * ((a + d) \div n) + ((a + d) % n)
    BY <2>1, Divided
  <2> QED  BY <2>2, <1>1, Zenon
<1>3. t = r + d /\ r + d \in Nat /\ r + d < n
  <2>1. n * q \in Int  OBVIOUS
  <2> QED  BY <1>1, <1>2, <2>1
<1>4. (r + d) % n = r + d  BY <1>3, Below
<1>5. r % s = 0
  <2>1. a \in Int /\ a % s = 0 /\ n % s = 0  OBVIOUS
  <2>2. (a % n) % s = 0  BY <2>1, RestOfMultiple, Zenon
  <2> QED  BY <1>1, <2>2
<1>6. PICK k \in Int : r = s * k /\ k = r \div s
  <2>1. r \in Int  OBVIOUS
  <2>2. r = s * (r \div s) + (r % s) /\ r \div s \in Int  BY <2>1, Divided
  <2>3. s * (r \div s) \in Int  BY <2>2, TimesIsMultiple
  <2>4. r = s * (r \div s)  BY <2>2, <2>3, <1>5
  <2> QED  BY <2>2, <2>4
<1>7. PICK e \in Int, f \in 0..(s - 1) : d = s * e + f
  <2>1. d \div s \in Int /\ d % s \in 0..(s - 1) /\ d = s * (d \div s) + (d % s)  BY Divided
  <2> QED  BY <2>1, Zenon
<1>8. (r + d) \div s = k + e
  <2>1. PICK j \in Int: j = k + e  OBVIOUS
  <2>2. r + d = s * j + f  BY <1>6, <1>7, <2>1
  <2>3. (s * j + f) \div s = j  BY <1>7, DividedOnce
  <2> QED  BY <2>1, <2>2, <2>3, Zenon
<1>9. e >= 0
  <2> SUFFICES ASSUME e <= -1 PROVE FALSE  OBVIOUS
  <2>1. s * e <= s * (-1)  BY ProductGrows
  <2>2. s * (-1) = -s  OBVIOUS
  <2>3. s * e \in Int  OBVIOUS
  <2> QED  BY <1>7, <2>1, <2>2, <2>3
<1>10. e <= d
  <2>1. e * 1 <= e * s  BY <1>9, ProductGrows
  <2>2. e * s = s * e /\ e * s \in Int /\ e * 1 = e  OBVIOUS
  <2> QED  BY <1>7, <2>1, <2>2
<1>11. k + e - k + 1 = e + 1 /\ (e + 1) % n = e + 1
  <2>1. e + 1 \in Nat /\ e + 1 < n  BY <1>9, <1>10
  <2> QED  BY <2>1, Below
<1>12. (e + 1) * s > d /\ e * s <= d
  <2>1. (e + 1) * s = s * e + s /\ e * s = s * e /\ s * e \in Int  OBVIOUS
  <2> QED  BY <1>7, <2>1
<1>13. e \in Nat  BY <1>9
<1>14. ((((a % n) + d) % n) \div s - (a % n) \div s + 1) % n = e + 1
  <2>1. ((a % n) + d) % n = r + d  BY <1>1, <1>4
  <2>2. (((a % n) + d) % n) \div s = k + e  BY <1>8, <2>1
  <2>3. (a % n) \div s = k  BY <1>1, <1>6
  <2> QED  BY <2>2, <2>3, <1>11
<1> QED  BY <1>12, <1>13, <1>14

LEMMA SectorsRight ==
  ASSUME Srec!SrecAssumption, SrecTypes, ImageIs, outcome = "loaded", loader # "XLS2",
         image.max >= image.min, ~Srec!Crosses
  PROVE  Srec!SectorsCover
<1>1. /\ Word32 \in Nat \ {0} /\ Sector \in Nat \ {0} /\ Word32 % Sector = 0 /\ Base \in Nat
      /\ Base < Word32
  BY Spaces
<1>2. /\ image.min = Base /\ image.max \in Int /\ image.max <= Word32 - 2
      /\ SecCnt = Srec!CountOf(sector, image)
  BY DEF ImageIs
<1>3. PICK d \in Nat : d = image.max - image.min /\ d < Word32 - 1
  BY <1>1, <1>2
<1>4. PICK a \in Nat : a = sector * Sector /\ a % Sector = 0
  <2>1. sector \in Nat  BY DEF SrecTypes
  <2>2. sector * Sector = Sector * sector /\ sector * Sector \in Nat  BY <1>1, <2>1
  <2>3. (Sector * sector) % Sector = 0  BY <1>1, <2>1, TimesIsMultiple
  <2> QED  BY <2>2, <2>3
<1>5. a \div Word32 = (a + d) \div Word32
  <2>1. a + d = a + image.max - image.min  BY <1>1, <1>2, <1>3, <1>4
  <2> QED  BY <1>4, <2>1 DEF Srec!Crosses
<1>6. SecCnt = ((((a % Word32) + d) % Word32) \div Sector - (a % Word32) \div Sector + 1) % Word32
  BY <1>2, <1>3, <1>4 DEF Srec!CountOf, Srec!EndAdd, Srec!StartAdd
<1>7. PICK e \in Nat : SecCnt = e + 1 /\ (e + 1) * Sector > d /\ e * Sector <= d
  BY <1>1, <1>3, <1>4, <1>5, <1>6, SectorsOf
<1>8. SecCnt - 1 = e  BY <1>7
<1> QED  BY <1>3, <1>7, <1>8 DEF Srec!SectorsCover

\* The greatest address that came, when all bytes are in the work memory.
LEMMA LastIs ==
  ASSUME Srec!SrecAssumption, SrecTypes, AllFit, sent # {}
  PROVE  Srec!Last \in sent /\ \A b \in sent: b <= Srec!Last
<1>1. sent \in SUBSET Nat  BY DEF SrecTypes
<1>2. top + WorkSize \in Nat  BY SrecFacts
<1>3. \A a \in sent: a <= top + WorkSize
  <2> SUFFICES ASSUME NEW a \in sent PROVE a <= top + WorkSize  OBVIOUS
  <2>1. a \in Nat  BY <1>1
  <2>2. Base + (a - top) <= Base + WorkSize - 1
    BY SrecFacts, <2>1 DEF AllFit, Srec!Place, Srec!WorkMemory
  <2> QED  BY SrecFacts, <2>1, <2>2
<1>4. \E x \in sent: \A y \in sent: y <= x  BY <1>1, <1>2, <1>3, GreatestNatural
<1> QED  BY <1>4 DEF Srec!Last

LEMMA EndsRight ==
  ASSUME Srec!SrecAssumption, SrecTypes, Accounts, InOrder, ImageIs, outcome = "loaded", ordered, Srec!Fits,
         sent # {}
  PROVE  image.max >= Srec!Place(Srec!Last)
<1>1. AllFit  BY DEF Srec!Fits, AllFit
<1>2. Srec!Last \in sent /\ \A b \in sent: b <= Srec!Last  BY <1>1, LastIs
<1>3. CASE loader = "EM_WB"  BY <1>2, <1>3 DEF ImageIs
<1>4. CASE loader # "EM_WB"
  <2>1. /\ top <= Ending /\ ptr = Base + (Ending - top) /\ Srec!Last < Ending
    BY <1>2, <1>4 DEF InOrder
  <2>2. Srec!Last \in Nat  BY <1>2 DEF SrecTypes
  <2>3. Ending \in Nat /\ Ending - top <= WorkSize
    <3>1. CASE Word32 - 1 \in sent
      <4>1. Srec!Place(Word32 - 1) <= Base + WorkSize - 1
        BY <1>1, <3>1, SrecFacts DEF AllFit, Srec!WorkMemory, Srec!Place
      <4>2. Word32 - top <= WorkSize  BY <4>1, SrecFacts DEF Srec!Place
      <4>3. Ending = Word32  BY <3>1 DEF Ending
      <4> QED  BY <4>2, <4>3, SrecFacts
    <3>2. CASE Word32 - 1 \notin sent
      <4>1. Ending = prevLoadAddress  BY <3>2 DEF Ending
      <4> QED  BY <4>1, SrecFacts DEF Srec!Fits
    <3> QED  BY <3>1, <3>2
  <2>4. ptr < Word32
    BY <2>1, <2>3, SrecFacts
  <2>5. workAdd_Max = ptr
    <3>1. ptr \in Nat /\ Word32 \in Nat \ {0}  BY Spaces, SrecFacts
    <3> QED  BY <2>4, <3>1, Below DEF Accounts
  <2>6. image.max = ptr - 1  BY <1>4, <2>5 DEF ImageIs
  <2> QED  BY <2>1, <2>2, <2>3, <2>6, SrecFacts DEF Srec!Place
<1> QED  BY <1>3, <1>4

LEMMA LoadedRight ==
  ASSUME Srec!SrecAssumption, SrecInv
  PROVE  Srec!ImageLoaded
<1>1. ASSUME outcome = "loaded", ordered, Srec!Fits
      PROVE  Srec!Placed /\ (sent # {} => image.min = Base /\ image.max >= Srec!Place(Srec!Last))
  <2>1. Srec!Placed  BY <1>1 DEF SrecInv, InPlace, AllFit, Srec!Fits
  <2>2. image.min = Base  BY <1>1 DEF SrecInv, ImageIs
  <2>3. sent # {} => image.max >= Srec!Place(Srec!Last)  BY <1>1, EndsRight DEF SrecInv
  <2> QED  BY <2>1, <2>2, <2>3
<1>2. ptr \in Nat /\ workAdd_Max \in 0..(Word32 - 1) /\ ptr % Word32 = workAdd_Max
  BY DEF SrecInv, SrecTypes, Accounts
<1>3. ASSUME outcome = "loaded", loader # "XLS2", image.max >= image.min, ~Srec!Crosses
      PROVE  Srec!SectorsCover
  BY <1>3, SectorsRight DEF SrecInv
<1> QED  BY <1>1, <1>2, <1>3 DEF Srec!ImageLoaded

-----------------------------------------------------------------------------
(* The theorems.                                                           *)

LEMMA SrecStarts ==
  ASSUME Srec!SrecAssumption, Srec!Init
  PROVE  SrecInv
<1>1. Word32 \in Nat \ {0} /\ Base \in Nat /\ Base < Word32  BY Spaces
<1>2. Base % Word32 = Base  BY <1>1, Below
<1>3. 0 \in 0..(Word32 - 1) /\ Base \in 0..(Word32 - 1) /\ 0 \in Nat  BY <1>1
<1>4. SrecTypes  BY <1>1, <1>3 DEF Srec!Init, SrecTypes, Srec!Commands
<1>5. Ending = 0 /\ Base = Base + (0 - 0)  BY <1>1 DEF Srec!Init, Ending
<1>6. InOrder  BY <1>5 DEF Srec!Init, InOrder
<1>7. InPlace  BY DEF Srec!Init, InPlace, Srec!Placed, Srec!Cleared
<1>8. Loading /\ Accounts /\ ImageIs  BY <1>2 DEF Srec!Init, Loading, Accounts, ImageIs
<1> QED  BY <1>4, <1>6, <1>7, <1>8 DEF SrecInv

LEMMA SrecStep ==
  ASSUME Srec!SrecAssumption, SrecInv, [Srec!Next]_(Srec!vars)
  PROVE  SrecInv'
<1>1. CASE Srec!Next
  BY <1>1, SrecTypesStep, LoadingStep, AccountsStep, InOrderStep, InPlaceStep, ImageIsStep DEF SrecInv
<1>2. CASE UNCHANGED Srec!vars
  <2>1. SrecTypes' /\ Loading' /\ Accounts' /\ InOrder'
    BY <1>2 DEF Srec!vars, SrecInv, SrecTypes, Loading, Accounts, InOrder, Ending, Srec!Cleared
  <2>2. InPlace'  BY <1>2 DEF Srec!vars, SrecInv, InPlace, AllFit, Srec!Placed, Srec!Place, Srec!Cleared
  <2>3. ImageIs'
    BY <1>2 DEF Srec!vars, SrecInv, ImageIs, Srec!Place, Srec!CountOf, Srec!StartAdd, Srec!EndAdd
  <2> QED  BY <2>1, <2>2, <2>3 DEF SrecInv
<1> QED  BY <1>1, <1>2

LEMMA SrecSizes == Srec!SrecAssumption
BY SrecBounds DEF SrecAssumption, Srec!SrecAssumption

\* The inductive invariant, of every load with every sequence of records.
THEOREM SrecInvariant == Srec!Spec => []SrecInv
BY SrecSizes, SrecStarts, SrecStep, PTL DEF Srec!Spec

\* Pointer and address keep the types of the code: a pointer that is a place, an address
\* that stays in 32 bits (EM_W, EM_WB, XLS2).
THEOREM SrecTypeCorrect == Srec!Spec => []SrecTypes
<1>1. SrecInv => SrecTypes  BY DEF SrecInv
<1> QED  BY <1>1, SrecInvariant, PTL

\* A complete image lies where its records say, the rest of the work memory is as
\* cleared; the two accounts of the place agree; EM_W and EM_WB write the sectors of
\* the image and none besides.
THEOREM ImageIsLoaded == Srec!Spec => []ImageLoaded
<1>1. SrecInv => Srec!ImageLoaded  BY SrecSizes, LoadedRight
<1>2. Srec!ImageLoaded => ImageLoaded
  <2>1. \A a: Srec!Place(a) = Place(a)  BY DEF Srec!Place, Place
  <2>2. Srec!WorkMemory = WorkMemory  BY DEF Srec!WorkMemory, WorkMemory
  <2>3. \A c: Srec!Cleared(c) = Cleared(c)  BY DEF Srec!Cleared, Cleared, Srec!FF, FF, Srec!Zero, Zero
  <2>4. Srec!Fits <=> Fits  BY <2>1, <2>2 DEF Srec!Fits, Fits
  <2>5. Srec!Placed <=> Placed  BY <2>1, <2>2, <2>3 DEF Srec!Placed, Placed
  <2>6. Srec!Last = Last  BY DEF Srec!Last, Last
  <2>7. Srec!Crosses <=> Crosses  BY DEF Srec!Crosses, Crosses
  <2>8. Srec!SectorsCover <=> SectorsCover  BY DEF Srec!SectorsCover, SectorsCover
  <2> QED  BY <2>1, <2>4, <2>5, <2>6, <2>7, <2>8 DEF Srec!ImageLoaded, ImageLoaded
<1> QED  BY <1>1, <1>2, SrecInvariant, PTL
=============================================================================
