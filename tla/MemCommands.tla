---------------------------- MODULE MemCommands ----------------------------
(***************************************************************************)
(* The memory commands of the monitor (memory_cmd.c, with the decoders of  *)
(* their parameters in common.c): D and DM dump memory, M, MW, ML and MX   *)
(* show and change it cell by cell, F, FL and FX fill it.                  *)
(*                                                                         *)
(* Addresses are unsigned and wrap at Space.  A parameter is an address of *)
(* Typed, or Kept when it is '@' or, at the end, not given: the decoder    *)
(* then leaves what the caller had put there.  For F the caller has put    *)
(* nothing there: the variables of dgFill have no initial value.           *)
(*                                                                         *)
(* A command that ends with an error message (Syntax Error, Address Size   *)
(* Error, Memory Boundary Error) changes nothing, and is left out.         *)
(***************************************************************************)
EXTENDS MemState

vars == <<gUDump, gDumpMode, gUMem, cmd, width, add, end, asked, dumped, wrote>>

Init ==
  /\ gUDump = [at |-> 0, size |-> Default] /\ gDumpMode = 1 /\ gUMem = 0
  /\ cmd = "none" /\ width = 1 /\ add = 0 /\ end = 0 /\ asked = Nothing
  /\ dumped = {} /\ wrote = {}

\* The variables of a command are gone when it returns.
Return ==
  /\ cmd' = "none" /\ width' = 1 /\ add' = 0 /\ end' = 0 /\ asked' = Nothing
  /\ dumped' = {} /\ wrote' = {}

Idle(c) == cmd = "none" /\ c \in Names

-----------------------------------------------------------------------------
(* A faulty variant of a definition below, which breaks a property.        *)

WholeLines_AsTyped(size) == size

-----------------------------------------------------------------------------
(* The operations.                                                         *)

WholeLines(size) == (size \div Line) * Line + Line - 1
Cells(a, w) == {Wrapped(a, i): i \in 0..(w - 1)}

SetDumpMode ==
  /\ Idle("DM") /\ \E w \in Widths: gDumpMode' = w
  /\ UNCHANGED <<gUDump, gUMem, cmd, width, add, end, asked, dumped, wrote>>

\* DecodeHexAscStr2: an end below the start is refused.
EndAllowed(first, e) == e # Kept => e >= first

\* The size is that of the last line's end.
Dump(s, e) ==
  LET first == IF s = Kept THEN gUDump.at ELSE s
      size  == WholeLines(IF e = Kept THEN gUDump.size ELSE e - first)
  IN
  /\ Idle("D") /\ Aligned(first, gDumpMode) /\ EndAllowed(first, e)
  /\ cmd' = "D" /\ width' = gDumpMode /\ add' = first /\ end' = Wrapped(first, size)
  /\ gUDump' = [at |-> Wrapped(first, size + 1), size |-> Default]
  /\ UNCHANGED <<gDumpMode, gUMem, asked, dumped, wrote>>

DumpCell ==
  /\ cmd = "D" /\ ~Over
  /\ dumped' = dumped \cup Cells(add, width) /\ add' = Wrapped(add, width)
  /\ UNCHANGED <<gUDump, gDumpMode, gUMem, cmd, width, end, asked, wrote>>

\* F, FL, FX.  A start or an end that is '@' is a variable nothing was stored in.
Fill(s, e, w) ==
  /\ Idle("F") /\ w \in FillWidths
  /\ \E first \in IF s = Kept THEN Addresses ELSE {s}:
       /\ Aligned(first, w) /\ EndAllowed(first, e)
       /\ \E size \in IF e = Kept THEN Addresses ELSE {e - first}:
            add' = first /\ end' = Wrapped(first, size)
  /\ cmd' = "F" /\ width' = w
  /\ asked' = IF Kept \in {s, e} THEN Nothing ELSE [first |-> s, last |-> e]
  /\ UNCHANGED <<gUDump, gDumpMode, gUMem, dumped, wrote>>

Put1ByteMem == wrote' = {b \in wrote: b[1] \notin Cells(add, width)}
                          \cup {<<Wrapped(add, i), i>>: i \in 0..(width - 1)}

FillCell ==
  /\ cmd = "F" /\ ~Over
  /\ Put1ByteMem /\ add' = Wrapped(add, width)
  /\ UNCHANGED <<gUDump, gDumpMode, gUMem, cmd, width, end, asked, dumped>>

Finish ==
  /\ cmd \in {"D", "F"} /\ Over /\ Return
  /\ UNCHANGED <<gUDump, gDumpMode, gUMem>>

\* M, MW, ML, MX: an address, or '@' for the cell after the last one shown.
Edit(s, w) ==
  LET first == IF s = Kept THEN gUMem ELSE s IN
  /\ Idle("M") /\ Aligned(first, w)
  /\ cmd' = "M" /\ width' = w /\ add' = first /\ end' = first
  /\ UNCHANGED <<gUDump, gDumpMode, gUMem, asked, dumped, wrote>>

EditCell == \* a datum
  /\ cmd = "M" /\ Cardinality(wrote) < MaxEdits * width
  /\ Put1ByteMem /\ add' = Wrapped(add, width)
  /\ UNCHANGED <<gUDump, gDumpMode, gUMem, cmd, width, end, asked, dumped>>

EditMove == \* Return, or ^
  /\ cmd = "M" /\ add' \in {Wrapped(add, width), (add - width) % Space}
  /\ UNCHANGED <<gUDump, gDumpMode, gUMem, cmd, width, end, asked, dumped, wrote>>

EditEnd == \* a full stop
  /\ cmd = "M" /\ Return /\ gUMem' = Wrapped(add, width)
  /\ UNCHANGED <<gUDump, gDumpMode>>

Start ==
  \/ SetDumpMode
  \/ \E s, e \in Typed \cup {Kept}: Dump(s, e)
  \/ \E s, e \in Typed \cup {Kept}, w \in FillWidths: Fill(s, e, w)
  \/ \E s \in Typed \cup {Kept}, w \in Widths: Edit(s, w)
Loop == DumpCell \/ FillCell \/ Finish
Next == Start \/ Loop \/ EditCell \/ EditMove \/ EditEnd

Spec == Init /\ [][Next]_vars
=============================================================================
