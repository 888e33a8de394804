------------------------------ MODULE MemState ------------------------------
(***************************************************************************)
(* What the memory commands (MemCommands) keep and how they reckon with    *)
(* addresses; and what is asked of them.                                   *)
(***************************************************************************)
EXTENDS Integers, FiniteSets

CONSTANTS
  Space,      \* the number of addresses (2^64)
  Line,       \* bytes of a line of a dump (16)
  Default,    \* the size of a dump when none is given (255)
  Widths,     \* access widths of D and M, in bytes (1, 2, 4, 8)
  FillWidths, \* those of F (1, 4, 8)
  Typed,      \* the addresses the user types
  Names,      \* the commands the user types: a subset of {"D", "DM", "M", "F"}
  MaxEdits    \* cells changed in one M

\* What the constants must satisfy: assumed by the module that gives them values.
MemAssumption ==
  /\ Space \in Nat \ {0} /\ Line \in Nat \ {0} /\ Space % Line = 0 /\ Default \in Nat
  /\ \A w \in Widths: w \in Nat \ {0} /\ Line % w = 0
  /\ FillWidths \subseteq Widths /\ Typed \subseteq 0..(Space - 1)
  /\ Names \subseteq {"D", "DM", "M", "F"} /\ MaxEdits \in Nat

Addresses == 0..(Space - 1)
Kept == -1

VARIABLES
  gUDump,    \* where the next dump starts, and its size
  gDumpMode, \* the width of a dump
  gUMem,     \* where M @ starts
  cmd, width,\* the command that runs, or "none", and its access width
  add, end,  \* the address it is at, and the last one of its loop
  asked,     \* F: the first and last address typed, or Kept
  dumped,    \* addresses D has shown
  wrote      \* bytes F or M has written: their address and their place in the datum
Nothing == [first |-> Kept, last |-> Kept]

-----------------------------------------------------------------------------
(* Faulty variants of definitions below, each of which breaks a property.  *)

Aligned_Always(a, w) == TRUE
Wrapped_Wide(a, w) == a + w
Over_AtLast == add >= end

-----------------------------------------------------------------------------
Aligned(a, w) == a % w = 0
Wrapped(a, w) == (a + w) % Space
Over == add > end

-----------------------------------------------------------------------------
(* Properties.                                                             *)

\* Every access is at an address and aligned to its width: whatever width a dump is switched to,
\* wherever the one before ended, and however far the user steps back.
AccessAligned == cmd \in Names /\ (cmd = "M" \/ ~Over) => add \in Addresses /\ add % width = 0

\* The next dump goes on where this one ends: no byte is left out or shown
\* twice, although the next start is computed before and not by the loop.
DumpResumes ==
  cmd = "D" /\ Over /\ dumped # {} =>
    LET first == CHOOSE a \in dumped: \A b \in dumped: a <= b
        last  == CHOOSE a \in dumped: \A b \in dumped: a >= b
    IN dumped = first..last /\ gUDump.at = Wrapped(last, 1)

\* When F is done it has written every byte from the first to the last address
\* typed, each with the byte of the datum that belongs there, and beyond them
\* only what is left of the last datum.
FillExact ==
  cmd = "F" /\ Over /\ asked # Nothing =>
    LET n == asked.last - asked.first + 1
        whole == ((n + width - 1) \div width) * width
    IN wrote = {<<asked.first + i, i % width>>: i \in 0..(whole - 1)}
=============================================================================
