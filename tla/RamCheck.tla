------------------------------ MODULE RamCheck ------------------------------
(***************************************************************************)
(* The memory tests RAMCK and DDRCK (ddrcheck.c), on a memory that may be  *)
(* broken: a test is a list of passes over a range of addresses, each of   *)
(* which checks what is there, writes something, or both, cell by cell.    *)
(*                                                                         *)
(* The memory (external) has at most one fault: a bit of a cell is stuck,  *)
(* an address selects another's cell, or an address line is stuck.         *)
(***************************************************************************)
EXTENDS Integers, Sequences

CONSTANTS
  Size,   \* cells of the memory
  Bits,   \* bits of a cell that are modelled, the lowest ones
  Unroll, \* cells a pass of RAMCK handles between two looks at the end (16)
  DdrStarts, DdrSize \* the regions DDRCK tests, one after the other, and their size

\* What the constants must satisfy: assumed by the module that gives them values.
RamAssumption ==
  /\ Size \in Nat \ {0} /\ Bits \in Nat \ {0} /\ Bits % 2 = 0
  /\ Unroll \in Nat \ {0} /\ Size % Unroll = 0
  /\ DdrSize \in 1..2^Bits /\ Len(DdrStarts) > 0
  /\ \A k \in 1..Len(DdrStarts): DdrStarts[k] \in 0..(Size - DdrSize)

Memory == 0..(Size - 1)

\* The patterns: 00, 55, AA and FF in every byte.
P00 == 0
PFF == 2^Bits - 1
P55 == PFF \div 3
PAA == 2 * P55

-----------------------------------------------------------------------------
(* The memory.                                                             *)

Bit(x, k) == (x \div 2^k) % 2
WithBit(x, k, v) == x + (v - Bit(x, k)) * 2^k

Healthy == [kind |-> "none", at |-> 0, bit |-> 0, as |-> 0]
Faults ==
  {Healthy}
    \cup [kind: {"stuck"}, at: Memory, bit: 0..(Bits - 1), as: {0, 1}]
    \cup {f \in [kind: {"alias"}, at: Memory, bit: {0}, as: Memory]: f.at # f.as}
    \cup {f \in [kind: {"line"}, at: {0}, bit: 0..Size, as: {0, 1}]: 2^f.bit < Size}

\* The cell an address selects, and what is read from a cell that holds x.
Cell(f, a) ==
  CASE f.kind = "alias" /\ f.at = a -> f.as
    [] f.kind = "line" -> LET b == WithBit(a, f.bit, f.as) IN IF b \in Memory THEN b ELSE a
    [] OTHER -> a
Sensed(f, c, x) == IF f.kind = "stuck" /\ f.at = c THEN WithBit(x, f.bit, f.as) ELSE x

-----------------------------------------------------------------------------
VARIABLES
  cells,   \* what was last written to each cell
  fault,   \* the fault of the memory
  test,    \* the command that runs, or "none"
  start, size, \* its range
  region,  \* DDRCK: which of its regions that is
  pass, p, \* the pass and the address it is at (pData)
  outcome, \* "none", "running", "OK", "NG" or "refused"
  error    \* gSubErrAdd, gSubErrData, gSubTrueData
vars == <<cells, fault, test, start, size, region, pass, p, outcome, error>>

NoError == [at |-> 0, data |-> 0, true |-> 0]

Init ==
  /\ cells = [c \in Memory |-> c % 2^Bits] /\ fault \in Faults
  /\ test = "none" /\ start = 0 /\ size = 0 /\ region = 1 /\ pass = 1 /\ p = 0
  /\ outcome = "none" /\ error = NoError

\* A pass: the value it expects and the one it writes at the i-th cell; -1 when
\* it does not.
None == -1
Inc(i, first) == (first + i) % 2^Bits

-----------------------------------------------------------------------------
(* Faulty variants of definitions below, each of which breaks a property.  *)

RamckPasses_NoMarch(i) ==
  << <<None, P00>>, <<P00, None>>, <<None, PFF>>, <<PFF, None>>, <<None, Inc(i, 0)>>, <<Inc(i, 0), None>> >>
DdrckPasses_SamePattern(i) ==
  << <<None, PAA>>, <<PAA, None>>, <<None, PAA>>, <<PAA, None>>, <<None, PAA>>, <<PAA, None>> >>
RamckPasses_ChecksNext(i) ==
  << <<None, P00>>, <<P00, P55>>, <<P55, PAA>>, <<PAA, PFF>>, <<PFF, None>>,
     <<None, Inc(i, 0)>>, <<Inc(i, 1), None>> >>
MoreRegions_First == FALSE

-----------------------------------------------------------------------------
(* The tests.                                                              *)

RamckPasses(i) ==
  << <<None, P00>>, <<P00, P55>>, <<P55, PAA>>, <<PAA, PFF>>, <<PFF, None>>,
     <<None, Inc(i, 0)>>, <<Inc(i, 0), None>> >>

\* 5A5A5A5A, A5A5A5A5 and 12345678 + i * 11111111, of which the model has the
\* low bits.
DdrckPasses(i) ==
  << <<None, PAA>>, <<PAA, None>>, <<None, P55>>, <<P55, None>>,
     <<None, Inc(i, 8)>>, <<Inc(i, 8), None>> >>

Passes(i) == IF test = "RAMCK" THEN RamckPasses(i) ELSE DdrckPasses(i)

\* RAMCK takes a start and an end address or a size; without either it tests one
\* run of cells.  What it touches is rounded up to whole runs.
Touched(n) == IF n = 0 THEN Unroll ELSE ((n + Unroll - 1) \div Unroll) * Unroll
Ramck(first, n) ==
  /\ outcome # "running" /\ first + Touched(n) <= Size
  /\ test' = "RAMCK" /\ start' = first /\ size' = n /\ pass' = 1 /\ p' = first
  /\ outcome' = "running" /\ error' = NoError
  /\ region' = 1 /\ UNCHANGED <<cells, fault>>

\* An end below the start, or no start.
RamckRefused ==
  /\ outcome # "running"
  /\ test' = "RAMCK" /\ outcome' = "refused"
  /\ UNCHANGED <<cells, fault, start, size, region, pass, p, error>>

\* DDRCK tests the beginning of each bank of the DDR memory.
DdrRegion(k) ==
  /\ test' = "DDRCK" /\ start' = DdrStarts[k] /\ size' = DdrSize /\ pass' = 1 /\ p' = start'
  /\ region' = k /\ UNCHANGED <<cells, fault>>
Ddrck == outcome # "running" /\ DdrRegion(1) /\ outcome' = "running" /\ error' = NoError

Expected == Passes(p - start)[pass][1]
Written  == Passes(p - start)[pass][2]
Read(a)  == Sensed(fault, Cell(fault, a), cells[Cell(fault, a)])

\* RAMCK looks at the end after a run of cells, DDRCK before every cell.
PassEnds ==
  IF test = "RAMCK" THEN p - start >= size /\ p > start /\ (p - start) % Unroll = 0
  ELSE p - start = size

\* A cell does not hold what it should: the address is kept and the cell is read
\* again for the report.
Failing == p
Mismatch ==
  /\ outcome = "running" /\ ~PassEnds
  /\ Expected # None /\ Read(p) # Expected
  /\ outcome' = "NG" /\ error' = [at |-> Failing, data |-> Read(p), true |-> Expected]
  /\ UNCHANGED <<cells, fault, test, start, size, region, pass, p>>

Visit ==
  /\ outcome = "running" /\ ~PassEnds
  /\ Expected # None => Read(p) = Expected
  /\ cells' = IF Written = None THEN cells ELSE [cells EXCEPT ![Cell(fault, p)] = Written]
  /\ p' = p + 1
  /\ UNCHANGED <<fault, test, start, size, region, pass, outcome, error>>

Passed == outcome = "running" /\ PassEnds
NextPass ==
  /\ Passed /\ pass < Len(Passes(0)) /\ pass' = pass + 1 /\ p' = start
  /\ UNCHANGED <<cells, fault, test, start, size, region, outcome, error>>
MoreRegions == test = "DDRCK" /\ region < Len(DdrStarts)
NextRegion ==
  /\ Passed /\ pass = Len(Passes(0)) /\ MoreRegions /\ DdrRegion(region + 1)
  /\ UNCHANGED <<outcome, error>>
AllPassed ==
  /\ Passed /\ pass = Len(Passes(0)) /\ ~MoreRegions /\ outcome' = "OK"
  /\ UNCHANGED <<cells, fault, test, start, size, region, pass, p, error>>

Test == Mismatch \/ Visit \/ NextPass \/ NextRegion \/ AllPassed
Next ==
  \/ \E first \in Memory, n \in 0..Size: Ramck(first, n)
  \/ RamckRefused \/ Ddrck \/ Test

Spec == Init /\ [][Next]_vars

-----------------------------------------------------------------------------
(* Properties.                                                             *)

Range == start..(start + size - 1)
Runs  == start..(start + (IF test = "RAMCK" THEN Touched(size) ELSE size) - 1)

\* Address a of the set can be told to be broken: its cell has a stuck bit, or
\* another address of the set selects it too.
Broken(a, set) ==
  \/ fault.kind = "stuck" /\ fault.at = a
  \/ \E b \in set \ {a}: Cell(fault, a) = Cell(fault, b)

\* What the test looked at: the range, or each of the regions.
Tested ==
  IF test = "RAMCK" THEN {Range}
  ELSE {DdrStarts[k]..(DdrStarts[k] + DdrSize - 1): k \in 1..Len(DdrStarts)}

\* A test that passes has not overlooked a stuck bit or two addresses with one
\* cell: for RAMCK although the count it writes in the end repeats, for DDRCK
\* in any of the regions, although each pattern is first written everywhere.  A
\* test that fails names an address that is broken, and data that differ.
VerdictRight ==
  /\ outcome = "OK" => \A set \in Tested: \A a \in set: ~Broken(a, set)
  /\ outcome = "NG" => error.at \in Runs /\ Broken(error.at, Runs) /\ error.data # error.true
=============================================================================
