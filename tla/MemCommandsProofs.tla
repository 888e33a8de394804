------------------------- MODULE MemCommandsProofs -------------------------
(***************************************************************************)
(* Theorems about the memory commands (MemCommands), for every address     *)
(* space whose size is a multiple of a line, and every set of widths that  *)
(* divide a line.                                                          *)
(***************************************************************************)
EXTENDS MemCommands, Arithmetic, TLAPS

Sized == Widths \cup {1}

\* Every variable is where the code keeps it.
TypeOK ==
  /\ gUDump \in [at: Addresses, size: Nat] /\ gDumpMode \in Sized /\ gUMem \in Addresses
  /\ cmd \in {"none", "D", "M", "F"} /\ width \in Sized
  /\ add \in Addresses /\ end \in Addresses
  /\ asked \in [first: Addresses, last: Addresses] \cup {Nothing}
  /\ cmd = "none" => asked = Nothing /\ dumped = {} /\ wrote = {}

\* Every access of the loops is aligned.
AddAligned == add % width = 0

\* A dump ends with a line; the next one starts behind it.  What has been shown is one
\* piece up to the address it is at, unless the dump goes to the top of the address
\* space and so never ends.
DumpInv ==
  cmd = "D" =>
    /\ (end + 1) % width = 0 /\ gUDump.at = Wrapped(end, 1)
    /\ end # Space - 1 /\ dumped # {} =>
         \E first \in Addresses: first < add /\ add <= end + 1 /\ dumped = first..(add - 1)

\* What F has written is one piece up to the address it is at, likewise.
FillInv ==
  cmd = "F" /\ asked # Nothing =>
    /\ asked.first <= asked.last /\ asked.first % width = 0 /\ end = asked.last
    /\ end < Space - width =>
         /\ asked.first <= add /\ add <= end + width
         /\ wrote = {<<asked.first + i, i % width>>: i \in 0..(add - asked.first - 1)}

IInv == TypeOK /\ AddAligned /\ DumpInv /\ FillInv

-----------------------------------------------------------------------------
(* Addresses and widths.                                                   *)

LEMMA Spaces ==
  ASSUME MemAssumption
  PROVE  /\ Space \in Nat \ {0} /\ Line \in Nat \ {0} /\ Space % Line = 0 /\ Default \in Nat
         /\ 0 \in Addresses /\ FillWidths \subseteq Sized /\ Typed \subseteq Addresses
<1>1. Space \in Nat /\ Space > 0  BY DEF MemAssumption
<1>2. 0 \in Addresses  BY <1>1 DEF Addresses
<1> QED  BY <1>2 DEF MemAssumption, Sized, Addresses

\* A width divides a line and the address space.
LEMMA WidthIs ==
  ASSUME MemAssumption, NEW w \in Sized
  PROVE  w \in Nat \ {0} /\ Line % w = 0 /\ Space % w = 0
<1>1. Line \in Nat \ {0} /\ Space \in Nat \ {0} /\ Space % Line = 0  BY Spaces
<1>2. CASE w \in Widths
  <2>1. w \in Nat \ {0} /\ Line % w = 0  BY <1>2 DEF MemAssumption
  <2>2. Space \in Int  BY <1>1
  <2>3. Space % w = 0  BY <1>1, <2>1, <2>2, MultipleOfMultiple
  <2> QED  BY <2>1, <2>3
<1>3. CASE w = 1
  <2>1. Line % 1 = 0 /\ Space % 1 = 0  BY <1>1
  <2> QED  BY <1>3, <2>1
<1> QED  BY <1>2, <1>3 DEF Sized

\* A number that wraps is an address.
LEMMA WrapsTo ==
  ASSUME MemAssumption, NEW a \in Int
  PROVE  a % Space \in Addresses
<1>1. Space \in Nat \ {0}  BY Spaces
<1>2. a % Space \in 0..(Space - 1)  BY <1>1, Divided
<1> QED  BY <1>2 DEF Addresses

\* The cells of an aligned access do not wrap.
LEMMA CellsAre ==
  ASSUME MemAssumption, NEW w \in Sized, NEW a \in Addresses, a % w = 0
  PROVE  /\ a \in Nat /\ a + w <= Space /\ Cells(a, w) = a..(a + w - 1)
         /\ \A i \in 0..(w - 1): Wrapped(a, i) = a + i
         /\ a + w < Space => Wrapped(a, w) = a + w
         /\ Wrapped(a, w) \in Addresses /\ Wrapped(a, w) % w = 0
<1>1. Space \in Nat \ {0} /\ w \in Nat \ {0} /\ Space % w = 0  BY Spaces, WidthIs
<1>2. a \in Nat /\ a < Space  BY <1>1 DEF Addresses
<1>3. a + w <= Space
  <2>1. a \in Int /\ Space \in Int /\ a % w = 0  BY <1>1, <1>2
  <2> QED  BY <2>1, <1>1, <1>2, NextMultiple
<1>4. \A i \in 0..(w - 1): Wrapped(a, i) = a + i
  <2> TAKE i \in 0..(w - 1)
  <2>1. a + i \in Nat /\ a + i < Space  BY <1>1, <1>2, <1>3
  <2> QED  BY <2>1, <1>1, Below DEF Wrapped
<1>5. Cells(a, w) = a..(a + w - 1)
  <2>1. Cells(a, w) = {a + i: i \in 0..(w - 1)}  BY <1>4 DEF Cells
  <2>2. \A x \in a..(a + w - 1): x - a \in 0..(w - 1) /\ x = a + (x - a)  BY <1>1, <1>2
  <2>3. \A i \in 0..(w - 1): a + i \in a..(a + w - 1)  BY <1>1, <1>2
  <2>4. \A x \in a..(a + w - 1): x \in {a + i: i \in 0..(w - 1)}  BY <2>2
  <2> QED  BY <2>1, <2>3, <2>4
<1>6. a + w < Space => Wrapped(a, w) = a + w
  <2>1. a + w \in Nat  BY <1>1, <1>2
  <2> QED  BY <2>1, <1>1, Below DEF Wrapped
<1>7. a + w \in Int /\ w % w = 0
  <2>1. w * 1 = w  BY <1>1
  <2> QED  BY <1>1, <1>2, <2>1, TimesIsMultiple
<1>8. Wrapped(a, w) \in Addresses  BY <1>7, WrapsTo DEF Wrapped
<1>9. (a + w) % w = 0  BY <1>1, <1>2, <1>7, MultiplesAdd
<1>10. Wrapped(a, w) % w = 0  BY <1>1, <1>7, <1>9, RestOfMultiple DEF Wrapped
<1> QED  BY <1>2, <1>3, <1>4, <1>5, <1>6, <1>8, <1>10

\* The size of a dump ends a line.
LEMMA LinesAre ==
  ASSUME MemAssumption, NEW size \in Nat
  PROVE  WholeLines(size) \in Nat /\ (WholeLines(size) + 1) % Line = 0
<1>1. Line \in Nat /\ Line > 0 /\ Line \in Nat \ {0}  BY Spaces
<1>2. PICK q \in Int : q = size \div Line  BY <1>1, Divided
<1>3. q >= 0
  <2>1. size = Line * q + (size % Line) /\ size % Line \in 0..(Line - 1)  BY <1>1, <1>2, Divided
  <2> SUFFICES ASSUME q <= -1 PROVE FALSE  BY <1>2
  <2>2. Line * q <= Line * (-1)  BY <1>1, ProductGrows
  <2>3. PICK t \in Int : t = Line * q  BY <1>1
  <2>4. Line * (-1) = -Line  BY <1>1
  <2> QED  BY <2>1, <2>2, <2>3, <2>4, <1>1
<1>4. q * Line = Line * q /\ Line * q \in Nat  BY <1>1, <1>3
<1>5. WholeLines(size) = Line * q + Line - 1  BY <1>2, <1>4 DEF WholeLines
<1>6. WholeLines(size) \in Nat
  <2>1. PICK t \in Nat : t = Line * q  BY <1>4
  <2> QED  BY <2>1, <1>5, <1>1
<1>7. WholeLines(size) + 1 = Line * (q + 1)
  <2>1. Line * (q + 1) = Line * q + Line  BY <1>1
  <2>2. PICK t \in Nat : t = Line * q  BY <1>4
  <2> QED  BY <2>1, <2>2, <1>5, <1>1
<1>8. (Line * (q + 1)) % Line = 0
  <2>1. q + 1 \in Int  OBVIOUS
  <2> QED  BY <2>1, <1>1, TimesIsMultiple
<1> QED  BY <1>6, <1>7, <1>8

\* A number that a parameter gives is an address, or there is none.
LEMMA Parameter ==
  ASSUME MemAssumption, NEW s \in Typed \cup {Kept}, s # Kept
  PROVE  s \in Addresses /\ s \in Nat /\ s < Space
<1>1. s \in Addresses  BY Spaces
<1>2. Space \in Nat  BY Spaces
<1> QED  BY <1>1, <1>2 DEF Addresses

-----------------------------------------------------------------------------
(* Types and alignment.                                                    *)

\* A command that has returned has left nothing.
LEMMA Returned ==
  ASSUME MemAssumption, Return
  PROVE  /\ cmd' \in {"none", "D", "M", "F"} /\ width' \in Sized /\ add' \in Addresses
         /\ end' \in Addresses /\ asked' = Nothing /\ dumped' = {} /\ wrote' = {}
         /\ add' % width' = 0
<1>1. 0 \in Addresses  BY Spaces
<1>2. 0 % 1 = 0  OBVIOUS
<1> QED  BY <1>1, <1>2 DEF Return, Sized

\* What the dump and the fill start with, written out.
LEMMA DumpIs ==
  ASSUME MemAssumption, TypeOK, NEW s \in Typed \cup {Kept}, NEW e \in Typed \cup {Kept}, Dump(s, e)
  PROVE  \E first \in Addresses, size \in Nat:
           /\ first % width' = 0 /\ (size + 1) % Line = 0
           /\ cmd = "none" /\ cmd' = "D" /\ width' = gDumpMode /\ add' = first
           /\ end' = Wrapped(first, size)
           /\ gUDump' = [at |-> Wrapped(first, size + 1), size |-> Default]
           /\ UNCHANGED <<gDumpMode, gUMem, asked, dumped, wrote>>
<1>1. PICK first : first = IF s = Kept THEN gUDump.at ELSE s  OBVIOUS
<1>2. PICK n : n = IF e = Kept THEN gUDump.size ELSE e - first  OBVIOUS
<1>3. /\ Idle("D") /\ Aligned(first, gDumpMode) /\ EndAllowed(first, e)
      /\ cmd' = "D" /\ width' = gDumpMode /\ add' = first /\ end' = Wrapped(first, WholeLines(n))
      /\ gUDump' = [at |-> Wrapped(first, WholeLines(n) + 1), size |-> Default]
      /\ UNCHANGED <<gDumpMode, gUMem, asked, dumped, wrote>>
  BY <1>1, <1>2 DEF Dump
<1>4. first \in Addresses  BY <1>1, Parameter DEF TypeOK
<1>5. n \in Nat
  <2>1. CASE e = Kept  BY <1>2, <2>1 DEF TypeOK
  <2>2. CASE e # Kept
    <3>1. e \in Nat /\ e >= first  BY <2>2, <1>3, Parameter DEF EndAllowed
    <3>2. first \in Nat
      <4>1. Space \in Nat  BY Spaces
      <4> QED  BY <1>4, <4>1 DEF Addresses
    <3> QED  BY <3>1, <3>2, <2>2, <1>2
  <2> QED  BY <2>1, <2>2
<1>6. WholeLines(n) \in Nat /\ (WholeLines(n) + 1) % Line = 0  BY <1>5, LinesAre
<1>7. first % width' = 0 /\ cmd = "none"  BY <1>3 DEF Aligned, Idle
<1> QED  BY <1>3, <1>4, <1>6, <1>7

LEMMA FillIs ==
  ASSUME MemAssumption, TypeOK, NEW s \in Typed \cup {Kept}, NEW e \in Typed \cup {Kept},
         NEW w \in FillWidths, Fill(s, e, w)
  PROVE  \E first \in Addresses, size \in Nat:
           /\ first % w = 0 /\ cmd = "none" /\ cmd' = "F" /\ width' = w
           /\ add' = first /\ end' = Wrapped(first, size)
           /\ \/ asked' = Nothing
              \/ /\ asked' = [first |-> first, last |-> e] /\ e \in Addresses
                 /\ first <= e /\ size = e - first
           /\ UNCHANGED <<gUDump, gDumpMode, gUMem, dumped, wrote>>
<1>0. Space \in Nat  BY Spaces
<1>1. PICK first \in IF s = Kept THEN Addresses ELSE {s} :
        /\ Aligned(first, w) /\ EndAllowed(first, e)
        /\ \E size \in IF e = Kept THEN Addresses ELSE {e - first}:
             add' = first /\ end' = Wrapped(first, size)
  BY DEF Fill
<1>2. PICK size \in IF e = Kept THEN Addresses ELSE {e - first} :
        add' = first /\ end' = Wrapped(first, size)
  BY <1>1
<1>3. first \in Addresses /\ first \in Nat
  <2>1. first \in Addresses  BY Parameter
  <2> QED  BY <2>1, <1>0 DEF Addresses
<1>4. e # Kept => e \in Addresses /\ e \in Nat /\ first <= e  BY <1>1, Parameter DEF EndAllowed
<1>5. size \in Nat
  <2>1. CASE e = Kept  BY <2>1, <1>0 DEF Addresses
  <2>2. CASE e # Kept
    <3>1. size = e - first  BY <2>2
    <3> QED  BY <3>1, <2>2, <1>3, <1>4
  <2> QED  BY <2>1, <2>2
<1>6. /\ cmd = "none" /\ cmd' = "F" /\ width' = w
      /\ asked' = (IF Kept \in {s, e} THEN Nothing ELSE [first |-> s, last |-> e])
      /\ UNCHANGED <<gUDump, gDumpMode, gUMem, dumped, wrote>>
  BY DEF Fill, Idle
<1>7. \/ asked' = Nothing
      \/ /\ asked' = [first |-> first, last |-> e] /\ e \in Addresses
         /\ first <= e /\ size = e - first
  <2>1. CASE Kept \in {s, e}  BY <2>1, <1>6
  <2>2. CASE Kept \notin {s, e}
    <3>1. s # Kept /\ e # Kept  BY <2>2
    <3>2. first = s /\ size = e - first  BY <3>1
    <3> QED  BY <2>2, <3>1, <3>2, <1>4, <1>6
  <2> QED  BY <2>1, <2>2
<1>8. first % w = 0  BY <1>1 DEF Aligned
<1> QED  BY <1>2, <1>3, <1>5, <1>6, <1>7, <1>8

\* Types are kept, and every access stays aligned.
LEMMA TypeStep ==
  ASSUME MemAssumption, TypeOK, AddAligned, Next
  PROVE  TypeOK' /\ AddAligned'
<1>0. Space \in Nat \ {0} /\ Default \in Nat /\ FillWidths \subseteq Sized /\ Typed \subseteq Addresses
  BY Spaces
<1>w. width \in Sized /\ gDumpMode \in Sized /\ add \in Addresses  BY DEF TypeOK
<1>c. Wrapped(add, width) \in Addresses /\ Wrapped(add, width) % width = 0
  BY <1>w, CellsAre DEF AddAligned
<1>1. CASE SetDumpMode  BY <1>1 DEF SetDumpMode, TypeOK, AddAligned, Sized
<1>2. ASSUME NEW s \in Typed \cup {Kept}, NEW e \in Typed \cup {Kept}, Dump(s, e)
      PROVE  TypeOK' /\ AddAligned'
  <2>1. PICK first \in Addresses, size \in Nat:
           /\ first % width' = 0 /\ (size + 1) % Line = 0
           /\ cmd = "none" /\ cmd' = "D" /\ width' = gDumpMode /\ add' = first
           /\ end' = Wrapped(first, size)
           /\ gUDump' = [at |-> Wrapped(first, size + 1), size |-> Default]
           /\ UNCHANGED <<gDumpMode, gUMem, asked, dumped, wrote>>
    BY <1>2, DumpIs
  <2>2. first + size \in Int /\ first + (size + 1) \in Int  BY <1>0 DEF Addresses
  <2>3. end' \in Addresses /\ gUDump'.at \in Addresses  BY <2>1, <2>2, WrapsTo DEF Wrapped
  <2>4. gUDump' \in [at: Addresses, size: Nat]  BY <2>1, <2>3, <1>0
  <2> QED  BY <2>1, <2>3, <2>4, <1>w DEF TypeOK, AddAligned
<1>3. ASSUME NEW s \in Typed \cup {Kept}, NEW e \in Typed \cup {Kept}, NEW w \in FillWidths,
             Fill(s, e, w)
      PROVE  TypeOK' /\ AddAligned'
  <2>1. PICK first \in Addresses, size \in Nat:
           /\ first % w = 0 /\ cmd = "none" /\ cmd' = "F" /\ width' = w
           /\ add' = first /\ end' = Wrapped(first, size)
           /\ \/ asked' = Nothing
              \/ /\ asked' = [first |-> first, last |-> e] /\ e \in Addresses
                 /\ first <= e /\ size = e - first
           /\ UNCHANGED <<gUDump, gDumpMode, gUMem, dumped, wrote>>
    BY <1>3, FillIs
  <2>2. first + size \in Int  BY <1>0 DEF Addresses
  <2>3. end' \in Addresses  BY <2>1, <2>2, WrapsTo DEF Wrapped
  <2>4. asked' \in [first: Addresses, last: Addresses] \cup {Nothing}  BY <2>1
  <2> QED  BY <2>1, <2>3, <2>4, <1>0 DEF TypeOK, AddAligned
<1>4. ASSUME NEW s \in Typed \cup {Kept}, NEW w \in Widths, Edit(s, w)
      PROVE  TypeOK' /\ AddAligned'
  <2>1. PICK first : first = IF s = Kept THEN gUMem ELSE s  OBVIOUS
  <2>2. /\ Aligned(first, w) /\ cmd' = "M" /\ width' = w /\ add' = first /\ end' = first
        /\ UNCHANGED <<gUDump, gDumpMode, gUMem, asked, dumped, wrote>>
    BY <1>4, <2>1 DEF Edit
  <2>3. first \in Addresses  BY <2>1, <1>0 DEF TypeOK
  <2> QED  BY <2>2, <2>3 DEF TypeOK, AddAligned, Aligned, Sized
<1>5. CASE DumpCell  BY <1>5, <1>c DEF DumpCell, TypeOK, AddAligned
<1>6. CASE FillCell  BY <1>6, <1>c DEF FillCell, TypeOK, AddAligned
<1>7. CASE Finish  BY <1>7, Returned DEF Finish, TypeOK, AddAligned
<1>8. CASE EditCell  BY <1>8, <1>c DEF EditCell, TypeOK, AddAligned
<1>9. CASE EditMove
  <2>1. (add - width) % Space \in Addresses /\ ((add - width) % Space) % width = 0
    <3>1. width \in Nat \ {0} /\ Space % width = 0  BY <1>w, WidthIs
    <3>2. add \in Int /\ width \in Int /\ add - width \in Int  BY <1>0, <1>w, <3>1 DEF Addresses
    <3>3. width % width = 0
      <4>1. width * 1 = width  BY <3>1
      <4> QED  BY <3>1, <4>1, TimesIsMultiple
    <3>4. (add - width) % width = 0  BY <3>1, <3>2, <3>3, MultiplesAdd DEF AddAligned
    <3> QED  BY <1>0, <3>1, <3>2, <3>4, RestOfMultiple, WrapsTo
  <2>2. add' \in Addresses /\ add' % width = 0 /\ cmd = "M"  BY <1>9, <2>1, <1>c DEF EditMove
  <2> QED  BY <1>9, <2>2 DEF EditMove, TypeOK, AddAligned
<1>10. CASE EditEnd  BY <1>10, <1>c, Returned DEF EditEnd, TypeOK, AddAligned
<1> QED  BY <1>1, <1>2, <1>3, <1>4, <1>5, <1>6, <1>7, <1>8, <1>9, <1>10 DEF Next, Start, Loop

-----------------------------------------------------------------------------
(* The dump.                                                               *)

LEMMA DumpStep ==
  ASSUME MemAssumption, TypeOK, AddAligned, DumpInv, Next
  PROVE  DumpInv'
<1>0. Space \in Nat \ {0} /\ Line \in Nat \ {0} /\ Space % Line = 0  BY Spaces
<1>w. width \in Sized /\ add \in Addresses /\ add % width = 0 /\ end \in Addresses
  BY DEF TypeOK, AddAligned
<1> SUFFICES ASSUME cmd' = "D" PROVE DumpInv'  BY DEF DumpInv
<1>1. CASE SetDumpMode  BY <1>1 DEF SetDumpMode, DumpInv, Idle
<1>2. ASSUME NEW s \in Typed \cup {Kept}, NEW e \in Typed \cup {Kept}, Dump(s, e)
      PROVE  DumpInv'
  <2>1. PICK first \in Addresses, size \in Nat:
           /\ first % width' = 0 /\ (size + 1) % Line = 0
           /\ cmd = "none" /\ cmd' = "D" /\ width' = gDumpMode /\ add' = first
           /\ end' = Wrapped(first, size)
           /\ gUDump' = [at |-> Wrapped(first, size + 1), size |-> Default]
           /\ UNCHANGED <<gDumpMode, gUMem, asked, dumped, wrote>>
    BY <1>2, DumpIs
  <2>2. PICK w \in Sized : w = width'  BY <2>1 DEF TypeOK
  <2>3. w \in Nat \ {0} /\ Line % w = 0 /\ Space % w = 0  BY WidthIs
  <2>4. first \in Int /\ size + 1 \in Int /\ first + size \in Int /\ first % w = 0
    BY <1>0, <2>1, <2>2 DEF Addresses
  <2>5. end' = (first + size) % Space /\ gUDump'.at = (first + (size + 1)) % Space
    BY <2>1 DEF Wrapped
  <2>6. (size + 1) % w = 0  BY <1>0, <2>1, <2>3, <2>4, MultipleOfMultiple
  <2>7. PICK q \in Int : first + size = Space * q + end'  BY <1>0, <2>4, <2>5, Divided
  <2>8. end' \in Int  BY <2>4, <2>5, <1>0, WrapsTo DEF Addresses
  <2>9. (first + (size + 1)) % w = 0  BY <2>3, <2>4, <2>6, MultiplesAdd
  <2>10. Space * q \in Int /\ (Space * q) % w = 0
    <3>1. Space * q \in Int /\ (Space * q) % Space = 0  BY <1>0, TimesIsMultiple
    <3>2. Space \in Nat \ {0} /\ Space % w = 0 /\ w \in Nat \ {0}  BY <1>0, <2>3
    <3> QED  BY <3>1, <3>2, MultipleOfMultiple
  <2>11. (end' + 1) % w = 0
    <3>1. PICK t \in Int : t = Space * q  BY <2>10
    <3>2. PICK z \in Int : z = first + (size + 1)  BY <2>4
    <3>3. end' + 1 = z - t  BY <2>4, <2>7, <2>8, <3>1, <3>2
    <3>4. z % w = 0 /\ t % w = 0  BY <2>9, <2>10, <3>1, <3>2
    <3>5. (z - t) % w = 0  BY <2>3, <3>4, MultiplesAdd
    <3> QED  BY <3>3, <3>5
  <2>12. gUDump'.at = Wrapped(end', 1)
    <3>1. PICK x \in Int : x = first + size  BY <2>4
    <3>2. ((x % Space) + 1) % Space = (x + 1) % Space
      <4>1. 1 \in Int  OBVIOUS
      <4> QED  BY <1>0, <4>1, RestOfSum
    <3>3. x + 1 = first + (size + 1)  BY <2>4, <3>1
    <3> QED  BY <2>5, <3>1, <3>2, <3>3 DEF Wrapped
  <2>13. dumped' = {}  BY <2>1 DEF TypeOK
  <2> QED  BY <2>2, <2>11, <2>12, <2>13 DEF DumpInv
<1>3. ASSUME NEW s \in Typed \cup {Kept}, NEW e \in Typed \cup {Kept}, NEW w \in FillWidths,
             Fill(s, e, w)
      PROVE  DumpInv'
  BY <1>3 DEF Fill
<1>4. ASSUME NEW s \in Typed \cup {Kept}, NEW w \in Widths, Edit(s, w)
      PROVE  DumpInv'
  BY <1>4 DEF Edit
<1>5. CASE DumpCell
  <2>1. /\ cmd = "D" /\ ~Over /\ dumped' = dumped \cup Cells(add, width)
        /\ add' = Wrapped(add, width) /\ UNCHANGED <<gUDump, cmd, width, end>>
    BY <1>5 DEF DumpCell
  <2>2. /\ (end + 1) % width = 0 /\ gUDump.at = Wrapped(end, 1)
        /\ end # Space - 1 /\ dumped # {} =>
             \E first \in Addresses: first < add /\ add <= end + 1 /\ dumped = first..(add - 1)
    BY <2>1 DEF DumpInv
  <2>3. (end' + 1) % width' = 0 /\ gUDump'.at = Wrapped(end', 1)  BY <2>1, <2>2 DEF Wrapped
  <2> SUFFICES ASSUME end # Space - 1
               PROVE  \E first \in Addresses:
                        first < add' /\ add' <= end + 1 /\ dumped' = first..(add' - 1)
    BY <2>1, <2>3 DEF DumpInv
  <2>4. width \in Nat \ {0} /\ add \in Nat /\ end \in Nat /\ end + 1 < Space /\ add <= end
    BY <1>0, <1>w, <2>1, WidthIs DEF Addresses, Over
  <2>5. add + width <= end + 1
    <3>1. add \in Int /\ end + 1 \in Int /\ add < end + 1 /\ add % width = 0
      BY <2>4, <1>w
    <3> QED  BY <3>1, <2>2, <2>4, NextMultiple
  <2>6. add' = add + width /\ Cells(add, width) = add..(add + width - 1)
    <3>1. add + width < Space  BY <1>0, <2>4, <2>5
    <3> QED  BY <1>w, <2>1, <3>1, CellsAre
  <2>9. add' - 1 = add + width - 1  BY <2>4, <2>6
  <2>7. CASE dumped = {}
    <3>1. dumped' = add..(add' - 1)
      <4>1. dumped' = Cells(add, width)  BY <2>1, <2>7
      <4> QED  BY <2>6, <2>9, <4>1
    <3>2. add < add' /\ add' <= end + 1  BY <2>4, <2>5, <2>6
    <3> QED  BY <3>1, <3>2, <1>w
  <2>8. CASE dumped # {}
    <3>1. PICK first \in Addresses: first < add /\ add <= end + 1 /\ dumped = first..(add - 1)
      BY <2>2, <2>8
    <3>2. first \in Nat  BY <1>0 DEF Addresses
    <3>3. first..(add - 1) \cup add..(add + width - 1) = first..(add + width - 1)
      BY <2>4, <3>1, <3>2
    <3>4. dumped' = first..(add' - 1)
      <4>1. dumped' = first..(add - 1) \cup add..(add + width - 1)  BY <2>1, <2>6, <3>1
      <4> QED  BY <2>9, <3>3, <4>1
    <3>5. first < add' /\ add' <= end + 1  BY <2>4, <2>5, <2>6, <3>1, <3>2
    <3> QED  BY <3>4, <3>5
  <2> QED  BY <2>7, <2>8
<1>6. CASE FillCell  BY <1>6 DEF FillCell
<1>7. CASE Finish  BY <1>7 DEF Finish, Return
<1>8. CASE EditCell  BY <1>8 DEF EditCell
<1>9. CASE EditMove  BY <1>9 DEF EditMove
<1>10. CASE EditEnd  BY <1>10 DEF EditEnd, Return
<1> QED  BY <1>1, <1>2, <1>3, <1>4, <1>5, <1>6, <1>7, <1>8, <1>9, <1>10 DEF Next, Start, Loop

\* A dump that has ended has shown everything up to the start of the next one.
LEMMA DumpEnds ==
  ASSUME MemAssumption, TypeOK, DumpInv
  PROVE  DumpResumes
<1> SUFFICES ASSUME cmd = "D", Over, dumped # {}
             PROVE  LET first == CHOOSE a \in dumped: \A b \in dumped: a <= b
                        last  == CHOOSE a \in dumped: \A b \in dumped: a >= b
                    IN dumped = first..last /\ gUDump.at = Wrapped(last, 1)
  BY DEF DumpResumes
<1>0. Space \in Nat /\ add \in Nat /\ add < Space /\ end \in Nat /\ add > end
  BY Spaces DEF TypeOK, Addresses, Over
<1>1. end # Space - 1  BY <1>0
<1>2. PICK lo \in Addresses: lo < add /\ add <= end + 1 /\ dumped = lo..(add - 1)
  BY <1>1 DEF DumpInv
<1>3. lo \in Nat /\ add = end + 1  BY <1>0, <1>2 DEF Addresses
<1>4. dumped = lo..end /\ lo <= end  BY <1>0, <1>2, <1>3
<1>5. (CHOOSE a \in dumped: \A b \in dumped: a <= b) = lo
  <2>1. lo \in dumped /\ \A b \in dumped: lo <= b  BY <1>0, <1>3, <1>4
  <2>2. \A a \in dumped: (\A b \in dumped: a <= b) => a = lo  BY <1>0, <1>3, <1>4
  <2> QED  BY <2>1, <2>2
<1>6. (CHOOSE a \in dumped: \A b \in dumped: a >= b) = end
  <2>1. end \in dumped /\ \A b \in dumped: end >= b  BY <1>0, <1>3, <1>4
  <2>2. \A a \in dumped: (\A b \in dumped: a >= b) => a = end  BY <1>0, <1>3, <1>4
  <2> QED  BY <2>1, <2>2
<1>7. gUDump.at = Wrapped(end, 1)  BY DEF DumpInv
<1> QED  BY <1>4, <1>5, <1>6, <1>7

-----------------------------------------------------------------------------
(* The fill.                                                               *)

\* The bytes of a piece of n bytes from lo on, and those of one datum at a.
Piece(lo, w, n) == {<<lo + i, i % w>>: i \in 0..(n - 1)}
Datum(a, w) == {<<a + i, i>>: i \in 0..(w - 1)}

\* The bytes of a piece that grows by one datum.
LEMMA PieceGrows ==
  ASSUME NEW w \in Nat \ {0}, NEW lo \in Nat, NEW d \in Nat, d % w = 0
  PROVE  Piece(lo, w, d) \cup Datum(lo + d, w) = Piece(lo, w, d + w)
<1>1. \A i \in 0..(w - 1): i % w = i /\ (d + i) % w = i
  <2> TAKE i \in 0..(w - 1)
  <2>1. i \in Nat /\ i < w  OBVIOUS
  <2>2. i % w = i  BY <2>1, Below
  <2>3. d \in Int /\ i \in Int  BY <2>1
  <2>4. ((d % w) + i) % w = (d + i) % w  BY <2>3, RestOfSum
  <2>5. 0 + i = i  BY <2>3
  <2> QED  BY <2>2, <2>4, <2>5
<1>2. \A i \in 0..(d - 1): i \in 0..(d + w - 1)  OBVIOUS
<1>3. \A i \in 0..(w - 1): /\ d + i \in 0..(d + w - 1) /\ (lo + d) + i = lo + (d + i)
                           /\ (d + i) % w = i
  <2> TAKE i \in 0..(w - 1)
  <2>1. d + i \in 0..(d + w - 1) /\ (lo + d) + i = lo + (d + i)  OBVIOUS
  <2>2. (d + i) % w = i  BY <1>1
  <2> QED  BY <2>1, <2>2
<1>4. \A i \in 0..(d + w - 1): i \in 0..(d - 1) \/ (i - d \in 0..(w - 1) /\ i = d + (i - d))
  OBVIOUS
<1> DEFINE A == {<<lo + i, i % w>>: i \in 0..(d - 1)}
           B == {<<(lo + d) + i, i>>: i \in 0..(w - 1)}
           C == {<<lo + i, i % w>>: i \in 0..(d + w - 1)}
<1>5. A \subseteq C  BY <1>2
<1>6. B \subseteq C
  <2> SUFFICES ASSUME NEW i \in 0..(w - 1) PROVE <<(lo + d) + i, i>> \in C  OBVIOUS
  <2>1. <<(lo + d) + i, i>> = <<lo + (d + i), (d + i) % w>>  BY <1>3
  <2>2. d + i \in 0..(d + w - 1)  BY <1>3
  <2> QED  BY <2>1, <2>2
<1>7. C \subseteq A \cup B
  <2> SUFFICES ASSUME NEW c \in C PROVE c \in A \cup B  BY Zenon
  <2>0. PICK i \in 0..(d + w - 1) : c = <<lo + i, i % w>>  BY Zenon
  <2>1. CASE i \in 0..(d - 1)  BY <2>0, <2>1
  <2>2. CASE i - d \in 0..(w - 1)
    <3>1. PICK j \in 0..(w - 1) : j = i - d  BY <2>2
    <3>2. i = d + j /\ (lo + d) + j = lo + (d + j) /\ (d + j) % w = j  BY <3>1, <1>3
    <3>3. <<lo + i, i % w>> = <<(lo + d) + j, j>>  BY <3>2
    <3> QED  BY <2>0, <3>3
  <2> QED  BY <2>1, <2>2, <1>4
<1>8. A = Piece(lo, w, d) /\ C = Piece(lo, w, d + w)  BY DEF Piece
<1>9. B = Datum(lo + d, w)  BY DEF Datum
<1> HIDE DEF A, B, C
<1>10. A \cup B = C  BY <1>5, <1>6, <1>7, Zenon
<1> QED  BY <1>8, <1>9, <1>10

LEMMA FillStep ==
  ASSUME MemAssumption, TypeOK, AddAligned, FillInv, Next
  PROVE  FillInv'
<1>0. Space \in Nat \ {0} /\ FillWidths \subseteq Sized  BY Spaces
<1>w. width \in Sized /\ add \in Addresses /\ add % width = 0  BY DEF TypeOK, AddAligned
<1> SUFFICES ASSUME cmd' = "F", asked' # Nothing PROVE FillInv'  BY DEF FillInv
<1>1. CASE SetDumpMode  BY <1>1 DEF SetDumpMode, Idle
<1>2. ASSUME NEW s \in Typed \cup {Kept}, NEW e \in Typed \cup {Kept}, Dump(s, e)
      PROVE  FillInv'
  BY <1>2 DEF Dump
<1>3. ASSUME NEW s \in Typed \cup {Kept}, NEW e \in Typed \cup {Kept}, NEW w \in FillWidths,
             Fill(s, e, w)
      PROVE  FillInv'
  <2>1. PICK first \in Addresses, size \in Nat:
           /\ first % w = 0 /\ cmd = "none" /\ cmd' = "F" /\ width' = w
           /\ add' = first /\ end' = Wrapped(first, size)
           /\ \/ asked' = Nothing
              \/ /\ asked' = [first |-> first, last |-> e] /\ e \in Addresses
                 /\ first <= e /\ size = e - first
           /\ UNCHANGED <<gUDump, gDumpMode, gUMem, dumped, wrote>>
    BY <1>3, FillIs
  <2>2. /\ asked' = [first |-> first, last |-> e] /\ e \in Addresses
        /\ first <= e /\ size = e - first
    BY <2>1
  <2>3. asked'.first = first /\ asked'.last = e  BY <2>2
  <2>4. first \in Nat /\ e \in Nat /\ e < Space  BY <1>0, <2>2 DEF Addresses
  <2>5. end' = e
    <3>1. first + size = e  BY <2>2, <2>4
    <3>2. e % Space = e  BY <1>0, <2>4, Below
    <3> QED  BY <2>1, <3>1, <3>2 DEF Wrapped
  <2>6. wrote' = {} /\ {<<first + i, i % w>>: i \in 0..(first - first - 1)} = {}
    <3>1. wrote' = {}  BY <2>1 DEF TypeOK
    <3>2. 0..(first - first - 1) = {}  BY <2>4
    <3> QED  BY <3>1, <3>2
  <2>7. w \in Nat  BY <1>0, WidthIs
  <2>8. first <= add' /\ add' <= end' + width'  BY <2>1, <2>2, <2>4, <2>5, <2>7
  <2>9. wrote' = {<<asked'.first + i, i % width'>>: i \in 0..(add' - asked'.first - 1)}
    BY <2>1, <2>3, <2>6
  <2>10. asked'.first <= asked'.last /\ asked'.first % width' = 0 /\ end' = asked'.last
    BY <2>1, <2>2, <2>3, <2>5
  <2> QED  BY <2>3, <2>8, <2>9, <2>10 DEF FillInv
<1>4. ASSUME NEW s \in Typed \cup {Kept}, NEW w \in Widths, Edit(s, w)
      PROVE  FillInv'
  BY <1>4 DEF Edit
<1>5. CASE DumpCell  BY <1>5 DEF DumpCell
<1>6. CASE FillCell
  <2>1. /\ cmd = "F" /\ ~Over /\ Put1ByteMem /\ add' = Wrapped(add, width)
        /\ UNCHANGED <<width, end, asked>>
    BY <1>6 DEF FillCell
  <2>2. PICK lo : lo = asked.first  OBVIOUS
  <2>3. /\ lo <= asked.last /\ lo % width = 0 /\ end = asked.last
        /\ end < Space - width =>
             /\ lo <= add /\ add <= end + width
             /\ wrote = {<<lo + i, i % width>>: i \in 0..(add - lo - 1)}
    BY <2>1, <2>2 DEF FillInv
  <2> SUFFICES ASSUME end < Space - width
               PROVE  /\ lo <= add' /\ add' <= end + width
                      /\ wrote' = {<<lo + i, i % width>>: i \in 0..(add' - lo - 1)}
    BY <2>1, <2>2, <2>3 DEF FillInv
  <2>4. lo \in Nat /\ end \in Nat /\ add \in Nat /\ add <= end
    <3>1. asked \in [first: Addresses, last: Addresses]  BY <2>1 DEF TypeOK
    <3>2. lo \in Addresses  BY <2>2, <3>1
    <3>3. end \in Addresses  BY DEF TypeOK
    <3> QED  BY <1>0, <1>w, <2>1, <3>2, <3>3 DEF Addresses, Over
  <2>5. width \in Nat \ {0} /\ lo <= add
    <3>1. width \in Nat \ {0}  BY <1>w, WidthIs
    <3> QED  BY <2>3, <3>1
  <2>6. add + width < Space  BY <1>0, <2>4, <2>5
  <2>7. add' = add + width /\ \A i \in 0..(width - 1): Wrapped(add, i) = add + i
    BY <1>w, <2>1, <2>6, CellsAre
  <2>8. Cells(add, width) = add..(add + width - 1)  BY <1>w, CellsAre
  <2>9. wrote = {<<lo + i, i % width>>: i \in 0..(add - lo - 1)}  BY <2>3
  <2>10. \A b \in wrote: b[1] \notin Cells(add, width)
    <3>1. \A i \in 0..(add - lo - 1): lo + i < add  BY <2>4
    <3>2. \A i \in 0..(add - lo - 1): lo + i \notin Cells(add, width)
      BY <3>1, <2>4, <2>5, <2>8
    <3> QED  BY <2>9, <3>2
  <2>11. PICK d \in Nat : d = add - lo  BY <2>4, <2>5
  <2>12. d % width = 0
    <3>1. add \in Int /\ lo \in Int  BY <2>4
    <3> QED  BY <1>w, <2>3, <2>5, <2>11, <3>1, MultiplesAdd
  <2>13. lo + d = add /\ add' - lo - 1 = d + width - 1  BY <2>4, <2>5, <2>7, <2>11
  <2>14. wrote' = wrote \cup {<<(lo + d) + i, i>>: i \in 0..(width - 1)}
    <3>1. wrote' = {b \in wrote: b[1] \notin Cells(add, width)}
                     \cup {<<Wrapped(add, i), i>>: i \in 0..(width - 1)}
      BY <2>1 DEF Put1ByteMem
    <3>2. {b \in wrote: b[1] \notin Cells(add, width)} = wrote  BY <2>10
    <3>3. {<<Wrapped(add, i), i>>: i \in 0..(width - 1)}
            = {<<(lo + d) + i, i>>: i \in 0..(width - 1)}
      BY <2>7, <2>13
    <3> QED  BY <3>1, <3>2, <3>3
  <2>15. wrote' = {<<lo + i, i % width>>: i \in 0..(d + width - 1)}
    <3>1. wrote = Piece(lo, width, d)  BY <2>9, <2>11 DEF Piece
    <3>2. lo \in Nat /\ width \in Nat \ {0} /\ d \in Nat /\ d % width = 0  BY <2>4, <2>5, <2>12
    <3>3. Piece(lo, width, d) \cup Datum(lo + d, width) = Piece(lo, width, d + width)
      BY <3>2, PieceGrows, Zenon
    <3>4. wrote' = wrote \cup Datum(lo + d, width)  BY <2>14 DEF Datum
    <3>5. wrote' = Piece(lo, width, d + width)  BY <3>1, <3>3, <3>4, Zenon
    <3>6. (d + width) - 1 = d + width - 1  BY <3>2
    <3>7. Piece(lo, width, d + width) = {<<lo + i, i % width>>: i \in 0..(d + width - 1)}
      BY <3>6, Zenon DEF Piece
    <3> QED  BY <3>5, <3>7, Zenon
  <2>16. lo <= add' /\ add' <= end + width  BY <2>4, <2>5, <2>7
  <2> QED  BY <2>13, <2>15, <2>16
<1>7. CASE Finish  BY <1>7 DEF Finish, Return
<1>8. CASE EditCell  BY <1>8 DEF EditCell
<1>9. CASE EditMove  BY <1>9 DEF EditMove
<1>10. CASE EditEnd  BY <1>10 DEF EditEnd, Return
<1> QED  BY <1>1, <1>2, <1>3, <1>4, <1>5, <1>6, <1>7, <1>8, <1>9, <1>10 DEF Next, Start, Loop

\* A fill that has ended has written whole data up to the last address asked for.
LEMMA FillEnds ==
  ASSUME MemAssumption, TypeOK, AddAligned, FillInv
  PROVE  FillExact
<1> SUFFICES ASSUME cmd = "F", Over, asked # Nothing
             PROVE  LET n == asked.last - asked.first + 1
                        whole == ((n + width - 1) \div width) * width
                    IN wrote = {<<asked.first + i, i % width>>: i \in 0..(whole - 1)}
  BY DEF FillExact
<1>0. Space \in Nat \ {0} /\ width \in Nat \ {0} /\ Space % width = 0
  <2>1. width \in Sized  BY DEF TypeOK
  <2> QED  BY <2>1, Spaces, WidthIs
<1>1. PICK lo \in Addresses, hi \in Addresses : lo = asked.first /\ hi = asked.last
  BY DEF TypeOK
<1>2. lo \in Nat /\ hi \in Nat /\ add \in Nat /\ add < Space /\ hi < Space
  BY <1>0 DEF TypeOK, Addresses
<1>3. lo <= hi /\ lo % width = 0 /\ end = hi /\ add > hi /\ add % width = 0
  BY <1>1 DEF FillInv, Over, AddAligned
<1>4. add + width <= Space
  <2>1. add \in Int /\ Space \in Int  BY <1>0, <1>2
  <2> QED  BY <2>1, <1>0, <1>2, <1>3, NextMultiple
<1>5. end < Space - width  BY <1>0, <1>2, <1>3, <1>4
<1>6. /\ lo <= add /\ add <= hi + width
      /\ wrote = {<<lo + i, i % width>>: i \in 0..(add - lo - 1)}
  BY <1>1, <1>3, <1>5 DEF FillInv
<1>7. PICK d \in Nat : d = add - lo  BY <1>2, <1>6
<1>8. PICK x \in Nat : x = hi - lo + 1 + width - 1  BY <1>0, <1>2, <1>3
<1>9. d % width = 0
  <2>1. add \in Int /\ lo \in Int  BY <1>2
  <2> QED  BY <2>1, <1>0, <1>3, <1>7, MultiplesAdd
<1>10. d <= x /\ x < d + width  BY <1>0, <1>2, <1>3, <1>6, <1>7, <1>8
<1>11. x \div width = d \div width
  <2>1. d \in Int /\ x \in Int  OBVIOUS
  <2> QED  BY <2>1, <1>0, <1>9, <1>10, InBlock
<1>12. (d \div width) * width = d
  <2>1. PICK q \in Int : q = d \div width /\ d = width * q + 0
    <3>1. d \in Int  OBVIOUS
    <3>2. d \div width \in Int /\ d = width * (d \div width) + (d % width)  BY <1>0, <3>1, Divided
    <3> QED  BY <1>9, <3>2
  <2>2. width * q + 0 = q * width  BY <1>0
  <2> QED  BY <2>1, <2>2
<1>13. ((hi - lo + 1 + width - 1) \div width) * width = d  BY <1>8, <1>11, <1>12
<1>14. wrote = {<<lo + i, i % width>>: i \in 0..(d - 1)}  BY <1>6, <1>7
<1> QED  BY <1>1, <1>13, <1>14

-----------------------------------------------------------------------------
(* Theorems.                                                               *)

LEMMA InitInv == MemAssumption /\ Init => IInv
<1> SUFFICES ASSUME MemAssumption, Init PROVE IInv  OBVIOUS
<1>1. 0 \in Addresses /\ Default \in Nat  BY Spaces
<1>2. TypeOK  BY <1>1 DEF Init, TypeOK, Sized
<1>3. AddAligned
  <2>1. 0 % 1 = 0  OBVIOUS
  <2> QED  BY <2>1 DEF Init, AddAligned
<1>4. DumpInv /\ FillInv  BY DEF Init, DumpInv, FillInv
<1> QED  BY <1>2, <1>3, <1>4 DEF IInv

LEMMA StepInv == MemAssumption /\ IInv /\ [Next]_vars => IInv'
<1> SUFFICES ASSUME MemAssumption, IInv, [Next]_vars PROVE IInv'  OBVIOUS
<1>0. TypeOK /\ AddAligned /\ DumpInv /\ FillInv  BY DEF IInv
<1>1. CASE Next  BY <1>0, <1>1, TypeStep, DumpStep, FillStep DEF IInv
<1>2. CASE UNCHANGED vars
  <2>1. TypeOK'  BY <1>0, <1>2 DEF vars, TypeOK
  <2>2. AddAligned'  BY <1>0, <1>2 DEF vars, AddAligned
  <2>3. DumpInv'  BY <1>0, <1>2 DEF vars, DumpInv, Wrapped
  <2>4. FillInv'  BY <1>0, <1>2 DEF vars, FillInv
  <2> QED  BY <2>1, <2>2, <2>3, <2>4 DEF IInv
<1> QED  BY <1>1, <1>2

\* The inductive invariant.
THEOREM Invariant == ASSUME MemAssumption PROVE Spec => []IInv
<1>1. Init => IInv  BY InitInv
<1>2. IInv /\ [Next]_vars => IInv'  BY StepInv
<1> QED  BY <1>1, <1>2, PTL DEF Spec

\* Every variable is where the code keeps it: no address leaves the address space.
THEOREM TypeCorrect == ASSUME MemAssumption PROVE Spec => []TypeOK
<1>1. IInv => TypeOK  BY DEF IInv
<1> QED  BY <1>1, Invariant, PTL

\* Every access of D, F and M is aligned to its width, in every address space and whatever
\* the sequence of commands.
THEOREM Alignment == ASSUME MemAssumption PROVE Spec => []AccessAligned
<1>1. IInv => AccessAligned  BY DEF IInv, TypeOK, AddAligned, AccessAligned
<1> QED  BY <1>1, Invariant, PTL

\* The next dump goes on where the last one ended.
THEOREM DumpsJoin == ASSUME MemAssumption PROVE Spec => []DumpResumes
<1>1. IInv => DumpResumes  BY DumpEnds DEF IInv
<1> QED  BY <1>1, Invariant, PTL

\* F writes what was asked for, to the end of its last datum and no further.
THEOREM FillsExactly == ASSUME MemAssumption PROVE Spec => []FillExact
<1>1. IInv => FillExact  BY FillEnds DEF IInv
<1> QED  BY <1>1, Invariant, PTL
=============================================================================
