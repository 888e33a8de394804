------------------------------ MODULE SrecLoad ------------------------------
(***************************************************************************)
(* The image of EM_W and EM_WB (dg_emmc_access.c) and of XLS2 with DDR     *)
(* memory (dgmodul4.c) on its way into the work memory: S-records, each    *)
(* for an address relative to the program start that was typed, or a       *)
(* binary file; and the sectors that EM_W then writes.                     *)
(*                                                                         *)
(* The loader keeps the place twice: ptr, a 64-bit pointer into the work   *)
(* memory, and workAdd_Max, a 32-bit address.  Both advance by 32-bit      *)
(* differences of record addresses.                                        *)
(***************************************************************************)
EXTENDS SrecState

vars == <<pc, loader, top, sector, mem, ptr, workAdd_Max, prevLoadAddress, outcome, image,
          SecCnt, records, sent, ordered>>

NoImage == [min |-> 0, max |-> 0]

Init ==
  /\ pc = "idle" /\ loader = "EM_W" /\ top = 0 /\ sector = 0
  /\ mem = [a \in WorkMemory |-> Zero] /\ ptr = Base /\ workAdd_Max = Base
  /\ prevLoadAddress = 0 /\ outcome = "none" /\ image = NoImage /\ SecCnt = 0
  /\ records = 0 /\ sent = {} /\ ordered = TRUE

-----------------------------------------------------------------------------
(* Faulty variants of definitions below, each of which breaks a property.  *)

Ahead_FromTop(addr) == (addr - top) % Word32
MaxAfter_SkipsGap(addr, length) == (workAdd_Max + length) % Word32
CountOf_OneShort(s, i) == ((i.max - i.min) \div Sector) % Word32

-----------------------------------------------------------------------------
(* The load.                                                               *)

\* The prompts; the work memory is cleared.
Start(c, t, s) ==
  /\ pc = "idle" /\ pc' = "load"
  /\ loader' = c /\ top' = t /\ sector' = s
  /\ mem' = [a \in WorkMemory |-> Cleared(c)]
  /\ ptr' = Base /\ workAdd_Max' = Base /\ prevLoadAddress' = t
  /\ outcome' = "none" /\ image' = NoImage /\ SecCnt' = 0
  /\ records' = 0 /\ sent' = {} /\ ordered' = TRUE

\* loadGetAddress - prevLoadAddress, a uint32_t.
Ahead(addr) == (addr - prevLoadAddress) % Word32
PtrAfter(addr, length) == ptr + Ahead(addr) + length
MaxAfter(addr, length) == (workAdd_Max + Ahead(addr) + length) % Word32

\* An S1, S2 or S3 record.  XLS2 sets the gap in front of it to FF; what lies
\* outside the work memory is not modelled.
Record(addr, length) ==
  LET first == ptr + Ahead(addr) IN
  /\ pc = "load" /\ loader # "EM_WB" /\ records < RecordsMax
  /\ mem' = [a \in WorkMemory |->
       IF a \in first..(first + length - 1) THEN addr + (a - first)
       ELSE IF loader = "XLS2" /\ a \in ptr..(first - 1) THEN FF ELSE mem[a]]
  /\ ptr' = PtrAfter(addr, length) /\ workAdd_Max' = MaxAfter(addr, length)
  /\ prevLoadAddress' = (addr + length) % Word32
  /\ records' = records + 1 /\ sent' = sent \cup addr..(addr + length - 1)
  /\ ordered' = (ordered /\ addr >= prevLoadAddress /\ \A a \in sent: a < addr)
  /\ UNCHANGED <<pc, loader, top, sector, outcome, image, SecCnt>>

\* The sectors from the first byte of the image to its last: the places are
\* bytes in 32 bits.
StartAdd(s) == (s * Sector) % Word32
EndAdd(s, i) == (StartAdd(s) + (i.max - i.min)) % Word32
CountOf(s, i) == ((EndAdd(s, i) \div Sector) - (StartAdd(s) \div Sector) + 1) % Word32

\* The image is complete: EM_W goes on to write it.
Loaded(min, max) ==
  LET i == [min |-> min, max |-> max] IN
  /\ image' = i /\ outcome' = "loaded" /\ pc' = "done"
  /\ SecCnt' = IF loader = "XLS2" THEN 0 ELSE CountOf(sector, i)
  /\ UNCHANGED <<loader, top, sector, mem, ptr, workAdd_Max, prevLoadAddress, records>>

\* An S7, S8 or S9 record; a record of an unknown type sets errFlg, which
\* nothing reports, and ends the load in the same way.
EndRecord ==
  /\ pc = "load" /\ loader # "EM_WB"
  /\ Loaded(Base, workAdd_Max - 1)
  /\ UNCHANGED <<sent, ordered>>

\* EM_WB: the number of bytes that was typed.
Binary(size) ==
  /\ pc = "load" /\ loader = "EM_WB"
  /\ image' = [min |-> Base, max |-> Base + size - 1]
  /\ mem' = [a \in WorkMemory |-> IF a < Base + size THEN top + (a - Base) ELSE mem[a]]
  /\ SecCnt' = CountOf(sector, image') /\ outcome' = "loaded" /\ pc' = "done"
  /\ sent' = top..(top + size - 1)
  /\ UNCHANGED <<loader, top, sector, ptr, workAdd_Max, prevLoadAddress, records, ordered>>

\* A dot in place of a record, or nothing typed for the size of the file.
Stop ==
  /\ pc = "load"
  /\ outcome' = "stopped" /\ pc' = "done"
  /\ UNCHANGED <<loader, top, sector, mem, ptr, workAdd_Max, prevLoadAddress, image, SecCnt,
                 records, sent, ordered>>

Prompt ==
  /\ pc = "done" /\ pc' = "idle"
  /\ UNCHANGED <<loader, top, sector, mem, ptr, workAdd_Max, prevLoadAddress, outcome, image,
                 SecCnt, records, sent, ordered>>

Next ==
  \/ \E c \in Commands, t \in Tops, s \in 0..(CardSize - 1): Start(c, t, s)
  \/ \E addr \in Places, length \in 0..LengthMax: addr + length <= Word32 /\ Record(addr, length)
  \/ EndRecord
  \/ \E size \in 0..WorkSize: Binary(size)
  \/ Stop \/ Prompt

Spec == Init /\ [][Next]_vars
=============================================================================
