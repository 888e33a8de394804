----------------------------- MODULE SrecState -----------------------------
(***************************************************************************)
(* What the image loaders (SrecLoad) keep, and what is asked of them.      *)
(***************************************************************************)
EXTENDS Integers, FiniteSets

CONSTANTS
  Base,      \* EMMC_WORK_DRAM_SADD, LS_WORK_DRAM_SADD
  WorkSize,  \* cells of the work memory
  Word32,    \* values of a uint32_t
  Sector,    \* cells of a sector (512 bytes)
  CardSize,  \* sectors of the partition
  Tops,      \* the program start addresses the user types
  Places,    \* the addresses of records, below Word32
  LengthMax, \* bound: bytes of a record
  RecordsMax \* bound: records of an image

\* What the constants must satisfy: assumed by the module that gives them values.
SrecAssumption ==
  /\ Base \in Nat /\ WorkSize \in Nat \ {0} /\ Sector \in Nat \ {0}
  /\ Word32 \in Nat /\ Word32 % Sector = 0 /\ Word32 > Base + WorkSize
  /\ CardSize \in Nat \ {0} /\ LengthMax \in Nat /\ RecordsMax \in Nat
  /\ Places \subseteq 0..(Word32 - 1)
  /\ \A t \in Tops: t \in 0..(Word32 - 1) /\ t % Sector = 0

Commands == {"EM_W", "EM_WB", "XLS2"}
WorkMemory == Base..(Base + WorkSize - 1)

\* What a cell of the work memory holds: the byte for an address, or what the
\* memory was cleared with.
Zero == -1
FF   == -2
Cleared(c) == IF c = "XLS2" THEN FF ELSE Zero

VARIABLES
  pc,       \* "idle", "load" or "done"
  loader,   \* the command
  top,      \* prgStartAdd
  sector,   \* sectorStartAddress
  mem,      \* the work memory
  ptr, workAdd_Max, prevLoadAddress,
  outcome,  \* "none", "loaded", or "stopped" with a dot
  image,    \* [min, max]: the ends of the image in the work memory
  SecCnt,   \* the sectors to write
  records,  \* number of records so far
  sent,     \* history: the addresses for which bytes have come
  ordered   \* history: no record began below the end of the one before

-----------------------------------------------------------------------------
(* Properties.                                                             *)

\* The byte for address a belongs at Place(a).  A record without bytes at the end of
\* the image moves it as well.
Place(a) == Base + (a - top)
Fits ==
  /\ \A a \in sent: Place(a) \in WorkMemory
  /\ prevLoadAddress - top <= WorkSize
Placed ==
  /\ \A a \in sent: mem[Place(a)] = a
  /\ \A m \in WorkMemory: (\A a \in sent: Place(a) # m) => mem[m] = Cleared(loader)
Last == CHOOSE a \in sent: \A b \in sent: b <= a

\* The sectors hold the whole image and none is empty.
Crosses == (sector * Sector) \div Word32 # (sector * Sector + image.max - image.min) \div Word32
SectorsCover ==
  SecCnt * Sector > image.max - image.min /\ (SecCnt - 1) * Sector <= image.max - image.min

\* Records in the order of their addresses: every byte is at its place in the
\* work memory, the rest is as cleared, and the image ends with the last byte.
\* The two accounts of the place never drift apart, whatever the records: the
\* pointer stays a place, the address 32 bits, and as such they are equal.
\* EM_W and EM_WB write the whole image and no sector more, as long as it does
\* not reach over a multiple of Word32.
ImageLoaded ==
  /\ outcome = "loaded" /\ ordered /\ Fits =>
       Placed /\ (sent # {} => image.min = Base /\ image.max >= Place(Last))
  /\ loader \in {"EM_W", "XLS2"} => ptr \in Nat /\ workAdd_Max \in 0..(Word32 - 1) /\ ptr % Word32 = workAdd_Max
  /\ outcome = "loaded" /\ loader # "XLS2" /\ image.max >= image.min /\ ~Crosses => SectorsCover
=============================================================================
