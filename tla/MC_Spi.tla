------------------------------- MODULE MC_Spi -------------------------------
(* The SPI flash commands in both builds, on one kind of flash: SpiWrite   *)
(* with DDR memory and SpiStream without.  The build is chosen once.       *)
EXTENDS SpiWrite

CONSTANTS Block, Patient

VARIABLES build, sectorAd, buffers, bufferIndex, readCount, address, offset, shown, sent, ended, gapped

Stream == INSTANCE SpiStream

ASSUME StreamBounds == Stream!StreamAssumption

writing   == <<known, ram, jobs, consent>>
streaming == <<sectorAd, buffers, bufferIndex, readCount, address, offset, shown, sent, ended, gapped>>
all       == <<build, vars, streaming>>

NotWriting   == known = FALSE /\ ram = [a \in Cells |-> FF] /\ jobs = <<>> /\ consent = FALSE
NotStreaming == sectorAd = 0 /\ shown = 0 /\ ended = FALSE /\ Stream!Reset

MCInit ==
  \/ build = "DDR memory" /\ Init /\ NotStreaming
  \/ build = "internal memory only" /\ Stream!Init /\ NotWriting

Writes(A)  == build = "DDR memory" /\ A /\ UNCHANGED <<build, streaming>>
Streams(A) == build = "internal memory only" /\ A /\ UNCHANGED <<build, writing>>

\* The disjuncts of the two next-state relations, one by one.
MCNext ==
  \/ Writes(\E k \in Kinds: Type(k))
  \/ Writes(\E start \in Starts, size \in 0..ImageMax: Answer(start, size))
  \/ Writes(Stop) \/ Writes(Yes) \/ Writes(No) \/ Writes(\E change \in BOOLEAN: Change(change))
  \/ Writes(Check) \/ Writes(Show) \/ Writes(SetUnit) \/ Writes(Issue) \/ Writes(Poll)
  \/ Writes(Done) \/ Writes(Ready)
  \/ Streams(\E kind \in {"XLS2", "XLS3"}, start \in Cells, size \in 0..ImageMax:
               Stream!Type(kind, start, size))
  \/ Streams(Stream!TypeEarly) \/ Streams(Stream!Receive) \/ Streams(Stream!Stop)
  \/ Streams(Stream!EndRecord) \/ Streams(\E gap \in 1..ImageMax: Stream!Gap(gap))
  \/ Streams(Stream!EraseBlock) \/ Streams(Stream!ErasePoll) \/ Streams(Stream!Full)
  \/ Streams(Stream!EndBinary) \/ Streams(Stream!Saving) \/ Streams(Stream!Done)
  \/ Streams(Stream!Ready)
MCSpec == MCInit /\ [][MCNext]_all /\ WF_all(Writes(Driver)) /\ WF_all(Writes(Ready))

\* The property of the other build.  The others are checked as SpiWrite states
\* them: they name its commands, or hold in both builds.
StreamSaved == build = "internal memory only" => Stream!ImageSaved
=============================================================================
