------------------------------ MODULE EmmcRegs ------------------------------
(* How the bits of the CID and the CSD travel from the card to the screen:  *)
(* through the response registers of the controller, the buffer of the      *)
(* driver and emmc_bit_field.  What a bit is does not matter, only where it *)
(* goes: a bit of a card register is <<name, number>>, a word is a function *)
(* from 0..31 to such bits or Zero.                                         *)
EXTENDS Integers, Sequences, FiniteSets, SequencesExt

Zero  == <<"0", 0>>
Clash == <<"both", 0>>   \* two card bits or-ed together

Word   == 0..31
Shl(w, n) == [b \in Word |-> IF b >= n THEN w[b - n] ELSE Zero]
Shr(w, n) == [b \in Word |-> IF b + n \in Word THEN w[b + n] ELSE Zero]
Low(w, n) == [b \in Word |-> IF b < n THEN w[b] ELSE Zero]
Or(v, w)  ==
  [b \in Word |-> IF v[b] = Zero THEN w[b] ELSE IF w[b] = Zero THEN v[b] ELSE Clash]

-----------------------------------------------------------------------------
(* From the controller to the buffer.                                      *)

\* SD_RSP10, SD_RSP32, SD_RSP54 and SD_RSP76 (n = 0 to 3) after the register reg
\* arrived in an R2 response: they start at bit 8, without the CRC.
SD_RSP(reg, n) ==
  [b \in Word |-> IF 32 * n + b + 8 < 128 THEN <<reg, 32 * n + b + 8>> ELSE Zero]

\* A faulty variant of a definition below.
DispTop_Uncapped(f, cnt) == f[2] + 8 * cnt - 1

\* emmc_read_response, word by word.
Merged(reg, n) == Or(Shl(SD_RSP(reg, n), 8), Shr(SD_RSP(reg, n - 1), 24))
emmc_read_response(reg) ==
  << Merged(reg, 3), Merged(reg, 2), Merged(reg, 1), Shl(SD_RSP(reg, 0), 8) >>

\* Byte i of the buffer.
emmc_little_to_big(words, i) == Low(Shr(words[i \div 4 + 1], 24 - 8 * (i % 4)), 8)

\* The buffer before any response.
Cleared == [n \in 1..4 |-> [b \in Word |-> Zero]]

-----------------------------------------------------------------------------
(* From the buffer to the screen.                                          *)

\* Bits top..bottom of the buffer: the bytes they lie in, four at the most.
emmc_bit_field(words, top, bottom) ==
  LET first == 15 - top \div 8
      more  == IF top \div 8 - bottom \div 8 < 3 THEN top \div 8 - bottom \div 8 ELSE 3
      Byte(k) == Shl(emmc_little_to_big(words, first + k), 8 * (more - k))
      value == CASE more = 0 -> Byte(0)
                 [] more = 1 -> Or(Byte(0), Byte(1))
                 [] more = 2 -> Or(Or(Byte(0), Byte(1)), Byte(2))
                 [] more = 3 -> Or(Or(Byte(0), Byte(1)), Or(Byte(2), Byte(3)))
  IN Low(Shr(value, bottom % 8), top - bottom + 1)

\* disp_cid and disp_csd: a field in bytes, the highest first.
DispCnt(f) == (f[1] - f[2] + 8) \div 8
DispTop(f, cnt) ==
  IF f[2] + 8 * cnt - 1 > f[1] THEN f[1] ELSE f[2] + 8 * cnt - 1
DispByte(words, f, cnt) == Low(emmc_bit_field(words, DispTop(f, cnt), f[2] + 8 * (cnt - 1)), 8)
DispField(words, f) == [i \in 1..DispCnt(f) |-> DispByte(words, f, DispCnt(f) + 1 - i)]

\* disp_ext_csd: the bytes of EXT_CSD a row shows.
DispIndexes(f) == [i \in 1..(f[1] - f[2] + 1) |-> f[1] - (i - 1)]

\* The number in a field of up to eight bits, when ones are the bits of the card register that are 1.
Weight(word, ones, b) == IF word[b] \in ones THEN 2^b ELSE 0
Number(word, ones) ==
  LET Bit(b) == Weight(word, ones, b)
  IN Bit(0) + Bit(1) + Bit(2) + Bit(3) + Bit(4) + Bit(5) + Bit(6) + Bit(7)

-----------------------------------------------------------------------------
(* The tables of fields, <<top, end>> each.                                *)

CID_FIELD_MAX     == 8
CSD_FIELD_MAX     == 33
EXT_CSD_FIELD_MAX == 101

dg_cid_data ==
  << <<127,120>>, <<113,112>>, <<111,104>>, <<103,56>>, <<55,48>>, <<47,16>>, <<15,8>>, <<7,1>> >>

dg_csd_data ==
  << <<127,126>>, <<125,122>>, <<119,112>>, <<111,104>>, <<103,96>>, <<95,84>>, <<83,80>>,
     <<79,79>>, <<78,78>>, <<77,77>>, <<76,76>>, <<73,62>>, <<61,59>>, <<58,56>>, <<55,53>>,
     <<52,50>>, <<49,47>>, <<46,42>>, <<41,37>>, <<36,32>>, <<31,31>>, <<30,29>>, <<28,26>>,
     <<25,22>>, <<21,21>>, <<16,16>>, <<15,15>>, <<14,14>>, <<13,13>>, <<12,12>>, <<11,10>>,
     <<9,8>>, <<7,1>> >>

\* Most rows of EXT_CSD are a byte each, counting down.
Bytes(top, end) == [i \in 1..(top - end + 1) |-> <<top + 1 - i, top + 1 - i>>]
Odd == [i \in 1..14 |->
  LET n == <<194, 192, 191, 189, 187, 185, 183, 181, 179, 178, 177, 175, 173, 171>>[i] IN <<n, n>>]
dg_ext_csd_data ==
  Bytes(505, 491) \o << <<490, 487>>, <<305, 302>>, <<301, 270>> >>
    \o Bytes(269, 264) \o << <<263, 262>>, <<261, 254>>, <<253, 253>>, <<252, 249>> >>
    \o Bytes(248, 246) \o << <<245, 242>>, <<241, 241>> >>
    \o Bytes(239, 234) \o Bytes(232, 228) \o Bytes(226, 216) \o << <<215, 212>> >>
    \o Bytes(210, 205) \o Bytes(203, 196) \o Odd \o Bytes(169, 160)
    \o << <<159, 157>>, <<156, 156>>, <<155, 155>>, <<154, 143>>, <<142, 140>>, <<139, 136>>,
          <<134, 134>> >>

\* The bytes of EXT_CSD that EM_SECSD writes.
extCsdWriteIndex ==
  {187, 185, 183, 179, 177, 175, 167, 164, 163, 161, 156, 155, 134} \cup (136..154)

\* What the loops over the tables rely on.
ASSUME TableSizes ==
  /\ Len(dg_cid_data) = CID_FIELD_MAX /\ Len(dg_csd_data) = CSD_FIELD_MAX
  /\ Len(dg_ext_csd_data) = EXT_CSD_FIELD_MAX
  /\ Cardinality(extCsdWriteIndex) = 32
=============================================================================
