--------------------------- MODULE EmmcCardProofs ---------------------------
(* Proofs about EmmcCard: what is shown of the registers of the card, what  *)
(* is written to them and the clock that goes with them, for any cards and  *)
(* any numbers typed.                                                       *)
EXTENDS EmmcCard, TLAPS

-----------------------------------------------------------------------------
(* The bits of a register on their way.                                    *)

\* What the driver has of bit n of a register: the response came without the CRC.
BitOf(reg, n) == IF n >= 8 THEN <<reg, n>> ELSE Zero

LEMMA BitIsNoZero ==
  ASSUME NEW reg, NEW n \in Nat, n >= 8
  PROVE  BitOf(reg, n) # Zero
<1>1. BitOf(reg, n) = <<reg, n>> /\ n # 0  BY DEF BitOf
<1>2. <<reg, n>>[2] = n /\ Zero[2] = 0  BY DEF Zero
<1> QED  BY <1>1, <1>2

\* The words of the buffer.
LEMMA MergedIs ==
  ASSUME NEW reg, NEW n \in 1..3, NEW c \in Word
  PROVE  Merged(reg, n)[c] = BitOf(reg, 32 * n + c)
<1> DEFINE u == Shl(SD_RSP(reg, n), 8)
           v == Shr(SD_RSP(reg, n - 1), 24)
<1>1. \A m \in 0..3, b \in Word:
        SD_RSP(reg, m)[b] = IF 32 * m + b + 8 < 128 THEN <<reg, 32 * m + b + 8>> ELSE Zero
  BY DEF SD_RSP
<1>2. c \in Nat /\ c <= 31 /\ n \in Nat /\ 32 * n + c >= 8 /\ 32 * n + c < 128  BY DEF Word
<1>3. <<reg, 32 * n + c>> = BitOf(reg, 32 * n + c) /\ BitOf(reg, 32 * n + c) # Zero
  <2>1. 32 * n + c \in Nat  BY <1>2
  <2> QED  BY <1>2, <2>1, BitIsNoZero DEF BitOf
<1>4. Merged(reg, n)[c] = IF u[c] = Zero THEN v[c] ELSE IF v[c] = Zero THEN u[c] ELSE Clash
  BY DEF Merged, Or
<1>5. CASE c >= 8
  <2>1. u[c] = SD_RSP(reg, n)[c - 8] /\ v[c] = Zero
    <3>1. c - 8 \in Word /\ c + 24 \notin Word  BY <1>2, <1>5 DEF Word
    <3> QED  BY <1>5, <3>1 DEF Shl, Shr
  <2>2. SD_RSP(reg, n)[c - 8] = <<reg, 32 * n + c>>
    <3>1. c - 8 \in Word /\ n \in 0..3 /\ 32 * n + (c - 8) + 8 = 32 * n + c  BY <1>2, <1>5 DEF Word
    <3> QED  BY <1>1, <1>2, <3>1
  <2> QED  BY <1>3, <1>4, <2>1, <2>2
<1>6. CASE c < 8
  <2>1. u[c] = Zero /\ v[c] = SD_RSP(reg, n - 1)[c + 24]
    <3>1. c + 24 \in Word /\ ~(c >= 8)  BY <1>2, <1>6 DEF Word
    <3> QED  BY <3>1 DEF Shl, Shr
  <2>2. SD_RSP(reg, n - 1)[c + 24] = <<reg, 32 * n + c>>
    <3>1. c + 24 \in Word /\ n - 1 \in 0..3 /\ 32 * (n - 1) + (c + 24) + 8 = 32 * n + c
      BY <1>2, <1>6 DEF Word
    <3> QED  BY <1>1, <1>2, <3>1
  <2> QED  BY <1>3, <1>4, <2>1, <2>2
<1> QED  BY <1>2, <1>5, <1>6

LEMMA WordIs ==
  ASSUME NEW reg, NEW j \in 1..4, NEW c \in Word
  PROVE  emmc_read_response(reg)[j][c] = BitOf(reg, 32 * (4 - j) + c)
<1>1. CASE j < 4
  <2>1. 4 - j \in 1..3  BY <1>1
  <2>2. emmc_read_response(reg)[j] = Merged(reg, 4 - j)
    <3>1. j = 1 \/ j = 2 \/ j = 3  BY <1>1
    <3>2. 4 - 1 = 3 /\ 4 - 2 = 2 /\ 4 - 3 = 1  OBVIOUS
    <3> QED  BY <3>1, <3>2 DEF emmc_read_response
  <2> QED  BY <2>1, <2>2, MergedIs
<1>2. CASE j = 4
  <2>1. emmc_read_response(reg)[j] = Shl(SD_RSP(reg, 0), 8)  BY <1>2 DEF emmc_read_response
  <2>2. c \in Nat /\ c <= 31 /\ 32 * (4 - j) + c = c  BY <1>2 DEF Word
  <2>3. CASE c >= 8
    <3>1. c - 8 \in Word /\ 32 * 0 + (c - 8) + 8 = c /\ c < 128  BY <2>2, <2>3 DEF Word
    <3> QED  BY <2>1, <2>2, <2>3, <3>1 DEF Shl, SD_RSP, BitOf
  <2>4. CASE ~(c >= 8)  BY <2>1, <2>2, <2>4 DEF Shl, BitOf
  <2> QED  BY <2>3, <2>4
<1> QED  BY <1>1, <1>2

\* Byte i of the buffer has the bits from 8 * (15 - i) on.
LEMMA ByteIs ==
  ASSUME NEW reg, NEW i \in 0..15, NEW b \in Word
  PROVE  emmc_little_to_big(emmc_read_response(reg), i)[b] =
           IF b < 8 THEN BitOf(reg, 8 * (15 - i) + b) ELSE Zero
<1> DEFINE j == i \div 4 + 1
           k == 24 - 8 * (i % 4)
           w == emmc_read_response(reg)
<1>1. j \in 1..4 /\ k \in 0..24 /\ 32 * (4 - j) + k = 8 * (15 - i)  OBVIOUS
<1>2. emmc_little_to_big(w, i)[b] =
        IF b < 8 THEN (IF b + k \in Word THEN w[j][b + k] ELSE Zero) ELSE Zero
  BY DEF emmc_little_to_big, Low, Shr
<1> HIDE DEF j, k
<1>3. b < 8 => b + k \in Word /\ 32 * (4 - j) + (b + k) = 8 * (15 - i) + b  BY <1>1 DEF Word
<1>4. b < 8 => w[j][b + k] = BitOf(reg, 32 * (4 - j) + (b + k))  BY <1>1, <1>3, WordIs
<1> QED  BY <1>2, <1>3, <1>4

\* A field of no more than eight bits.
LEMMA FieldIs ==
  ASSUME NEW reg, NEW top \in 0..127, NEW bottom \in Nat, bottom <= top, top - bottom < 8,
         NEW b \in Word
  PROVE  emmc_bit_field(emmc_read_response(reg), top, bottom)[b] =
           IF b < top - bottom + 1 THEN BitOf(reg, bottom + b) ELSE Zero
<1> DEFINE w == emmc_read_response(reg)
           t == top \div 8
           o == bottom \div 8
           r == bottom % 8
<1>1. /\ t \in 0..15 /\ o \in 0..15 /\ r \in 0..7 /\ bottom = 8 * o + r
      /\ (t = o \/ t = o + 1) /\ 8 * t <= top /\ top < 8 * t + 8
  OBVIOUS
<1> HIDE DEF w, t, o, r
<1>2. b \in Nat /\ b <= 31  BY DEF Word
<1>3. CASE t = o
  <2> DEFINE v == Shl(emmc_little_to_big(w, 15 - t), 0)
  <2>1. emmc_bit_field(w, top, bottom)[b] =
          IF b < top - bottom + 1 THEN (IF b + r \in Word THEN v[b + r] ELSE Zero) ELSE Zero
    <3>1. t - o = 0 /\ (IF t - o < 3 THEN t - o ELSE 3) = 0 /\ 15 - t + 0 = 15 - t /\ 8 * (0 - 0) = 0
      BY <1>1, <1>3
    <3> QED  BY <3>1 DEF emmc_bit_field, Low, Shr, t, o, r
  <2>2. \A c \in Word: c < 8 => v[c] = BitOf(reg, 8 * t + c)
    <3> SUFFICES ASSUME NEW c \in Word, c < 8 PROVE v[c] = BitOf(reg, 8 * t + c)  OBVIOUS
    <3>1. c \in Nat /\ c - 0 = c /\ c >= 0 /\ 15 - t \in 0..15 /\ 15 - (15 - t) = t  BY <1>1 DEF Word
    <3>2. v[c] = emmc_little_to_big(w, 15 - t)[c]  BY <3>1 DEF Shl
    <3> QED  BY <3>1, <3>2, ByteIs DEF w
  <2> HIDE DEF v
  <2>3. b < top - bottom + 1 => b + r \in Word /\ b + r < 8 /\ 8 * t + (b + r) = bottom + b
    BY <1>1, <1>2, <1>3 DEF Word
  <2> QED  BY <2>1, <2>2, <2>3 DEF w
<1>4. CASE t = o + 1
  <2> DEFINE x == Shl(emmc_little_to_big(w, 15 - t), 8)
             y == Shl(emmc_little_to_big(w, 15 - o), 0)
             v == Or(x, y)
  <2>1. emmc_bit_field(w, top, bottom)[b] =
          IF b < top - bottom + 1 THEN (IF b + r \in Word THEN v[b + r] ELSE Zero) ELSE Zero
    <3>1. /\ t - o = 1 /\ (IF t - o < 3 THEN t - o ELSE 3) = 1 /\ 15 - t + 0 = 15 - t
          /\ 15 - t + 1 = 15 - o /\ 8 * (1 - 0) = 8 /\ 8 * (1 - 1) = 0
      BY <1>1, <1>4
    <3> QED  BY <3>1 DEF emmc_bit_field, Low, Shr, t, o, r
  <2>2. \A c \in Word: c < 16 => v[c] = BitOf(reg, 8 * o + c)
    <3> SUFFICES ASSUME NEW c \in Word, c < 16 PROVE v[c] = BitOf(reg, 8 * o + c)  OBVIOUS
    <3>1. c \in Nat /\ c - 0 = c /\ c >= 0 /\ 15 - t \in 0..15 /\ 15 - o \in 0..15
          /\ 15 - (15 - t) = t /\ 15 - (15 - o) = o
      BY <1>1 DEF Word
    <3>2. y[c] = IF c < 8 THEN BitOf(reg, 8 * o + c) ELSE Zero
      <4>1. y[c] = emmc_little_to_big(w, 15 - o)[c]  BY <3>1 DEF Shl
      <4> QED  BY <3>1, <4>1, ByteIs DEF w
    <3>3. CASE c >= 8
      <4>1. c - 8 \in Word /\ c - 8 < 8 /\ 8 * t + (c - 8) = 8 * o + c  BY <1>1, <1>4, <3>1, <3>3 DEF Word
      <4>2. x[c] = emmc_little_to_big(w, 15 - t)[c - 8]  BY <3>3 DEF Shl
      <4>3. x[c] = BitOf(reg, 8 * o + c)  BY <3>1, <4>1, <4>2, ByteIs DEF w
      <4>4. y[c] = Zero  BY <3>1, <3>2, <3>3
      <4>5. v[c] = IF x[c] = Zero THEN y[c] ELSE IF y[c] = Zero THEN x[c] ELSE Clash  BY DEF Or
      <4> QED  BY <4>3, <4>4, <4>5
    <3>4. CASE c < 8
      <4>1. x[c] = Zero  BY <3>1, <3>4 DEF Shl
      <4>2. v[c] = IF x[c] = Zero THEN y[c] ELSE IF y[c] = Zero THEN x[c] ELSE Clash  BY DEF Or
      <4> QED  BY <3>2, <3>4, <4>1, <4>2
    <3> QED  BY <3>1, <3>3, <3>4
  <2> HIDE DEF v
  <2>3. b < top - bottom + 1 => b + r \in Word /\ b + r < 16 /\ 8 * o + (b + r) = bottom + b
    BY <1>1, <1>2, <1>4 DEF Word
  <2> QED  BY <2>1, <2>2, <2>3 DEF w
<1> QED  BY <1>1, <1>3, <1>4

-----------------------------------------------------------------------------
(* The rows of the screen.                                                 *)

\* A field of a table, from its top to its end.
IsField(f) == f[1] \in 0..127 /\ f[2] \in 0..127 /\ f[2] <= f[1]

LEMMA CidFields == \A i \in 1..CID_FIELD_MAX: IsField(dg_cid_data[i])
<1> SUFFICES ASSUME NEW i \in 1..CID_FIELD_MAX PROVE IsField(dg_cid_data[i])  OBVIOUS
<1>1. i \in {1, 2, 3, 4, 5, 6, 7, 8}  BY DEF CID_FIELD_MAX
<1> QED  BY <1>1 DEF dg_cid_data, IsField

LEMMA CsdFields == \A i \in 1..CSD_FIELD_MAX: IsField(dg_csd_data[i])
<1> SUFFICES ASSUME NEW i \in 1..CSD_FIELD_MAX PROVE IsField(dg_csd_data[i])  OBVIOUS
<1>1. \/ i \in {1, 2, 3, 4, 5, 6, 7, 8} \/ i \in {9, 10, 11, 12, 13, 14, 15, 16}
      \/ i \in {17, 18, 19, 20, 21, 22, 23, 24} \/ i \in {25, 26, 27, 28, 29, 30, 31, 32, 33}
  BY DEF CSD_FIELD_MAX
<1>2. CASE i \in {1, 2, 3, 4, 5, 6, 7, 8}  BY <1>2 DEF dg_csd_data, IsField
<1>3. CASE i \in {9, 10, 11, 12, 13, 14, 15, 16}  BY <1>3 DEF dg_csd_data, IsField
<1>4. CASE i \in {17, 18, 19, 20, 21, 22, 23, 24}  BY <1>4 DEF dg_csd_data, IsField
<1>5. CASE i \in {25, 26, 27, 28, 29, 30, 31, 32, 33}  BY <1>5 DEF dg_csd_data, IsField
<1> QED  BY <1>1, <1>2, <1>3, <1>4, <1>5

\* A row is right when the buffer holds the register.
LEMMA RowIsRight ==
  ASSUME NEW reg, NEW f, IsField(f)
  PROVE  RowRight(reg, DispField(emmc_read_response(reg), f), f)
<1> DEFINE w == emmc_read_response(reg)
           row == DispField(w, f)
           L == DispCnt(f)
<1>1. PICK t \in 0..127, e \in 0..127: t = f[1] /\ e = f[2] /\ e <= t  BY DEF IsField
<1>2. L \in Nat /\ L > 0 /\ 8 * L >= t - e + 1 /\ 8 * L <= t - e + 8
  BY <1>1 DEF DispCnt
<1> HIDE DEF L
<1>3. Len(row) = L /\ \A i \in 1..L: row[i] = DispByte(w, f, L + 1 - i)
  <2>1. row = [i \in 1..L |-> DispByte(w, f, L + 1 - i)]  BY DEF DispField, L
  <2> HIDE DEF row, w
  <2> QED  BY <1>2, <2>1
<1> HIDE DEF row
<1>4. ASSUME NEW n \in 0..(8 * L - 1)
      PROVE  row[L - n \div 8][n % 8] = IF e + n \in 8..t THEN <<reg, e + n>> ELSE Zero
  <2> DEFINE i == L - n \div 8
             c == n \div 8 + 1
             top == DispTop(f, c)
             bottom == e + 8 * (c - 1)
             b == n % 8
  <2>1. i \in 1..L /\ c = L + 1 - i /\ c \in 1..L /\ b \in 0..7 /\ bottom + b = e + n /\ bottom \in Nat
    BY <1>1, <1>2
  <2>2. /\ top \in 0..127 /\ bottom <= top /\ top - bottom < 8
        /\ (b < top - bottom + 1 <=> e + n <= t)
    <3>1. top = IF e + 8 * c - 1 > t THEN t ELSE e + 8 * c - 1  BY <1>1 DEF DispTop
    <3> HIDE DEF top
    <3> QED  BY <1>1, <1>2, <2>1, <3>1
  <2>3. row[i][b] = Low(emmc_bit_field(w, top, bottom), 8)[b]
    <3>1. row[i] = DispByte(w, f, c)  BY <1>3, <2>1
    <3>2. DispByte(w, f, c) = Low(emmc_bit_field(w, top, bottom), 8)  BY <1>1 DEF DispByte
    <3> QED  BY <3>1, <3>2
  <2> HIDE DEF i, c, top, bottom, b
  <2>4. b \in Word /\ b < 8  BY <2>1 DEF Word
  <2>5. row[i][b] = emmc_bit_field(w, top, bottom)[b]  BY <2>3, <2>4 DEF Low
  <2>6. row[i][b] = IF b < top - bottom + 1 THEN BitOf(reg, bottom + b) ELSE Zero
    BY <2>1, <2>2, <2>4, <2>5, FieldIs
  <2>7. row[i][b] = IF e + n <= t THEN BitOf(reg, e + n) ELSE Zero  BY <2>1, <2>2, <2>6
  <2>8. e + n \in 8..t <=> e + n <= t /\ e + n >= 8  BY <1>1, <1>2
  <2>9. row[L - n \div 8][n % 8] = row[i][b]  BY DEF i, b
  <2> QED  BY <2>7, <2>8, <2>9 DEF BitOf
<1>5. L * 8 \in (t - e + 1)..(t - e + 8) /\ 8 * Len(row) - 1 = 8 * L - 1  BY <1>1, <1>2, <1>3
<1> QED  BY <1>1, <1>3, <1>4, <1>5 DEF RowRight, row

LEMMA ScreenIsRight == ScreenRight["CID"]["CID"] /\ ScreenRight["CSD"]["CSD"]
<1>1. ASSUME NEW k \in {"CID", "CSD"} PROVE ScreenRight[k][k]
  <2>1. ScreenRight[k][k] = \A i \in Rows(k): RowRight(k, Screen[k][k][i], Table(k)[i])
    BY DEF ScreenRight
  <2>2. ASSUME NEW i \in Rows(k) PROVE RowRight(k, Screen[k][k][i], Table(k)[i])
    <3>1. Screen[k][k][i] = DispField(emmc_read_response(k), Table(k)[i])
      BY DEF Screen, Buffer
    <3>2. IsField(Table(k)[i])
      <4>1. CASE k = "CID"  BY <4>1, CidFields DEF Rows, Table
      <4>2. CASE k = "CSD"  BY <4>2, CsdFields DEF Rows, Table
      <4> QED  BY <4>1, <4>2
    <3> QED  BY <3>1, <3>2, RowIsRight
  <2> QED  BY <2>1, <2>2
<1> QED  BY <1>1

\* The rows of EXT_CSD name bytes.
LEMMA ExtFields == \A i \in 1..EXT_CSD_FIELD_MAX: dg_ext_csd_data[i] \in Nat \X Nat
<1> DEFINE P == Nat \X Nat
<1>1. \A top, end \in Nat: end <= top => Bytes(top, end) \in Seq(P)
  <2> SUFFICES ASSUME NEW top \in Nat, NEW end \in Nat, end <= top PROVE Bytes(top, end) \in Seq(P)
    OBVIOUS
  <2>1. top - end + 1 \in Nat  OBVIOUS
  <2>2. \A i \in 1..(top - end + 1): <<top + 1 - i, top + 1 - i>> \in P  OBVIOUS
  <2> HIDE DEF P
  <2> QED  BY <2>1, <2>2 DEF Bytes
<1>2. Odd \in Seq(P)
  <2>1. \A i \in 1..14: <<194, 192, 191, 189, 187, 185, 183, 181, 179, 178, 177, 175, 173, 171>>[i] \in Nat
    OBVIOUS
  <2>2. \A i \in 1..14: Odd[i] \in P  BY <2>1 DEF Odd
  <2>3. Odd = [i \in 1..14 |-> Odd[i]]  BY DEF Odd
  <2> HIDE DEF P
  <2> QED  BY <2>2, <2>3
<1>3. /\ << <<490, 487>>, <<305, 302>>, <<301, 270>> >> \in Seq(P)
      /\ << <<263, 262>>, <<261, 254>>, <<253, 253>>, <<252, 249>> >> \in Seq(P)
      /\ << <<245, 242>>, <<241, 241>> >> \in Seq(P) /\ << <<215, 212>> >> \in Seq(P)
      /\ << <<159, 157>>, <<156, 156>>, <<155, 155>>, <<154, 143>>, <<142, 140>>, <<139, 136>>,
            <<134, 134>> >> \in Seq(P)
  OBVIOUS
<1> HIDE DEF P
<1>4. \A s, t \in Seq(P): s \o t \in Seq(P)  OBVIOUS
<1>5. dg_ext_csd_data \in Seq(P)
  <2> DEFINE A == << <<490, 487>>, <<305, 302>>, <<301, 270>> >>
             B == << <<263, 262>>, <<261, 254>>, <<253, 253>>, <<252, 249>> >>
             C == << <<245, 242>>, <<241, 241>> >>
             D == << <<215, 212>> >>
             E == << <<159, 157>>, <<156, 156>>, <<155, 155>>, <<154, 143>>, <<142, 140>>, <<139, 136>>,
                     <<134, 134>> >>
  <2>1. A \in Seq(P) /\ B \in Seq(P) /\ C \in Seq(P) /\ D \in Seq(P) /\ E \in Seq(P)  BY <1>3
  <2> HIDE DEF A, B, C, D, E
  <2>2. /\ Bytes(505, 491) \in Seq(P)
        /\ Bytes(269, 264) \in Seq(P)
        /\ Bytes(248, 246) \in Seq(P)
        /\ Bytes(239, 234) \in Seq(P)
        /\ Bytes(232, 228) \in Seq(P)
        /\ Bytes(226, 216) \in Seq(P)
        /\ Bytes(210, 205) \in Seq(P)
        /\ Bytes(203, 196) \in Seq(P)
        /\ Bytes(169, 160) \in Seq(P)
    <3>1. Bytes(505, 491) \in Seq(P)  BY <1>1
    <3>2. Bytes(269, 264) \in Seq(P)  BY <1>1
    <3>3. Bytes(248, 246) \in Seq(P)  BY <1>1
    <3>4. Bytes(239, 234) \in Seq(P)  BY <1>1
    <3>5. Bytes(232, 228) \in Seq(P)  BY <1>1
    <3>6. Bytes(226, 216) \in Seq(P)  BY <1>1
    <3>7. Bytes(210, 205) \in Seq(P)  BY <1>1
    <3>8. Bytes(203, 196) \in Seq(P)  BY <1>1
    <3>9. Bytes(169, 160) \in Seq(P)  BY <1>1
    <3> QED  BY <3>1, <3>2, <3>3, <3>4, <3>5, <3>6, <3>7, <3>8, <3>9
  <2> DEFINE s1 == Bytes(505, 491) \o A
             s2 == s1 \o Bytes(269, 264)
             s3 == s2 \o B
             s4 == s3 \o Bytes(248, 246)
             s5 == s4 \o C
             s6 == s5 \o Bytes(239, 234)
             s7 == s6 \o Bytes(232, 228)
             s8 == s7 \o Bytes(226, 216)
             s9 == s8 \o D
             s10 == s9 \o Bytes(210, 205)
             s11 == s10 \o Bytes(203, 196)
             s12 == s11 \o Odd
             s13 == s12 \o Bytes(169, 160)
             s14 == s13 \o E
  <2>3. dg_ext_csd_data = s14  BY DEF dg_ext_csd_data, A, B, C, D, E
  <2>4. s1 \in Seq(P)  BY <1>4, <2>1, <2>2
  <2>5. s2 \in Seq(P)
    <3> HIDE DEF s1
    <3> QED  BY <1>2, <1>4, <2>1, <2>2, <2>4 DEF s2
  <2>6. s3 \in Seq(P)
    <3> HIDE DEF s2
    <3> QED  BY <1>2, <1>4, <2>1, <2>2, <2>5 DEF s3
  <2>7. s4 \in Seq(P)
    <3> HIDE DEF s3
    <3> QED  BY <1>2, <1>4, <2>1, <2>2, <2>6 DEF s4
  <2>8. s5 \in Seq(P)
    <3> HIDE DEF s4
    <3> QED  BY <1>2, <1>4, <2>1, <2>2, <2>7 DEF s5
  <2>9. s6 \in Seq(P)
    <3> HIDE DEF s5
    <3> QED  BY <1>2, <1>4, <2>1, <2>2, <2>8 DEF s6
  <2>10. s7 \in Seq(P)
    <3> HIDE DEF s6
    <3> QED  BY <1>2, <1>4, <2>1, <2>2, <2>9 DEF s7
  <2>11. s8 \in Seq(P)
    <3> HIDE DEF s7
    <3> QED  BY <1>2, <1>4, <2>1, <2>2, <2>10 DEF s8
  <2>12. s9 \in Seq(P)
    <3> HIDE DEF s8
    <3> QED  BY <1>2, <1>4, <2>1, <2>2, <2>11 DEF s9
  <2>13. s10 \in Seq(P)
    <3> HIDE DEF s9
    <3> QED  BY <1>2, <1>4, <2>1, <2>2, <2>12 DEF s10
  <2>14. s11 \in Seq(P)
    <3> HIDE DEF s10
    <3> QED  BY <1>2, <1>4, <2>1, <2>2, <2>13 DEF s11
  <2>15. s12 \in Seq(P)
    <3> HIDE DEF s11
    <3> QED  BY <1>2, <1>4, <2>1, <2>2, <2>14 DEF s12
  <2>16. s13 \in Seq(P)
    <3> HIDE DEF s12
    <3> QED  BY <1>2, <1>4, <2>1, <2>2, <2>15 DEF s13
  <2>17. s14 \in Seq(P)
    <3> HIDE DEF s13
    <3> QED  BY <1>2, <1>4, <2>1, <2>2, <2>16 DEF s14
  <2> QED  BY <2>3, <2>17, Zenon
<1>6. Len(dg_ext_csd_data) = EXT_CSD_FIELD_MAX  BY TableSizes
<1> QED  BY <1>5, <1>6 DEF P

-----------------------------------------------------------------------------
(* The clock.                                                              *)

LEMMA Powers ==
  /\ 2^0 = 1 /\ 2^1 = 2 /\ 2^2 = 4 /\ 2^3 = 8 /\ 2^4 = 16 /\ 2^5 = 32 /\ 2^6 = 64 /\ 2^7 = 128
  /\ 2^8 = 256 /\ 2^9 = 512
BY SMT

\* TRAN_SPEED is what emmc_bit_field makes of the buffer.
LEMMA SpeedOfCsd ==
  ASSUME card \in Cards
  PROVE  EMMC_CSD_TRAN_SPEED("CSD") = card.tran
<1> DEFINE w == emmc_bit_field(Buffer("CSD"), 103, 96)
           n == card.tran
<1>1. n \in 0..127  BY CardAssumption
<1>2. Buffer("CSD") = emmc_read_response("CSD")  BY DEF Buffer
<1>3. ASSUME NEW b \in 0..7 PROVE w[b] = <<"CSD", 96 + b>>
  <2>1. b \in Word /\ 103 \in 0..127 /\ 96 \in Nat /\ 96 <= 103 /\ 103 - 96 < 8 /\ b < 103 - 96 + 1
        /\ 96 + b >= 8
    BY DEF Word
  <2>2. PICK top \in 0..127, bottom \in Nat: top = 103 /\ bottom = 96  OBVIOUS
  <2>3. emmc_bit_field(emmc_read_response("CSD"), top, bottom)[b] =
          IF b < top - bottom + 1 THEN BitOf("CSD", bottom + b) ELSE Zero
    BY <2>1, <2>2, FieldIs
  <2>4. w[b] = emmc_bit_field(emmc_read_response("CSD"), top, bottom)[b]  BY <1>2, <2>2
  <2> HIDE DEF w
  <2> QED  BY <2>1, <2>2, <2>3, <2>4 DEF BitOf
<1>4. ASSUME NEW b \in 0..7 PROVE <<"CSD", 96 + b>> \in Ones <=> (n \div 2^b) % 2 = 1
  <2>1. ASSUME NEW m, NEW low \in Nat
        PROVE  <<"CSD", 96 + b>> \in BitsOf(m, low) <=>
                 \E c \in 0..7: 96 + b = low + c /\ (m \div 2^c) % 2 = 1
    BY DEF BitsOf
  <2>2. <<"CSD", 96 + b>> \in BitsOf(card.spec, 122) <=>
          \E c \in 0..7: 96 + b = 122 + c /\ (card.spec \div 2^c) % 2 = 1
    BY <2>1
  <2>3. <<"CSD", 96 + b>> \in BitsOf(n, 96) <=> \E c \in 0..7: 96 + b = 96 + c /\ (n \div 2^c) % 2 = 1
    BY <2>1
  <2>4. \A c \in 0..7: 96 + b # 122 + c /\ (96 + b = 96 + c <=> b = c)  OBVIOUS
  <2> HIDE DEF n
  <2> QED  BY <2>2, <2>3, <2>4 DEF Ones, n
<1> HIDE DEF w, n
<1>5. \A b \in 0..7: Weight(w, Ones, b) = IF (n \div 2^b) % 2 = 1 THEN 2^b ELSE 0
  BY <1>3, <1>4 DEF Weight
<1> DEFINE W(b) == Weight(w, Ones, b)
<1>6. /\ W(0) = IF (n \div 1) % 2 = 1 THEN 1 ELSE 0
      /\ W(1) = IF (n \div 2) % 2 = 1 THEN 2 ELSE 0
      /\ W(2) = IF (n \div 4) % 2 = 1 THEN 4 ELSE 0
      /\ W(3) = IF (n \div 8) % 2 = 1 THEN 8 ELSE 0
      /\ W(4) = IF (n \div 16) % 2 = 1 THEN 16 ELSE 0
      /\ W(5) = IF (n \div 32) % 2 = 1 THEN 32 ELSE 0
      /\ W(6) = IF (n \div 64) % 2 = 1 THEN 64 ELSE 0
      /\ W(7) = IF (n \div 128) % 2 = 1 THEN 128 ELSE 0
  <2>1. /\ 0 \in 0..7 /\ 1 \in 0..7 /\ 2 \in 0..7 /\ 3 \in 0..7
        /\ 4 \in 0..7 /\ 5 \in 0..7 /\ 6 \in 0..7 /\ 7 \in 0..7
    OBVIOUS
  <2> QED  BY <1>5, <2>1, Powers
<1>7. Number(w, Ones) = W(0) + W(1) + W(2) + W(3) + W(4) + W(5) + W(6) + W(7)
  BY DEF Number
<1> HIDE DEF W
<1>8. W(0) + W(1) + W(2) + W(3) + W(4) + W(5) + W(6) + W(7) = n
  BY <1>1, <1>6
<1>9. Number(w, Ones) = n  BY <1>7, <1>8
<1> QED  BY <1>9 DEF EMMC_CSD_TRAN_SPEED, w, n

LEMMA FrequencyIs ==
  ASSUME NEW n \in 0..127
  PROVE  MaxFreq(n) \in Nat
<1>1. (n % 8) + 1 \in {1, 2, 3, 4, 5, 6, 7, 8}  OBVIOUS
<1>2. Unit[(n % 8) + 1] \in Nat  BY <1>1 DEF Unit
<1>3. ((n \div 8) % 16) + 1 \in {1, 2, 3, 4, 5, 6, 7, 8, 9, 10, 11, 12, 13, 14, 15, 16}  OBVIOUS
<1>4. Mult[((n \div 8) % 16) + 1] \in Nat  BY <1>3 DEF Mult
<1>5. \A x, y \in Nat: x * y * 10 \in Nat  OBVIOUS
<1> QED  BY <1>2, <1>4, <1>5 DEF MaxFreq

\* The speed chosen for a card is no more than its TRAN_SPEED, if that is more than
\* 400 kHz.
LEMMA SpeedFits ==
  ASSUME NEW n \in 0..127
  PROVE  /\ SpeedFor(n) \in {4, 8, 512}
         /\ 133000 \div SpeedFor(n) <= IF MaxFreq(n) > 400 THEN MaxFreq(n) ELSE 400
<1> DEFINE f == MaxFreq(n)
<1>1. f \in Nat  BY FrequencyIs
<1> HIDE DEF f
<1>2. CASE f >= 52000
  <2>1. (f >= 52000) /\ ~(f >= 26000 /\ f < 52000) /\ ~(f >= 20000 /\ f < 26000) /\ ~(f < 20000)
    BY <1>1, <1>2, SMT
  <2>2. SpeedFor(n) = 4  BY <2>1 DEF f, SpeedFor, MMC_52MHZ
  <2>3. SpeedFor(n) \in {4, 8, 512} /\ 133000 \div SpeedFor(n) <= IF f > 400 THEN f ELSE 400
    BY <1>1, <1>2, <2>2, SMT
  <2> QED  BY <2>3 DEF f
<1>3. CASE f >= 26000 /\ f < 52000
  <2>1. ~(f >= 52000) /\ (f >= 26000 /\ f < 52000) /\ ~(f >= 20000 /\ f < 26000) /\ ~(f < 20000)
    BY <1>1, <1>3, SMT
  <2>2. SpeedFor(n) = 8  BY <2>1 DEF f, SpeedFor, MMC_26MHZ
  <2>3. SpeedFor(n) \in {4, 8, 512} /\ 133000 \div SpeedFor(n) <= IF f > 400 THEN f ELSE 400
    BY <1>1, <1>3, <2>2, SMT
  <2> QED  BY <2>3 DEF f
<1>4. CASE f >= 20000 /\ f < 26000
  <2>1. ~(f >= 52000) /\ ~(f >= 26000 /\ f < 52000) /\ (f >= 20000 /\ f < 26000) /\ ~(f < 20000)
    BY <1>1, <1>4, SMT
  <2>2. SpeedFor(n) = 8  BY <2>1 DEF f, SpeedFor, MMC_20MHZ
  <2>3. SpeedFor(n) \in {4, 8, 512} /\ 133000 \div SpeedFor(n) <= IF f > 400 THEN f ELSE 400
    BY <1>1, <1>4, <2>2, SMT
  <2> QED  BY <2>3 DEF f
<1>5. CASE f < 20000
  <2>1. ~(f >= 52000) /\ ~(f >= 26000 /\ f < 52000) /\ ~(f >= 20000 /\ f < 26000) /\ (f < 20000)
    BY <1>1, <1>5, SMT
  <2>2. SpeedFor(n) = 512  BY <2>1 DEF f, SpeedFor, MMC_400KHZ
  <2>3. SpeedFor(n) \in {4, 8, 512} /\ 133000 \div SpeedFor(n) <= IF f > 400 THEN f ELSE 400
    BY <1>1, <1>5, <2>2, SMT
  <2> QED  BY <2>3 DEF f
<1> QED  BY <1>1, <1>2, <1>3, <1>4, <1>5, SMT DEF f

\* The controller waits for 2^28 cycles, whatever the divider.
LEMMA TimeoutIs == TimeoutFor(4) = 13 /\ TimeoutFor(8) = 12 /\ TimeoutFor(512) = 6
<1>1. \A t \in 6..14: t \in {6, 7, 8, 9, 10, 11, 12, 13, 14}  OBVIOUS
<1>2. /\ 2^(15 - 6) = 512 /\ 2^(15 - 7) = 256 /\ 2^(15 - 8) = 128 /\ 2^(15 - 9) = 64
      /\ 2^(15 - 10) = 32 /\ 2^(15 - 11) = 16 /\ 2^(15 - 12) = 8 /\ 2^(15 - 13) = 4 /\ 2^(15 - 14) = 2
  <2>1. /\ 15 - 6 = 9 /\ 15 - 7 = 8 /\ 15 - 8 = 7 /\ 15 - 9 = 6 /\ 15 - 10 = 5 /\ 15 - 11 = 4
        /\ 15 - 12 = 3 /\ 15 - 13 = 2 /\ 15 - 14 = 1
    OBVIOUS
  <2> QED  BY <2>1, Powers
<1>3. /\ \A t \in 6..14: 2^(15 - t) = 4 <=> t = 13
      /\ \A t \in 6..14: 2^(15 - t) = 8 <=> t = 12
      /\ \A t \in 6..14: 2^(15 - t) = 512 <=> t = 6
  BY <1>1, <1>2
<1>4. 13 \in 6..14 /\ 12 \in 6..14 /\ 6 \in 6..14  OBVIOUS
<1>5. /\ (CHOOSE t \in 6..14: 2^(15 - t) = 4) = 13
      /\ (CHOOSE t \in 6..14: 2^(15 - t) = 8) = 12
      /\ (CHOOSE t \in 6..14: 2^(15 - t) = 512) = 6
  BY <1>3, <1>4, SMT
<1> QED  BY <1>5 DEF TimeoutFor

LEMMA WaitsLong ==
  ASSUME NEW div \in {4, 8, 512}
  PROVE  2^(13 + TimeoutFor(div)) * div >= 2^28
<1>1. 2^(13 + 13) * 4 >= 2^28 /\ 2^(13 + 12) * 8 >= 2^28 /\ 2^(13 + 6) * 512 >= 2^28
  BY SMT
<1> DEFINE Long(t, d) == 2^(13 + t) * d >= 2^28
<1>2. Long(13, 4) /\ Long(12, 8) /\ Long(6, 512)  BY <1>1
<1> HIDE DEF Long
<1>3. Long(TimeoutFor(div), div)  BY <1>2, TimeoutIs
<1> QED  BY <1>3 DEF Long

-----------------------------------------------------------------------------
(* The steps of a command.                                                 *)

OnlyMount ==
  {"init", "clockId", "cmd0", "clockIdle", "cmd1", "cmd2", "cmd3", "cmd9", "cmd7", "clockCsd",
   "cmd16", "cmd8i", "cmd6hs", "clockHs", "cmd13hs", "cmd6bw", "cmd13bw", "cmd8bw"}
CommandSteps ==
  {"cmd6group", "cmd13group", "cmd8group", "cmd8", "index", "value", "cmd6", "cmd13", "cmd8user",
   "reread", "show"}
Steps == {"idle", "stop"} \cup OnlyMount \cup CommandSteps

\* Where After leads: no step occurs twice on the way of a command.
LEMMA NextStep ==
  ASSUME kind \in Kinds
  PROVE  /\ After("init") = "clockId" /\ After("clockId") = "cmd0" /\ After("cmd0") = "clockIdle"
         /\ After("clockIdle") = "cmd1" /\ After("cmd1") = "cmd2" /\ After("cmd2") = "cmd3"
         /\ After("cmd3") = "cmd9" /\ After("cmd9") = "cmd7" /\ After("cmd7") = "clockCsd"
         /\ After("clockCsd") = "cmd16" /\ After("cmd16") = "cmd8i" /\ After("cmd8i") = "cmd6hs"
         /\ After("cmd6hs") = "clockHs" /\ After("clockHs") = "cmd13hs" /\ After("cmd13hs") = "cmd6bw"
         /\ After("cmd6bw") = "cmd13bw" /\ After("cmd13bw") = "cmd8bw"
         /\ After("cmd8bw") = Head(CommandRoute(kind))
         /\ kind = "EM_DECSD" => After("cmd8") = "show"
         /\ kind = "EM_SECSD" =>
              /\ After("cmd6group") = "cmd13group" /\ After("cmd13group") = "cmd8group"
              /\ After("cmd8group") = "cmd8" /\ After("cmd8") = "index" /\ After("index") = "value"
              /\ After("value") = "cmd6" /\ After("cmd6") = "cmd13" /\ After("cmd13") = "cmd8user"
              /\ After("cmd8user") = "reread" /\ After("reread") = "show"
<1> DEFINE M == MountRoute
           C == CommandRoute(kind)
           L == Len(C)
           r == M \o C
<1>0. M \in Seq(Steps)  BY DEF MountRoute, Steps, OnlyMount
<1>1. C # << >> /\ C \in Seq(Steps)
  <2>1. CASE kind \in {"EM_DCID", "EM_DCSD"}
    <3>1. C = <<"show">>  BY <2>1 DEF CommandRoute
    <3>2. C # << >> /\ C \in Seq(Steps)
      <4> HIDE DEF C
      <4> QED  BY <3>1 DEF Steps, CommandSteps
    <3> QED  BY <3>2
  <2>2. CASE kind = "EM_DECSD"
    <3>1. C = <<"cmd8", "show">>  BY <2>2 DEF CommandRoute
    <3>2. C # << >> /\ C \in Seq(Steps)
      <4> HIDE DEF C
      <4> QED  BY <3>1 DEF Steps, CommandSteps
    <3> QED  BY <3>2
  <2>3. CASE kind = "EM_SECSD"
    <3>1. C = << "cmd6group", "cmd13group", "cmd8group", "cmd8", "index", "value",
                 "cmd6", "cmd13", "cmd8user", "reread", "show" >>
      BY <2>3 DEF CommandRoute
    <3>2. C # << >> /\ C \in Seq(Steps)
      <4> HIDE DEF C
      <4> QED  BY <3>1 DEF Steps, CommandSteps
    <3> QED  BY <3>2
  <2> HIDE DEF C
  <2> QED  BY <2>1, <2>2, <2>3 DEF Kinds
<1> HIDE DEF C, M, L
<1>2. /\ DOMAIN r = 1..(18 + L)
      /\ \A i \in 1..18: r[i] = M[i]
      /\ \A i \in 1..L: r[18 + i] = C[i]
  <2>1. Len(M) = 18  BY DEF M, MountRoute
  <2>2. Len(C) = L /\ L \in Nat  BY <1>1 DEF L
  <2>3. DOMAIN r = 1..(Len(M) + Len(C))  BY <1>0, <1>1
  <2>4. \A i \in 1..Len(M): r[i] = M[i]  BY <1>0, <1>1
  <2>5. \A i \in 1..Len(C): r[Len(M) + i] = C[i]  BY <1>0, <1>1
  <2> HIDE DEF r
  <2> QED  BY <2>1, <2>2, <2>3, <2>4, <2>5, Zenon
<1>3. /\ r[1] = "init" /\ r[2] = "clockId" /\ r[3] = "cmd0" /\ r[4] = "clockIdle" /\ r[5] = "cmd1"
      /\ r[6] = "cmd2" /\ r[7] = "cmd3" /\ r[8] = "cmd9" /\ r[9] = "cmd7" /\ r[10] = "clockCsd"
      /\ r[11] = "cmd16" /\ r[12] = "cmd8i" /\ r[13] = "cmd6hs" /\ r[14] = "clockHs"
      /\ r[15] = "cmd13hs" /\ r[16] = "cmd6bw" /\ r[17] = "cmd13bw" /\ r[18] = "cmd8bw"
  <2> HIDE DEF r
  <2> QED  BY <1>2 DEF M, MountRoute
<1>4. r[19] = C[1] /\ C[1] = Head(C)
  <2>1. L \in Nat /\ L >= 1  BY <1>1 DEF L
  <2>2. 1 \in 1..L /\ 18 + 1 = 19  BY <2>1
  <2>3. r[19] = C[1]  BY <1>2, <2>2
  <2> HIDE DEF r
  <2> QED  BY <1>1, <2>1, <2>3
<1>5. /\ kind = "EM_DECSD" => L = 2 /\ r[19] = "cmd8" /\ r[20] = "show"
      /\ kind = "EM_SECSD" =>
           /\ L = 11
           /\ r[19] = "cmd6group" /\ r[20] = "cmd13group" /\ r[21] = "cmd8group" /\ r[22] = "cmd8"
           /\ r[23] = "index" /\ r[24] = "value" /\ r[25] = "cmd6" /\ r[26] = "cmd13"
           /\ r[27] = "cmd8user" /\ r[28] = "reread" /\ r[29] = "show"
      /\ kind \in {"EM_DCID", "EM_DCSD"} => L = 1 /\ r[19] = "show"
  <2>1. /\ 18 + 1 = 19 /\ 18 + 2 = 20 /\ 18 + 3 = 21 /\ 18 + 4 = 22 /\ 18 + 5 = 23 /\ 18 + 6 = 24
        /\ 18 + 7 = 25 /\ 18 + 8 = 26 /\ 18 + 9 = 27 /\ 18 + 10 = 28 /\ 18 + 11 = 29
    OBVIOUS
  <2> HIDE DEF r
  <2>2. CASE kind = "EM_DECSD"
    <3>1. C = <<"cmd8", "show">>  BY <2>2 DEF C, CommandRoute
    <3>2. L = 2  BY <3>1 DEF L
    <3>3. \A i \in 1..2: r[18 + i] = C[i]  BY <1>2, <3>2
    <3> QED  BY <2>1, <2>2, <3>1, <3>2, <3>3
  <2>3. CASE kind = "EM_SECSD"
    <3>1. C = << "cmd6group", "cmd13group", "cmd8group", "cmd8", "index", "value",
                 "cmd6", "cmd13", "cmd8user", "reread", "show" >>
      BY <2>3 DEF C, CommandRoute
    <3>2. L = 11  BY <3>1 DEF L
    <3>3. \A i \in 1..11: r[18 + i] = C[i]  BY <1>2, <3>2
    <3> QED  BY <2>1, <2>3, <3>1, <3>2, <3>3
  <2>4. CASE kind \in {"EM_DCID", "EM_DCSD"}
    <3>1. C = <<"show">>  BY <2>4 DEF C, CommandRoute
    <3>2. L = 1  BY <3>1 DEF L
    <3>3. \A i \in 1..1: r[18 + i] = C[i]  BY <1>2, <3>2
    <3> QED  BY <2>1, <2>4, <3>1, <3>2, <3>3
  <2> QED  BY <2>2, <2>3, <2>4 DEF Kinds
<1> DEFINE at == [init |-> 1, clockId |-> 2, cmd0 |-> 3, clockIdle |-> 4, cmd1 |-> 5, cmd2 |-> 6,
                  cmd3 |-> 7, cmd9 |-> 8, cmd7 |-> 9, clockCsd |-> 10, cmd16 |-> 11, cmd8i |-> 12,
                  cmd6hs |-> 13, clockHs |-> 14, cmd13hs |-> 15, cmd6bw |-> 16, cmd13bw |-> 17,
                  cmd8bw |-> 18, cmd6group |-> 19, cmd13group |-> 20, cmd8group |-> 21,
                  cmd8 |-> IF kind = "EM_DECSD" THEN 19 ELSE 22, index |-> 23, value |-> 24,
                  cmd6 |-> 25, cmd13 |-> 26, cmd8user |-> 27, reread |-> 28,
                  show |-> IF kind = "EM_SECSD" THEN 29 ELSE IF kind = "EM_DECSD" THEN 20 ELSE 19]
<1> HIDE DEF r
<1>6. \A i \in DOMAIN r: at[r[i]] = i
  <2> SUFFICES ASSUME NEW i \in DOMAIN r PROVE at[r[i]] = i  OBVIOUS
  <2>1. CASE i <= 9
    <3>1. i \in {1, 2, 3, 4, 5, 6, 7, 8, 9}  BY <1>2, <2>1
    <3> QED  BY <1>3, <3>1
  <2>2. CASE i \in 10..18
    <3>1. i \in {10, 11, 12, 13, 14, 15, 16, 17, 18}  BY <2>2
    <3> QED  BY <1>3, <3>1
  <2>3. CASE i > 18
    <3>1. CASE kind = "EM_DECSD"
      <4>1. i \in {19, 20}  BY <1>2, <1>5, <2>3, <3>1
      <4> QED  BY <1>5, <3>1, <4>1
    <3>2. CASE kind = "EM_SECSD"
      <4>1. i \in {19, 20, 21, 22, 23, 24, 25, 26, 27, 28, 29}  BY <1>2, <1>5, <2>3, <3>2
      <4> QED  BY <1>5, <3>2, <4>1
    <3>3. CASE kind \in {"EM_DCID", "EM_DCSD"}
      <4>1. i = 19  BY <1>2, <1>5, <2>3, <3>3
      <4> QED  BY <1>5, <3>3, <4>1
    <3> QED  BY <3>1, <3>2, <3>3 DEF Kinds
  <2> QED
    <3>1. i \in Nat /\ i >= 1  BY <1>2
    <3>2. i <= 9 \/ i \in 10..18 \/ i > 18  BY <3>1
    <3> QED  BY <2>1, <2>2, <2>3, <3>2
<1> HIDE DEF at
<1>7. ASSUME NEW i \in DOMAIN r PROVE After(r[i]) = r[1 + i]
  <2>1. \A j \in DOMAIN r: r[j] = r[i] => j = i  BY <1>6
  <2>2. (CHOOSE j \in DOMAIN r: r[j] = r[i]) = i  BY <2>1, Zenon
  <2>3. After(r[i]) = r[1 + (CHOOSE j \in DOMAIN r: r[j] = r[i])]  BY DEF After, r, M, C
  <2> QED  BY <2>2, <2>3, Zenon
<1>8. \A i \in 1..18: i \in DOMAIN r
  <2>1. L \in Nat  BY <1>1 DEF L
  <2> QED  BY <1>2, <2>1
<1>9. /\ kind = "EM_DECSD" => 19 \in DOMAIN r
      /\ kind = "EM_SECSD" => \A i \in 19..28: i \in DOMAIN r
  BY <1>2, <1>5
<1>10. /\ 1 + 1 = 2 /\ 1 + 2 = 3 /\ 1 + 3 = 4 /\ 1 + 4 = 5 /\ 1 + 5 = 6 /\ 1 + 6 = 7 /\ 1 + 7 = 8
       /\ 1 + 8 = 9 /\ 1 + 9 = 10 /\ 1 + 10 = 11 /\ 1 + 11 = 12 /\ 1 + 12 = 13 /\ 1 + 13 = 14
       /\ 1 + 14 = 15 /\ 1 + 15 = 16 /\ 1 + 16 = 17 /\ 1 + 17 = 18 /\ 1 + 18 = 19
       /\ 1 + 19 = 20 /\ 1 + 20 = 21 /\ 1 + 21 = 22 /\ 1 + 22 = 23 /\ 1 + 23 = 24 /\ 1 + 24 = 25
       /\ 1 + 25 = 26 /\ 1 + 26 = 27 /\ 1 + 27 = 28 /\ 1 + 28 = 29
  OBVIOUS
<1>11. \A i \in 1..18: After(r[i]) = r[1 + i]  BY <1>7, <1>8
<1>12. /\ After("init") = "clockId" /\ After("clockId") = "cmd0" /\ After("cmd0") = "clockIdle"
       /\ After("clockIdle") = "cmd1" /\ After("cmd1") = "cmd2" /\ After("cmd2") = "cmd3"
       /\ After("cmd3") = "cmd9" /\ After("cmd9") = "cmd7" /\ After("cmd7") = "clockCsd"
  BY <1>3, <1>10, <1>11
<1>13. /\ After("clockCsd") = "cmd16" /\ After("cmd16") = "cmd8i" /\ After("cmd8i") = "cmd6hs"
       /\ After("cmd6hs") = "clockHs" /\ After("clockHs") = "cmd13hs" /\ After("cmd13hs") = "cmd6bw"
       /\ After("cmd6bw") = "cmd13bw" /\ After("cmd13bw") = "cmd8bw" /\ After("cmd8bw") = Head(C)
  BY <1>3, <1>4, <1>10, <1>11
<1>14. kind = "EM_DECSD" => After("cmd8") = "show"
  BY <1>5, <1>7, <1>9, <1>10
<1>15. ASSUME kind = "EM_SECSD"
       PROVE  /\ After("cmd6group") = "cmd13group" /\ After("cmd13group") = "cmd8group"
              /\ After("cmd8group") = "cmd8" /\ After("cmd8") = "index" /\ After("index") = "value"
              /\ After("value") = "cmd6" /\ After("cmd6") = "cmd13" /\ After("cmd13") = "cmd8user"
              /\ After("cmd8user") = "reread" /\ After("reread") = "show"
  <2>1. \A i \in 19..28: After(r[i]) = r[1 + i]  BY <1>7, <1>9, <1>15
  <2> QED  BY <1>5, <1>10, <1>15, <2>1
<1> QED  BY <1>12, <1>13, <1>14, <1>15 DEF C

-----------------------------------------------------------------------------
(* The invariant.                                                          *)

\* Where a command may be: what its kind has on its way, and the mount only before
\* emmcInit.
CardTypes ==
  /\ pc \in Steps
  /\ pc # "idle" => kind \in Kinds /\ outcome = "none"
  /\ pc \in CommandSteps \ {"cmd8", "show"} => kind = "EM_SECSD"
  /\ pc = "cmd8" => kind \in {"EM_DECSD", "EM_SECSD"}
  /\ emmcInit \in BOOLEAN
  /\ emmcInit => pc \in CommandSteps \cup {"idle"}
  /\ ~emmcInit => pc \notin CommandSteps
  /\ card \in Cards

\* What the driver holds of CID and CSD: each from the command that reads it.
AfterCid == {"cmd3", "cmd9", "cmd7", "clockCsd", "cmd16", "cmd8i", "cmd6hs", "clockHs",
             "cmd13hs", "cmd6bw", "cmd13bw", "cmd8bw"}
AfterCsd == AfterCid \ {"cmd3", "cmd9"}
RegistersRead ==
  /\ emmcInit \/ pc \in AfterCid => cid = "CID"
  /\ emmcInit \/ pc \in AfterCsd => csd = "CSD"

\* What is on the screen; EXT_CSD was read just before, and the card is left alone
\* while it is shown.
ScreenInv ==
  /\ shown.table = "CID" => shown.from = "CID"
  /\ shown.table = "CSD" => shown.from = "CSD"
  /\ shown.table = "EXT_CSD" => pc = "idle" /\ (~dropped => shown.from = ReadOf(cExt))
  /\ pc = "show" /\ kind \in {"EM_DECSD", "EM_SECSD"} /\ ~dropped => ext = ReadOf(cExt)

\* What EM_SECSD asked for, from the prompts on, and what the card has after its CMD6.
TypedIndex == {"value", "cmd6", "cmd13", "cmd8user", "reread", "show"}
TypedValue == TypedIndex \ {"value"}
IsSet == request.index \in DOMAIN cExt /\ cExt[request.index] = request.value
SwitchInv ==
  /\ \A i \in DOMAIN cExt: <<i, cExt[i]>> \in wanted
  /\ kind = "EM_SECSD" /\ pc \in TypedIndex => request.index \in extCsdWriteIndex
  /\ kind = "EM_SECSD" /\ pc \in TypedValue => request.value \in Values
  /\ DOMAIN request = {"index", "value"}
  /\ kind = "EM_SECSD" /\ (pc \in {"cmd8user", "reread", "show"} \/ (pc = "cmd13" /\ ~cRefused)) => IsSet
  /\ kind = "EM_SECSD" /\ outcome = "complete" =>
       IsSet /\ (~dropped => shown.from = <<"set", request.value>>)

\* The clock: slow while the card is identified, then as its CSD has it, then as its
\* EXT_CSD has it.
Slow   == {"cmd0", "clockIdle", "cmd1", "cmd2", "cmd3", "cmd9", "cmd7", "clockCsd"}
Fitted == {"cmd16", "cmd8i", "cmd6hs", "clockHs"}
Fast   == {"cmd13hs", "cmd6bw", "cmd13bw", "cmd8bw"}
ClockInv ==
  /\ enable \in BOOLEAN
  /\ enable => clkctrl.on /\ clkctrl.div = current
  /\ pc = "clockId" => ~enable
  /\ pc \in Slow => current = 512
  /\ pc \in Fitted => current = SpeedFor(card.tran) /\ timeout = TimeoutFor(current)
  /\ emmcInit \/ pc \in Fast =>
       /\ current \in {4, 8} /\ (current = 4 => 52 \in card.type)
       /\ timeout = TimeoutFor(current)

\* The timing of the card: as after CMD0 until CMD6, then high speed; a card that has
\* no such mode goes no further than the status it answers to that CMD6.
SpeedInv ==
  /\ pc \in (Slow \ {"cmd0"}) \cup {"cmd16", "cmd8i", "cmd6hs"} => HS_TIMING \notin DOMAIN cExt
  /\ pc \in {"clockHs", "cmd13hs"} /\ card.type = {} => cRefused
  /\ emmcInit \/ pc \in Fast \ {"cmd13hs"} => card.type # {}
  /\ emmcInit \/ pc \in {"clockHs"} \cup Fast => card.type = {} \/ InHighSpeed \/ Overridden

CardInv ==
  CardTypes /\ RegistersRead /\ ScreenInv /\ SwitchInv /\ ClockInv /\ SpeedInv

-----------------------------------------------------------------------------
(* Where a step leads.                                                     *)

LEMMA MountIs == MountSteps = OnlyMount
<1> DEFINE M == MountRoute
<1>1. DOMAIN M = 1..18
  <2>1. M \in Seq(Steps) /\ Len(M) = 18  BY DEF MountRoute, Steps, OnlyMount
  <2> HIDE DEF M
  <2> QED  BY <2>1
<1>2. /\ M[1] = "init" /\ M[2] = "clockId" /\ M[3] = "cmd0" /\ M[4] = "clockIdle" /\ M[5] = "cmd1"
      /\ M[6] = "cmd2" /\ M[7] = "cmd3" /\ M[8] = "cmd9" /\ M[9] = "cmd7" /\ M[10] = "clockCsd"
      /\ M[11] = "cmd16" /\ M[12] = "cmd8i" /\ M[13] = "cmd6hs" /\ M[14] = "clockHs"
      /\ M[15] = "cmd13hs" /\ M[16] = "cmd6bw" /\ M[17] = "cmd13bw" /\ M[18] = "cmd8bw"
  BY DEF MountRoute
<1> HIDE DEF M
<1>3. \A i \in DOMAIN M: i \in {1, 2, 3, 4, 5, 6, 7, 8, 9} \/ i \in {10, 11, 12, 13, 14, 15, 16, 17, 18}
  BY <1>1
<1>4. \A i \in DOMAIN M: M[i] \in OnlyMount
  <2> SUFFICES ASSUME NEW i \in DOMAIN M PROVE M[i] \in OnlyMount  OBVIOUS
  <2>1. CASE i \in {1, 2, 3, 4, 5, 6, 7, 8, 9}  BY <1>2, <2>1 DEF OnlyMount
  <2>2. CASE i \in {10, 11, 12, 13, 14, 15, 16, 17, 18}  BY <1>2, <2>2 DEF OnlyMount
  <2> QED  BY <1>3, <2>1, <2>2
<1>5. \A i \in 1..18: M[i] \in MountSteps  BY <1>1 DEF MountSteps, Range, M
<1>6. \A s \in OnlyMount: s \in MountSteps  BY <1>2, <1>5 DEF OnlyMount
<1>7. MountSteps = {M[i]: i \in DOMAIN M}  BY DEF MountSteps, Range, M
<1> QED  BY <1>4, <1>6, <1>7

\* The first step of a command's own.
First(k) == CASE k \in {"EM_DCID", "EM_DCSD"} -> "show"
              [] k = "EM_DECSD" -> "cmd8"
              [] k = "EM_SECSD" -> "cmd6group"

LEMMA FirstIs ==
  ASSUME NEW k \in Kinds
  PROVE  Head(CommandRoute(k)) = First(k)
<1>1. CASE k \in {"EM_DCID", "EM_DCSD"}  BY <1>1 DEF CommandRoute, First
<1>2. CASE k = "EM_DECSD"  BY <1>2 DEF CommandRoute, First
<1>3. CASE k = "EM_SECSD"  BY <1>3 DEF CommandRoute, First
<1> QED  BY <1>1, <1>2, <1>3 DEF Kinds

\* Where a command that goes on comes to.
Onward ==
  /\ pc = "init" => pc' = "clockId"
  /\ pc = "clockId" => pc' = "cmd0"
  /\ pc = "cmd0" => pc' = "clockIdle"
  /\ pc = "clockIdle" => pc' = "cmd1"
  /\ pc = "cmd1" => pc' = "cmd2"
  /\ pc = "cmd2" => pc' = "cmd3"
  /\ pc = "cmd3" => pc' = "cmd9"
  /\ pc = "cmd9" => pc' = "cmd7"
  /\ pc = "cmd7" => pc' = "clockCsd"
  /\ pc = "clockCsd" => pc' = "cmd16"
  /\ pc = "cmd16" => pc' = "cmd8i"
  /\ pc = "cmd8i" => pc' = "cmd6hs"
  /\ pc = "cmd6hs" => pc' = "clockHs"
  /\ pc = "clockHs" => pc' = "cmd13hs"
  /\ pc = "cmd13hs" => pc' = "cmd6bw"
  /\ pc = "cmd6bw" => pc' = "cmd13bw"
  /\ pc = "cmd13bw" => pc' = "cmd8bw"
  /\ pc = "cmd8bw" /\ kind \in {"EM_DCID", "EM_DCSD"} => pc' = "show"
  /\ pc = "cmd8bw" /\ kind = "EM_DECSD" => pc' = "cmd8"
  /\ pc = "cmd8bw" /\ kind = "EM_SECSD" => pc' = "cmd6group"
  /\ pc = "cmd8" /\ kind = "EM_DECSD" => pc' = "show"
  /\ pc = "cmd6group" => pc' = "cmd13group"
  /\ pc = "cmd13group" => pc' = "cmd8group"
  /\ pc = "cmd8group" => pc' = "cmd8"
  /\ pc = "cmd8" /\ kind = "EM_SECSD" => pc' = "index"
  /\ pc = "index" => pc' = "value"
  /\ pc = "value" => pc' = "cmd6"
  /\ pc = "cmd6" => pc' = "cmd13"
  /\ pc = "cmd13" => pc' = "cmd8user"
  /\ pc = "cmd8user" => pc' = "reread"
  /\ pc = "reread" => pc' = "show"

LEMMA Advances ==
  ASSUME CardTypes, Advance, pc # "idle"
  PROVE  Onward
<1>1. kind \in Kinds /\ pc' = After(pc)  BY DEF CardTypes, Advance
<1>2. pc \in {"cmd6group", "cmd13group", "cmd8group", "index", "value", "cmd6", "cmd13", "cmd8user", "reread"}
        => kind = "EM_SECSD"
  BY DEF CardTypes, CommandSteps
<1>3. Head(CommandRoute(kind)) = First(kind)  BY <1>1, FirstIs
<1>4. /\ kind \in {"EM_DCID", "EM_DCSD"} => First(kind) = "show"
      /\ kind = "EM_DECSD" => First(kind) = "cmd8"
      /\ kind = "EM_SECSD" => First(kind) = "cmd6group"
  BY DEF First
<1>5. /\ After("init") = "clockId" /\ After("clockId") = "cmd0" /\ After("cmd0") = "clockIdle"
      /\ After("clockIdle") = "cmd1" /\ After("cmd1") = "cmd2" /\ After("cmd2") = "cmd3"
      /\ After("cmd3") = "cmd9" /\ After("cmd9") = "cmd7" /\ After("cmd7") = "clockCsd"
      /\ After("clockCsd") = "cmd16" /\ After("cmd16") = "cmd8i" /\ After("cmd8i") = "cmd6hs"
      /\ After("cmd6hs") = "clockHs" /\ After("clockHs") = "cmd13hs" /\ After("cmd13hs") = "cmd6bw"
      /\ After("cmd6bw") = "cmd13bw" /\ After("cmd13bw") = "cmd8bw"
      /\ After("cmd8bw") = Head(CommandRoute(kind))
      /\ kind = "EM_DECSD" => After("cmd8") = "show"
  BY <1>1, NextStep
<1>6. kind = "EM_SECSD" =>
        /\ After("cmd6group") = "cmd13group" /\ After("cmd13group") = "cmd8group"
        /\ After("cmd8group") = "cmd8" /\ After("cmd8") = "index" /\ After("index") = "value"
        /\ After("value") = "cmd6" /\ After("cmd6") = "cmd13" /\ After("cmd13") = "cmd8user"
        /\ After("cmd8user") = "reread" /\ After("reread") = "show"
  BY <1>1, NextStep
<1> QED  BY <1>1, <1>2, <1>3, <1>4, <1>5, <1>6 DEF Onward

\* Where a command that gives up comes to.
LEMMA Leaves ==
  ASSUME Abandon
  PROVE  /\ pc \in OnlyMount => pc' = "stop" /\ outcome' = outcome
         /\ pc \notin OnlyMount => pc' = "idle" /\ outcome' = "error"
BY MountIs DEF Abandon

-----------------------------------------------------------------------------
(* The way of a command.                                                   *)

LEMMA TypesInit == Init => CardTypes
BY DEF Init, CardTypes, Steps, CommandSteps, OnlyMount

\* A step on the way, with what it leaves alone.
LEMMA OnTheWay ==
  ASSUME CardTypes, pc \in Commands \cup ClockSteps \cup {"init", "index", "value"},
         UNCHANGED <<kind, card>>, emmcInit' = (emmcInit \/ pc = "cmd8bw"),
         Advance, UNCHANGED outcome
  PROVE  CardTypes'
<1>1. pc # "idle" /\ pc # "show" /\ pc # "stop"
  BY DEF Commands, ClockSteps, Identify, Switches, Statuses, Reads
<1>2. Onward  BY <1>1, Advances
<1>3. kind \in Kinds /\ outcome = "none"  BY <1>1 DEF CardTypes
<1>4. kind' \in Kinds /\ outcome' = "none" /\ card' \in Cards /\ emmcInit' \in BOOLEAN
  BY <1>3 DEF CardTypes
<1>5. CASE pc \in OnlyMount \ {"cmd8bw"}
  <2>1. pc' \in OnlyMount /\ emmcInit' = FALSE /\ emmcInit = FALSE
    BY <1>2, <1>5 DEF Onward, OnlyMount, CardTypes, CommandSteps
  <2> QED  BY <1>4, <2>1 DEF CardTypes, OnlyMount, CommandSteps, Steps
<1>6. CASE pc = "cmd8bw"
  <2>1. emmcInit' = TRUE  BY <1>6
  <2>2. pc' = First(kind)  BY <1>2, <1>3, <1>6 DEF Onward, First, Kinds
  <2> QED  BY <1>2, <1>3, <1>4, <1>6, <2>1 DEF Onward, CardTypes, OnlyMount, CommandSteps, Steps, Kinds
<1>7. CASE pc \in CommandSteps
  <2>1. emmcInit' = TRUE /\ kind' = kind /\ (pc # "cmd8" => kind = "EM_SECSD")
    BY <1>1, <1>7 DEF CardTypes
  <2>2. pc = "cmd8" => kind \in {"EM_DECSD", "EM_SECSD"}  BY DEF CardTypes
  <2>3. pc' \in CommandSteps /\ (pc' # "show" => kind = "EM_SECSD")
    BY <1>1, <1>2, <1>7, <2>1, <2>2 DEF Onward, CommandSteps
  <2> QED  BY <1>4, <2>1, <2>3 DEF CardTypes, CommandSteps, Steps
<1> QED  BY <1>1, <1>5, <1>6, <1>7 DEF CardTypes, Steps

\* A step off it.
LEMMA OffTheWay ==
  ASSUME CardTypes, pc # "idle", UNCHANGED <<kind, card, emmcInit>>, Abandon
  PROVE  CardTypes'
<1>1. kind \in Kinds /\ outcome = "none"  BY DEF CardTypes
<1>2. CASE pc \in OnlyMount
  <2>1. pc' = "stop" /\ outcome' = "none"  BY <1>1, <1>2, Leaves
  <2>2. emmcInit = FALSE  BY <1>2 DEF CardTypes, OnlyMount, CommandSteps
  <2> QED  BY <1>1, <2>1, <2>2 DEF CardTypes, Steps, CommandSteps
<1>3. CASE pc \notin OnlyMount
  <2>1. pc' = "idle"  BY <1>3, Leaves
  <2> QED  BY <1>1, <2>1 DEF CardTypes, Steps, CommandSteps
<1> QED  BY <1>2, <1>3

LEMMA TypesStep ==
  ASSUME CardTypes, [Next]_vars
  PROVE  CardTypes'
<1>1. ASSUME NEW k \in Kinds, Type(k) PROVE CardTypes'
  <2>1. kind' = k /\ outcome' = "none" /\ emmcInit' = emmcInit /\ card' = card  BY <1>1 DEF Type, driver, device
  <2>2. CASE emmcInit
    <3>1. pc' = First(k)  BY <1>1, <2>2, FirstIs DEF Type
    <3>2. \/ pc' = "show"
          \/ pc' = "cmd8" /\ k = "EM_DECSD"
          \/ pc' = "cmd6group" /\ k = "EM_SECSD"
      <4>1. CASE k \in {"EM_DCID", "EM_DCSD"}  BY <3>1, <4>1 DEF First
      <4>2. CASE k = "EM_DECSD"  BY <3>1, <4>2 DEF First
      <4>3. CASE k = "EM_SECSD"  BY <3>1, <4>3 DEF First
      <4> QED  BY <4>1, <4>2, <4>3 DEF Kinds
    <3> QED  BY <2>1, <2>2, <3>2 DEF CardTypes, CommandSteps, Steps
  <2>3. CASE ~emmcInit
    <3>1. pc' = "init"  BY <1>1, <2>3 DEF Type
    <3> QED  BY <2>1, <2>3, <3>1 DEF CardTypes, CommandSteps, OnlyMount, Steps
  <2> QED  BY <2>2, <2>3
<1>2. ASSUME EmmcInit PROVE CardTypes'
  <2>1. pc = "init" /\ UNCHANGED <<kind, card, emmcInit>>  BY <1>2 DEF EmmcInit, device
  <2>2. CASE Abandon  BY <2>1, <2>2, OffTheWay
  <2>3. CASE Advance /\ UNCHANGED outcome
    <3>1. emmcInit' = (emmcInit \/ pc = "cmd8bw")  BY <2>1 DEF CardTypes
    <3> QED  BY <2>1, <2>3, <3>1, OnTheWay
  <2> QED  BY <1>2, <2>2, <2>3 DEF EmmcInit
<1>3. ASSUME SetClock PROVE CardTypes'
  <2>1. pc \in ClockSteps /\ UNCHANGED <<kind, card, emmcInit>>  BY <1>3 DEF SetClock, device
  <2>2. CASE Abandon
    <3>1. pc # "idle"  BY <2>1 DEF ClockSteps
    <3> QED  BY <2>1, <2>2, <3>1, OffTheWay
  <2>3. CASE Advance /\ UNCHANGED outcome
    <3>1. emmcInit' = (emmcInit \/ pc = "cmd8bw")  BY <2>1 DEF CardTypes, ClockSteps
    <3> QED  BY <2>1, <2>3, <3>1, OnTheWay
  <2> QED  BY <1>3, <2>2, <2>3 DEF SetClock
<1>4. ASSUME StopClock PROVE CardTypes'
  BY <1>4 DEF StopClock, device, CardTypes, CommandSteps, Steps
<1>5. ASSUME NEW i \in Indexes, InputIndex(i) PROVE CardTypes'
  <2>1. pc = "index" /\ UNCHANGED <<kind, card, emmcInit, outcome>>  BY <1>5 DEF InputIndex, device, driver
  <2>2. CASE Advance
    <3>1. emmcInit' = (emmcInit \/ pc = "cmd8bw")  BY <2>1 DEF CardTypes
    <3> QED  BY <2>1, <2>2, <3>1, OnTheWay
  <2>3. CASE pc' = pc  BY <2>1, <2>3 DEF CardTypes
  <2> QED  BY <1>5, <2>2, <2>3 DEF InputIndex
<1>6. ASSUME NEW v \in Values, InputValue(v) PROVE CardTypes'
  <2>1. pc = "value" /\ UNCHANGED <<kind, card, emmcInit, outcome>>  BY <1>6 DEF InputValue, device, driver
  <2>2. CASE Advance
    <3>1. emmcInit' = (emmcInit \/ pc = "cmd8bw")  BY <2>1 DEF CardTypes
    <3> QED  BY <2>1, <2>2, <3>1, OnTheWay
  <2>3. CASE pc' = pc  BY <2>1, <2>3 DEF CardTypes
  <2> QED  BY <1>6, <2>2, <2>3 DEF InputValue
<1>7. ASSUME Cancel PROVE CardTypes'
  BY <1>7 DEF Cancel, device, driver, CardTypes, CommandSteps, Steps
<1>8. ASSUME Show PROVE CardTypes'
  BY <1>8 DEF Show, device, driver, CardTypes, CommandSteps, Steps
<1>9. ASSUME Succeeds PROVE CardTypes'
  <2>1. pc \in Commands /\ UNCHANGED <<kind, card>> /\ emmcInit' = (emmcInit \/ pc = "cmd8bw")
    BY <1>9 DEF Succeeds
  <2>2. pc # "idle"  BY <2>1 DEF Commands, Identify, Switches, Statuses, Reads
  <2>3. CASE pc = "cmd9" /\ Abandon
    <3>1. emmcInit' = emmcInit  BY <2>1, <2>3 DEF CardTypes
    <3> QED  BY <2>1, <2>2, <2>3, <3>1, OffTheWay
  <2>4. CASE Advance /\ UNCHANGED outcome  BY <2>1, <2>4, OnTheWay
  <2> QED  BY <1>9, <2>3, <2>4 DEF Succeeds
<1>10. ASSUME Fails PROVE CardTypes'
  <2>1. pc \in Commands /\ UNCHANGED <<kind, card, emmcInit>> /\ Abandon  BY <1>10 DEF Fails
  <2>2. pc # "idle"  BY <2>1 DEF Commands, Identify, Switches, Statuses, Reads
  <2> QED  BY <2>1, <2>2, OffTheWay
<1>11. CASE UNCHANGED vars
  BY <1>11 DEF vars, monitor, driver, device, CardTypes
<1> QED  BY <1>1, <1>2, <1>3, <1>4, <1>5, <1>6, <1>7, <1>8, <1>9, <1>10, <1>11 DEF Next

-----------------------------------------------------------------------------
(* The registers in the buffers.                                           *)

LEMMA ReadInit == Init => RegistersRead
BY DEF Init, RegistersRead, AfterCid, AfterCsd

\* A command that gives up leaves the mount or the monitor behind.
LEMMA LeftIs ==
  ASSUME CardTypes, Abandon
  PROVE  pc' = "stop" \/ pc' = "idle"
BY Leaves

\* A command to the card does not wait at the prompt, nor does it show anything.
LEMMA CommandIs ==
  ASSUME pc \in Commands
  PROVE  pc \notin {"idle", "show", "stop", "init", "index", "value"} \cup ClockSteps
BY DEF Commands, Identify, Switches, Statuses, Reads, ClockSteps

LEMMA ReadStep ==
  ASSUME CardTypes, RegistersRead, [Next]_vars
  PROVE  RegistersRead'
<1>1. ASSUME NEW k \in Kinds, Type(k) PROVE RegistersRead'
  <2>1. UNCHANGED <<emmcInit, cid, csd>>  BY <1>1 DEF Type, driver
  <2>2. ~emmcInit => pc' = "init"  BY <1>1 DEF Type
  <2> QED  BY <2>1, <2>2 DEF RegistersRead, AfterCid, AfterCsd, CardTypes
<1>2. ASSUME EmmcInit PROVE RegistersRead'
  <2>1. pc = "init" /\ emmcInit' = FALSE  BY <1>2 DEF EmmcInit, CardTypes, CommandSteps
  <2>2. pc' \in {"stop", "idle", "clockId"}
    <3>1. CASE Abandon  BY <3>1, LeftIs
    <3>2. CASE Advance  BY <2>1, <3>2, Advances DEF Onward
    <3> QED  BY <1>2, <3>1, <3>2 DEF EmmcInit
  <2> QED  BY <2>1, <2>2 DEF RegistersRead, AfterCid, AfterCsd
<1>3. ASSUME SetClock PROVE RegistersRead'
  <2>1. pc \in ClockSteps /\ UNCHANGED <<emmcInit, cid, csd>>  BY <1>3 DEF SetClock
  <2>2. CASE Abandon
    <3>1. pc' = "stop" \/ pc' = "idle"  BY <2>2, LeftIs
    <3> QED  BY <2>1, <3>1 DEF RegistersRead, AfterCid, AfterCsd
  <2>3. CASE Advance
    <3>1. Onward  BY <2>1, <2>3, Advances DEF ClockSteps
    <3> QED  BY <2>1, <3>1 DEF Onward, ClockSteps, RegistersRead, AfterCid, AfterCsd
  <2> QED  BY <1>3, <2>2, <2>3 DEF SetClock
<1>4. ASSUME StopClock PROVE RegistersRead'
  BY <1>4 DEF StopClock, RegistersRead, AfterCid, AfterCsd
<1>5. ASSUME NEW i \in Indexes, InputIndex(i) PROVE RegistersRead'
  <2>1. emmcInit = TRUE /\ UNCHANGED <<emmcInit, cid, csd>>
    BY <1>5 DEF InputIndex, driver, CardTypes, CommandSteps
  <2> QED  BY <2>1 DEF RegistersRead
<1>6. ASSUME NEW v \in Values, InputValue(v) PROVE RegistersRead'
  <2>1. emmcInit = TRUE /\ UNCHANGED <<emmcInit, cid, csd>>
    BY <1>6 DEF InputValue, driver, CardTypes, CommandSteps
  <2> QED  BY <2>1 DEF RegistersRead
<1>7. ASSUME Cancel PROVE RegistersRead'
  BY <1>7 DEF Cancel, driver, RegistersRead, AfterCid, AfterCsd
<1>8. ASSUME Show PROVE RegistersRead'
  BY <1>8 DEF Show, driver, RegistersRead, AfterCid, AfterCsd
<1>9. ASSUME Succeeds PROVE RegistersRead'
  <2>1. pc \in Commands /\ emmcInit' = (emmcInit \/ pc = "cmd8bw") /\ Stored(pc)  BY <1>9 DEF Succeeds
  <2>2. cid' = (IF pc = "cmd2" THEN "CID" ELSE cid) /\ csd' = (IF pc = "cmd9" THEN "CSD" ELSE csd)
    BY <2>1 DEF Stored
  <2>3. CASE pc = "cmd9" /\ Abandon
    <3>1. pc' = "stop" \/ pc' = "idle"  BY <2>3, LeftIs
    <3> QED  BY <2>1, <2>2, <2>3, <3>1 DEF RegistersRead, AfterCid, AfterCsd
  <2>4. CASE Advance
    <3>1. Onward  BY <2>1, <2>4, Advances, CommandIs
    <3>2. emmcInit' => emmcInit \/ pc = "cmd8bw"  BY <2>1
    <3>3. pc' \in AfterCid => emmcInit \/ pc \in AfterCid \cup {"cmd2"}
      <4>1. CASE pc \in CommandSteps  BY <4>1 DEF CardTypes
      <4>2. CASE pc \in OnlyMount
        <5>1. pc \notin AfterCid \cup {"cmd2"} => pc \in {"init", "clockId", "cmd0", "clockIdle", "cmd1"}
          BY <4>2 DEF OnlyMount, AfterCid
        <5> QED  BY <3>1, <5>1 DEF Onward, AfterCid
      <4> QED  BY <2>1, <4>1, <4>2, CommandIs DEF CardTypes, Steps
    <3>4. pc' \in AfterCsd => emmcInit \/ pc \in AfterCsd \cup {"cmd9"}
      <4>1. CASE pc \in CommandSteps  BY <4>1 DEF CardTypes
      <4>2. CASE pc \in OnlyMount
        <5>1. pc \notin AfterCsd \cup {"cmd9"}
                => pc \in {"init", "clockId", "cmd0", "clockIdle", "cmd1", "cmd2", "cmd3"}
          BY <4>2 DEF OnlyMount, AfterCid, AfterCsd
        <5> QED  BY <3>1, <5>1 DEF Onward, AfterCid, AfterCsd
      <4> QED  BY <2>1, <4>1, <4>2, CommandIs DEF CardTypes, Steps
    <3>5. "cmd8bw" \in AfterCid /\ "cmd8bw" \in AfterCsd  BY DEF AfterCid, AfterCsd
    <3> QED  BY <2>2, <3>2, <3>3, <3>4, <3>5 DEF RegistersRead
  <2> QED  BY <1>9, <2>3, <2>4 DEF Succeeds
<1>10. ASSUME Fails PROVE RegistersRead'
  <2>1. Abandon /\ emmcInit' = emmcInit  BY <1>10 DEF Fails
  <2>2. pc' = "stop" \/ pc' = "idle"  BY <2>1, LeftIs
  <2>3. (cid' = "CID" \/ cid' = cid) /\ (csd' = "CSD" \/ csd' = csd)  BY <1>10 DEF Fails, Stored
  <2> QED  BY <2>1, <2>2, <2>3 DEF RegistersRead, AfterCid, AfterCsd
<1>11. CASE UNCHANGED vars
  BY <1>11 DEF vars, driver, RegistersRead
<1> QED  BY <1>1, <1>2, <1>3, <1>4, <1>5, <1>6, <1>7, <1>8, <1>9, <1>10, <1>11 DEF Next

-----------------------------------------------------------------------------
(* What is on the screen.                                                  *)

LEMMA ScreenInit == Init => ScreenInv
BY DEF Init, ScreenInv, Nothing

\* A command that is no switch and no reset leaves the card alone.
LEMMA LeavesCard ==
  ASSUME NEW l, l \notin Switches \cup {"cmd0"}, Executes(l)
  PROVE  UNCHANGED <<cExt, cRefused>>
BY DEF Executes, Switches

LEMMA ScreenStep ==
  ASSUME CardTypes, RegistersRead, ScreenInv, [Next]_vars
  PROVE  ScreenInv'
<1>1. ASSUME NEW k \in Kinds, Type(k) PROVE ScreenInv'
  <2>1. shown' = Nothing /\ kind' = k  BY <1>1 DEF Type
  <2>2. pc' = "show" => k \notin {"EM_DECSD", "EM_SECSD"}
    <3>1. pc' = "init" \/ pc' = First(k)  BY <1>1, FirstIs DEF Type
    <3>2. k = "EM_DECSD" => First(k) = "cmd8"  BY DEF First
    <3>3. k = "EM_SECSD" => First(k) = "cmd6group"  BY DEF First
    <3> QED  BY <3>1, <3>2, <3>3
  <2> QED  BY <2>1, <2>2 DEF ScreenInv, Nothing
<1>2. ASSUME EmmcInit PROVE ScreenInv'
  <2>1. pc = "init" /\ UNCHANGED shown  BY <1>2 DEF EmmcInit
  <2>2. pc' # "show"
    <3>1. CASE Abandon  BY <3>1, LeftIs
    <3>2. CASE Advance  BY <2>1, <3>2, Advances DEF Onward
    <3> QED  BY <1>2, <3>1, <3>2 DEF EmmcInit
  <2> QED  BY <2>1, <2>2 DEF ScreenInv
<1>3. ASSUME SetClock PROVE ScreenInv'
  <2>1. pc \in ClockSteps /\ UNCHANGED shown  BY <1>3 DEF SetClock
  <2>2. pc' # "show"
    <3>1. CASE Abandon  BY <3>1, LeftIs
    <3>2. CASE Advance
      <4>1. Onward  BY <2>1, <3>2, Advances DEF ClockSteps
      <4> QED  BY <2>1, <4>1 DEF Onward, ClockSteps
    <3> QED  BY <1>3, <3>1, <3>2 DEF SetClock
  <2> QED  BY <2>1, <2>2 DEF ScreenInv, ClockSteps
<1>4. ASSUME StopClock PROVE ScreenInv'
  BY <1>4 DEF StopClock, ScreenInv
<1>5. ASSUME NEW i \in Indexes, InputIndex(i) PROVE ScreenInv'
  <2>1. pc = "index" /\ (pc' = "value" \/ pc' = pc)
    BY <1>5, Advances DEF InputIndex, Onward
  <2>2. shown' = [table |-> "byte", from |-> Byte(ext, i)] \/ shown' = shown  BY <1>5 DEF InputIndex
  <2> QED  BY <2>1, <2>2 DEF ScreenInv
<1>6. ASSUME NEW v \in Values, InputValue(v) PROVE ScreenInv'
  <2>1. pc = "value" /\ (pc' = "cmd6" \/ pc' = pc) /\ shown' = shown
    BY <1>6, Advances DEF InputValue, Onward
  <2> QED  BY <2>1 DEF ScreenInv
<1>7. ASSUME Cancel PROVE ScreenInv'
  BY <1>7 DEF Cancel, ScreenInv
<1>8. ASSUME Show PROVE ScreenInv'
  <2>1. pc = "show" /\ pc' = "idle" /\ UNCHANGED <<kind, ext, cid, csd, cExt, dropped>>
    BY <1>8 DEF Show, driver, device, history
  <2>2. emmcInit /\ kind \in Kinds  BY <2>1 DEF CardTypes, CommandSteps
  <2>3. cid = "CID" /\ csd = "CSD"  BY <2>2 DEF RegistersRead
  <2>4. CASE kind = "EM_DCID"
    <3>1. shown' = [table |-> "CID", from |-> cid]  BY <1>8, <2>4 DEF Show
    <3> QED  BY <2>1, <2>3, <3>1 DEF ScreenInv
  <2>5. CASE kind = "EM_DCSD"
    <3>1. shown' = [table |-> "CSD", from |-> csd]  BY <1>8, <2>5 DEF Show
    <3> QED  BY <2>1, <2>3, <3>1 DEF ScreenInv
  <2>6. CASE kind = "EM_DECSD"
    <3>1. shown' = [table |-> "EXT_CSD", from |-> ext]  BY <1>8, <2>6 DEF Show
    <3>2. ~dropped => ext = ReadOf(cExt)  BY <2>1, <2>6 DEF ScreenInv
    <3>3. ReadOf(cExt)' = ReadOf(cExt)  BY <2>1 DEF ReadOf
    <3> QED  BY <2>1, <3>1, <3>2, <3>3 DEF ScreenInv
  <2>7. CASE kind = "EM_SECSD"
    <3>1. shown' = [table |-> "byte", from |-> Byte(ext, request.index)]  BY <1>8, <2>7 DEF Show
    <3> QED  BY <2>1, <3>1 DEF ScreenInv
  <2> QED  BY <2>2, <2>4, <2>5, <2>6, <2>7 DEF Kinds
<1>9. ASSUME Succeeds PROVE ScreenInv'
  <2>1. pc \in Commands /\ UNCHANGED <<shown, kind>> /\ Executes(pc) /\ pc # "idle"
    BY <1>9, CommandIs DEF Succeeds
  <2>2. CASE pc' # "show"  BY <2>1, <2>2 DEF ScreenInv
  <2>3. CASE pc' = "show" /\ Advance
    <3>1. Onward  BY <2>1, <2>3, Advances
    <3>2. CASE pc \in {"cmd8", "reread"}
      <4>1. pc \in Reads /\ pc \notin Switches \cup {"cmd0"}  BY <3>2 DEF Reads, Switches
      <4>2. cExt' = cExt  BY <2>1, <4>1, LeavesCard
      <4>3. ext' = ReadOf(cExt) \/ dropped' = TRUE  BY <1>9, <4>1 DEF Succeeds, ReadExt
      <4>4. ReadOf(cExt)' = ReadOf(cExt)  BY <4>2 DEF ReadOf
      <4> QED  BY <2>1, <4>3, <4>4 DEF ScreenInv
    <3>3. CASE pc \notin {"cmd8", "reread"}
      <4>1. pc \in OnlyMount \/ pc \in CommandSteps  BY <2>1, CommandIs DEF CardTypes, Steps
      <4>2. CASE pc \in CommandSteps
        BY <2>1, <2>3, <3>1, <3>3, <4>2, CommandIs DEF Onward, CommandSteps
      <4>3. CASE pc \in OnlyMount
        <5>1. pc = "cmd8bw"  BY <2>3, <3>1, <4>3 DEF Onward, OnlyMount
        <5>2. kind \notin {"EM_DECSD", "EM_SECSD"}  BY <2>3, <3>1, <5>1 DEF Onward
        <5> QED  BY <2>1, <5>2 DEF ScreenInv
      <4> QED  BY <4>1, <4>2, <4>3
    <3> QED  BY <3>2, <3>3
  <2>4. Abandon => pc' # "show"  BY LeftIs
  <2> QED  BY <1>9, <2>2, <2>3, <2>4 DEF Succeeds
<1>10. ASSUME Fails PROVE ScreenInv'
  <2>1. pc \in Commands /\ UNCHANGED shown /\ Abandon  BY <1>10 DEF Fails
  <2>2. pc # "idle"  BY <2>1, CommandIs
  <2>3. pc' = "stop" \/ pc' = "idle"  BY <2>1, LeftIs
  <2> QED  BY <2>1, <2>2, <2>3 DEF ScreenInv
<1>11. CASE UNCHANGED vars
  BY <1>11 DEF vars, driver, monitor, device, history, ScreenInv, ReadOf
<1> QED  BY <1>1, <1>2, <1>3, <1>4, <1>5, <1>6, <1>7, <1>8, <1>9, <1>10, <1>11 DEF Next

-----------------------------------------------------------------------------
(* The bytes of EXT_CSD.                                                   *)

LEMMA SwitchInit == Init => SwitchInv
<1> SUFFICES ASSUME Init PROVE SwitchInv  OBVIOUS
<1>1. \A i \in DOMAIN cExt: <<i, cExt[i]>> \in wanted
  <2>1. CASE cExt = << >>  BY <2>1
  <2>2. CASE cExt = [i \in {HS_TIMING, BUS_WIDTH} |-> IF i = HS_TIMING THEN 1 ELSE 2]
    <3>1. wanted = {<<HS_TIMING, 1>>, <<BUS_WIDTH, 2>>} /\ HS_TIMING # BUS_WIDTH
      BY DEF Init, HS_TIMING, BUS_WIDTH
    <3> QED  BY <2>2, <3>1
  <2> QED  BY <2>1, <2>2 DEF Init
<1> QED  BY <1>1 DEF Init, SwitchInv, NoRequest, TypedIndex, TypedValue

\* An index that may be written has eight bits.
LEMMA IndexFits ==
  ASSUME NEW i \in extCsdWriteIndex
  PROVE  i \in 0..255 /\ i % 256 = i
<1>1. i \in 0..255  BY DEF extCsdWriteIndex
<1> QED  BY <1>1

\* The byte a CMD6 sets in the card is the one it is meant for.
LEMMA MeantIs ==
  ASSUME NEW l \in Switches, l = "cmd6" => request.index \in extCsdWriteIndex
  PROVE  /\ Meant(l)[1] % 256 = Meant(l)[1] /\ Meant(l) = <<Meant(l)[1], Meant(l)[2]>>
         /\ l = "cmd6hs" => Meant(l) = <<HS_TIMING, 1>>
         /\ l = "cmd6bw" => Meant(l) = <<BUS_WIDTH, 2>>
         /\ l = "cmd6group" => Meant(l) = <<ERASE_GROUP_DEF, 1>>
         /\ l = "cmd6" => Meant(l) = <<request.index, request.value>>
<1>1. CASE l = "cmd6hs"
  <2>1. Meant(l) = <<HS_TIMING, 1>>  BY <1>1 DEF Meant
  <2> QED  BY <1>1, <2>1 DEF HS_TIMING
<1>2. CASE l = "cmd6bw"
  <2>1. Meant(l) = <<BUS_WIDTH, 2>>  BY <1>2 DEF Meant
  <2> QED  BY <1>2, <2>1 DEF BUS_WIDTH
<1>3. CASE l = "cmd6group"
  <2>1. Meant(l) = <<ERASE_GROUP_DEF, 1>>  BY <1>3 DEF Meant
  <2> QED  BY <1>3, <2>1 DEF ERASE_GROUP_DEF
<1>4. CASE l = "cmd6"
  <2>1. Meant(l) = <<request.index, request.value>>  BY <1>4 DEF Meant
  <2>2. request.index % 256 = request.index  BY <1>4, IndexFits
  <2> QED  BY <1>4, <2>1, <2>2
<1> QED  BY <1>1, <1>2, <1>3, <1>4 DEF Switches

\* What is set was asked for, also after a command that the card executed.
LEMMA StillWanted ==
  ASSUME NEW l, l \in Switches /\ l = "cmd6" => request.index \in extCsdWriteIndex,
         \A i \in DOMAIN cExt: <<i, cExt[i]>> \in wanted,
         Executes(l) \/ UNCHANGED cExt,
         wanted' = wanted \cup {Meant(m): m \in {l} \cap Switches}
  PROVE  \A i \in DOMAIN cExt': <<i, cExt'[i]>> \in wanted'
<1> SUFFICES ASSUME NEW i \in DOMAIN cExt' PROVE <<i, cExt'[i]>> \in wanted'  OBVIOUS
<1>1. CASE UNCHANGED cExt  BY <1>1
<1>2. CASE l \in Switches /\ cExt' = Sets(l)
  <2> DEFINE a == Meant(l)[1]
             v == Meant(l)[2]
  <2>1. a % 256 = a /\ Meant(l) = <<a, v>>  BY <1>2, MeantIs
  <2>2. <<a, v>> \in wanted'
    <3>1. Meant(l) \in {Meant(m): m \in {l} \cap Switches}  BY <1>2
    <3>2. Meant(l) \in wanted'  BY <3>1
    <3> QED  BY <2>1, <3>2, Zenon
  <2>3. cExt' = [j \in DOMAIN cExt \cup {a} |-> IF j = a THEN v ELSE cExt[j]]
    BY <1>2, <2>1 DEF Sets
  <2> HIDE DEF a, v
  <2> QED  BY <2>2, <2>3
<1>3. CASE cExt' = Kept
  <2>1. i \in DOMAIN cExt /\ cExt'[i] = cExt[i]  BY <1>3 DEF Kept
  <2> QED  BY <2>1
<1> QED  BY <1>1, <1>2, <1>3 DEF Executes

\* While EM_SECSD waits, shows and reads nothing it set is lost.
LEMMA SwitchStep ==
  ASSUME CardTypes, ScreenInv, SwitchInv, [Next]_vars
  PROVE  SwitchInv'
<1> USE DEF TypedIndex, TypedValue
<1>1. ASSUME NEW k \in Kinds, Type(k) PROVE SwitchInv'
  <2>1. /\ outcome' = "none" /\ kind' = k /\ request' = NoRequest
        /\ UNCHANGED <<cExt, wanted, cRefused>>
    BY <1>1 DEF Type, device, history
  <2>2. k = "EM_SECSD" => pc' = "init" \/ pc' = "cmd6group"
    <3>1. pc' = "init" \/ pc' = First(k)  BY <1>1, FirstIs DEF Type
    <3>2. k = "EM_SECSD" => First(k) = "cmd6group"  BY DEF First
    <3> QED  BY <3>1, <3>2
  <2> QED  BY <2>1, <2>2 DEF SwitchInv, NoRequest
<1>2. ASSUME EmmcInit PROVE SwitchInv'
  <2>1. pc = "init" /\ UNCHANGED <<kind, request, cExt, wanted, cRefused, shown, dropped>>
    BY <1>2 DEF EmmcInit, device, history
  <2>2. pc' \in {"stop", "clockId"} /\ outcome' = "none"
    <3>1. outcome = "none"  BY <2>1 DEF CardTypes
    <3>2. CASE Abandon  BY <2>1, <3>1, <3>2, Leaves DEF OnlyMount
    <3>3. CASE Advance /\ UNCHANGED outcome  BY <2>1, <3>1, <3>3, Advances DEF Onward
    <3> QED  BY <1>2, <3>2, <3>3 DEF EmmcInit
  <2> QED  BY <2>1, <2>2 DEF SwitchInv
<1>3. ASSUME SetClock PROVE SwitchInv'
  <2>1. pc \in ClockSteps /\ UNCHANGED <<kind, request, cExt, wanted, cRefused, shown, dropped>>
    BY <1>3 DEF SetClock, device, history
  <2>2. pc' \in {"stop", "cmd0", "cmd1", "cmd16", "cmd13hs"} /\ outcome' = "none"
    <3>1. outcome = "none"  BY <2>1 DEF CardTypes, ClockSteps
    <3>2. CASE Abandon  BY <2>1, <3>1, <3>2, Leaves DEF OnlyMount, ClockSteps
    <3>3. CASE Advance /\ UNCHANGED outcome
      <4>1. Onward  BY <2>1, <3>3, Advances DEF ClockSteps
      <4> QED  BY <2>1, <3>1, <3>3, <4>1 DEF Onward, ClockSteps
    <3> QED  BY <1>3, <3>2, <3>3 DEF SetClock
  <2> QED  BY <2>1, <2>2 DEF SwitchInv
<1>4. ASSUME StopClock PROVE SwitchInv'
  BY <1>4 DEF StopClock, device, history, SwitchInv, IsSet
<1>5. ASSUME NEW i \in Indexes, InputIndex(i) PROVE SwitchInv'
  <2>1. pc = "index" /\ outcome' = "none" /\ UNCHANGED <<kind, cExt, wanted, cRefused, dropped>>
    BY <1>5 DEF InputIndex, device, history, CardTypes
  <2>2. CASE i <= 511 /\ Writable(i)
    <3>1. pc' = "value" /\ request' = [request EXCEPT !.index = i]
      BY <1>5, <2>1, <2>2, Advances DEF InputIndex, Onward
    <3>2. i \in extCsdWriteIndex  BY <2>2 DEF Writable
    <3>3. DOMAIN request' = {"index", "value"} /\ request'.index = i  BY <3>1 DEF SwitchInv
    <3> QED  BY <2>1, <3>1, <3>2, <3>3 DEF SwitchInv
  <2>3. CASE ~(i <= 511 /\ Writable(i))
    <3>1. UNCHANGED <<pc, request, shown>>  BY <1>5, <2>3 DEF InputIndex
    <3> QED  BY <2>1, <3>1 DEF SwitchInv, IsSet
  <2> QED  BY <2>2, <2>3
<1>6. ASSUME NEW v \in Values, InputValue(v) PROVE SwitchInv'
  <2>1. pc = "value" /\ outcome' = "none" /\ UNCHANGED <<kind, cExt, wanted, cRefused, dropped>>
    BY <1>6 DEF InputValue, device, history, CardTypes
  <2>2. CASE v <= 255
    <3>1. pc' = "cmd6" /\ request' = [request EXCEPT !.value = v]
      BY <1>6, <2>1, <2>2, Advances DEF InputValue, Onward
    <3>2. DOMAIN request' = {"index", "value"} /\ request'.index = request.index /\ request'.value = v
      BY <3>1 DEF SwitchInv
    <3> QED  BY <2>1, <3>1, <3>2 DEF SwitchInv
  <2>3. CASE ~(v <= 255)
    <3>1. UNCHANGED <<pc, request, shown>>  BY <1>6, <2>3 DEF InputValue
    <3> QED  BY <2>1, <3>1 DEF SwitchInv, IsSet
  <2> QED  BY <2>2, <2>3
<1>7. ASSUME Cancel PROVE SwitchInv'
  BY <1>7 DEF Cancel, device, history, SwitchInv, IsSet
<1>8. ASSUME Show PROVE SwitchInv'
  <2>1. /\ pc = "show" /\ pc' = "idle"
        /\ UNCHANGED <<kind, request, cExt, wanted, cRefused, dropped>>
    BY <1>8 DEF Show, device, history
  <2>2. ASSUME kind = "EM_SECSD" PROVE IsSet /\ (~dropped => shown'.from = <<"set", request.value>>)
    <3>1. IsSet  BY <2>1, <2>2 DEF SwitchInv
    <3>2. ASSUME ~dropped PROVE shown'.from = <<"set", request.value>>
      <4>1. ext = ReadOf(cExt)  BY <2>1, <2>2, <3>2 DEF ScreenInv
      <4>2. shown' = [table |-> "byte", from |-> Byte(ext, request.index)]  BY <1>8, <2>2 DEF Show
      <4>3. ext.read /\ ext.set = cExt  BY <4>1 DEF ReadOf
      <4>4. Byte(ext, request.index) = <<"set", cExt[request.index]>>
        BY <3>1, <4>3 DEF Byte, IsSet
      <4> QED  BY <3>1, <4>2, <4>4 DEF IsSet
    <3> QED  BY <3>1, <3>2
  <2> QED  BY <2>1, <2>2 DEF SwitchInv, IsSet
<1>9. ASSUME Succeeds PROVE SwitchInv'
  <2>1. /\ pc \in Commands /\ Executes(pc) /\ Accepts(pc) /\ UNCHANGED <<kind, request, shown>>
        /\ wanted' = wanted \cup {Meant(l): l \in {pc} \cap Switches}
    BY <1>9 DEF Succeeds
  <2>2. outcome = "none" /\ (pc = "cmd6" => kind = "EM_SECSD")
    BY <2>1, CommandIs DEF CardTypes, CommandSteps
  <2>3. \A i \in DOMAIN cExt': <<i, cExt'[i]>> \in wanted'
    <3>1. pc = "cmd6" => request.index \in extCsdWriteIndex  BY <2>2 DEF SwitchInv
    <3> QED  BY <2>1, <3>1, StillWanted DEF SwitchInv
  <2>4. CASE pc = "cmd9" /\ Abandon
    <3>1. (pc' = "stop" \/ pc' = "idle") /\ outcome' # "complete"
      BY <2>2, <2>4, Leaves
    <3> QED  BY <2>1, <2>3, <3>1 DEF SwitchInv
  <2>5. CASE Advance /\ UNCHANGED outcome
    <3>1. Onward  BY <2>1, <2>5, Advances, CommandIs
    <3>2. CASE kind # "EM_SECSD"  BY <2>1, <2>3, <3>2 DEF SwitchInv
    <3>3. CASE kind = "EM_SECSD" /\ pc \in OnlyMount \cup {"cmd6group", "cmd13group", "cmd8group", "cmd8"}
      <4>1. pc' \in OnlyMount \cup {"cmd6group", "cmd13group", "cmd8group", "cmd8", "index"}
        BY <3>1, <3>3 DEF Onward, OnlyMount
      <4>2. pc' \notin TypedIndex  BY <4>1 DEF OnlyMount
      <4> QED  BY <2>1, <2>2, <2>3, <2>5, <4>2 DEF SwitchInv
    <3>4. CASE kind = "EM_SECSD" /\ pc = "cmd6"
      <4>1. pc' = "cmd13"  BY <3>1, <3>4 DEF Onward
      <4>2. request.index \in extCsdWriteIndex /\ request.value \in Values  BY <3>4 DEF SwitchInv
      <4>3. ~cRefused' => IsSet'
        <5>1. ASSUME ~cRefused' PROVE cExt' = Sets("cmd6")
          BY <2>1, <3>4, <5>1 DEF Executes, Switches
        <5>2. Meant("cmd6") = <<request.index, request.value>> /\ request.index % 256 = request.index
          BY <4>2, MeantIs, IndexFits DEF Switches
        <5>3. Sets("cmd6") = [j \in DOMAIN cExt \cup {request.index} |->
                                IF j = request.index THEN request.value ELSE cExt[j]]
          BY <5>2 DEF Sets
        <5> QED  BY <2>1, <5>1, <5>3 DEF IsSet
      <4> QED  BY <2>1, <2>2, <2>3, <2>5, <4>1, <4>2, <4>3 DEF SwitchInv
    <3>5. CASE kind = "EM_SECSD" /\ pc \in {"cmd13", "cmd8user", "reread"}
      <4>1. pc' \in {"cmd8user", "reread", "show"}  BY <3>1, <3>5 DEF Onward
      <4>2. UNCHANGED <<cExt, cRefused>>
        <5>1. pc \notin Switches \cup {"cmd0"}  BY <3>5 DEF Switches
        <5> QED  BY <2>1, <5>1, LeavesCard
      <4>3. pc = "cmd13" => ~cRefused  BY <2>1 DEF Accepts, Statuses
      <4>4. IsSet /\ request.index \in extCsdWriteIndex /\ request.value \in Values
        BY <3>5, <4>3 DEF SwitchInv
      <4>5. IsSet'  BY <2>1, <4>2, <4>4 DEF IsSet
      <4> QED  BY <2>1, <2>2, <2>3, <2>5, <4>1, <4>4, <4>5 DEF SwitchInv
    <3> QED  BY <2>1, <3>2, <3>3, <3>4, <3>5, CommandIs DEF CardTypes, Steps, CommandSteps
  <2> QED  BY <1>9, <2>4, <2>5 DEF Succeeds
<1>10. ASSUME Fails PROVE SwitchInv'
  <2>1. /\ pc \in Commands /\ Abandon /\ UNCHANGED <<kind, request, shown>>
        /\ Executes(pc) \/ UNCHANGED cExt
        /\ wanted' = wanted \cup {Meant(l): l \in {pc} \cap Switches}
    BY <1>10 DEF Fails
  <2>2. outcome = "none" /\ (pc = "cmd6" => kind = "EM_SECSD")
    BY <2>1, CommandIs DEF CardTypes, CommandSteps
  <2>3. \A i \in DOMAIN cExt': <<i, cExt'[i]>> \in wanted'
    <3>1. pc = "cmd6" => request.index \in extCsdWriteIndex  BY <2>2 DEF SwitchInv
    <3> QED  BY <2>1, <3>1, StillWanted DEF SwitchInv
  <2>4. (pc' = "stop" \/ pc' = "idle") /\ outcome' # "complete"
    BY <2>1, <2>2, Leaves
  <2> QED  BY <2>1, <2>3, <2>4 DEF SwitchInv
<1>11. CASE UNCHANGED vars
  BY <1>11 DEF vars, monitor, device, history, SwitchInv, IsSet
<1> QED  BY <1>1, <1>2, <1>3, <1>4, <1>5, <1>6, <1>7, <1>8, <1>9, <1>10, <1>11 DEF Next

-----------------------------------------------------------------------------
(* The clock.                                                              *)

LEMMA ClockInit == Init => ClockInv
BY DEF Init, ClockInv, Slow, Fitted, Fast

\* A step that leaves the clock alone and stays between the places that set it.
LEMMA ClockKept ==
  ASSUME ClockInv, UNCHANGED <<enable, current, clkctrl, timeout, card>>,
         pc' = "clockId" => ~enable, pc' \in Slow => pc \in Slow, pc' \in Fitted => pc \in Fitted,
         emmcInit' \/ pc' \in Fast => emmcInit \/ pc \in Fast
  PROVE  ClockInv'
BY DEF ClockInv

\* What the clock is set to where it is set.
LEMMA WantedIs ==
  ASSUME CardTypes, RegistersRead, pc \in ClockSteps
  PROVE  /\ pc \in {"clockId", "clockIdle"} => Wanted = 512
         /\ pc = "clockCsd" => Wanted = SpeedFor(card.tran)
         /\ pc = "clockHs" => Wanted \in {4, 8} /\ (Wanted = 4 => 52 \in card.type)
<1>1. CASE pc \in {"clockId", "clockIdle"}
  <2>1. Wanted = MMC_400KHZ  BY <1>1 DEF Wanted
  <2> QED  BY <1>1, <2>1 DEF MMC_400KHZ
<1>2. CASE pc = "clockCsd"
  <2>1. csd = "CSD" /\ card \in Cards  BY <1>2 DEF RegistersRead, CardTypes, AfterCid, AfterCsd
  <2>2. EMMC_CSD_TRAN_SPEED(csd) = card.tran  BY <2>1, SpeedOfCsd
  <2>3. Wanted = SpeedFor(EMMC_CSD_TRAN_SPEED(csd))  BY <1>2 DEF Wanted
  <2> QED  BY <1>2, <2>2, <2>3
<1>3. CASE pc = "clockHs"
  <2>1. Wanted = HighSpeed  BY <1>3 DEF Wanted
  <2> DEFINE t == CardType(ext)
  <2>2. t = card.type \/ t = {}  BY DEF CardType
  <2>3. t \subseteq {26, 52}
    <3>1. card.type \in SUBSET {26, 52}  BY CardAssumption DEF CardTypes
    <3> QED  BY <2>2, <3>1
  <2>4. HighSpeed \in {4, 8} /\ (HighSpeed = 4 => 52 \in t)
    <3> HIDE DEF t
    <3>1. CASE 52 \in t
      <4>1. HighSpeed = 4  BY <3>1 DEF HighSpeed, t, MMC_52MHZ
      <4> QED  BY <3>1, <4>1
    <3>2. CASE 52 \notin t /\ 26 \in t
      <4>1. HighSpeed = 8  BY <3>2 DEF HighSpeed, t, MMC_26MHZ
      <4> QED  BY <4>1
    <3>3. CASE t = {}
      <4>1. HighSpeed = 8  BY <3>3 DEF HighSpeed, t, MMC_20MHZ
      <4> QED  BY <4>1
    <3> QED  BY <2>3, <3>1, <3>2, <3>3
  <2> QED  BY <1>3, <2>1, <2>2, <2>4
<1> QED  BY <1>1, <1>2, <1>3 DEF ClockSteps

LEMMA ClockStep ==
  ASSUME CardTypes, RegistersRead, ClockInv, [Next]_vars
  PROVE  ClockInv'
<1> USE DEF Slow, Fitted, Fast
<1>1. ASSUME NEW k \in Kinds, Type(k) PROVE ClockInv'
  <2>1. UNCHANGED <<enable, current, clkctrl, timeout, card, emmcInit>>
    BY <1>1 DEF Type, driver, host, device
  <2>2. pc' \in {"init", "show", "cmd8", "cmd6group"}
    <3>1. pc' = "init" \/ pc' = First(k)  BY <1>1, FirstIs DEF Type
    <3> QED  BY <3>1 DEF First, Kinds
  <2> QED  BY <2>1, <2>2, ClockKept
<1>2. ASSUME EmmcInit PROVE ClockInv'
  <2>1. pc = "init" /\ enable' = FALSE /\ emmcInit' = FALSE
    BY <1>2 DEF EmmcInit, CardTypes, CommandSteps
  <2>2. pc' \in {"stop", "idle", "clockId"}
    <3>1. CASE Abandon  BY <3>1, LeftIs
    <3>2. CASE Advance  BY <2>1, <3>2, Advances DEF Onward
    <3> QED  BY <1>2, <3>1, <3>2 DEF EmmcInit
  <2> QED  BY <2>1, <2>2 DEF ClockInv
<1>3. ASSUME SetClock PROVE ClockInv'
  <2>1. pc \in ClockSteps /\ UNCHANGED <<emmcInit, card>>  BY <1>3 DEF SetClock, device
  <2>2. emmcInit' = FALSE  BY <2>1 DEF CardTypes, ClockSteps, CommandSteps
  <2>3. CASE Abandon /\ UNCHANGED <<enable, host>> /\ current' = (IF pc = "clockId" THEN 0 ELSE current)
    <3>1. pc' = "stop" \/ pc' = "idle"  BY <2>3, LeftIs
    <3>2. pc = "clockId" => ~enable  BY DEF ClockInv
    <3>3. enable' => current' = current /\ clkctrl' = clkctrl /\ enable  BY <2>3, <3>2 DEF host
    <3> QED  BY <2>2, <2>3, <3>1, <3>3 DEF ClockInv
  <2>4. CASE /\ Advance /\ current' = Wanted /\ enable' = TRUE
             /\ \/ clkctrl' = [div |-> Wanted, on |-> TRUE]
                \/ clkctrl' = clkctrl /\ enable /\ (IF pc = "clockId" THEN 0 ELSE current) = Wanted
             /\ timeout' = (IF pc \in {"clockCsd", "clockHs"} THEN TimeoutFor(Wanted) ELSE timeout)
    <3>1. Onward  BY <2>1, <2>4, Advances DEF ClockSteps
    <3>2. clkctrl'.on /\ clkctrl'.div = current'
      <4>1. CASE clkctrl' = [div |-> Wanted, on |-> TRUE]  BY <2>4, <4>1
      <4>2. CASE clkctrl' = clkctrl /\ enable /\ (IF pc = "clockId" THEN 0 ELSE current) = Wanted
        <5>1. pc # "clockId"  BY <4>2 DEF ClockInv
        <5> QED  BY <2>4, <4>2, <5>1 DEF ClockInv
      <4> QED  BY <2>4, <4>1, <4>2
    <3>3. CASE pc \in {"clockId", "clockIdle"}
      <4>1. pc' \in {"cmd0", "cmd1"}  BY <3>1, <3>3 DEF Onward
      <4>2. current' = 512  BY <2>1, <2>4, <3>3, WantedIs
      <4> QED  BY <2>2, <2>4, <3>2, <4>1, <4>2 DEF ClockInv
    <3>4. CASE pc = "clockCsd"
      <4>1. pc' = "cmd16"  BY <3>1, <3>4 DEF Onward
      <4>2. current' = SpeedFor(card.tran) /\ timeout' = TimeoutFor(current')
        BY <2>1, <2>4, <3>4, WantedIs
      <4>3. current' = SpeedFor(card'.tran)  BY <2>1, <4>2
      <4> QED  BY <2>2, <2>4, <3>2, <4>1, <4>2, <4>3 DEF ClockInv
    <3>5. CASE pc = "clockHs"
      <4>1. pc' = "cmd13hs"  BY <3>1, <3>5 DEF Onward
      <4>2. current' \in {4, 8} /\ (current' = 4 => 52 \in card.type) /\ timeout' = TimeoutFor(current')
        BY <2>1, <2>4, <3>5, WantedIs
      <4> QED  BY <2>1, <2>2, <2>4, <3>2, <4>1, <4>2 DEF ClockInv
    <3> QED  BY <2>1, <3>3, <3>4, <3>5 DEF ClockSteps
  <2> QED
    <3> DEFINE same == /\ pc = "clockCsd" => MaxFreq(EMMC_CSD_TRAN_SPEED(csd)) > 0
                       /\ enable /\ (IF pc = "clockId" THEN 0 ELSE current) = Wanted
    <3>1. ASSUME Advance, current' = Wanted, enable' = TRUE,
                 clkctrl' = IF same THEN clkctrl ELSE [div |-> Wanted, on |-> TRUE]
          PROVE  \/ clkctrl' = [div |-> Wanted, on |-> TRUE]
                 \/ clkctrl' = clkctrl /\ enable /\ (IF pc = "clockId" THEN 0 ELSE current) = Wanted
      BY <3>1
    <3> QED  BY <1>3, <2>3, <2>4, <3>1 DEF SetClock
<1>4. ASSUME StopClock PROVE ClockInv'
  <2>1. pc = "stop" /\ pc' = "idle" /\ UNCHANGED <<emmcInit, current>>  BY <1>4 DEF StopClock
  <2>2. emmcInit' = FALSE  BY <2>1 DEF CardTypes, CommandSteps
  <2>3. enable' = FALSE \/ UNCHANGED <<enable, clkctrl>>  BY <1>4 DEF StopClock
  <2>4. CASE enable' = FALSE  BY <2>1, <2>2, <2>4 DEF ClockInv
  <2>5. CASE UNCHANGED <<enable, clkctrl>>  BY <2>1, <2>2, <2>5 DEF ClockInv
  <2> QED  BY <2>3, <2>4, <2>5
<1>5. ASSUME NEW i \in Indexes, InputIndex(i) PROVE ClockInv'
  <2>1. pc = "index" /\ (pc' = "value" \/ pc' = pc)  BY <1>5, Advances DEF InputIndex, Onward
  <2>2. UNCHANGED <<enable, current, clkctrl, timeout, card, emmcInit>>
    BY <1>5 DEF InputIndex, driver, host, device
  <2> QED  BY <2>1, <2>2, ClockKept
<1>6. ASSUME NEW v \in Values, InputValue(v) PROVE ClockInv'
  <2>1. pc = "value" /\ (pc' = "cmd6" \/ pc' = pc)  BY <1>6, Advances DEF InputValue, Onward
  <2>2. UNCHANGED <<enable, current, clkctrl, timeout, card, emmcInit>>
    BY <1>6 DEF InputValue, driver, host, device
  <2> QED  BY <2>1, <2>2, ClockKept
<1>7. ASSUME Cancel PROVE ClockInv'
  BY <1>7, ClockKept DEF Cancel, driver, host, device
<1>8. ASSUME Show PROVE ClockInv'
  BY <1>8, ClockKept DEF Show, driver, host, device
<1>9. ASSUME Succeeds PROVE ClockInv'
  <2>1. /\ pc \in Commands /\ UNCHANGED <<enable, current, clkctrl, timeout, card>>
        /\ emmcInit' = (emmcInit \/ pc = "cmd8bw")
    BY <1>9 DEF Succeeds, host
  <2>2. CASE pc = "cmd9" /\ Abandon
    <3>1. pc' = "stop" \/ pc' = "idle"  BY <2>2, LeftIs
    <3> QED  BY <2>1, <3>1, ClockKept
  <2>3. CASE Advance
    <3>1. Onward  BY <2>1, <2>3, Advances, CommandIs
    <3>2. CASE pc \in CommandSteps
      <4>1. pc' \in CommandSteps  BY <2>1, <3>1, <3>2, CommandIs DEF Onward, CommandSteps, CardTypes
      <4>2. pc' \notin Slow \cup Fitted \cup Fast \cup {"clockId"}  BY <4>1 DEF CommandSteps
      <4>3. emmcInit  BY <3>2 DEF CardTypes
      <4> QED  BY <2>1, <4>2, <4>3, ClockKept
    <3>3. CASE pc \in {"cmd0", "cmd1", "cmd2", "cmd3", "cmd9", "cmd7"}
      <4>1. pc' \in Slow /\ pc \in Slow  BY <3>1, <3>3 DEF Onward
      <4>2. emmcInit' = FALSE  BY <2>1, <3>3 DEF CardTypes, CommandSteps
      <4> QED  BY <2>1, <4>1, <4>2, ClockKept
    <3>4. CASE pc \in {"cmd16", "cmd8i", "cmd6hs"}
      <4>1. pc' \in Fitted /\ pc \in Fitted  BY <3>1, <3>4 DEF Onward
      <4>2. emmcInit' = FALSE  BY <2>1, <3>4 DEF CardTypes, CommandSteps
      <4> QED  BY <2>1, <4>1, <4>2, ClockKept
    <3>5. CASE pc \in Fast
      <4>1. kind \in Kinds  BY <3>5 DEF CardTypes
      <4>2. pc' \in {"cmd6bw", "cmd13bw", "cmd8bw", "show", "cmd8", "cmd6group"}
        BY <3>1, <3>5, <4>1 DEF Onward, Kinds
      <4>3. pc' \notin Slow \cup Fitted \cup {"clockId"}  BY <4>2
      <4> QED  BY <2>1, <3>5, <4>3, ClockKept
    <3>6. pc \in CommandSteps \/ pc \in OnlyMount  BY <2>1, CommandIs DEF CardTypes, Steps
    <3> QED  BY <2>1, <3>2, <3>3, <3>4, <3>5, <3>6, CommandIs DEF OnlyMount, ClockSteps
  <2> QED  BY <1>9, <2>2, <2>3 DEF Succeeds
<1>10. ASSUME Fails PROVE ClockInv'
  <2>1. Abandon /\ UNCHANGED <<emmcInit, enable, current, clkctrl, timeout, card>>
    BY <1>10 DEF Fails, host
  <2>2. pc' = "stop" \/ pc' = "idle"  BY <2>1, LeftIs
  <2> QED  BY <2>1, <2>2, ClockKept
<1>11. CASE UNCHANGED vars
  BY <1>11 DEF vars, driver, host, device, ClockInv
<1> QED  BY <1>1, <1>2, <1>3, <1>4, <1>5, <1>6, <1>7, <1>8, <1>9, <1>10, <1>11 DEF Next

-----------------------------------------------------------------------------
(* The timing of the card.                                                 *)

LEMMA SpeedInit == Init => SpeedInv
BY DEF Init, SpeedInv, Slow, Fast

\* What was asked for once stays asked for.
LEMMA OverriddenStays ==
  ASSUME wanted \subseteq wanted', Overridden
  PROVE  Overridden'
BY DEF Overridden

\* A step that leaves the bytes of the card alone.
LEMMA SpeedKept ==
  ASSUME SpeedInv, UNCHANGED <<cExt, cRefused, card>>, wanted \subseteq wanted',
         pc' \in (Slow \ {"cmd0"}) \cup {"cmd16", "cmd8i", "cmd6hs"}
           => pc \in (Slow \ {"cmd0"}) \cup {"cmd16", "cmd8i", "cmd6hs"},
         pc' \in {"clockHs", "cmd13hs"} => pc \in {"clockHs", "cmd13hs"},
         emmcInit' \/ pc' \in Fast \ {"cmd13hs"} =>
           card.type # {} /\ (emmcInit \/ pc \in {"clockHs"} \cup Fast)
  PROVE  SpeedInv'
<1>1. Overridden => Overridden'  BY OverriddenStays
<1>2. InHighSpeed' = InHighSpeed  BY DEF InHighSpeed
<1> QED  BY <1>1, <1>2 DEF SpeedInv, Fast

\* A CMD6 to any other byte leaves the timing alone, and one to it is the high speed
\* timing or the user's own.
LEMMA TimingIs ==
  ASSUME SwitchInv, pc \in Switches \ {"cmd6hs"}, pc = "cmd6" => kind = "EM_SECSD",
         Executes(pc), wanted' = wanted \cup {Meant(l): l \in {pc} \cap Switches},
         InHighSpeed \/ Overridden
  PROVE  InHighSpeed' \/ Overridden'
<1>1. wanted \subseteq wanted'  OBVIOUS
<1>2. CASE Overridden  BY <1>1, <1>2, OverriddenStays
<1>3. CASE InHighSpeed /\ UNCHANGED cExt  BY <1>3 DEF InHighSpeed
<1>4. CASE InHighSpeed /\ cExt' = Sets(pc)
  <2> DEFINE a == Meant(pc)[1]
             v == Meant(pc)[2]
  <2>1. pc = "cmd6" => request.index \in extCsdWriteIndex /\ request.value \in Values
    BY DEF SwitchInv, TypedIndex, TypedValue
  <2>2. a % 256 = a /\ Meant(pc) = <<a, v>>  BY <2>1, MeantIs
  <2>3. cExt' = [j \in DOMAIN cExt \cup {a} |-> IF j = a THEN v ELSE cExt[j]]
    BY <1>4, <2>2 DEF Sets
  <2>4. a = HS_TIMING => pc = "cmd6" /\ v \in Values
    <3>1. pc = "cmd6bw" => a = BUS_WIDTH  BY MeantIs DEF Switches
    <3>2. pc = "cmd6group" => a = ERASE_GROUP_DEF  BY MeantIs DEF Switches
    <3>3. pc = "cmd6" => v = request.value  BY <2>1, MeantIs DEF Switches
    <3>4. HS_TIMING # BUS_WIDTH /\ HS_TIMING # ERASE_GROUP_DEF
      BY DEF HS_TIMING, BUS_WIDTH, ERASE_GROUP_DEF
    <3> HIDE DEF a, v
    <3> QED  BY <2>1, <3>1, <3>2, <3>3, <3>4 DEF Switches
  <2>5. <<a, v>> \in wanted'
    <3>1. Meant(pc) \in {Meant(l): l \in {pc} \cap Switches}  OBVIOUS
    <3>2. Meant(pc) \in wanted'  BY <3>1
    <3> QED  BY <2>2, <3>2, Zenon
  <2> HIDE DEF a, v
  <2>6. CASE a # HS_TIMING
    <3>1. HS_TIMING \in DOMAIN cExt /\ cExt[HS_TIMING] = 1  BY <1>4 DEF InHighSpeed
    <3>2. HS_TIMING \in DOMAIN cExt' /\ cExt'[HS_TIMING] = 1  BY <2>3, <2>6, <3>1
    <3> QED  BY <3>2 DEF InHighSpeed
  <2>7. CASE a = HS_TIMING /\ v = 1
    <3>1. HS_TIMING \in DOMAIN cExt' /\ cExt'[HS_TIMING] = 1  BY <2>3, <2>7
    <3> QED  BY <3>1 DEF InHighSpeed
  <2>8. CASE a = HS_TIMING /\ v # 1
    <3>1. v \in Values \ {1} /\ <<HS_TIMING, v>> \in wanted'  BY <2>4, <2>5, <2>8
    <3> QED  BY <3>1 DEF Overridden
  <2> QED  BY <2>6, <2>7, <2>8
<1> QED  BY <1>2, <1>3, <1>4 DEF Executes, Switches

LEMMA SpeedStep ==
  ASSUME CardTypes, SwitchInv, SpeedInv, [Next]_vars
  PROVE  SpeedInv'
<1> USE DEF Slow, Fast
<1>1. ASSUME NEW k \in Kinds, Type(k) PROVE SpeedInv'
  <2>1. UNCHANGED <<cExt, cRefused, card, emmcInit, wanted>>
    BY <1>1 DEF Type, driver, device, history
  <2>2. pc' \in {"init", "show", "cmd8", "cmd6group"}
    <3>1. pc' = "init" \/ pc' = First(k)  BY <1>1, FirstIs DEF Type
    <3> QED  BY <3>1 DEF First, Kinds
  <2>3. emmcInit => card.type # {}  BY DEF SpeedInv
  <2> QED  BY <2>1, <2>2, <2>3, SpeedKept
<1>2. ASSUME EmmcInit PROVE SpeedInv'
  <2>1. pc = "init" /\ emmcInit' = FALSE /\ UNCHANGED <<cExt, cRefused, card, wanted>>
    BY <1>2 DEF EmmcInit, CardTypes, CommandSteps, device, history
  <2>2. pc' \in {"stop", "idle", "clockId"}
    <3>1. CASE Abandon  BY <3>1, LeftIs
    <3>2. CASE Advance  BY <2>1, <3>2, Advances DEF Onward
    <3> QED  BY <1>2, <3>1, <3>2 DEF EmmcInit
  <2> QED  BY <2>1, <2>2, SpeedKept
<1>3. ASSUME SetClock PROVE SpeedInv'
  <2>1. pc \in ClockSteps /\ UNCHANGED <<cExt, cRefused, card, wanted, emmcInit>>
    BY <1>3 DEF SetClock, device, history
  <2>2. emmcInit' = FALSE  BY <2>1 DEF CardTypes, ClockSteps, CommandSteps
  <2>3. CASE Abandon
    <3>1. pc' = "stop" \/ pc' = "idle"  BY <2>3, LeftIs
    <3> QED  BY <2>1, <2>2, <3>1, SpeedKept
  <2>4. CASE Advance
    <3>1. Onward  BY <2>1, <2>4, Advances DEF ClockSteps
    <3>2. \/ pc = "clockId" /\ pc' = "cmd0"
          \/ pc = "clockIdle" /\ pc' = "cmd1"
          \/ pc = "clockCsd" /\ pc' = "cmd16"
          \/ pc = "clockHs" /\ pc' = "cmd13hs"
      BY <2>1, <3>1 DEF Onward, ClockSteps
    <3>3. pc = "clockHs" => card.type = {} \/ InHighSpeed \/ Overridden  BY DEF SpeedInv
    <3>4. InHighSpeed' = InHighSpeed /\ (Overridden => Overridden')
      BY <2>1, OverriddenStays DEF InHighSpeed
    <3> QED  BY <2>1, <2>2, <3>2, <3>3, <3>4 DEF SpeedInv
  <2> QED  BY <1>3, <2>3, <2>4 DEF SetClock
<1>4. ASSUME StopClock PROVE SpeedInv'
  <2>1. pc = "stop" /\ pc' = "idle" /\ UNCHANGED <<emmcInit, cExt, cRefused, card, wanted>>
    BY <1>4 DEF StopClock, device, history
  <2>2. emmcInit' = FALSE  BY <2>1 DEF CardTypes, CommandSteps
  <2> QED  BY <2>1, <2>2, SpeedKept
<1>5. ASSUME NEW i \in Indexes, InputIndex(i) PROVE SpeedInv'
  <2>1. pc = "index" /\ (pc' = "value" \/ pc' = pc)  BY <1>5, Advances DEF InputIndex, Onward
  <2>2. UNCHANGED <<cExt, cRefused, card, emmcInit, wanted>>
    BY <1>5 DEF InputIndex, driver, device, history
  <2>3. emmcInit => card.type # {}  BY DEF SpeedInv
  <2> QED  BY <2>1, <2>2, <2>3, SpeedKept
<1>6. ASSUME NEW v \in Values, InputValue(v) PROVE SpeedInv'
  <2>1. pc = "value" /\ (pc' = "cmd6" \/ pc' = pc)  BY <1>6, Advances DEF InputValue, Onward
  <2>2. UNCHANGED <<cExt, cRefused, card, emmcInit, wanted>>
    BY <1>6 DEF InputValue, driver, device, history
  <2>3. emmcInit => card.type # {}  BY DEF SpeedInv
  <2> QED  BY <2>1, <2>2, <2>3, SpeedKept
<1>7. ASSUME Cancel PROVE SpeedInv'
  <2>1. emmcInit => card.type # {}  BY DEF SpeedInv
  <2> QED  BY <1>7, <2>1, SpeedKept DEF Cancel, driver, device, history
<1>8. ASSUME Show PROVE SpeedInv'
  <2>1. emmcInit => card.type # {}  BY DEF SpeedInv
  <2> QED  BY <1>8, <2>1, SpeedKept DEF Show, driver, device, history
<1>9. ASSUME Succeeds PROVE SpeedInv'
  <2>1. /\ pc \in Commands /\ Executes(pc) /\ Accepts(pc) /\ UNCHANGED <<kind, card>>
        /\ emmcInit' = (emmcInit \/ pc = "cmd8bw")
        /\ wanted' = wanted \cup {Meant(l): l \in {pc} \cap Switches}
    BY <1>9 DEF Succeeds
  <2>2. wanted \subseteq wanted'  BY <2>1
  <2>3. CASE pc = "cmd9" /\ Abandon
    <3>1. pc' = "stop" \/ pc' = "idle"  BY <2>3, LeftIs
    <3>2. UNCHANGED <<cExt, cRefused>>  BY <2>1, <2>3, LeavesCard DEF Switches
    <3>3. emmcInit' = FALSE  BY <2>1, <2>3 DEF CardTypes, CommandSteps
    <3> QED  BY <2>1, <2>2, <3>1, <3>2, <3>3, SpeedKept
  <2>4. CASE Advance
    <3>1. Onward  BY <2>1, <2>4, Advances, CommandIs
    <3>2. CASE pc = "cmd0"
      <4>1. pc' = "clockIdle" /\ emmcInit' = FALSE
        BY <2>1, <3>1, <3>2 DEF Onward, CardTypes, CommandSteps
      <4>2. cExt' = Kept  BY <2>1, <3>2 DEF Executes, Switches
      <4>3. HS_TIMING \in Volatile  BY DEF HS_TIMING, Volatile
      <4>4. HS_TIMING \notin DOMAIN cExt'  BY <4>2, <4>3 DEF Kept
      <4> QED  BY <4>1, <4>4 DEF SpeedInv
    <3>3. CASE pc \in {"cmd1", "cmd2", "cmd3", "cmd9", "cmd7", "cmd16", "cmd8i"}
      <4>1. /\ pc' \in (Slow \ {"cmd0"}) \cup {"cmd16", "cmd8i", "cmd6hs"}
            /\ pc \in (Slow \ {"cmd0"}) \cup {"cmd16", "cmd8i", "cmd6hs"}
        BY <3>1, <3>3 DEF Onward
      <4>2. UNCHANGED <<cExt, cRefused>>
        <5>1. pc \notin Switches \cup {"cmd0"}  BY <3>3 DEF Switches
        <5> QED  BY <2>1, <5>1, LeavesCard
      <4>3. emmcInit' = FALSE  BY <2>1, <3>3 DEF CardTypes, CommandSteps
      <4> QED  BY <2>1, <2>2, <4>1, <4>2, <4>3, SpeedKept
    <3>4. CASE pc = "cmd6hs"
      <4>1. pc' = "clockHs" /\ emmcInit' = FALSE
        BY <2>1, <3>1, <3>4 DEF Onward, CardTypes, CommandSteps
      <4>2. CASE card.type = {}
        <5>1. cRefused' = TRUE  BY <2>1, <3>4, <4>2 DEF Executes, Switches
        <5> QED  BY <2>1, <4>1, <4>2, <5>1 DEF SpeedInv
      <4>3. CASE card.type # {}
        <5>1. cExt' = Sets("cmd6hs")  BY <2>1, <3>4, <4>3 DEF Executes, Switches
        <5>2. Meant("cmd6hs") = <<HS_TIMING, 1>>  BY DEF Meant
        <5>3. HS_TIMING % 256 = HS_TIMING  BY DEF HS_TIMING
        <5>4. HS_TIMING \in DOMAIN cExt' /\ cExt'[HS_TIMING] = 1  BY <5>1, <5>2, <5>3 DEF Sets
        <5>5. InHighSpeed'  BY <5>4 DEF InHighSpeed
        <5> QED  BY <2>1, <4>1, <4>3, <5>5 DEF SpeedInv
      <4> QED  BY <4>2, <4>3
    <3>5. CASE pc = "cmd13hs"
      <4>1. pc' = "cmd6bw"  BY <3>1, <3>5 DEF Onward
      <4>2. ~cRefused  BY <2>1, <3>5 DEF Accepts, Statuses
      <4>3. card.type # {}  BY <3>5, <4>2 DEF SpeedInv
      <4>4. UNCHANGED <<cExt, cRefused>>  BY <2>1, <3>5, LeavesCard DEF Switches
      <4> QED  BY <2>1, <2>2, <3>5, <4>1, <4>3, <4>4, SpeedKept
    <3>6. CASE pc \in {"cmd6bw", "cmd13bw", "cmd8bw"} \/ pc \in CommandSteps
      <4>1. emmcInit \/ pc \in Fast \ {"cmd13hs"}  BY <3>6 DEF CardTypes
      <4>2. card.type # {} /\ (InHighSpeed \/ Overridden)  BY <4>1 DEF SpeedInv
      <4>3. pc' \in {"cmd13bw", "cmd8bw"} \cup CommandSteps
        <5>1. kind \in Kinds  BY <2>1, CommandIs DEF CardTypes
        <5>2. CASE pc \in {"cmd6bw", "cmd13bw", "cmd8bw"}
          BY <3>1, <5>1, <5>2 DEF Onward, Kinds, CommandSteps
        <5>3. CASE pc \in CommandSteps
          BY <2>1, <3>1, <5>3, CommandIs DEF Onward, CommandSteps, CardTypes
        <5> QED  BY <3>6, <5>2, <5>3
      <4>4. pc' \notin (Slow \ {"cmd0"}) \cup {"cmd16", "cmd8i", "cmd6hs", "clockHs", "cmd13hs"}
        BY <4>3 DEF CommandSteps
      <4>5. InHighSpeed' \/ Overridden'
        <5>1. CASE pc \in Switches
          <6>1. pc # "cmd6hs"  BY <3>6 DEF CommandSteps
          <6>2. pc = "cmd6" => kind = "EM_SECSD"  BY DEF CardTypes, CommandSteps
          <6> QED  BY <2>1, <4>2, <5>1, <6>1, <6>2, TimingIs
        <5>2. CASE pc \notin Switches
          <6>1. pc # "cmd0"  BY <3>6 DEF CommandSteps
          <6>2. UNCHANGED <<cExt, cRefused>>  BY <2>1, <5>2, <6>1, LeavesCard
          <6> QED  BY <2>2, <4>2, <6>2, OverriddenStays DEF InHighSpeed
        <5> QED  BY <5>1, <5>2
      <4> QED  BY <2>1, <4>2, <4>4, <4>5 DEF SpeedInv
    <3>7. pc \in CommandSteps \/ pc \in OnlyMount  BY <2>1, CommandIs DEF CardTypes, Steps
    <3> QED
      BY <2>1, <3>2, <3>3, <3>4, <3>5, <3>6, <3>7, CommandIs DEF OnlyMount, ClockSteps
  <2> QED  BY <1>9, <2>3, <2>4 DEF Succeeds
<1>10. ASSUME Fails PROVE SpeedInv'
  <2>1. /\ pc \in Commands /\ Abandon /\ UNCHANGED <<emmcInit, kind, card>>
        /\ Executes(pc) \/ UNCHANGED <<cExt, cRefused>>
        /\ wanted' = wanted \cup {Meant(l): l \in {pc} \cap Switches}
    BY <1>10 DEF Fails
  <2>2. pc' = "stop" \/ pc' = "idle"  BY <2>1, LeftIs
  <2>3. wanted \subseteq wanted'  BY <2>1
  <2>4. CASE ~emmcInit  BY <2>1, <2>2, <2>4 DEF SpeedInv, CardTypes
  <2>5. CASE emmcInit
    <3>1. pc \in CommandSteps  BY <2>1, <2>5, CommandIs DEF CardTypes
    <3>2. card.type # {} /\ (InHighSpeed \/ Overridden)  BY <2>5 DEF SpeedInv
    <3>3. InHighSpeed' \/ Overridden'
      <4>1. CASE UNCHANGED <<cExt, cRefused>>  BY <2>3, <3>2, <4>1, OverriddenStays DEF InHighSpeed
      <4>2. CASE Executes(pc) /\ pc \in Switches
        <5>1. pc # "cmd6hs"  BY <3>1 DEF CommandSteps
        <5>2. pc = "cmd6" => kind = "EM_SECSD"  BY DEF CardTypes, CommandSteps
        <5> QED  BY <2>1, <3>2, <4>2, <5>1, <5>2, TimingIs
      <4>3. CASE Executes(pc) /\ pc \notin Switches
        <5>1. pc # "cmd0"  BY <3>1 DEF CommandSteps
        <5>2. UNCHANGED <<cExt, cRefused>>  BY <4>3, <5>1, LeavesCard
        <5> QED  BY <4>1, <5>2
      <4> QED  BY <2>1, <4>1, <4>2, <4>3
    <3> QED  BY <2>1, <2>2, <3>2, <3>3 DEF SpeedInv
  <2> QED  BY <2>4, <2>5
<1>11. CASE UNCHANGED vars
  BY <1>11 DEF vars, driver, device, history, SpeedInv, InHighSpeed, Overridden
<1> QED  BY <1>1, <1>2, <1>3, <1>4, <1>5, <1>6, <1>7, <1>8, <1>9, <1>10, <1>11 DEF Next

-----------------------------------------------------------------------------
(* The theorems.                                                           *)

LEMMA CardInit == Init => CardInv
BY TypesInit, ReadInit, ScreenInit, SwitchInit, ClockInit, SpeedInit DEF CardInv

LEMMA CardStep == CardInv /\ [Next]_vars => CardInv'
<1> SUFFICES ASSUME CardInv, [Next]_vars PROVE CardInv'  OBVIOUS
<1>1. CardTypes /\ RegistersRead /\ ScreenInv /\ SwitchInv /\ ClockInv /\ SpeedInv  BY DEF CardInv
<1>2. CardTypes'  BY <1>1, TypesStep
<1>3. RegistersRead'  BY <1>1, ReadStep
<1>4. ScreenInv'  BY <1>1, ScreenStep
<1>5. SwitchInv'  BY <1>1, SwitchStep
<1>6. ClockInv'  BY <1>1, ClockStep
<1>7. SpeedInv'  BY <1>1, SpeedStep
<1> QED  BY <1>2, <1>3, <1>4, <1>5, <1>6, <1>7 DEF CardInv

\* The inductive invariant: where a command is, which registers the buffers hold, what
\* the screen was taken from, which bytes CMD6 set, and how clock and timing go together.
THEOREM CardInvariant == Spec => []CardInv
BY CardInit, CardStep, PTL DEF Spec

LEMMA ShownFromInv ==
  ASSUME ScreenInv
  PROVE  ShownIsCards
<1>1. ASSUME shown.table \in {"CID", "CSD"} PROVE ScreenRight[shown.table][shown.from]
  <2>1. shown.from = shown.table  BY <1>1 DEF ScreenInv
  <2>2. CASE shown.table = "CID"  BY <2>1, <2>2, ScreenIsRight
  <2>3. CASE shown.table = "CSD"  BY <2>1, <2>3, ScreenIsRight
  <2> QED  BY <1>1, <2>2, <2>3
<1>2. ASSUME shown.table = "EXT_CSD", ~dropped, NEW i \in 1..EXT_CSD_FIELD_MAX
      PROVE  LET f == dg_ext_csd_data[i] IN
             ExtRow(shown.from, i) = [n \in 1..(f[1] - f[2] + 1) |-> Byte(ReadOf(cExt), f[1] + 1 - n)]
  <2> DEFINE f == dg_ext_csd_data[i]
             D == DispIndexes(f)
             N == f[1] - f[2] + 1
  <2>1. shown.from = ReadOf(cExt)  BY <1>2 DEF ScreenInv
  <2>2. f \in Nat \X Nat  BY <1>2, ExtFields
  <2>3. f[1] \in Nat /\ f[2] \in Nat  BY <2>2
  <2>4. D = [n \in 1..N |-> f[1] - (n - 1)]  BY DEF DispIndexes
  <2>5. ExtRow(shown.from, i) = [n \in DOMAIN D |-> Byte(shown.from, D[n])]  BY DEF ExtRow
  <2> HIDE DEF f, D
  <2>6. DOMAIN D = 1..N /\ \A n \in 1..N: D[n] = f[1] + 1 - n
    <3> N \in Int  BY <2>3
    <3> HIDE DEF N
    <3>1. \A n \in 1..N: f[1] - (n - 1) = f[1] + 1 - n  BY <2>3
    <3> QED  BY <2>4, <3>1
  <2> HIDE DEF N
  <2>7. ExtRow(shown.from, i) = [n \in 1..N |-> Byte(ReadOf(cExt), f[1] + 1 - n)]
    <3> DEFINE e == ReadOf(cExt)
    <3>1. ExtRow(shown.from, i) = [n \in 1..N |-> Byte(e, D[n])]  BY <2>1, <2>5, <2>6
    <3> HIDE DEF e
    <3>2. [n \in 1..N |-> Byte(e, D[n])] = [n \in 1..N |-> Byte(e, f[1] + 1 - n)]  BY <2>6
    <3> QED  BY <3>1, <3>2 DEF e
  <2> QED  BY <2>7 DEF f, N
<1> QED  BY <1>1, <1>2 DEF ShownIsCards

\* EM_DCID, EM_DCSD and EM_DECSD show what the card holds (disp_cid, disp_csd,
\* disp_ext_csd): every field of the tables with exactly its bits, through the four
\* response registers and emmc_bit_field, and every byte of EXT_CSD as it is now.
THEOREM ShownIsTheCards == Spec => []ShownIsCards
<1>1. CardInv => ShownIsCards  BY ShownFromInv DEF CardInv
<1> QED  BY <1>1, CardInvariant, PTL

\* No byte of EXT_CSD changes but those the mount or EM_SECSD named, to the value named,
\* and a complete EM_SECSD set its byte and shows it (dg_emmc_setextcsd).
THEOREM SwitchesAreAsked == Spec => []SwitchesAsAsked
<1>1. CardInv => SwitchesAsAsked  BY DEF CardInv, SwitchInv, SwitchesAsAsked, IsSet
<1> QED  BY <1>1, CardInvariant, PTL

\* A card without a high speed timing can follow MMC_20MHZ, the clock emmc_high_speed
\* gives it whatever its TRAN_SPEED.
OrdinaryCards == \A c \in Cards: c.type = {} => MaxFreq(c.tran) >= 133000 \div MMC_20MHZ

LEMMA TimingFromInv ==
  ASSUME OrdinaryCards, CardInv
  PROVE  TimingFits
<1> SUFFICES ASSUME pc \in Commands, Sends(pc)
             PROVE  /\ clkctrl.on /\ clkctrl.div = current
                    /\ ~Overridden => KHz <= Limit
                    /\ pc \in Reads => 2^(13 + timeout) * clkctrl.div >= 2^28
  BY DEF TimingFits
<1> DEFINE top == MaxFreq(card.tran)
<1>1. CardTypes /\ ClockInv /\ SpeedInv  BY DEF CardInv
<1>2. clkctrl.on /\ clkctrl.div = current  BY <1>1 DEF Sends, ClockInv
<1>3. card \in Cards /\ card.tran \in 0..127 /\ card.type \subseteq {26, 52}
  BY <1>1, CardAssumption DEF CardTypes
<1>4. top \in Nat  BY <1>3, FrequencyIs
<1>5. 133000 \div 512 = 259 /\ 133000 \div 8 = 16625 /\ 133000 \div 4 = 33250  BY SMT
<1>6. card.type = {} => top >= 16625  BY <1>3, <1>5 DEF OrdinaryCards, MMC_20MHZ
<1>7. KHz = 133000 \div current  BY <1>2 DEF KHz
<1> HIDE DEF top
<1>8. CASE pc \in Identify
  <2>1. current = 512  BY <1>1, <1>8 DEF ClockInv, Slow, Identify
  <2>2. Limit = 400  BY <1>8 DEF Limit
  <2>3. KHz <= Limit  BY <1>5, <1>7, <2>1, <2>2
  <2>4. pc \notin Reads  BY <1>8 DEF Identify, Reads
  <2> QED  BY <1>2, <2>3, <2>4
<1>9. CASE pc \in {"cmd9", "cmd7", "cmd16", "cmd8i", "cmd6hs"}
  <2>1. pc \notin Identify  BY <1>9 DEF Identify
  <2>2. ~InHighSpeed  BY <1>1, <1>9 DEF SpeedInv, Slow, InHighSpeed
  <2>3. Limit = IF top > 400 THEN top ELSE 400  BY <2>1, <2>2 DEF Limit, top
  <2>4. CASE pc \in {"cmd9", "cmd7"}
    <3>1. current = 512  BY <1>1, <2>4 DEF ClockInv, Slow
    <3>2. KHz <= Limit  BY <1>4, <1>5, <1>7, <2>3, <3>1
    <3>3. pc \notin Reads  BY <2>4 DEF Reads
    <3> QED  BY <1>2, <3>2, <3>3
  <2>5. CASE pc \in Fitted
    <3>1. current = SpeedFor(card.tran) /\ timeout = TimeoutFor(current)  BY <1>1, <2>5 DEF ClockInv
    <3>2. current \in {4, 8, 512} /\ 133000 \div current <= IF top > 400 THEN top ELSE 400
      BY <1>3, <3>1, SpeedFits DEF top
    <3>3. KHz <= Limit  BY <1>7, <2>3, <3>2
    <3>4. 2^(13 + timeout) * clkctrl.div >= 2^28
      <4>1. 2^(13 + TimeoutFor(current)) * current >= 2^28  BY <3>2, WaitsLong
      <4> QED  BY <1>2, <3>1, <4>1, Zenon
    <3> QED  BY <1>2, <3>3, <3>4
  <2> QED  BY <1>9, <2>4, <2>5 DEF Fitted
<1>10. CASE emmcInit \/ pc \in Fast
  <2>1. current \in {4, 8} /\ (current = 4 => 52 \in card.type) /\ timeout = TimeoutFor(current)
    BY <1>1, <1>10 DEF ClockInv
  <2>2. pc \notin Identify
    <3>1. emmcInit => pc \in CommandSteps  BY <1>1, CommandIs DEF CardTypes
    <3> QED  BY <1>10, <3>1 DEF Identify, Fast, CommandSteps
  <2>3. ASSUME ~Overridden PROVE KHz <= Limit
    <3>1. card.type = {} \/ InHighSpeed  BY <1>1, <1>10, <2>3 DEF SpeedInv, Fast
    <3>2. CASE InHighSpeed /\ 52 \in card.type
      <4>1. Limit = 52000  BY <2>2, <3>2 DEF Limit
      <4> QED  BY <1>5, <1>7, <2>1, <4>1
    <3>3. CASE InHighSpeed /\ 52 \notin card.type
      <4>1. Limit = 26000  BY <2>2, <3>3 DEF Limit
      <4> QED  BY <1>5, <1>7, <2>1, <3>3, <4>1
    <3>4. CASE ~InHighSpeed
      <4>1. Limit = IF top > 400 THEN top ELSE 400  BY <2>2, <3>4 DEF Limit, top
      <4>2. current = 8 /\ top >= 16625  BY <1>6, <2>1, <3>1, <3>4
      <4> QED  BY <1>4, <1>5, <1>7, <4>1, <4>2
    <3> QED  BY <3>2, <3>3, <3>4
  <2>4. 2^(13 + timeout) * clkctrl.div >= 2^28
    <3>1. 2^(13 + TimeoutFor(current)) * current >= 2^28  BY <2>1, WaitsLong
    <3> QED  BY <1>2, <2>1, <3>1, Zenon
  <2> QED  BY <1>2, <2>3, <2>4
<1>11. pc \in Identify \cup {"cmd9", "cmd7", "cmd16", "cmd8i", "cmd6hs"} \/ emmcInit \/ pc \in Fast
  <2>1. pc \in CommandSteps => emmcInit  BY <1>1 DEF CardTypes
  <2>2. pc \in CommandSteps \/ pc \in OnlyMount  BY <1>1, CommandIs DEF CardTypes, Steps
  <2> QED  BY <2>1, <2>2, CommandIs DEF OnlyMount, ClockSteps, Identify, Fast
<1> QED  BY <1>8, <1>9, <1>10, <1>11

\* Every command goes out at a clock the card can follow, and the controller waits two
\* seconds for data (emmc_mount, emmc_high_speed, emmc_set_timeout_register_value), for
\* every card whose TRAN_SPEED allows MMC_20MHZ or that has a high speed timing.
THEOREM TimingHolds == OrdinaryCards => (Spec => []TimingFits)
<1> SUFFICES ASSUME OrdinaryCards PROVE Spec => []TimingFits  OBVIOUS
<1>1. CardInv => TimingFits  BY TimingFromInv
<1> QED  BY <1>1, CardInvariant, PTL
=============================================================================
