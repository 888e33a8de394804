--------------------------- MODULE RpcQspiProofs ---------------------------
(***************************************************************************)
(* Proofs about the flash driver and its controller (RpcQspi), for every   *)
(* size of the flash and its sectors, every set of parts and every call    *)
(* that fits.                                                              *)
(*                                                                         *)
(* The first part is about the scripts, which do not depend on the state:  *)
(* WellFormed says what stands around each operation of a script and that  *)
(* the transfers of a script reach all it is to change, ScriptsFormed that *)
(* the script of every call is well formed.  The second part is the        *)
(* invariant of the bus: it relates the registers, the flash and the cache *)
(* to the operations around ip.  The third is the contract: what the call  *)
(* in progress has done to the cells so far, and what is left.             *)
(***************************************************************************)
EXTENDS RpcQspi, Arithmetic, TLAPS

-----------------------------------------------------------------------------
(* The table of parts.                                                     *)

\* Every part has sectors of 64 or 256 KB, and none has the name of no answer.
LEMMA DevicesAre == \A d \in Devices: d.kb \in {64, 256} /\ d.name # "nothing"
<1>1. \A d \in CYPRESS: d.kb \in {64, 256} /\ d.name # "nothing"  BY DEF CYPRESS, Each
<1>2. \A d \in WINBOND: d.kb \in {64, 256} /\ d.name # "nothing"  BY DEF WINBOND, Each
<1>3. \A d \in MACRONIX: d.kb \in {64, 256} /\ d.name # "nothing"  BY DEF MACRONIX, Each
<1>4. \A d \in MICRON: d.kb \in {64, 256} /\ d.name # "nothing"  BY DEF MICRON, Each
<1>5. \A d \in DIALOG: d.kb \in {64, 256} /\ d.name # "nothing"  BY DEF DIALOG, Each
<1> QED  BY <1>1, <1>2, <1>3, <1>4, <1>5 DEF Devices

\* A part has sectors of 64 or 256 KB, the S25FS128S those of 256 KB.
LEMMA SectorsAre ==
  /\ \A p: Supported(p) => CheckQspiFlashId[p].kb \in {64, 256}
  /\ CheckQspiFlashId["S25FS128S"].kb = 256 /\ Supported("S25FS128S")
  /\ ~Supported("nothing")
<1>1. ASSUME NEW p, Supported(p)  PROVE CheckQspiFlashId[p].kb \in {64, 256}
  <2>1. PICK d \in Devices: d.name = p  BY <1>1 DEF Supported, CheckQspiFlashId
  <2>2. CheckQspiFlashId[p] \in Devices  BY <1>1, <2>1 DEF Supported, CheckQspiFlashId
  <2> QED  BY <2>2, DevicesAre
<1>2. \A d \in Devices: d.name = "S25FS128S" => d.kb = 256
  BY DEF Devices, CYPRESS, WINBOND, MACRONIX, MICRON, DIALOG, Each
<1>3. \E d \in Devices: d.name = "S25FS128S"
  <2>1. [name |-> "S25FS128S", kb |-> 256, mb |-> 16] \in Devices  BY DEF Devices, CYPRESS, Each
  <2> QED  BY <2>1
<1>4. Supported("S25FS128S")  BY <1>3 DEF Supported, CheckQspiFlashId
<1>5. CheckQspiFlashId["S25FS128S"].kb = 256
  <2>1. PICK d \in Devices: d.name = "S25FS128S"  BY <1>3
  <2>2. CheckQspiFlashId["S25FS128S"] = CHOOSE e \in Devices: e.name = "S25FS128S"
    BY <1>4 DEF Supported, CheckQspiFlashId
  <2>3. CheckQspiFlashId["S25FS128S"] \in Devices /\ CheckQspiFlashId["S25FS128S"].name = "S25FS128S"
    BY <2>1, <2>2
  <2> QED  BY <2>3, <1>2
<1>6. ~Supported("nothing")  BY DevicesAre DEF Supported, CheckQspiFlashId
<1> QED  BY <1>1, <1>4, <1>5, <1>6

-----------------------------------------------------------------------------
(* Scripts as sequences.                                                   *)

IsSeq(s) == \E S: s \in Seq(S)

\* The sum of two sequences.
LEMMA Joined ==
  ASSUME NEW s, NEW t, IsSeq(s), IsSeq(t)
  PROVE  /\ IsSeq(s \o t) /\ Len(s \o t) = Len(s) + Len(t)
         /\ \A i \in 1..Len(s): (s \o t)[i] = s[i]
         /\ \A i \in 1..Len(t): (s \o t)[Len(s) + i] = t[i]
<1>1. PICK S: s \in Seq(S)  BY DEF IsSeq
<1>2. PICK T: t \in Seq(T)  BY DEF IsSeq
<1>3. s \in Seq(S \cup T) /\ t \in Seq(S \cup T)  BY <1>1, <1>2
<1>4. s \o t \in Seq(S \cup T)  BY <1>3
<1>5. IsSeq(s \o t)  BY <1>4 DEF IsSeq
<1> QED  BY <1>3, <1>5

\* Its length.
LEMMA Sums ==
  ASSUME NEW s, NEW t, IsSeq(s), IsSeq(t)
  PROVE  IsSeq(s \o t) /\ Len(s \o t) = Len(s) + Len(t)
BY Joined

\* The length of a sequence is a number.
LEMMA Lengths == ASSUME NEW s, IsSeq(s)  PROVE Len(s) \in Nat
<1>1. PICK S: s \in Seq(S)  BY DEF IsSeq
<1> QED  BY <1>1

\* A sequence of one operation.
LEMMA Single == ASSUME NEW a  PROVE IsSeq(<<a>>) /\ Len(<<a>>) = 1 /\ <<a>>[1] = a
<1>1. <<a>> \in Seq({a})  OBVIOUS
<1> QED  BY <1>1 DEF IsSeq

\* A sequence of five.
LEMMA Five ==
  ASSUME NEW a, NEW b, NEW c, NEW d, NEW e
  PROVE  IsSeq(<<a, b, c, d, e>>) /\ Len(<<a, b, c, d, e>>) = 5
<1>1. <<a, b, c, d, e>> \in Seq({a, b, c, d, e})  OBVIOUS
<1> QED  BY <1>1 DEF IsSeq

\* u stands in s behind position b.
Within(u, b, s) == b \in Nat /\ b + Len(u) <= Len(s) /\ \A j \in 1..Len(u): s[b + j] = u[j]

\* The parts of a sum stand where the sum does.
LEMMA Parted ==
  ASSUME NEW u, NEW v, IsSeq(u), IsSeq(v), NEW s, IsSeq(s), NEW b, Within(u \o v, b, s)
  PROVE  Within(u, b, s) /\ Within(v, b + Len(u), s)
<1>1. Len(u) \in Nat /\ Len(v) \in Nat /\ Len(s) \in Nat  BY Lengths
<1>2. b \in Nat /\ b + (Len(u) + Len(v)) <= Len(s)  BY Joined DEF Within
<1>3. \A j \in 1..Len(u): s[b + j] = u[j]
  <2> TAKE j \in 1..Len(u)
  <2>1. j \in 1..(Len(u) + Len(v))  BY <1>1
  <2> QED  BY <2>1, Joined DEF Within
<1>4. \A j \in 1..Len(v): s[b + Len(u) + j] = v[j]
  <2> TAKE j \in 1..Len(v)
  <2>1. Len(u) + j \in 1..(Len(u) + Len(v)) /\ b + Len(u) + j = b + (Len(u) + j)  BY <1>1, <1>2
  <2>2. s[b + (Len(u) + j)] = (u \o v)[Len(u) + j]  BY <2>1, Joined, ZenonT(40) DEF Within
  <2> QED  BY <2>1, <2>2, Joined
<1> QED  BY <1>1, <1>2, <1>3, <1>4 DEF Within

\* What stands in a part stands in the whole.
LEMMA Nested ==
  ASSUME NEW u, NEW t, NEW s, IsSeq(u), IsSeq(t), IsSeq(s), NEW a, NEW b, Within(u, a, t), Within(t, b, s)
  PROVE  Within(u, b + a, s)
<1>1. a \in Nat /\ b \in Nat /\ Len(u) \in Nat /\ Len(t) \in Nat /\ Len(s) \in Nat
  BY Lengths DEF Within
<1>2. a + Len(u) <= Len(t) /\ b + Len(t) <= Len(s)  BY DEF Within
<1>3. b + a \in Nat /\ b + a + Len(u) <= Len(s)  BY <1>1, <1>2
<1>4. \A j \in 1..Len(u): s[b + a + j] = u[j]
  <2> TAKE j \in 1..Len(u)
  <2>1. a + j \in 1..Len(t) /\ b + (a + j) = b + a + j  BY <1>1, <1>2
  <2>2. t[a + j] = u[j]  BY DEF Within
  <2>3. s[b + (a + j)] = t[a + j]  BY <2>1 DEF Within
  <2> QED  BY <2>1, <2>2, <2>3
<1> QED  BY <1>3, <1>4 DEF Within

\* The turns of a loop stand one behind the other.
LEMMA TurnsAre ==
  ASSUME NEW n \in Nat \ {0}, NEW len \in Nat \ {0}, NEW seqs, IsSeq(seqs), Len(seqs) = n,
         \A i \in 1..n: Len(seqs[i]) = len
  PROVE  /\ IsSeq(Turns(seqs)) /\ Len(Turns(seqs)) = n * len
         /\ \A i \in 1..n: Within(seqs[i], (i - 1) * len, Turns(seqs))
         /\ \A k \in 1..(n * len): \E i \in 1..n, j \in 1..len: k = (i - 1) * len + j
<1> DEFINE T == Turns(seqs)
<1>1. 1 \in 1..n  OBVIOUS
<1>2. T = [k \in 1..(n * len) |-> seqs[1 + ((k - 1) \div len)][1 + ((k - 1) % len)]]
  BY <1>1 DEF Turns
<1>3. n * len \in Nat  OBVIOUS
<1>4. IsSeq(T) /\ Len(T) = n * len
  <2> HIDE DEF T
  <2> DEFINE V == {T[k]: k \in 1..(n * len)}
  <2>1. T \in [1..(n * len) -> V]  BY <1>2
  <2>2. T \in Seq(V) /\ Len(T) = n * len
    <3> HIDE DEF V
    <3> QED  BY <2>1, <1>2, <1>3
  <2> QED  BY <2>2 DEF IsSeq
<1>5. ASSUME NEW i \in 1..n, NEW j \in 1..len
      PROVE  /\ (i - 1) * len + j \in 1..(n * len)
             /\ T[(i - 1) * len + j] = seqs[i][j]
  <2> DEFINE k == (i - 1) * len + j
  <2>1. i - 1 \in Int /\ i - 1 <= n - 1 /\ 0 <= i - 1 /\ 0 \in Int /\ n - 1 \in Int  OBVIOUS
  <2>2. len * (i - 1) <= len * (n - 1) /\ len * 0 <= len * (i - 1)  BY <2>1, ProductGrows
  <2>3. len * (n - 1) = n * len - len /\ (i - 1) * len = len * (i - 1) /\ len * (i - 1) \in Int
    OBVIOUS
  <2>4. k \in Int /\ k >= 1 /\ k <= n * len  BY <2>2, <2>3
  <2>5. k - 1 = len * (i - 1) + (j - 1) /\ j - 1 \in 0..(len - 1)  BY <2>3
  <2>6. (k - 1) \div len = i - 1 /\ (k - 1) % len = j - 1
    <3>1. /\ (len * (i - 1) + (j - 1)) \div len = i - 1
          /\ (len * (i - 1) + (j - 1)) % len = j - 1
      BY <2>5, <2>1, DividedOnce
    <3> QED  BY <3>1, <2>5
  <2>7. 1 + ((k - 1) \div len) = i /\ 1 + ((k - 1) % len) = j  BY <2>6
  <2>8. k \in 1..(n * len)  BY <2>4
  <2> HIDE DEF k, T
  <2>9. T[k] = seqs[1 + ((k - 1) \div len)][1 + ((k - 1) % len)]  BY <1>2, <2>8
  <2>10. T[k] = seqs[i][j]  BY <2>9, <2>7, Zenon
  <2> QED  BY <2>8, <2>10 DEF k
<1>6. ASSUME NEW i \in 1..n  PROVE Within(seqs[i], (i - 1) * len, T)
  <2>1. (i - 1) * len + len \in 1..(n * len)  BY <1>5, len \in 1..len
  <2>2. (i - 1) * len \in Nat
    <3>1. i - 1 \in Nat  OBVIOUS
    <3> QED  BY <3>1
  <2>3. Len(seqs[i]) = len  OBVIOUS
  <2>4. \A j \in 1..len: T[(i - 1) * len + j] = seqs[i][j]  BY <1>5
  <2>5. (i - 1) * len + len <= Len(T)  BY <2>1, <1>4
  <2> HIDE DEF T
  <2> QED  BY <2>2, <2>3, <2>4, <2>5 DEF Within
<1>7. ASSUME NEW k \in 1..(n * len)
      PROVE  \E i \in 1..n, j \in 1..len: k = (i - 1) * len + j
  <2>1. k - 1 \in Int /\ n * len \in Int  OBVIOUS
  <2> DEFINE q == (k - 1) \div len
             r == (k - 1) % len
  <2>2. q \in Int /\ r \in 0..(len - 1) /\ k - 1 = len * q + r  BY <2>1, Divided
  <2> HIDE DEF q, r
  <2>3. q >= 0
    <3> SUFFICES ASSUME q <= -1  PROVE FALSE  BY <2>2
    <3>1. len * q <= len * (-1)  BY <2>2, ProductGrows
    <3> QED  BY <3>1, <2>2, <2>1
  <2>4. q < n
    <3> SUFFICES ASSUME n <= q  PROVE FALSE  BY <2>2
    <3>1. len * n <= len * q  BY <2>2, ProductGrows
    <3>2. len * n = n * len  OBVIOUS
    <3> QED  BY <3>1, <3>2, <2>2, <2>1
  <2>5. q + 1 \in 1..n /\ r + 1 \in 1..len /\ k = ((q + 1) - 1) * len + (r + 1)
    <3>1. (q + 1) - 1 = q /\ q * len = len * q  BY <2>2
    <3> QED  BY <3>1, <2>2, <2>3, <2>4, <2>1
  <2> QED  BY <2>5
<1> QED  BY <1>4, <1>6, <1>7

-----------------------------------------------------------------------------
(* The frames of a script: what surrounds an operation that starts a       *)
(* transfer.                                                               *)

Codes    == {"06", "05", "9F", "65", "60", "D8", "DC", "20", "21", "02", "12", "71"}
Erases   == {"60", "D8", "DC", "20", "21"}
Programs == {"02", "12"}
Changes  == Erases \cup Programs \cup {"71"}

Code(s, k)    == s[k - 3][3]
Address(s, k) == s[k - 2][3]
Index(s, k)   == s[k - 5][3]

Quad       == <<"write", "phycnt", [memory |-> "QSPI", buffered |-> FALSE]>>
QuadBuffer == <<"write", "phycnt", [memory |-> "QSPI", buffered |-> TRUE]>>
Hyper      == <<"write", "phycnt", [memory |-> "HyperFlash", buffered |-> FALSE]>>
Clear      == <<"write", "drcr", "clear">>
Await      == <<"WaitRpcTxEnd">>
Poll       == <<"ready?", 7>>

\* The operations that are sequences of one.
LEMMA BusIs ==
  /\ Bus("QSPI", FALSE) = <<Quad>> /\ Bus("QSPI", TRUE) = <<QuadBuffer>>
  /\ Bus("HyperFlash", FALSE) = <<Hyper>> /\ RCF = <<Clear>> /\ WaitRpcTxEnd = <<Await>>
BY DEF Bus, Quad, QuadBuffer, Hyper, RCF, Clear, WaitRpcTxEnd, Await

\* The command that is started at k.
Commands(s, k, code, width, at, size, way) ==
  /\ k \in 5..(Len(s) - 1)
  /\ s[k - 4] = <<"write", "cmncr", "manual">>
  /\ s[k - 3] = <<"write", "smcmr", code>>
  /\ s[k - 2] = <<"write", "smadr", at>>
  /\ s[k - 1] = <<"write", "smenr", [width |-> width, size |-> size]>>
  /\ s[k] = <<"start", way>>
  /\ s[k + 1] = Await

\* A command without a buffer, and one with.
Plainly(s, k, code, width, at, size, way) ==
  /\ Commands(s, k, code, width, at, size, way)
  /\ k \in 6..(Len(s) - 1) /\ s[k - 5] = Quad
Bufferedly(s, k, code, width, at, i) ==
  /\ Commands(s, k, code, width, at, 256, "write")
  /\ k \in 8..(Len(s) - 3) /\ s[k - 7] = Clear /\ s[k - 6] = QuadBuffer
  /\ s[k - 5] = <<"write", "wrbuf", i>>
  /\ s[k + 2] = Hyper /\ s[k + 3] = Clear

\* Where the registers are written, the command is started five operations on.
LEMMA ManualAt ==
  ASSUME NEW s, IsSeq(s), NEW b, NEW code, NEW width, NEW at, NEW size, NEW way,
         Within(Manual(code, width, at, size, way), b, s)
  PROVE  Commands(s, b + 5, code, width, at, size, way)
<1> DEFINE five == << <<"write", "cmncr", "manual">>, <<"write", "smcmr", code>>, <<"write", "smadr", at>>,
                      <<"write", "smenr", [width |-> width, size |-> size]>>, <<"start", way>> >>
<1>1. IsSeq(five) /\ Len(five) = 5  BY Five
<1>2. IsSeq(WaitRpcTxEnd) /\ Len(WaitRpcTxEnd) = 1 /\ WaitRpcTxEnd[1] = Await
  BY Single DEF WaitRpcTxEnd, Await
<1>3. Manual(code, width, at, size, way) = five \o WaitRpcTxEnd  BY DEF Manual
<1>4. Within(five, b, s) /\ Within(WaitRpcTxEnd, b + 5, s)
  <2> HIDE DEF five
  <2> QED  BY <1>1, <1>2, <1>3, Parted
<1>5. s[b + 1] = five[1] /\ s[b + 2] = five[2] /\ s[b + 3] = five[3] /\ s[b + 4] = five[4] /\ s[b + 5] = five[5]
  <2> HIDE DEF five
  <2> QED  BY <1>4, <1>1 DEF Within
<1>6. s[b + 5 + 1] = Await /\ b \in Nat /\ b + 5 + 1 <= Len(s) /\ Len(s) \in Nat
  BY <1>4, <1>2, <1>1, Lengths DEF Within
<1>7. (b + 5) - 4 = b + 1 /\ (b + 5) - 3 = b + 2 /\ (b + 5) - 2 = b + 3 /\ (b + 5) - 1 = b + 4
      /\ b + 5 \in 5..(Len(s) - 1)
  BY <1>6
<1>8. Commands(s, b + 5, code, width, at, size, way)
  BY <1>5, <1>6, <1>7 DEF Commands
<1> QED  BY <1>8

\* A manual transfer has six operations.
LEMMA ManualIs ==
  ASSUME NEW code, NEW width, NEW at, NEW size, NEW way
  PROVE  IsSeq(Manual(code, width, at, size, way)) /\ Len(Manual(code, width, at, size, way)) = 6
<1> DEFINE five == << <<"write", "cmncr", "manual">>, <<"write", "smcmr", code>>, <<"write", "smadr", at>>,
                      <<"write", "smenr", [width |-> width, size |-> size]>>, <<"start", way>> >>
<1>1. IsSeq(five) /\ Len(five) = 5  BY Five
<1>2. IsSeq(WaitRpcTxEnd) /\ Len(WaitRpcTxEnd) = 1  BY Single DEF WaitRpcTxEnd
<1>3. Manual(code, width, at, size, way) = five \o WaitRpcTxEnd  BY DEF Manual
<1> HIDE DEF five
<1>4. IsSeq(five \o WaitRpcTxEnd) /\ Len(five \o WaitRpcTxEnd) = Len(five) + Len(WaitRpcTxEnd)
  BY <1>1, <1>2, Joined
<1> QED  BY <1>1, <1>2, <1>3, <1>4

\* A command has seven.
LEMMA CommandIs ==
  ASSUME NEW code, NEW width, NEW at, NEW size, NEW way
  PROVE  IsSeq(Command(code, width, at, size, way)) /\ Len(Command(code, width, at, size, way)) = 7
<1> DEFINE B == <<Quad>>
           M == Manual(code, width, at, size, way)
<1>1. IsSeq(B) /\ Len(B) = 1  BY Single
<1>2. IsSeq(M) /\ Len(M) = 6  BY ManualIs
<1>3. Command(code, width, at, size, way) = B \o M  BY BusIs DEF Command
<1> HIDE DEF B, M
<1>4. IsSeq(B \o M) /\ Len(B \o M) = Len(B) + Len(M)  BY <1>1, <1>2, Sums
<1> QED  BY <1>1, <1>2, <1>3, <1>4

\* A sequence of one operation, with something behind it.
LEMMA First ==
  ASSUME NEW s, IsSeq(s), NEW o, NEW t, IsSeq(t), NEW b, Within(<<o>> \o t, b, s)
  PROVE  b \in Nat /\ s[b + 1] = o /\ b + 1 <= Len(s) /\ Within(t, b + 1, s)
<1>1. IsSeq(<<o>>) /\ Len(<<o>>) = 1 /\ <<o>>[1] = o  BY Single
<1>2. Within(<<o>>, b, s) /\ Within(t, b + 1, s)  BY <1>1, Parted
<1> QED  BY <1>1, <1>2 DEF Within

\* A single operation stands behind the position.
LEMMA Only ==
  ASSUME NEW s, NEW o, NEW b, Within(<<o>>, b, s)
  PROVE  b \in Nat /\ s[b + 1] = o /\ b + 1 <= Len(s)
BY Single DEF Within

\* A command stands around the start, six operations on.
LEMMA CommandAt ==
  ASSUME NEW s, IsSeq(s), NEW b, NEW code, NEW width, NEW at, NEW size, NEW way,
         Within(Command(code, width, at, size, way), b, s)
  PROVE  Plainly(s, b + 6, code, width, at, size, way)
<1>1. b \in Nat /\ s[b + 1] = Quad /\ Within(Manual(code, width, at, size, way), b + 1, s)
  <2>1. Within(<<Quad>> \o Manual(code, width, at, size, way), b, s)  BY BusIs DEF Command
  <2> QED  BY <2>1, First, ManualIs
<1>4. Commands(s, b + 1 + 5, code, width, at, size, way)  BY <1>1, ManualAt
<1>5. b + 1 + 5 = b + 6 /\ (b + 6) - 5 = b + 1  BY <1>1
<1>6. Commands(s, b + 6, code, width, at, size, way)  BY <1>4, <1>5, Zenon
<1>7. b + 6 \in 6..(Len(s) - 1)  BY <1>6, <1>1, Lengths DEF Commands
<1> QED  BY <1>1, <1>5, <1>6, <1>7 DEF Plainly

\* The last operation of a sequence.
LEMMA Final ==
  ASSUME NEW s, IsSeq(s), NEW o, NEW t, IsSeq(t), NEW b, Within(t \o <<o>>, b, s)
  PROVE  /\ b \in Nat /\ s[b + Len(t) + 1] = o /\ b + Len(t) + 1 <= Len(s) /\ Within(t, b, s)
<1>1. IsSeq(<<o>>) /\ Len(<<o>>) = 1 /\ <<o>>[1] = o  BY Single
<1>2. Within(t, b, s) /\ Within(<<o>>, b + Len(t), s)  BY <1>1, Parted
<1>3. s[(b + Len(t)) + 1] = o /\ (b + Len(t)) + 1 <= Len(s)  BY <1>2, Only
<1> QED  BY <1>2, <1>3 DEF Within

\* A sequence with one operation more.
LEMMA Longer ==
  ASSUME NEW o, NEW t, IsSeq(t)
  PROVE  /\ IsSeq(t \o <<o>>) /\ Len(t \o <<o>>) = Len(t) + 1
         /\ IsSeq(<<o>> \o t) /\ Len(<<o>> \o t) = 1 + Len(t)
<1>1. IsSeq(<<o>>) /\ Len(<<o>>) = 1  BY Single
<1> HIDE DEF IsSeq
<1>2. IsSeq(t \o <<o>>) /\ Len(t \o <<o>>) = Len(t) + Len(<<o>>)  BY <1>1, Joined
<1>3. IsSeq(<<o>> \o t) /\ Len(<<o>> \o t) = Len(<<o>>) + Len(t)  BY <1>1, Joined
<1> QED  BY <1>1, <1>2, <1>3, Zenon

\* A page program.
LEMMA BufferedIs ==
  ASSUME NEW code, NEW width, NEW at, NEW i
  PROVE  /\ IsSeq(Buffered(code, width, at, i)) /\ Len(Buffered(code, width, at, i)) = 11
         /\ \A s, b: IsSeq(s) /\ Within(Buffered(code, width, at, i), b, s) =>
              Bufferedly(s, b + 8, code, width, at, i)
<1> DEFINE w == <<"write", "wrbuf", i>>
           m == Manual(code, width, at, 256, "write")
           c == <<Clear>>
           one == c \o <<QuadBuffer>>
           two == one \o <<w>>
           three == two \o m
           four == three \o <<Hyper>>
<1>1. Buffered(code, width, at, i) = four \o <<Clear>>  BY BusIs DEF Buffered
<1>2. IsSeq(m) /\ Len(m) = 6  BY ManualIs
<1>3. IsSeq(c) /\ Len(c) = 1  BY Single
<1> HIDE DEF m, w, c
<1>4. IsSeq(one) /\ Len(one) = 1 + 1  BY <1>3, Longer
<1> HIDE DEF one
<1>5. IsSeq(two) /\ Len(two) = 1 + 1 + 1  BY <1>4, Longer
<1> HIDE DEF two
<1>6. IsSeq(three) /\ Len(three) = Len(two) + Len(m)  BY <1>5, <1>2, Sums
<1>7. Len(three) = 9  BY <1>5, <1>6, <1>2
<1> HIDE DEF three
<1>8. IsSeq(four) /\ Len(four) = Len(three) + 1  BY <1>6, Longer
<1>9. Len(four) = 10  BY <1>8, <1>7
<1> HIDE DEF four
<1>10. IsSeq(four \o <<Clear>>) /\ Len(four \o <<Clear>>) = 10 + 1  BY <1>8, <1>9, Longer
<1>11. ASSUME NEW s, NEW b, IsSeq(s), Within(four \o <<Clear>>, b, s)
       PROVE  Bufferedly(s, b + 8, code, width, at, i)
  <2>1. b \in Nat /\ s[b + 10 + 1] = Clear /\ b + 10 + 1 <= Len(s) /\ Within(four, b, s)
    <3>1. /\ b \in Nat /\ s[b + Len(four) + 1] = Clear
          /\ b + Len(four) + 1 <= Len(s) /\ Within(four, b, s)
      BY <1>11, <1>8, Final
    <3> QED  BY <3>1, <1>9
  <2>2. s[b + 9 + 1] = Hyper /\ Within(three, b, s)
    <3>1. Within(three \o <<Hyper>>, b, s)  BY <2>1 DEF four
    <3>2. s[b + Len(three) + 1] = Hyper /\ Within(three, b, s)
      BY <3>1, <1>11, <1>6, Final
    <3> QED  BY <3>2, <1>7
  <2>3. Within(two, b, s) /\ Within(m, b + 3, s)
    <3>1. Within(two \o m, b, s)  BY <2>2 DEF three
    <3>2. Within(two, b, s) /\ Within(m, b + Len(two), s)
      BY <3>1, <1>11, <1>5, <1>2, Parted
    <3> QED  BY <3>2, <1>5
  <2>4. s[b + 2 + 1] = w /\ Within(one, b, s)
    <3>1. Within(one \o <<w>>, b, s)  BY <2>3 DEF two
    <3>2. IsSeq(one)  BY <1>4
    <3>3. s[b + Len(one) + 1] = w /\ Within(one, b, s)  BY <3>1, <3>2, <1>11, Final
    <3> QED  BY <3>3, <1>4
  <2>5. s[b + 1 + 1] = QuadBuffer /\ Within(c, b, s)
    <3>1. Within(c \o <<QuadBuffer>>, b, s)  BY <2>4 DEF one
    <3>2. IsSeq(c)  BY <1>3
    <3>3. s[b + Len(c) + 1] = QuadBuffer /\ Within(c, b, s)
      BY <3>1, <3>2, <1>11, Final
    <3> QED  BY <3>3, <1>3
  <2>6. s[b + 1] = Clear  BY <2>5, Only DEF c
  <2>7. Commands(s, b + 3 + 5, code, width, at, 256, "write")  BY <2>3, <1>11, ManualAt DEF m
  <2>8. /\ b + 3 + 5 = b + 8 /\ (b + 8) - 7 = b + 1 /\ (b + 8) - 6 = b + 1 + 1
        /\ (b + 8) - 5 = b + 2 + 1 /\ (b + 8) + 2 = b + 9 + 1 /\ (b + 8) + 3 = b + 10 + 1
        /\ b + 8 \in 8..(Len(s) - 3)
    BY <2>1, <1>11, Lengths
  <2>9. Commands(s, b + 8, code, width, at, 256, "write")  BY <2>7, <2>8, Zenon
  <2> QED  BY <2>1, <2>2, <2>4, <2>5, <2>6, <2>8, <2>9 DEF Bufferedly, w
<1>12. \A s, b: IsSeq(s) /\ Within(four \o <<Clear>>, b, s) => Bufferedly(s, b + 8, code, width, at, i)
  BY <1>11, Zenon
<1> QED  BY <1>1, <1>10, <1>12

\* The write to a register of the S25FS128S.
LEMMA WriteAnyIs ==
  ASSUME NEW v
  PROVE  /\ IsSeq(WriteAnyRegisterQspiFlash(v)) /\ Len(WriteAnyRegisterQspiFlash(v)) = 10
         /\ \A s, b: IsSeq(s) /\ Within(WriteAnyRegisterQspiFlash(v), b, s) =>
              /\ s[b + 1] = <<"write", "smwdr0", v>> /\ Plainly(s, b + 7, "71", 3, 0, 1, "write")
              /\ s[b + 9] = Hyper /\ s[b + 10] = Clear
<1> DEFINE w == <<"write", "smwdr0", v>>
           m == Command("71", 3, 0, 1, "write")
           one == <<w>> \o m
           two == one \o <<Hyper>>
<1>1. WriteAnyRegisterQspiFlash(v) = two \o <<Clear>>  BY BusIs DEF WriteAnyRegisterQspiFlash
<1>2. IsSeq(m) /\ Len(m) = 7  BY CommandIs
<1> HIDE DEF m, w
<1>3. IsSeq(one)  BY <1>2, Longer
<1>4. Len(one) = 8
  <2>1. Len(one) = 1 + Len(m)  BY <1>2, Longer
  <2> QED  BY <2>1, <1>2
<1> HIDE DEF one
<1>5. IsSeq(two)  BY <1>3, Longer
<1>6. Len(two) = 9
  <2>1. Len(two) = Len(one) + 1  BY <1>3, Longer
  <2> QED  BY <2>1, <1>4
<1> HIDE DEF two
<1>7. IsSeq(two \o <<Clear>>) /\ Len(two \o <<Clear>>) = 10
  <2>1. IsSeq(two \o <<Clear>>) /\ Len(two \o <<Clear>>) = Len(two) + 1  BY <1>5, Longer
  <2> QED  BY <2>1, <1>6
<1>8. ASSUME NEW s, NEW b, IsSeq(s), Within(two \o <<Clear>>, b, s)
      PROVE  /\ s[b + 1] = w /\ Plainly(s, b + 7, "71", 3, 0, 1, "write")
             /\ s[b + 9] = Hyper /\ s[b + 10] = Clear
  <2>1. b \in Nat /\ s[b + Len(two) + 1] = Clear /\ Within(two, b, s)  BY <1>8, <1>5, Final
  <2>2. Within(one \o <<Hyper>>, b, s)  BY <2>1 DEF two
  <2>3. s[b + Len(one) + 1] = Hyper /\ Within(one, b, s)  BY <2>2, <1>8, <1>3, Final
  <2>4. Within(<<w>> \o m, b, s)  BY <2>3 DEF one
  <2>5. IsSeq(m)  BY <1>2
  <2>6. s[b + 1] = w /\ Within(m, b + 1, s)  BY <2>4, <2>5, <1>8, First
  <2>7. Plainly(s, b + 1 + 6, "71", 3, 0, 1, "write")  BY <2>6, <1>8, CommandAt DEF m
  <2>8. b + 1 + 6 = b + 7 /\ b + Len(two) + 1 = b + 10 /\ b + Len(one) + 1 = b + 9
    BY <2>1, <1>4, <1>6
  <2>9. Plainly(s, b + 7, "71", 3, 0, 1, "write")  BY <2>7, <2>8, Zenon
  <2> QED  BY <2>1, <2>3, <2>6, <2>8, <2>9
<1>9. \A s, b: IsSeq(s) /\ Within(two \o <<Clear>>, b, s) =>
        /\ s[b + 1] = w /\ Plainly(s, b + 7, "71", 3, 0, 1, "write")
        /\ s[b + 9] = Hyper /\ s[b + 10] = Clear
  BY <1>8, Zenon
<1> QED  BY <1>1, <1>7, <1>9 DEF w

\* The status is read until the flash is ready.
LEMMA UntilReadyIs ==
  /\ IsSeq(UntilReady) /\ Len(UntilReady) = 8
  /\ \A s, b: IsSeq(s) /\ Within(UntilReady, b, s) =>
       Plainly(s, b + 6, "05", 0, 0, 4, "read") /\ s[b + 8] = Poll /\ b + 8 <= Len(s)
<1> DEFINE m == Command("05", 0, 0, 4, "read")
<1>1. IsSeq(m) /\ Len(m) = 7 /\ ReadStatusQspiFlash = m  BY CommandIs DEF ReadStatusQspiFlash
<1>2. UntilReady = m \o <<Poll>>  BY <1>1 DEF UntilReady, Poll
<1> HIDE DEF m
<1>3. IsSeq(m \o <<Poll>>) /\ Len(m \o <<Poll>>) = Len(m) + 1  BY <1>1, Longer
<1>4. ASSUME NEW s, NEW b, IsSeq(s), Within(m \o <<Poll>>, b, s)
      PROVE  Plainly(s, b + 6, "05", 0, 0, 4, "read") /\ s[b + 8] = Poll /\ b + 8 <= Len(s)
  <2>1. IsSeq(m)  BY <1>1
  <2>2. b \in Nat /\ s[b + Len(m) + 1] = Poll /\ b + Len(m) + 1 <= Len(s) /\ Within(m, b, s)
    BY <1>4, <2>1, Final
  <2>3. Plainly(s, b + 6, "05", 0, 0, 4, "read")  BY <2>2, <1>4, CommandAt DEF m
  <2> QED  BY <2>2, <2>3, <1>1
<1>5. \A s, b: IsSeq(s) /\ Within(m \o <<Poll>>, b, s) =>
        Plainly(s, b + 6, "05", 0, 0, 4, "read") /\ s[b + 8] = Poll /\ b + 8 <= Len(s)
  BY <1>4, Zenon
<1> QED  BY <1>1, <1>2, <1>3, <1>5

\* A command that is enabled and waited for.
Erasing(s, b, code, width, at) ==
  /\ Plainly(s, b + 6, "06", 0, 0, 0, "none")
  /\ Plainly(s, b + 13, code, width, at, 0, "none")
  /\ Plainly(s, b + 20, "05", 0, 0, 4, "read") /\ s[b + 22] = Poll /\ b + 22 <= Len(s)

\* The operations of one erase.
LEMMA ErasingIs ==
  ASSUME NEW code, NEW width, NEW at
  PROVE  LET e == WREN \o Command(code, width, at, 0, "none") \o UntilReady
         IN  /\ IsSeq(e) /\ Len(e) = 22
             /\ \A s, b: IsSeq(s) /\ Within(e, b, s) => Erasing(s, b, code, width, at)
<1> DEFINE w == Command("06", 0, 0, 0, "none")
           m == Command(code, width, at, 0, "none")
           one == w \o m
           e == WREN \o Command(code, width, at, 0, "none") \o UntilReady
<1>1. IsSeq(w) /\ Len(w) = 7 /\ IsSeq(m) /\ Len(m) = 7  BY CommandIs
<1>2. e = one \o UntilReady  BY DEF WREN, WriteCommandQspiFlash
<1> HIDE DEF w, m, e
<1>3. IsSeq(one) /\ Len(one) = 14
  <2>1. IsSeq(one) /\ Len(one) = Len(w) + Len(m)  BY <1>1, Sums
  <2> QED  BY <2>1, <1>1
<1> HIDE DEF one
<1>4. IsSeq(e) /\ Len(e) = 22
  <2>1. IsSeq(one \o UntilReady) /\ Len(one \o UntilReady) = Len(one) + Len(UntilReady)
    BY <1>3, UntilReadyIs, Joined
  <2> QED  BY <2>1, <1>2, <1>3, UntilReadyIs
<1>5. ASSUME NEW s, NEW b, IsSeq(s), Within(e, b, s)
      PROVE  Erasing(s, b, code, width, at)
  <2>1. Within(one, b, s) /\ Within(UntilReady, b + 14, s)
    <3>1. Within(one, b, s) /\ Within(UntilReady, b + Len(one), s)
      BY <1>5, <1>2, <1>3, UntilReadyIs, Parted
    <3> QED  BY <3>1, <1>3
  <2>2. Within(w, b, s) /\ Within(m, b + 7, s)
    <3>1. Within(w \o m, b, s)  BY <2>1 DEF one
    <3>2. Within(w, b, s) /\ Within(m, b + Len(w), s)  BY <3>1, <1>5, <1>1, Parted
    <3> QED  BY <3>2, <1>1
  <2>3. b \in Nat  BY <2>2 DEF Within
  <2>4. Plainly(s, b + 6, "06", 0, 0, 0, "none")  BY <2>2, <1>5, CommandAt DEF w
  <2>5. Plainly(s, b + 13, code, width, at, 0, "none")
    <3>1. Plainly(s, b + 7 + 6, code, width, at, 0, "none")  BY <2>2, <1>5, CommandAt DEF m
    <3>2. b + 7 + 6 = b + 13  BY <2>3
    <3> QED  BY <3>1, <3>2, Zenon
  <2>6. Plainly(s, b + 14 + 6, "05", 0, 0, 4, "read") /\ s[b + 14 + 8] = Poll /\ b + 14 + 8 <= Len(s)
    BY <2>1, <1>5, UntilReadyIs
  <2>7. b + 14 + 6 = b + 20 /\ b + 14 + 8 = b + 22  BY <2>3
  <2>8. Plainly(s, b + 20, "05", 0, 0, 4, "read") /\ s[b + 22] = Poll /\ b + 22 <= Len(s)
    BY <2>6, <2>7, Zenon
  <2> QED  BY <2>4, <2>5, <2>8 DEF Erasing
<1>6. \A s, b: IsSeq(s) /\ Within(e, b, s) => Erasing(s, b, code, width, at)  BY <1>5, Zenon
<1> QED  BY <1>4, <1>6 DEF e

\* A page is programmed.
Programming(s, b, code, width, at, i) ==
  Plainly(s, b + 6, "06", 0, 0, 0, "none") /\ Bufferedly(s, b + 15, code, width, at, i)

\* The operations of one page program.
LEMMA ProgrammingIs ==
  ASSUME NEW code, NEW width, NEW at, NEW i
  PROVE  LET e == WREN \o Buffered(code, width, at, i)
         IN  /\ IsSeq(e) /\ Len(e) = 18
             /\ \A s, b: IsSeq(s) /\ Within(e, b, s) => Programming(s, b, code, width, at, i)
<1> DEFINE w == Command("06", 0, 0, 0, "none")
           m == Buffered(code, width, at, i)
           e == w \o m
<1>1. IsSeq(w) /\ Len(w) = 7 /\ IsSeq(m) /\ Len(m) = 11  BY CommandIs, BufferedIs
<1>2. e = WREN \o Buffered(code, width, at, i)  BY DEF WREN, WriteCommandQspiFlash
<1> HIDE DEF w, m
<1>3. IsSeq(e) /\ Len(e) = 18
  <2>1. IsSeq(w \o m) /\ Len(w \o m) = Len(w) + Len(m)  BY <1>1, Sums
  <2> QED  BY <2>1, <1>1
<1>4. ASSUME NEW s, NEW b, IsSeq(s), Within(e, b, s)
      PROVE  Programming(s, b, code, width, at, i)
  <2>1. Within(w, b, s) /\ Within(m, b + 7, s)
    <3>1. Within(w, b, s) /\ Within(m, b + Len(w), s)  BY <1>4, <1>1, Parted
    <3> QED  BY <3>1, <1>1
  <2>2. b \in Nat  BY <2>1 DEF Within
  <2>3. Plainly(s, b + 6, "06", 0, 0, 0, "none")  BY <2>1, <1>4, CommandAt DEF w
  <2>4. Bufferedly(s, b + 7 + 8, code, width, at, i)  BY <2>1, <1>4, BufferedIs DEF m
  <2>5. b + 7 + 8 = b + 15  BY <2>2
  <2>6. Bufferedly(s, b + 15, code, width, at, i)  BY <2>4, <2>5, Zenon
  <2> QED  BY <2>3, <2>6 DEF Programming
<1> HIDE DEF e
<1>5. \A s, b: IsSeq(s) /\ Within(e, b, s) => Programming(s, b, code, width, at, i)  BY <1>4, Zenon
<1> QED  BY <1>2, <1>3, <1>5

\* A page of a save is waited for, a page of a stream waits for the one before.
LEMMA SavingIs ==
  ASSUME NEW code, NEW width, NEW at, NEW i
  PROVE  LET e == WREN \o Buffered(code, width, at, i) \o UntilReady
         IN  /\ IsSeq(e) /\ Len(e) = 26
             /\ \A s, b: IsSeq(s) /\ Within(e, b, s) =>
                  /\ Programming(s, b, code, width, at, i)
                  /\ Plainly(s, b + 24, "05", 0, 0, 4, "read") /\ s[b + 26] = Poll
                  /\ b + 26 <= Len(s)
<1> DEFINE m == WREN \o Buffered(code, width, at, i)
           e == m \o UntilReady
<1>1. IsSeq(m) /\ Len(m) = 18 /\ IsSeq(UntilReady) /\ Len(UntilReady) = 8
  BY ProgrammingIs, UntilReadyIs
<1>2. \A s, b: IsSeq(s) /\ Within(m, b, s) => Programming(s, b, code, width, at, i)
  BY ProgrammingIs
<1>3. e = WREN \o Buffered(code, width, at, i) \o UntilReady  OBVIOUS
<1> HIDE DEF m
<1>4. IsSeq(e) /\ Len(e) = 26
  <2>1. IsSeq(m \o UntilReady) /\ Len(m \o UntilReady) = Len(m) + Len(UntilReady)  BY <1>1, Sums
  <2> QED  BY <2>1, <1>1
<1>5. ASSUME NEW s, NEW b, IsSeq(s), Within(e, b, s)
      PROVE  /\ Programming(s, b, code, width, at, i)
             /\ Plainly(s, b + 24, "05", 0, 0, 4, "read") /\ s[b + 26] = Poll /\ b + 26 <= Len(s)
  <2>1. Within(m, b, s) /\ Within(UntilReady, b + 18, s)
    <3>1. Within(m, b, s) /\ Within(UntilReady, b + Len(m), s)  BY <1>5, <1>1, Parted
    <3> QED  BY <3>1, <1>1
  <2>2. b \in Nat  BY <2>1 DEF Within
  <2>3. Plainly(s, b + 18 + 6, "05", 0, 0, 4, "read") /\ s[b + 18 + 8] = Poll /\ b + 18 + 8 <= Len(s)
    BY <2>1, <1>5, UntilReadyIs
  <2>4. b + 18 + 6 = b + 24 /\ b + 18 + 8 = b + 26  BY <2>2
  <2>5. Plainly(s, b + 24, "05", 0, 0, 4, "read") /\ s[b + 26] = Poll /\ b + 26 <= Len(s)
    BY <2>3, <2>4, Zenon
  <2> QED  BY <2>1, <2>5, <1>2, <1>5
<1> HIDE DEF e
<1>6. \A s, b: IsSeq(s) /\ Within(e, b, s) =>
        /\ Programming(s, b, code, width, at, i)
        /\ Plainly(s, b + 24, "05", 0, 0, 4, "read") /\ s[b + 26] = Poll /\ b + 26 <= Len(s)
  BY <1>5, Zenon
<1> QED  BY <1>3, <1>4, <1>6

Streaming(s, code, width, at, i) ==
  /\ Len(s) = 26 /\ Plainly(s, 6, "05", 0, 0, 4, "read") /\ s[8] = Poll
  /\ Programming(s, 8, code, width, at, i)

\* The operations of a page of a stream.
LEMMA StreamingIs ==
  ASSUME NEW code, NEW width, NEW at, NEW i
  PROVE  LET s == UntilReady \o (WREN \o Buffered(code, width, at, i))
         IN  IsSeq(s) /\ Streaming(s, code, width, at, i)
<1> DEFINE m == WREN \o Buffered(code, width, at, i)
           s == UntilReady \o m
<1>1. IsSeq(m) /\ Len(m) = 18 /\ IsSeq(UntilReady) /\ Len(UntilReady) = 8
  BY ProgrammingIs, UntilReadyIs
<1>2. \A t, b: IsSeq(t) /\ Within(m, b, t) => Programming(t, b, code, width, at, i)
  BY ProgrammingIs
<1> HIDE DEF m
<1>3. IsSeq(s) /\ Len(s) = 26
  <2>1. IsSeq(UntilReady \o m) /\ Len(UntilReady \o m) = Len(UntilReady) + Len(m)  BY <1>1, Sums
  <2> QED  BY <2>1, <1>1
<1>4. Within(s, 0, s)  BY <1>3 DEF Within
<1>5. Within(UntilReady, 0, s) /\ Within(m, 8, s)
  <2>1. Within(UntilReady, 0, s) /\ Within(m, 0 + Len(UntilReady), s)  BY <1>4, <1>3, <1>1, Parted
  <2> QED  BY <2>1, <1>1
<1>6. Plainly(s, 0 + 6, "05", 0, 0, 4, "read") /\ s[0 + 8] = Poll  BY <1>5, <1>3, UntilReadyIs
<1>7. 0 + 6 = 6 /\ 0 + 8 = 8  OBVIOUS
<1>8. Plainly(s, 6, "05", 0, 0, 4, "read") /\ s[8] = Poll  BY <1>6, <1>7, Zenon
<1>9. Programming(s, 8, code, width, at, i)  BY <1>5, <1>3, <1>2
<1>10. Streaming(s, code, width, at, i)
  <2> HIDE DEF s
  <2> QED  BY <1>3, <1>8, <1>9 DEF Streaming
<1> QED  BY <1>3, <1>10 DEF m

\* The size of a sector of the S25FS128S is read, and changed if need be.
UnitChanging(s) ==
  /\ Plainly(s, 6, "65", 3, 0, 1, "read") /\ s[8] = <<"unit?", "256KB", 25>>
  /\ Plainly(s, 14, "06", 0, 0, 0, "none") /\ s[16] = <<"write", "smwdr0", CellsOf[256]>>
  /\ Plainly(s, 22, "71", 3, 0, 1, "write") /\ s[24] = Hyper /\ s[25] = Clear
  /\ Plainly(s, 31, "05", 0, 0, 4, "read") /\ s[33] = Poll /\ 33 <= Len(s)

\* The operations that choose the sector size.
LEMMA UnitChangingIs ==
  /\ IsSeq(SetSectorErase256kbQspiFlashCypress) /\ Len(SetSectorErase256kbQspiFlashCypress) = 33
  /\ \A s: IsSeq(s) /\ Within(SetSectorErase256kbQspiFlashCypress, 0, s) => UnitChanging(s)
<1> DEFINE r == Command("65", 3, 0, 1, "read")
           w == Command("06", 0, 0, 0, "none")
           v == WriteAnyRegisterQspiFlash(CellsOf[256])
           two == w \o v
           change == two \o UntilReady
           o == <<"unit?", "256KB", 25>>
           front == r \o <<o>>
           all == front \o change
<1>1. IsSeq(r) /\ Len(r) = 7 /\ IsSeq(w) /\ Len(w) = 7 /\ IsSeq(v) /\ Len(v) = 10
      /\ IsSeq(UntilReady) /\ Len(UntilReady) = 8
  BY CommandIs, WriteAnyIs, UntilReadyIs
<1>2. IsSeq(two) /\ Len(two) = 17
  <2> HIDE DEF w, v
  <2>1. IsSeq(two) /\ Len(two) = Len(w) + Len(v)  BY <1>1, Sums
  <2> QED  BY <2>1, <1>1
<1>3. IsSeq(change) /\ Len(change) = 25
  <2> HIDE DEF two
  <2>1. IsSeq(change) /\ Len(change) = Len(two) + Len(UntilReady)  BY <1>1, <1>2, Sums, ZenonT(40)
  <2> QED  BY <2>1, <1>1, <1>2
<1>4. SetSectorErase256kbQspiFlashCypress = all
  <2>1. change = WREN \o WriteAnyRegisterQspiFlash(CellsOf[256]) \o UntilReady
    BY DEF WREN, WriteCommandQspiFlash
  <2>2. SetSectorErase256kbQspiFlashCypress =
          ReadAnyRegisterQspiFlash \o << <<"unit?", "256KB", Len(change)>> >> \o change
    BY <2>1, ZenonT(40) DEF SetSectorErase256kbQspiFlashCypress
  <2>3. Len(change) = 25  BY <1>3
  <2>4. ReadAnyRegisterQspiFlash = r  BY DEF ReadAnyRegisterQspiFlash
  <2> HIDE DEF r, change
  <2> QED  BY <2>2, <2>3, <2>4
<1> HIDE DEF r, change, o
<1>5. IsSeq(front) /\ Len(front) = 8
  <2>1. IsSeq(front) /\ Len(front) = Len(r) + 1  BY <1>1, Longer, ZenonT(40)
  <2> QED  BY <2>1, <1>1
<1> HIDE DEF front
<1>6. IsSeq(all) /\ Len(all) = 33
  <2>1. IsSeq(all) /\ Len(all) = Len(front) + Len(change)  BY <1>3, <1>5, Sums
  <2> QED  BY <2>1, <1>3, <1>5
<1>7. ASSUME NEW s, IsSeq(s), Within(all, 0, s)  PROVE UnitChanging(s)
  <2>1. Within(front, 0, s) /\ Within(change, 8, s)
    <3>1. Within(front, 0, s) /\ Within(change, 0 + Len(front), s)  BY <1>7, <1>3, <1>5, Parted
    <3> QED  BY <3>1, <1>5
  <2>2. Within(two, 8, s) /\ Within(UntilReady, 25, s)
    <3>1. Within(two \o UntilReady, 8, s)  BY <2>1 DEF change
    <3> HIDE DEF two
    <3>2. Within(two, 8, s) /\ Within(UntilReady, 8 + Len(two), s)  BY <3>1, <1>7, <1>1, <1>2, Parted
    <3> QED  BY <3>2, <1>2
  <2>3. Within(w, 8, s) /\ Within(v, 15, s)
    <3> HIDE DEF w, v
    <3>1. Within(w, 8, s) /\ Within(v, 8 + Len(w), s)  BY <2>2, <1>7, <1>1, Parted
    <3> QED  BY <3>1, <1>1
  <2>4. Within(r, 0, s) /\ s[8] = o
    <3>1. Within(r \o <<o>>, 0, s)  BY <2>1 DEF front
    <3>2. IsSeq(r)  BY <1>1
    <3>3. s[0 + Len(r) + 1] = o /\ Within(r, 0, s)  BY <3>1, <3>2, <1>7, Final
    <3>4. 0 + Len(r) + 1 = 8  BY <1>1
    <3> QED  BY <3>3, <3>4
  <2>5. Plainly(s, 0 + 6, "65", 3, 0, 1, "read")  BY <2>4, <1>7, CommandAt DEF r
  <2>6. Plainly(s, 8 + 6, "06", 0, 0, 0, "none")  BY <2>3, <1>7, CommandAt
  <2>7. /\ s[15 + 1] = <<"write", "smwdr0", CellsOf[256]>> /\ Plainly(s, 15 + 7, "71", 3, 0, 1, "write")
        /\ s[15 + 9] = Hyper /\ s[15 + 10] = Clear
    BY <2>3, <1>7, WriteAnyIs
  <2>8. Plainly(s, 25 + 6, "05", 0, 0, 4, "read") /\ s[25 + 8] = Poll /\ 25 + 8 <= Len(s)
    BY <2>2, <1>7, UntilReadyIs
  <2>9. /\ 0 + 6 = 6 /\ 8 + 6 = 14 /\ 15 + 1 = 16 /\ 15 + 7 = 22 /\ 15 + 9 = 24 /\ 15 + 10 = 25
        /\ 25 + 6 = 31 /\ 25 + 8 = 33
    OBVIOUS
  <2> QED  BY <2>4, <2>5, <2>6, <2>7, <2>8, <2>9 DEF UnitChanging, o
<1> HIDE DEF all
<1> QED  BY <1>4, <1>6, <1>7

\* The identification.
Identifying(s) ==
  Len(s) = 8 /\ Plainly(s, 6, "9F", 0, 0, 4, "read") /\ s[8] = <<"known?">>

\* The operations of the identification.
LEMMA IdentifyingIs ==
  LET s == ReadQspiFlashID \o << <<"known?">> >>  IN  IsSeq(s) /\ Identifying(s)
<1> DEFINE r == Command("9F", 0, 0, 4, "read")
           o == <<"known?">>
           s == r \o <<o>>
<1>1. IsSeq(r) /\ Len(r) = 7 /\ ReadQspiFlashID = r  BY CommandIs DEF ReadQspiFlashID
<1> HIDE DEF r, o
<1>2. IsSeq(s) /\ Len(s) = 8
  <2>1. IsSeq(s) /\ Len(s) = Len(r) + 1  BY <1>1, Longer
  <2> QED  BY <2>1, <1>1
<1>3. Within(s, 0, s)  BY <1>2 DEF Within
<1>4. s[8] = o /\ Within(r, 0, s)
  <2>1. IsSeq(r)  BY <1>1
  <2>2. s[0 + Len(r) + 1] = o /\ Within(r, 0, s)  BY <2>1, <1>2, <1>3, Final
  <2>3. 0 + Len(r) + 1 = 8  BY <1>1
  <2> QED  BY <2>2, <2>3
<1>5. Plainly(s, 0 + 6, "9F", 0, 0, 4, "read")  BY <1>4, <1>2, CommandAt DEF r
<1>6. Identifying(s)
  <2> HIDE DEF s
  <2>1. 0 + 6 = 6  OBVIOUS
  <2>2. Plainly(s, 6, "9F", 0, 0, 4, "read")  BY <1>5, <2>1, Zenon
  <2> QED  BY <1>2, <1>4, <2>2 DEF Identifying, o
<1> QED  BY <1>1, <1>2, <1>6 DEF o

\* Reading: the controller is set up, and then there are only loads.
Reading(s, code, width, from, to) ==
  /\ Len(s) = 5 + (to - from + 1)
  /\ s[1] = Quad /\ s[2] = <<"write", "cmncr", "external">> /\ s[3] = <<"write", "drcr", "burst">>
  /\ s[4] = <<"write", "drcmr", code>> /\ s[5] = <<"write", "drenr", width>>
  /\ \A i \in 1..(to - from + 1): s[5 + i] = <<"load", from + i - 1>>

\* The operations of a read.
LEMMA ReadingIs ==
  ASSUME NEW code, NEW width, NEW from \in Nat, NEW to \in Nat, from <= to
  PROVE  LET s == ExtMode(code, width) \o mem_copy(from, to)
         IN  IsSeq(s) /\ Reading(s, code, width, from, to)
<1> DEFINE a == <<"write", "cmncr", "external">>
           b == <<"write", "drcr", "burst">>
           c == <<"write", "drcmr", code>>
           d == <<"write", "drenr", width>>
           four == <<a, b, c, d>>
           e == <<Quad>> \o four
           loads == mem_copy(from, to)
           n == to - from + 1
           s == e \o loads
<1>1. n \in Nat /\ n >= 1  OBVIOUS
<1>2. IsSeq(loads) /\ Len(loads) = n /\ \A i \in 1..n: loads[i] = <<"load", from + i - 1>>
  <2>1. loads = [i \in 1..n |-> <<"load", from + i - 1>>]  BY DEF mem_copy
  <2> HIDE DEF loads, n
  <2> DEFINE V == {loads[i]: i \in 1..n}
  <2>2. loads \in [1..n -> V]  BY <2>1
  <2> HIDE DEF V
  <2>3. loads \in Seq(V)  BY <2>2, <1>1
  <2>4. Len(loads) = n
    <3>1. DOMAIN loads = 1..n  BY <2>2
    <3> QED  BY <3>1, <1>1, <2>3
  <2> QED  BY <2>1, <2>3, <2>4 DEF IsSeq
<1>3. IsSeq(four) /\ Len(four) = 4 /\ four[1] = a /\ four[2] = b /\ four[3] = c /\ four[4] = d
  <2> HIDE DEF a, b, c, d
  <2>1. four \in Seq({a, b, c, d})  OBVIOUS
  <2>2. IsSeq(four)  BY <2>1 DEF IsSeq
  <2> QED  BY <2>2
<1>4. ExtMode(code, width) = e  BY BusIs DEF ExtMode
<1> HIDE DEF a, b, c, d, four, loads, n
<1>5. IsSeq(e) /\ Len(e) = 5
  <2>1. IsSeq(e) /\ Len(e) = 1 + Len(four)  BY <1>3, Longer
  <2> QED  BY <2>1, <1>3
<1> HIDE DEF e
<1>6. IsSeq(s) /\ Len(s) = 5 + n
  <2>1. IsSeq(s) /\ Len(s) = Len(e) + Len(loads)  BY <1>2, <1>5, Sums
  <2> QED  BY <2>1, <1>2, <1>5
<1>7. Within(s, 0, s)  BY <1>6, <1>1 DEF Within
<1>8. Within(e, 0, s) /\ Within(loads, 5, s)
  <2>1. Within(e, 0, s) /\ Within(loads, 0 + Len(e), s)  BY <1>7, <1>6, <1>2, <1>5, Parted
  <2> QED  BY <2>1, <1>5
<1> HIDE DEF s
<1>9. s[1] = Quad /\ Within(four, 1, s)
  <2>1. Within(<<Quad>> \o four, 0, s)  BY <1>8 DEF e
  <2>2. IsSeq(four)  BY <1>3
  <2>3. s[0 + 1] = Quad /\ Within(four, 0 + 1, s)  BY <2>1, <2>2, <1>6, First
  <2> QED  BY <2>3
<1>10. s[1 + 1] = a /\ s[1 + 2] = b /\ s[1 + 3] = c /\ s[1 + 4] = d
  BY <1>9, <1>3 DEF Within
<1>11. \A i \in 1..n: s[5 + i] = <<"load", from + i - 1>>  BY <1>8, <1>2 DEF Within
<1>12. Reading(s, code, width, from, to)
  <2>1. 1 + 1 = 2 /\ 1 + 2 = 3 /\ 1 + 3 = 4 /\ 1 + 4 = 5  OBVIOUS
  <2> QED  BY <2>1, <1>6, <1>9, <1>10, <1>11 DEF Reading, a, b, c, d, n
<1> QED  BY <1>4, <1>6, <1>12 DEF s, loads

-----------------------------------------------------------------------------
(* What is true at every position of a script.                             *)

Written ==
  {"phycnt", "cmncr", "smcmr", "smadr", "smenr", "smwdr0", "wrbuf", "drcr", "drcmr", "drenr"}

\* A write to a register, or a wait for the end of a transfer.
Plain(s, k) ==
  \/ s[k][1] = "WaitRpcTxEnd"
  \/ s[k][1] = "write" /\ s[k][2] \in Written /\ (s[k][2] = "wrbuf" => s[k][3] \in Int)

Starts(s, k, code) == s[k][1] = "start" /\ Code(s, k) = code

\* The frame of a transfer is complete, and what the flash expects.
Framed(s, k) ==
  /\ Code(s, k) \in Codes
  /\ Commands(s, k, Code(s, k), AddressBytes(Code(s, k)), Address(s, k),
              DataBytes(Code(s, k)), Way(Code(s, k)))
  /\ Sent(Address(s, k), AddressBytes(Code(s, k))) = Address(s, k)
  /\ Code(s, k) \notin Programs => k > 5 /\ s[k - 5] = Quad
  /\ Code(s, k) \in Programs =>
       /\ k > 7 /\ s[k - 7] = Clear /\ s[k - 6] = QuadBuffer
       /\ s[k - 5] = <<"write", "wrbuf", Index(s, k)>>
  /\ Code(s, k) = "71" => k > 6 /\ s[k - 6] = <<"write", "smwdr0", CellsOf[256]>>

\* A change is enabled by the transfer before it.
Lead(code) == IF code \in Programs THEN 9 ELSE IF code = "71" THEN 8 ELSE 7
Enabled(s, k) ==
  LET w == k - Lead(Code(s, k)) IN
  w > 5 /\ Starts(s, w, "06") /\ \A j \in (w + 1)..(k - 1): Plain(s, j)

\* It is waited for by the next transfer, but for a page of a stream, which is the last.
Rest(code) == IF code \in Programs \cup {"71"} THEN 11 ELSE 9
Awaited(c, s, k) ==
  /\ c[1] = "page" => k = 23 /\ Len(s) = 26 /\ \A j \in 24..26: Plain(s, j)
  /\ c[1] # "page" =>
       LET r == k + Rest(Code(s, k)) IN
       /\ r <= Len(s) /\ s[r] = Poll /\ Starts(s, r - 2, "05")
       /\ \A j \in (k + 1)..(r - 1): j # r - 2 => Plain(s, j)

\* It is one that the call asks for.
Meant(p, c, code, at, i, k) ==
  /\ code \in {"D8", "DC"} =>
       /\ c[1] = "erase" /\ (p = "S25FS128S" => k > 34)
       /\ at \div gQspi_sa_size(p) \in (c[2] \div gQspi_sa_size(p))..(c[3] \div gQspi_sa_size(p))
  /\ code \in {"20", "21"} =>
       c[1] = "parameterErase" /\ at \div CellsOf[4] \in (c[2] \div CellsOf[4])..(c[3] \div CellsOf[4])
  /\ code = "60" => c[1] = "bulkErase"
  /\ code \in Programs => c[1] \in {"save", "page"} /\ at \in c[2]..c[3] /\ i = at - c[2]
  /\ code = "71" => c[1] = "erase" /\ p = "S25FS128S" /\ k = 22

Started(p, c, s, k) ==
  /\ s[k][1] = "start" /\ Framed(s, k)
  /\ Code(s, k) \in Changes =>
       /\ Enabled(s, k) /\ Awaited(c, s, k)
       /\ Meant(p, c, Code(s, k), Address(s, k), Index(s, k), k)

Polled(s, k) == s[k] = Poll /\ k > 7 /\ Starts(s, k - 2, "05") /\ Framed(s, k - 2)

Loaded(c, s, k) ==
  /\ s[k][1] = "load" /\ k > 5 /\ c[1] \in {"read", "sectorRead"}
  /\ \E code \in {"0B", "0C"}:
       /\ s[1] = Quad /\ s[2] = <<"write", "cmncr", "external">> /\ s[3] = <<"write", "drcr", "burst">>
       /\ s[4] = <<"write", "drcmr", code>> /\ s[5] = <<"write", "drenr", AddressBytes(code)>>
       /\ Sent(s[k][2], AddressBytes(code)) = s[k][2] /\ s[k][2] \in Cells
       /\ \A j \in 6..Len(s): s[j][1] = "load"

Known(c, s, k) ==
  s[k][1] = "known?" /\ c[1] = "identify" /\ k = 8 /\ Len(s) = 8 /\ Starts(s, 6, "9F") /\ Framed(s, 6)

Chosen(p, c, s, k) ==
  /\ s[k] = <<"unit?", "256KB", 25>> /\ k = 8 /\ c[1] = "erase" /\ p = "S25FS128S"
  /\ Starts(s, 6, "65") /\ Framed(s, 6) /\ Len(s) > 39
  /\ s[34] = Quad /\ Starts(s, 39, "06")

Sound(p, c, s, k) ==
  \/ Plain(s, k) \/ Started(p, c, s, k) \/ Polled(s, k)
  \/ Loaded(c, s, k) \/ Known(c, s, k) \/ Chosen(p, c, s, k)

\* What the flash expects of each command.
LEMMA Expected ==
  /\ AddressBytes("06") = 0 /\ AddressBytes("05") = 0 /\ AddressBytes("9F") = 0 /\ AddressBytes("60") = 0
  /\ AddressBytes("65") = 3 /\ AddressBytes("71") = 3 /\ AddressBytes("D8") = 3 /\ AddressBytes("20") = 3
  /\ AddressBytes("02") = 3 /\ AddressBytes("0B") = 3
  /\ AddressBytes("DC") = 4 /\ AddressBytes("21") = 4 /\ AddressBytes("12") = 4 /\ AddressBytes("0C") = 4
  /\ DataBytes("06") = 0 /\ DataBytes("60") = 0 /\ DataBytes("D8") = 0 /\ DataBytes("DC") = 0
  /\ DataBytes("20") = 0 /\ DataBytes("21") = 0 /\ DataBytes("05") = 4 /\ DataBytes("9F") = 4
  /\ DataBytes("65") = 1 /\ DataBytes("71") = 1 /\ DataBytes("02") = 256 /\ DataBytes("12") = 256
  /\ Way("06") = "none" /\ Way("60") = "none" /\ Way("D8") = "none" /\ Way("DC") = "none"
  /\ Way("20") = "none" /\ Way("21") = "none" /\ Way("05") = "read" /\ Way("9F") = "read"
  /\ Way("65") = "read" /\ Way("71") = "write" /\ Way("02") = "write" /\ Way("12") = "write"
BY DEF AddressBytes, DataBytes, Way

\* The positions of a frame.
LEMMA FramePlain ==
  ASSUME NEW s, IsSeq(s), NEW k \in Int, NEW code \in Codes \ (Programs \cup {"71"}), NEW at,
         Plainly(s, k, code, AddressBytes(code), at, DataBytes(code), Way(code)),
         Sent(at, AddressBytes(code)) = at
  PROVE  /\ Framed(s, k) /\ Starts(s, k, code) /\ Address(s, k) = at
         /\ \A j \in (k - 5)..(k + 1): j # k => Plain(s, j)
<1>1. s[k - 3] = <<"write", "smcmr", code>> /\ s[k - 2] = <<"write", "smadr", at>>
  BY DEF Plainly, Commands
<1>2. Code(s, k) = code /\ Address(s, k) = at  BY <1>1 DEF Code, Address
<1>3. Framed(s, k)  BY <1>2 DEF Framed, Plainly
<1>4. s[k] = <<"start", Way(code)>>  BY DEF Plainly, Commands
<1>5. Starts(s, k, code)  BY <1>2, <1>4 DEF Starts
<1>6. ASSUME NEW j \in (k - 5)..(k + 1), j # k  PROVE Plain(s, j)
  <2>1. j \in {k - 5, k - 4, k - 3, k - 2, k - 1, k + 1}  BY <1>6
  <2>2. /\ s[k - 5] = Quad /\ s[k - 4] = <<"write", "cmncr", "manual">> /\ s[k + 1] = Await
        /\ s[k - 1] = <<"write", "smenr", [width |-> AddressBytes(code), size |-> DataBytes(code)]>>
    BY DEF Plainly, Commands
  <2> QED  BY <2>1, <2>2, <1>1 DEF Plain, Written, Quad, Await
<1> QED  BY <1>2, <1>3, <1>5, <1>6

\* The same for a page program.
LEMMA FrameBuffered ==
  ASSUME NEW s, IsSeq(s), NEW k \in Int, NEW code \in Programs, NEW at, NEW i \in Int,
         Bufferedly(s, k, code, AddressBytes(code), at, i),
         Sent(at, AddressBytes(code)) = at
  PROVE  /\ Framed(s, k) /\ Starts(s, k, code) /\ Address(s, k) = at /\ Index(s, k) = i
         /\ \A j \in (k - 7)..(k + 3): j # k => Plain(s, j)
<1>1. s[k - 3] = <<"write", "smcmr", code>> /\ s[k - 2] = <<"write", "smadr", at>>
      /\ s[k - 5] = <<"write", "wrbuf", i>>
  BY DEF Bufferedly, Commands
<1>2. Code(s, k) = code /\ Address(s, k) = at /\ Index(s, k) = i  BY <1>1 DEF Code, Address, Index
<1>3. code \in Codes /\ DataBytes(code) = 256 /\ Way(code) = "write" /\ code # "71"
  BY Expected DEF Codes, Programs
<1>4. Framed(s, k)  BY <1>1, <1>2, <1>3 DEF Framed, Bufferedly
<1>5. s[k] = <<"start", "write">>  BY DEF Bufferedly, Commands
<1>6. Starts(s, k, code)  BY <1>2, <1>5 DEF Starts
<1>7. ASSUME NEW j \in (k - 7)..(k + 3), j # k  PROVE Plain(s, j)
  <2>1. j \in {k - 7, k - 6, k - 5, k - 4, k - 3, k - 2, k - 1, k + 1, k + 2, k + 3}  BY <1>7
  <2>2. /\ s[k - 7] = Clear /\ s[k - 6] = QuadBuffer /\ s[k - 4] = <<"write", "cmncr", "manual">>
        /\ s[k + 1] = Await /\ s[k + 2] = Hyper /\ s[k + 3] = Clear
        /\ s[k - 1] = <<"write", "smenr", [width |-> AddressBytes(code), size |-> 256]>>
    BY DEF Bufferedly, Commands
  <2> QED  BY <2>1, <2>2, <1>1 DEF Plain, Written, QuadBuffer, Hyper, Clear, Await
<1> QED  BY <1>2, <1>4, <1>6, <1>7

\* The same for the write of a register of the flash.
LEMMA FrameWriteAny ==
  ASSUME NEW s, IsSeq(s), NEW k \in Int, k > 6,
         Plainly(s, k, "71", 3, 0, 1, "write"), s[k - 6] = <<"write", "smwdr0", CellsOf[256]>>,
         Sent(0, 3) = 0
  PROVE  /\ Framed(s, k) /\ Starts(s, k, "71") /\ Address(s, k) = 0
         /\ \A j \in (k - 6)..(k + 1): j # k => Plain(s, j)
<1>1. s[k - 3] = <<"write", "smcmr", "71">> /\ s[k - 2] = <<"write", "smadr", 0>>
  BY DEF Plainly, Commands
<1>2. Code(s, k) = "71" /\ Address(s, k) = 0  BY <1>1 DEF Code, Address
<1>3. "71" \in Codes /\ "71" \notin Programs  BY DEF Codes, Programs
<1>4. Framed(s, k)  BY <1>2, <1>3, Expected DEF Framed, Plainly
<1>5. s[k] = <<"start", "write">>  BY DEF Plainly, Commands
<1>6. Starts(s, k, "71")  BY <1>2, <1>5 DEF Starts
<1>7. ASSUME NEW j \in (k - 6)..(k + 1), j # k  PROVE Plain(s, j)
  <2>1. j \in {k - 6, k - 5, k - 4, k - 3, k - 2, k - 1, k + 1}  BY <1>7
  <2>2. /\ s[k - 5] = Quad /\ s[k - 4] = <<"write", "cmncr", "manual">> /\ s[k + 1] = Await
        /\ s[k - 1] = <<"write", "smenr", [width |-> 3, size |-> 1]>>
    BY DEF Plainly, Commands
  <2> QED  BY <2>1, <2>2, <1>1 DEF Plain, Written, Quad, Await
<1> QED  BY <1>2, <1>4, <1>6, <1>7

\* An address of no or four bytes is sent as it is, and zero always.
LEMMA SentZero == Sent(0, 0) = 0 /\ Sent(0, 3) = 0 /\ \A a, w: w # 3 => Sent(a, w) = a
<1>1. Window \in Nat \ {0}  BY RpcAssumption, FlashAssumption
<1>2. 0 % Window = 0  BY <1>1, OwnRest, 0 \in 0..(Window - 1)
<1> QED  BY <1>2 DEF Sent

\* A transfer that changes nothing is sound.
LEMMA SoundStart ==
  ASSUME NEW p, NEW c, NEW s, NEW k, NEW code, Framed(s, k), Starts(s, k, code), code \notin Changes
  PROVE  Sound(p, c, s, k)
BY DEF Sound, Started, Starts

\* The frames of a write enable, a status read and a read of the identification.
LEMMA FrameShort ==
  ASSUME NEW s, IsSeq(s), NEW k \in Int, NEW code \in {"06", "05", "9F"}, NEW size, NEW way,
         size = DataBytes(code), way = Way(code),
         Plainly(s, k, code, 0, 0, size, way)
  PROVE  /\ Framed(s, k) /\ Starts(s, k, code)
         /\ \A j \in (k - 5)..(k + 1): j # k => Plain(s, j)
<1>1. AddressBytes(code) = 0 /\ code \in Codes \ (Programs \cup {"71"})
  BY Expected DEF Codes, Programs
<1>2. Sent(0, AddressBytes(code)) = 0  BY <1>1, SentZero
<1>3. Plainly(s, k, code, AddressBytes(code), 0, DataBytes(code), Way(code))  BY <1>1, Zenon
<1> QED  BY <1>1, <1>2, <1>3, FramePlain

\* An erase and what surrounds it.
LEMMA ErasingSound ==
  ASSUME NEW p, NEW c, NEW s, IsSeq(s), NEW b \in Nat, NEW code \in Erases, NEW at,
         Erasing(s, b, code, AddressBytes(code), at), Sent(at, AddressBytes(code)) = at,
         c[1] # "page", \A i: Meant(p, c, code, at, i, b + 13)
  PROVE  /\ \A k \in (b + 1)..(b + 22): Sound(p, c, s, k)
         /\ Starts(s, b + 13, code) /\ Address(s, b + 13) = at /\ b + 22 <= Len(s)
         /\ s[b + 1] = Quad /\ Starts(s, b + 6, "06")
<1>0. b + 6 \in Int /\ b + 13 \in Int /\ b + 20 \in Int /\ Len(s) \in Nat  BY Lengths
<1>1. /\ Framed(s, b + 6) /\ Starts(s, b + 6, "06")
      /\ \A j \in (b + 1)..(b + 7): j # b + 6 => Plain(s, j)
  <2>1. Plainly(s, b + 6, "06", 0, 0, 0, "none")  BY DEF Erasing
  <2>2. /\ Framed(s, b + 6) /\ Starts(s, b + 6, "06")
        /\ \A j \in ((b + 6) - 5)..((b + 6) + 1): j # b + 6 => Plain(s, j)
    BY <2>1, <1>0, FrameShort, Expected
  <2>3. (b + 6) - 5 = b + 1 /\ (b + 6) + 1 = b + 7  OBVIOUS
  <2> QED  BY <2>2, <2>3
<1>2. /\ Framed(s, b + 13) /\ Starts(s, b + 13, code) /\ Address(s, b + 13) = at
      /\ \A j \in (b + 8)..(b + 14): j # b + 13 => Plain(s, j)
  <2>1. code \in Codes \ (Programs \cup {"71"}) /\ DataBytes(code) = 0 /\ Way(code) = "none"
    BY Expected DEF Erases, Codes, Programs
  <2>2. Plainly(s, b + 13, code, AddressBytes(code), at, DataBytes(code), Way(code))
    BY <2>1 DEF Erasing
  <2>3. /\ Framed(s, b + 13) /\ Starts(s, b + 13, code) /\ Address(s, b + 13) = at
        /\ \A j \in ((b + 13) - 5)..((b + 13) + 1): j # b + 13 => Plain(s, j)
    BY <2>1, <2>2, <1>0, FramePlain
  <2>4. (b + 13) - 5 = b + 8 /\ (b + 13) + 1 = b + 14  OBVIOUS
  <2> QED  BY <2>3, <2>4
<1>3. /\ Framed(s, b + 20) /\ Starts(s, b + 20, "05")
      /\ \A j \in (b + 15)..(b + 21): j # b + 20 => Plain(s, j)
  <2>1. Plainly(s, b + 20, "05", 0, 0, 4, "read")  BY DEF Erasing
  <2>2. /\ Framed(s, b + 20) /\ Starts(s, b + 20, "05")
        /\ \A j \in ((b + 20) - 5)..((b + 20) + 1): j # b + 20 => Plain(s, j)
    BY <2>1, <1>0, FrameShort, Expected
  <2>3. (b + 20) - 5 = b + 15 /\ (b + 20) + 1 = b + 21  OBVIOUS
  <2> QED  BY <2>2, <2>3
<1>4. s[b + 22] = Poll /\ b + 22 <= Len(s) /\ s[b + 1] = Quad
  <2>1. (b + 6) - 5 = b + 1  OBVIOUS
  <2>2. s[(b + 6) - 5] = Quad  BY DEF Erasing, Plainly
  <2> QED  BY <2>1, <2>2 DEF Erasing
<1>5. Polled(s, b + 22)
  <2>1. (b + 22) - 2 = b + 20 /\ b + 22 > 7  OBVIOUS
  <2> QED  BY <2>1, <1>3, <1>4 DEF Polled
<1>6. Code(s, b + 13) = code /\ code \notin Programs /\ code # "71" /\ s[b + 13][1] = "start"
  BY <1>2 DEF Starts, Erases, Programs
<1>7. Enabled(s, b + 13)
  <2>1. Lead(Code(s, b + 13)) = 7 /\ (b + 13) - 7 = b + 6 /\ (b + 13) - 1 = b + 12 /\ (b + 6) + 1 = b + 7
    BY <1>6 DEF Lead
  <2>2. \A j \in (b + 7)..(b + 12): Plain(s, j)  BY <1>1, <1>2
  <2> QED  BY <2>1, <2>2, <1>1 DEF Enabled
<1>8. Awaited(c, s, b + 13)
  <2>1. Rest(Code(s, b + 13)) = 9 /\ (b + 13) + 9 = b + 22 /\ (b + 13) + 1 = b + 14
        /\ (b + 22) - 1 = b + 21 /\ (b + 22) - 2 = b + 20
    BY <1>6 DEF Rest
  <2>2. \A j \in (b + 14)..(b + 21): j # b + 20 => Plain(s, j)  BY <1>2, <1>3
  <2> QED  BY <2>1, <2>2, <1>3, <1>4 DEF Awaited
<1>9. Started(p, c, s, b + 13)  BY <1>2, <1>6, <1>7, <1>8 DEF Started
<1>10. ASSUME NEW k \in (b + 1)..(b + 22)  PROVE Sound(p, c, s, k)
  <2>1. CASE k = b + 6  BY <2>1, <1>1, SoundStart DEF Changes, Erases, Programs
  <2>2. CASE k = b + 20  BY <2>2, <1>3, SoundStart DEF Changes, Erases, Programs
  <2>3. CASE k = b + 13  BY <2>3, <1>9 DEF Sound
  <2>4. CASE k = b + 22  BY <2>4, <1>5 DEF Sound
  <2>5. CASE k \notin {b + 6, b + 13, b + 20, b + 22}
    <3>1. \/ k \in (b + 1)..(b + 7) \/ k \in (b + 8)..(b + 14) \/ k \in (b + 15)..(b + 21)
      BY <2>5
    <3>2. Plain(s, k)  BY <3>1, <2>5, <1>1, <1>2, <1>3
    <3> QED  BY <3>2 DEF Sound
  <2> QED  BY <2>1, <2>2, <2>3, <2>4, <2>5
<1> QED  BY <1>1, <1>2, <1>4, <1>10

\* A page program up to its end.
LEMMA ProgrammingSound ==
  ASSUME NEW s, IsSeq(s), NEW b \in Nat, NEW code \in Programs, NEW at, NEW i \in Int,
         Programming(s, b, code, AddressBytes(code), at, i), Sent(at, AddressBytes(code)) = at
  PROVE  /\ Framed(s, b + 6) /\ Starts(s, b + 6, "06")
         /\ Framed(s, b + 15) /\ Starts(s, b + 15, code) /\ Address(s, b + 15) = at /\ Index(s, b + 15) = i
         /\ Enabled(s, b + 15) /\ b + 18 <= Len(s) /\ s[b + 1] = Quad
         /\ \A j \in (b + 1)..(b + 18): j \notin {b + 6, b + 15} => Plain(s, j)
<1>0. b + 6 \in Int /\ b + 15 \in Int /\ Len(s) \in Nat  BY Lengths
<1>1. /\ Framed(s, b + 6) /\ Starts(s, b + 6, "06") /\ s[b + 1] = Quad
      /\ \A j \in (b + 1)..(b + 7): j # b + 6 => Plain(s, j)
  <2>1. Plainly(s, b + 6, "06", 0, 0, 0, "none")  BY DEF Programming
  <2>2. /\ Framed(s, b + 6) /\ Starts(s, b + 6, "06")
        /\ \A j \in ((b + 6) - 5)..((b + 6) + 1): j # b + 6 => Plain(s, j)
    BY <2>1, <1>0, FrameShort, Expected
  <2>3. (b + 6) - 5 = b + 1 /\ (b + 6) + 1 = b + 7  OBVIOUS
  <2>4. s[(b + 6) - 5] = Quad  BY <2>1 DEF Plainly
  <2> QED  BY <2>2, <2>3, <2>4
<1>2. /\ Framed(s, b + 15) /\ Starts(s, b + 15, code) /\ Address(s, b + 15) = at /\ Index(s, b + 15) = i
      /\ \A j \in (b + 8)..(b + 18): j # b + 15 => Plain(s, j)
  <2>1. Bufferedly(s, b + 15, code, AddressBytes(code), at, i)  BY DEF Programming
  <2>2. /\ Framed(s, b + 15) /\ Starts(s, b + 15, code) /\ Address(s, b + 15) = at /\ Index(s, b + 15) = i
        /\ \A j \in ((b + 15) - 7)..((b + 15) + 3): j # b + 15 => Plain(s, j)
    BY <2>1, <1>0, FrameBuffered
  <2>3. (b + 15) - 7 = b + 8 /\ (b + 15) + 3 = b + 18  OBVIOUS
  <2> QED  BY <2>2, <2>3
<1>3. Code(s, b + 15) = code  BY <1>2 DEF Starts
<1>4. Enabled(s, b + 15)
  <2>1. Lead(Code(s, b + 15)) = 9 /\ (b + 15) - 9 = b + 6 /\ (b + 15) - 1 = b + 14 /\ (b + 6) + 1 = b + 7
    BY <1>3 DEF Lead
  <2>2. \A j \in (b + 7)..(b + 14): Plain(s, j)  BY <1>1, <1>2
  <2> QED  BY <2>1, <2>2, <1>1 DEF Enabled
<1>5. b + 18 <= Len(s)  BY <1>0 DEF Programming, Bufferedly
<1>6. ASSUME NEW j \in (b + 1)..(b + 18), j \notin {b + 6, b + 15}  PROVE Plain(s, j)
  <2>1. j \in (b + 1)..(b + 7) \/ j \in (b + 8)..(b + 18)  BY <1>6
  <2> QED  BY <2>1, <1>6, <1>1, <1>2
<1> QED  BY <1>1, <1>2, <1>4, <1>5, <1>6

\* A read of the status and the poll of its answer.
LEMMA StatusSound ==
  ASSUME NEW s, IsSeq(s), NEW b \in Nat, Plainly(s, b + 6, "05", 0, 0, 4, "read"), s[b + 8] = Poll
  PROVE  /\ Framed(s, b + 6) /\ Starts(s, b + 6, "05") /\ Polled(s, b + 8)
         /\ \A j \in (b + 1)..(b + 7): j # b + 6 => Plain(s, j)
<1>1. /\ Framed(s, b + 6) /\ Starts(s, b + 6, "05")
      /\ \A j \in ((b + 6) - 5)..((b + 6) + 1): j # b + 6 => Plain(s, j)
  BY FrameShort, Expected, b + 6 \in Int
<1>2. (b + 6) - 5 = b + 1 /\ (b + 6) + 1 = b + 7 /\ (b + 8) - 2 = b + 6 /\ b + 8 > 7  OBVIOUS
<1> QED  BY <1>1, <1>2 DEF Polled

\* A page of a save.
LEMMA SavingSound ==
  ASSUME NEW p, NEW c, NEW s, IsSeq(s), NEW b \in Nat, NEW code \in Programs, NEW at, NEW i \in Int,
         Programming(s, b, code, AddressBytes(code), at, i), Sent(at, AddressBytes(code)) = at,
         Plainly(s, b + 24, "05", 0, 0, 4, "read"), s[b + 26] = Poll, b + 26 <= Len(s),
         c[1] # "page", Meant(p, c, code, at, i, b + 15)
  PROVE  /\ \A k \in (b + 1)..(b + 26): Sound(p, c, s, k)
         /\ Starts(s, b + 15, code) /\ Address(s, b + 15) = at
<1>1. /\ Framed(s, b + 6) /\ Starts(s, b + 6, "06")
      /\ Framed(s, b + 15) /\ Starts(s, b + 15, code) /\ Address(s, b + 15) = at /\ Index(s, b + 15) = i
      /\ Enabled(s, b + 15)
      /\ \A j \in (b + 1)..(b + 18): j \notin {b + 6, b + 15} => Plain(s, j)
  BY ProgrammingSound
<1>2. /\ Framed(s, b + 24) /\ Starts(s, b + 24, "05") /\ Polled(s, b + 26)
      /\ \A j \in (b + 19)..(b + 25): j # b + 24 => Plain(s, j)
  <2>1. /\ b + 18 \in Nat /\ (b + 18) + 6 = b + 24 /\ (b + 18) + 8 = b + 26
        /\ (b + 18) + 1 = b + 19 /\ (b + 18) + 7 = b + 25
    OBVIOUS
  <2>2. Plainly(s, (b + 18) + 6, "05", 0, 0, 4, "read") /\ s[(b + 18) + 8] = Poll  BY <2>1, Zenon
  <2>3. /\ Framed(s, (b + 18) + 6) /\ Starts(s, (b + 18) + 6, "05") /\ Polled(s, (b + 18) + 8)
        /\ \A j \in ((b + 18) + 1)..((b + 18) + 7): j # (b + 18) + 6 => Plain(s, j)
    BY <2>1, <2>2, StatusSound
  <2> QED  BY <2>1, <2>3
<1>3. Code(s, b + 15) = code /\ s[b + 15][1] = "start"  BY <1>1 DEF Starts
<1>4. Awaited(c, s, b + 15)
  <2>1. Rest(Code(s, b + 15)) = 11 /\ (b + 15) + 11 = b + 26 /\ (b + 15) + 1 = b + 16
        /\ (b + 26) - 1 = b + 25 /\ (b + 26) - 2 = b + 24
    BY <1>3 DEF Rest
  <2>2. \A j \in (b + 16)..(b + 25): j # b + 24 => Plain(s, j)  BY <1>1, <1>2
  <2> QED  BY <2>1, <2>2, <1>2 DEF Awaited
<1>5. Started(p, c, s, b + 15)  BY <1>1, <1>3, <1>4 DEF Started
<1>6. ASSUME NEW k \in (b + 1)..(b + 26)  PROVE Sound(p, c, s, k)
  <2>1. CASE k = b + 6  BY <2>1, <1>1, SoundStart DEF Changes, Erases, Programs
  <2>2. CASE k = b + 24  BY <2>2, <1>2, SoundStart DEF Changes, Erases, Programs
  <2>3. CASE k = b + 15  BY <2>3, <1>5 DEF Sound
  <2>4. CASE k = b + 26  BY <2>4, <1>2 DEF Sound
  <2>5. CASE k \notin {b + 6, b + 15, b + 24, b + 26}
    <3>1. k \in (b + 1)..(b + 18) \/ k \in (b + 19)..(b + 25)  BY <2>5
    <3>2. Plain(s, k)  BY <3>1, <2>5, <1>1, <1>2
    <3> QED  BY <3>2 DEF Sound
  <2> QED  BY <2>1, <2>2, <2>3, <2>4, <2>5
<1> QED  BY <1>1, <1>6

\* A page of a stream.
Fronted(c, s) ==
  /\ c[1] = "page" =>
       /\ Len(s) = 26 /\ s[8] = Poll /\ Starts(s, 6, "05")
       /\ \A j \in (1..7) \cup (24..26): j # 6 => Plain(s, j)
  /\ c[1] = "identify" =>
       /\ Len(s) = 8 /\ s[8] = <<"known?">> /\ Starts(s, 6, "9F")
       /\ \A j \in 1..7: j # 6 => Plain(s, j)

\* A page of a stream is sound.
LEMMA StreamingSound ==
  ASSUME NEW p, NEW c, NEW s, IsSeq(s), NEW code \in Programs, NEW at, NEW i \in Int,
         Streaming(s, code, AddressBytes(code), at, i), Sent(at, AddressBytes(code)) = at,
         c[1] = "page", Meant(p, c, code, at, i, 23)
  PROVE  /\ \A k \in 1..26: Sound(p, c, s, k)
         /\ Starts(s, 23, code) /\ Address(s, 23) = at /\ Fronted(c, s)
<1>1. /\ Framed(s, 8 + 6) /\ Starts(s, 8 + 6, "06")
      /\ Framed(s, 8 + 15) /\ Starts(s, 8 + 15, code) /\ Address(s, 8 + 15) = at /\ Index(s, 8 + 15) = i
      /\ Enabled(s, 8 + 15)
      /\ \A j \in (8 + 1)..(8 + 18): j \notin {8 + 6, 8 + 15} => Plain(s, j)
  BY ProgrammingSound, SMTT(20) DEF Streaming
<1>2. /\ Framed(s, 0 + 6) /\ Starts(s, 0 + 6, "05") /\ Polled(s, 0 + 8)
      /\ \A j \in (0 + 1)..(0 + 7): j # 0 + 6 => Plain(s, j)
  <2>1. 0 + 6 = 6 /\ 0 + 8 = 8 /\ 0 \in Nat  OBVIOUS
  <2>2. Plainly(s, 0 + 6, "05", 0, 0, 4, "read") /\ s[0 + 8] = Poll  BY <2>1 DEF Streaming
  <2> QED  BY <2>1, <2>2, StatusSound
<1>3. /\ 8 + 6 = 14 /\ 8 + 15 = 23 /\ 8 + 1 = 9 /\ 8 + 18 = 26 /\ 0 + 6 = 6 /\ 0 + 8 = 8
      /\ 0 + 1 = 1 /\ 0 + 7 = 7
  OBVIOUS
<1>4. Code(s, 23) = code /\ s[23][1] = "start" /\ Len(s) = 26 /\ s[8] = Poll
  BY <1>1, <1>3 DEF Starts, Streaming
<1>5. Awaited(c, s, 23)  BY <1>1, <1>3, <1>4 DEF Awaited
<1>6. Started(p, c, s, 23)  BY <1>1, <1>3, <1>4, <1>5 DEF Started
<1>7. ASSUME NEW k \in 1..26  PROVE Sound(p, c, s, k)
  <2>1. CASE k = 14  BY <2>1, <1>1, <1>3, SoundStart DEF Changes, Erases, Programs
  <2>2. CASE k = 6  BY <2>2, <1>2, <1>3, SoundStart DEF Changes, Erases, Programs
  <2>3. CASE k = 23  BY <2>3, <1>6 DEF Sound
  <2>4. CASE k = 8  BY <2>4, <1>2, <1>3 DEF Sound
  <2>5. CASE k \notin {14, 6, 23, 8}
    <3>1. k \in 1..7 \/ k \in 9..26  BY <2>5
    <3>2. Plain(s, k)  BY <3>1, <2>5, <1>1, <1>2, <1>3
    <3> QED  BY <3>2 DEF Sound
  <2> QED  BY <2>1, <2>2, <2>3, <2>4, <2>5
<1>8. \A j \in (1..7) \cup (24..26): j # 6 => Plain(s, j)
  <2> TAKE j \in (1..7) \cup (24..26)
  <2>1. j \in 1..7 \/ (j \in 9..26 /\ j # 14 /\ j # 23)  OBVIOUS
  <2> QED  BY <2>1, <1>1, <1>2, <1>3
<1>9. Fronted(c, s)  BY <1>2, <1>3, <1>4, <1>8 DEF Fronted
<1> QED  BY <1>1, <1>3, <1>7, <1>9

\* The change of the sector size, in front of the erases.
LEMMA UnitSound ==
  ASSUME NEW c, NEW s, IsSeq(s), UnitChanging(s), c[1] = "erase",
         s[34] = Quad, Starts(s, 39, "06"), Len(s) > 39
  PROVE  /\ \A k \in 1..33: Sound("S25FS128S", c, s, k)
         /\ Chosen("S25FS128S", c, s, 8) /\ Starts(s, 22, "71")
<1>0. "65" \in Codes \ (Programs \cup {"71"}) /\ "65" \notin Changes /\ "06" \notin Changes /\ "05" \notin Changes
      /\ "71" \in Changes
  BY DEF Codes, Programs, Changes, Erases
<1>1. /\ Framed(s, 6) /\ Starts(s, 6, "65")
      /\ \A j \in 1..7: j # 6 => Plain(s, j)
  <2>1. Plainly(s, 6, "65", AddressBytes("65"), 0, DataBytes("65"), Way("65"))
    BY Expected DEF UnitChanging
  <2>2. Sent(0, AddressBytes("65")) = 0  BY Expected, SentZero
  <2>3. /\ Framed(s, 6) /\ Starts(s, 6, "65")
        /\ \A j \in (6 - 5)..(6 + 1): j # 6 => Plain(s, j)
    BY <2>1, <2>2, <1>0, FramePlain, 6 \in Int
  <2> QED  BY <2>3
<1>2. /\ Framed(s, 14) /\ Starts(s, 14, "06")
      /\ \A j \in 9..15: j # 14 => Plain(s, j)
  <2>1. Plainly(s, 14, "06", 0, 0, 0, "none")  BY DEF UnitChanging
  <2>2. /\ Framed(s, 14) /\ Starts(s, 14, "06")
        /\ \A j \in (14 - 5)..(14 + 1): j # 14 => Plain(s, j)
    BY <2>1, FrameShort, Expected, 14 \in Int
  <2> QED  BY <2>2
<1>3. /\ Framed(s, 22) /\ Starts(s, 22, "71") /\ Address(s, 22) = 0
      /\ \A j \in 16..23: j # 22 => Plain(s, j)
  <2>1. Plainly(s, 22, "71", 3, 0, 1, "write") /\ s[22 - 6] = <<"write", "smwdr0", CellsOf[256]>>
    BY DEF UnitChanging
  <2>2. /\ Framed(s, 22) /\ Starts(s, 22, "71") /\ Address(s, 22) = 0
        /\ \A j \in (22 - 6)..(22 + 1): j # 22 => Plain(s, j)
    BY <2>1, SentZero, FrameWriteAny, 22 \in Int, 22 > 6
  <2> QED  BY <2>2
<1>4. Plain(s, 24) /\ Plain(s, 25)
  BY DEF UnitChanging, Plain, Written, Hyper, Clear
<1>5. /\ Framed(s, 31) /\ Starts(s, 31, "05") /\ Polled(s, 33)
      /\ \A j \in 26..32: j # 31 => Plain(s, j)
  <2>1. 25 + 6 = 31 /\ 25 + 8 = 33 /\ 25 + 1 = 26 /\ 25 + 7 = 32 /\ 25 \in Nat  OBVIOUS
  <2>2. Plainly(s, 25 + 6, "05", 0, 0, 4, "read") /\ s[25 + 8] = Poll  BY <2>1 DEF UnitChanging
  <2> QED  BY <2>1, <2>2, StatusSound
<1>6. Code(s, 22) = "71" /\ s[22][1] = "start" /\ "71" \notin Programs  BY <1>3 DEF Starts, Programs
<1>7. Enabled(s, 22)
  <2>1. Lead(Code(s, 22)) = 8  BY <1>6 DEF Lead
  <2>2. \A j \in (14 + 1)..(22 - 1): Plain(s, j)  BY <1>2, <1>3
  <2> QED  BY <2>1, <2>2, <1>2 DEF Enabled
<1>8. Awaited(c, s, 22)
  <2>1. Rest(Code(s, 22)) = 11  BY <1>6 DEF Rest
  <2>2. \A j \in (22 + 1)..(33 - 1): j # 31 => Plain(s, j)  BY <1>3, <1>4, <1>5, SMTT(20)
  <2>3. s[33] = Poll /\ 33 <= Len(s)  BY DEF UnitChanging
  <2> QED  BY <2>1, <2>2, <2>3, <1>5 DEF Awaited
<1>9. Started("S25FS128S", c, s, 22)
  <2>1. Meant("S25FS128S", c, Code(s, 22), Address(s, 22), Index(s, 22), 22)
    BY <1>6 DEF Meant, Programs
  <2> QED  BY <2>1, <1>3, <1>6, <1>7, <1>8 DEF Started
<1>10. Chosen("S25FS128S", c, s, 8)  BY <1>1 DEF Chosen, UnitChanging
<1>11. ASSUME NEW k \in 1..33  PROVE Sound("S25FS128S", c, s, k)
  <2>1. CASE k = 6  BY <2>1, <1>1, <1>0, SoundStart
  <2>2. CASE k = 14  BY <2>2, <1>2, <1>0, SoundStart
  <2>3. CASE k = 31  BY <2>3, <1>5, <1>0, SoundStart
  <2>4. CASE k = 22  BY <2>4, <1>9 DEF Sound
  <2>5. CASE k = 8  BY <2>5, <1>10 DEF Sound
  <2>6. CASE k = 33  BY <2>6, <1>5 DEF Sound
  <2>7. CASE k \notin {6, 8, 14, 22, 31, 33}
    <3>1. \/ k \in 1..7 \/ k \in 9..15 \/ k \in 16..23 \/ k \in {24, 25} \/ k \in 26..32  BY <2>7
    <3>2. Plain(s, k)  BY <3>1, <2>7, <1>1, <1>2, <1>3, <1>4, <1>5
    <3> QED  BY <3>2 DEF Sound
  <2> QED  BY <2>1, <2>2, <2>3, <2>4, <2>5, <2>6, <2>7
<1> QED  BY <1>3, <1>10, <1>11

\* The identification.
LEMMA IdentifyingSound ==
  ASSUME NEW p, NEW c, NEW s, IsSeq(s), Identifying(s), c[1] = "identify"
  PROVE  (\A k \in 1..8: Sound(p, c, s, k)) /\ Fronted(c, s)
<1>1. /\ Framed(s, 6) /\ Starts(s, 6, "9F")
      /\ \A j \in 1..7: j # 6 => Plain(s, j)
  <2>1. /\ Framed(s, 6) /\ Starts(s, 6, "9F")
        /\ \A j \in (6 - 5)..(6 + 1): j # 6 => Plain(s, j)
    BY FrameShort, Expected, 6 \in Int DEF Identifying
  <2> QED  BY <2>1
<1>2. Known(c, s, 8)  BY <1>1 DEF Known, Identifying
<1>3. "9F" \notin Changes  BY DEF Changes, Erases, Programs
<1>4. ASSUME NEW k \in 1..8  PROVE Sound(p, c, s, k)
  <2>1. CASE k = 6  BY <2>1, <1>1, <1>3, SoundStart
  <2>2. CASE k = 8  BY <2>2, <1>2 DEF Sound
  <2>3. CASE k \notin {6, 8}
    <3>1. k \in 1..7  BY <2>3
    <3>2. Plain(s, k)  BY <3>1, <2>3, <1>1
    <3> QED  BY <3>2 DEF Sound
  <2> QED  BY <2>1, <2>2, <2>3
<1> QED  BY <1>1, <1>4 DEF Fronted, Identifying

\* A read.
LEMMA ReadingSound ==
  ASSUME NEW p, NEW c, NEW s, IsSeq(s), NEW code \in {"0B", "0C"}, NEW from \in Nat, NEW to \in Nat, from <= to,
         Reading(s, code, AddressBytes(code), from, to), to \in Cells,
         (code = "0B") => to \in 0..(Window - 1), c[1] \in {"read", "sectorRead"}
  PROVE  (\A k \in 1..Len(s): Sound(p, c, s, k)) /\ Fronted(c, s)
<1>0. Window \in Nat \ {0} /\ FlashSize \in Nat  BY RpcAssumption, FlashAssumption
<1>1. Len(s) = 5 + (to - from + 1)  BY DEF Reading
<1>2. ASSUME NEW k \in 1..5  PROVE Plain(s, k)
  <2>1. /\ s[1] = Quad /\ s[2] = <<"write", "cmncr", "external">> /\ s[3] = <<"write", "drcr", "burst">>
        /\ s[4] = <<"write", "drcmr", code>> /\ s[5] = <<"write", "drenr", AddressBytes(code)>>
    BY DEF Reading
  <2>2. k \in {1, 2, 3, 4, 5}  OBVIOUS
  <2> QED  BY <2>1, <2>2 DEF Plain, Written, Quad
<1>3. \A k \in 6..Len(s): s[k] = <<"load", from + (k - 5) - 1>>
  <2> TAKE k \in 6..Len(s)
  <2>1. k - 5 \in 1..(to - from + 1) /\ 5 + (k - 5) = k  BY <1>1
  <2> QED  BY <2>1 DEF Reading
<1>4. ASSUME NEW k \in 6..Len(s)  PROVE Loaded(c, s, k)
  <2> DEFINE a == from + (k - 5) - 1
  <2>1. a \in Nat /\ a <= to  BY <1>1
  <2>2. a \in Cells  BY <2>1, <1>0 DEF Cells
  <2>3. Sent(a, AddressBytes(code)) = a
    <3>1. CASE code = "0B"
      <4>0. to \in 0..(Window - 1)  BY <3>1
      <4>1. a < Window  BY <4>0, <2>1, <1>0
      <4>2. a % Window = a
        <5> HIDE DEF a
        <5> QED  BY <4>1, <2>1, <1>0, Below
      <4> QED  BY <4>2 DEF Sent
    <3>2. CASE code = "0C"
      <4>1. AddressBytes(code) = 4  BY <3>2, Expected
      <4> QED  BY <4>1, SentZero
    <3> QED  BY <3>1, <3>2
  <2>4. s[k][1] = "load" /\ s[k][2] = a  BY <1>3
  <2>5. \A j \in 6..Len(s): s[j][1] = "load"  BY <1>3
  <2> HIDE DEF a
  <2>6. k > 5  OBVIOUS
  <2> QED  BY <2>2, <2>3, <2>4, <2>5, <2>6 DEF Loaded, Reading
<1>5. ASSUME NEW k \in 1..Len(s)  PROVE Sound(p, c, s, k)
  <2>1. k \in 1..5 \/ k \in 6..Len(s)  BY <1>1
  <2> QED  BY <2>1, <1>2, <1>4 DEF Sound
<1> QED  BY <1>5 DEF Fronted

-----------------------------------------------------------------------------
(* The scripts, each of which is sound at every position.                  *)

\* The sector size divides the flash and its lower 16 MB.
LEMMA SectorIs ==
  ASSUME NEW p, Supported(p)
  PROVE  /\ gQspi_sa_size(p) \in Nat \ {0}
         /\ FlashSize % gQspi_sa_size(p) = 0 /\ Window % gQspi_sa_size(p) = 0
         /\ p = "S25FS128S" => gQspi_sa_size(p) = CellsOf[256]
<1>1. gQspi_sa_size(p) = CellsOf[CheckQspiFlashId[p].kb]  BY DEF gQspi_sa_size
<1>2. CheckQspiFlashId[p].kb \in Sizes  BY SectorsAre DEF Sizes
<1> QED  BY <1>1, <1>2, SectorsAre, RpcAssumption

Limit(p) == IF FourBytes(p) THEN FlashSize ELSE Window

\* The part is sent all of an address below its limit.
LEMMA Reached ==
  ASSUME NEW p, NEW a \in Nat, a < Limit(p), NEW w, w = 3 => ~FourBytes(p)
  PROVE  Sent(a, w) = a
<1>1. CASE w = 3
  <2>1. Window \in Nat \ {0} /\ a < Window  BY <1>1, RpcAssumption, FlashAssumption DEF Limit
  <2>2. a % Window = a  BY <2>1, Below
  <2> QED  BY <2>2 DEF Sent
<1>2. CASE w # 3  BY <1>2, SentZero
<1> QED  BY <1>1, <1>2

\* The range of a call.
LEMMA CallsAre ==
  ASSUME NEW p, NEW c \in Calls
  PROVE  /\ c[1] \in Operations /\ c[2] \in Nat /\ c[3] \in Nat /\ c[2] <= c[3] /\ c[3] \in Cells
         /\ c[1] = "page" => c[2] = c[3]
         /\ Fits(p, c) /\ c[1] # "identify" => Supported(p) /\ c[3] < Limit(p)
<1>1. c \in Operations \X Cells \X Cells /\ c[2] <= c[3] /\ (c[1] = "page" => c[2] = c[3])
  BY RpcAssumption
<1>2. c[1] \in Operations /\ c[2] \in Cells /\ c[3] \in Cells  BY <1>1
<1>3. c[2] \in Nat /\ c[3] \in Nat  BY <1>2 DEF Cells
<1>4. Fits(p, c) /\ c[1] # "identify" => Supported(p) /\ c[3] < Limit(p)
  BY DEF Fits, Limit, FourBytes
<1> QED  BY <1>1, <1>2, <1>3, <1>4

\* Block q is one of those of the range and starts before its end.
StartsBlock(q, size, from, to) ==
  /\ q \in (from \div size)..(to \div size) /\ q * size \in Nat
  /\ q * size <= to /\ (q * size) \div size = q

\* The first cell of each block.
LEMMA BlockTop ==
  ASSUME NEW size \in Nat \ {0}, NEW from \in Nat, NEW to \in Nat, from <= to,
         NEW i \in 1..(to \div size - from \div size + 1)
  PROVE  StartsBlock(from \div size + i - 1, size, from, to)
<1> DEFINE f == from \div size
           t == to \div size
           q == f + i - 1
<1>1. f \in Nat /\ t \in Nat  OBVIOUS
<1>2. to = size * t + (to % size) /\ to % size \in 0..(size - 1)  BY Divided
<1> HIDE DEF f, t
<1>3. q \in Nat /\ q \in f..t  BY <1>1 DEF f, t
<1> HIDE DEF q
<1>4. q \in Int /\ q <= t /\ t \in Int  BY <1>1, <1>3
<1>5. size * q <= size * t  BY <1>4, ProductGrows
<1>6. q * size = size * q + 0 /\ size * q \in Nat  BY <1>3
<1>7. (size * q + 0) \div size = q
  <2>1. 0 \in 0..(size - 1)  OBVIOUS
  <2> QED  BY <2>1, <1>4, DividedOnce
<1>8. q * size <= to
  <2>1. size * t \in Int  BY <1>1
  <2> QED  BY <1>2, <1>5, <1>6, <2>1
<1>9. q * size \in Nat  BY <1>6
<1> QED  BY <1>3, <1>6, <1>7, <1>8, <1>9, Zenon DEF q, f, t, StartsBlock

\* The blocks of a range are numbered upwards.
LEMMA Quotients ==
  ASSUME NEW size \in Nat \ {0}, NEW from \in Nat, NEW to \in Nat, from <= to
  PROVE  from \div size \in Nat /\ to \div size \in Nat /\ from \div size <= to \div size
<1> DEFINE f == from \div size
           t == to \div size
<1>1. f \in Nat /\ t \in Nat  OBVIOUS
<1>2. /\ to = size * t + (to % size) /\ to % size \in 0..(size - 1)
      /\ from = size * f + (from % size) /\ from % size \in 0..(size - 1)
  BY Divided
<1> HIDE DEF f, t
<1>3. CASE f >= t + 1
  <2>1. size * (t + 1) <= size * f  BY <1>3, <1>1, ProductGrows
  <2>2. size * (t + 1) = size * t + size /\ size * t \in Int /\ size * f \in Int  BY <1>1
  <2> QED  BY <2>1, <2>2, <1>2
<1> QED  BY <1>1, <1>3 DEF f, t

\* The erases of a range of blocks.
EraseLoop(code, width, size, from, to) ==
  Turns([i \in 1..(to \div size - from \div size + 1) |->
           WREN \o Command(code, width, (from \div size + i - 1) * size, 0, "none") \o UntilReady])

BlocksOf(size, from, to) == to \div size - from \div size + 1
EraseTurns(t, n, code, width, size, f) ==
  /\ IsSeq(t) /\ n \in Nat \ {0} /\ Len(t) = n * 22
  /\ \A s, b: IsSeq(s) /\ Within(t, b, s) =>
       \A i \in 1..n: Erasing(s, b + (i - 1) * 22, code, width, (f + i - 1) * size)
  /\ \A k \in 1..(n * 22): \E i \in 1..n, j \in 1..22: k = (i - 1) * 22 + j

\* The turns of the erase loop stand 22 operations apart.
LEMMA EraseLoopIs ==
  ASSUME NEW code, NEW width, NEW size \in Nat \ {0}, NEW from \in Nat, NEW to \in Nat, from <= to
  PROVE  EraseTurns(EraseLoop(code, width, size, from, to), BlocksOf(size, from, to), code, width,
                    size, from \div size)
<1> DEFINE f == from \div size
           n == to \div size - f + 1
           E(at) == WREN \o Command(code, width, at, 0, "none") \o UntilReady
           seqs == [i \in 1..n |-> E((f + i - 1) * size)]
           t == Turns(seqs)
<1>1. n \in Nat \ {0}  BY Quotients
<1>2. \A at: IsSeq(E(at)) /\ Len(E(at)) = 22
  <2> TAKE at
  <2> QED  BY ErasingIs
<1>3. \A at, s, b: IsSeq(s) /\ Within(E(at), b, s) => Erasing(s, b, code, width, at)
  <2> TAKE at
  <2> QED  BY ErasingIs
<1>4. t = EraseLoop(code, width, size, from, to)  BY DEF EraseLoop
<1> HIDE DEF E, n
<1>5. \A i \in 1..n: seqs[i] = E((f + i - 1) * size)  OBVIOUS
<1>6. \A i \in 1..n: Len(seqs[i]) = 22  BY <1>2, <1>5
<1>7. IsSeq(seqs) /\ Len(seqs) = n
  <2> HIDE DEF f
  <2> DEFINE V == {seqs[i]: i \in 1..n}
  <2>1. seqs \in [1..n -> V]  OBVIOUS
  <2> HIDE DEF seqs
  <2> HIDE DEF V
  <2>2. seqs \in Seq(V)  BY <2>1, <1>1
  <2>3. DOMAIN seqs = 1..n  BY <2>1
  <2>4. Len(seqs) = n  BY <2>2, <2>3, <1>1
  <2> QED  BY <2>2, <2>4 DEF IsSeq
<1> HIDE DEF seqs
<1>8. /\ IsSeq(t) /\ Len(t) = n * 22
      /\ \A i \in 1..n: Within(seqs[i], (i - 1) * 22, t)
      /\ \A k \in 1..(n * 22): \E i \in 1..n, j \in 1..22: k = (i - 1) * 22 + j
  BY <1>1, <1>6, <1>7, TurnsAre, 22 \in Nat \ {0}
<1> HIDE DEF t
<1>9. ASSUME NEW s, NEW b, IsSeq(s), Within(t, b, s), NEW i \in 1..n
      PROVE  Erasing(s, b + (i - 1) * 22, code, width, (f + i - 1) * size)
  <2>0. IsSeq(seqs[i])  BY <1>2, <1>5
  <2>1. Within(seqs[i], b + (i - 1) * 22, s)  BY <2>0, <1>8, <1>9, Nested
  <2> QED  BY <2>1, <1>9, <1>3, <1>5
<1>10. \A s, b: IsSeq(s) /\ Within(t, b, s) =>
         \A i \in 1..n: Erasing(s, b + (i - 1) * 22, code, width, (f + i - 1) * size)
  BY <1>9, Zenon
<1>11. n = BlocksOf(size, from, to)  BY DEF n, BlocksOf
<1> HIDE DEF f
<1>12. EraseTurns(t, n, code, width, size, f)  BY <1>1, <1>8, <1>10, Zenon DEF EraseTurns
<1> QED  BY <1>4, <1>11, <1>12, Zenon DEF f

\* Its length.
LEMMA EraseLoopLen ==
  ASSUME NEW code, NEW width, NEW size \in Nat \ {0}, NEW from \in Nat, NEW to \in Nat, from <= to
  PROVE  /\ IsSeq(EraseLoop(code, width, size, from, to)) /\ BlocksOf(size, from, to) \in Nat \ {0}
         /\ Len(EraseLoop(code, width, size, from, to)) = BlocksOf(size, from, to) * 22
<1> DEFINE t == EraseLoop(code, width, size, from, to)
           n == BlocksOf(size, from, to)
           f == from \div size
<1>1. EraseTurns(t, n, code, width, size, f)  BY EraseLoopIs
<1> HIDE DEF t, n, f
<1>2. IsSeq(t) /\ n \in Nat \ {0} /\ Len(t) = n * 22  BY <1>1, Zenon DEF EraseTurns
<1> QED  BY <1>2 DEF t, n

\* The page programs of a range of pages.
SaveLoop(code, width, from, to) ==
  Turns([i \in 1..(to - from + 1) |->
           WREN \o Buffered(code, width, from + i - 1, i - 1) \o UntilReady])
Saving(s, b, code, width, at, i) ==
  /\ Programming(s, b, code, width, at, i)
  /\ Plainly(s, b + 24, "05", 0, 0, 4, "read") /\ s[b + 26] = Poll /\ b + 26 <= Len(s)

PagesOf(from, to) == to - from + 1
SaveTurns(t, n, code, width, from) ==
  /\ IsSeq(t) /\ n \in Nat \ {0} /\ Len(t) = n * 26
  /\ \A s, b: IsSeq(s) /\ Within(t, b, s) =>
       \A i \in 1..n: Saving(s, b + (i - 1) * 26, code, width, from + i - 1, i - 1)
  /\ \A k \in 1..(n * 26): \E i \in 1..n, j \in 1..26: k = (i - 1) * 26 + j

\* The turns of the save loop stand 26 operations apart.
LEMMA SaveLoopIs ==
  ASSUME NEW code, NEW width, NEW from \in Nat, NEW to \in Nat, from <= to
  PROVE  SaveTurns(SaveLoop(code, width, from, to), PagesOf(from, to), code, width, from)
<1> DEFINE n == to - from + 1
           E(at, i) == WREN \o Buffered(code, width, at, i) \o UntilReady
           seqs == [i \in 1..n |-> E(from + i - 1, i - 1)]
           t == Turns(seqs)
<1>1. n \in Nat \ {0}  OBVIOUS
<1>2. \A at, i: IsSeq(E(at, i)) /\ Len(E(at, i)) = 26
  <2> TAKE at, i
  <2> QED  BY SavingIs
<1>3. \A at, i, s, b: IsSeq(s) /\ Within(E(at, i), b, s) => Saving(s, b, code, width, at, i)
  <2> TAKE at, i
  <2> QED  BY SavingIs DEF Saving
<1>4. t = SaveLoop(code, width, from, to)  BY DEF SaveLoop
<1> HIDE DEF E, n
<1>5. \A i \in 1..n: seqs[i] = E(from + i - 1, i - 1)  OBVIOUS
<1>6. \A i \in 1..n: IsSeq(seqs[i]) /\ Len(seqs[i]) = 26  BY <1>2, <1>5
<1>7. IsSeq(seqs) /\ Len(seqs) = n
  <2> DEFINE V == {seqs[i]: i \in 1..n}
  <2>1. seqs \in [1..n -> V]  OBVIOUS
  <2> HIDE DEF seqs
  <2> HIDE DEF V
  <2>2. seqs \in Seq(V)  BY <2>1, <1>1
  <2>3. DOMAIN seqs = 1..n  BY <2>1
  <2>4. Len(seqs) = n  BY <2>2, <2>3, <1>1
  <2> QED  BY <2>2, <2>4 DEF IsSeq
<1> HIDE DEF seqs
<1>8. /\ IsSeq(t) /\ Len(t) = n * 26
      /\ \A i \in 1..n: Within(seqs[i], (i - 1) * 26, t)
      /\ \A k \in 1..(n * 26): \E i \in 1..n, j \in 1..26: k = (i - 1) * 26 + j
  <2>1. \A i \in 1..n: Len(seqs[i]) = 26  BY <1>6
  <2> QED  BY <1>1, <2>1, <1>7, TurnsAre, 26 \in Nat \ {0}
<1> HIDE DEF t
<1>9. ASSUME NEW s, NEW b, IsSeq(s), Within(t, b, s), NEW i \in 1..n
      PROVE  Saving(s, b + (i - 1) * 26, code, width, from + i - 1, i - 1)
  <2>1. Within(seqs[i], b + (i - 1) * 26, s)  BY <1>6, <1>8, <1>9, Nested
  <2> QED  BY <2>1, <1>9, <1>3, <1>5
<1>10. \A s, b: IsSeq(s) /\ Within(t, b, s) =>
         \A i \in 1..n: Saving(s, b + (i - 1) * 26, code, width, from + i - 1, i - 1)
  BY <1>9, Zenon
<1>11. n = PagesOf(from, to)  BY DEF n, PagesOf
<1>12. SaveTurns(t, n, code, width, from)  BY <1>1, <1>8, <1>10, Zenon DEF SaveTurns
<1> QED  BY <1>4, <1>11, <1>12, Zenon

-----------------------------------------------------------------------------
\* Its length.
LEMMA SaveLoopLen ==
  ASSUME NEW code, NEW width, NEW from \in Nat, NEW to \in Nat, from <= to
  PROVE  /\ IsSeq(SaveLoop(code, width, from, to)) /\ PagesOf(from, to) \in Nat \ {0}
         /\ Len(SaveLoop(code, width, from, to)) = PagesOf(from, to) * 26
<1> DEFINE t == SaveLoop(code, width, from, to)
           n == PagesOf(from, to)
<1>1. SaveTurns(t, n, code, width, from)  BY SaveLoopIs
<1> HIDE DEF t, n
<1>2. IsSeq(t) /\ n \in Nat \ {0} /\ Len(t) = n * 26  BY <1>1, Zenon DEF SaveTurns
<1> QED  BY <1>2 DEF t, n

\* Whole blocks are erased, and pages programmed, by a transfer each.
ErasesAll(s, codes, size, from, to) ==
  \A q \in (from \div size)..(to \div size): \E k \in 1..Len(s):
    s[k][1] = "start" /\ Code(s, k) \in codes /\ Address(s, k) \div size = q
ProgramsAll(s, from, to) ==
  \A a \in from..to: \E k \in 1..Len(s):
    s[k][1] = "start" /\ Code(s, k) \in Programs /\ Address(s, k) = a

\* The transfers of a call leave nothing out of what it is to change.
Covers(p, c, s) ==
  /\ c[1] = "erase" => ErasesAll(s, {"D8", "DC"}, gQspi_sa_size(p), c[2], c[3])
  /\ c[1] = "parameterErase" => ErasesAll(s, {"20", "21"}, CellsOf[4], c[2], c[3])
  /\ c[1] = "bulkErase" => \E k \in 1..Len(s): s[k][1] = "start" /\ Code(s, k) = "60"
  /\ c[1] \in {"save", "page"} => ProgramsAll(s, c[2], c[3])
  /\ c[1] = "erase" /\ p = "S25FS128S" => Chosen(p, c, s, 8) /\ Starts(s, 22, "71")

WellFormed(p, c, s) ==
  IsSeq(s) /\ (\A k \in 1..Len(s): Sound(p, c, s, k)) /\ Fronted(c, s) /\ Covers(p, c, s)

Asks(p, c, code, size, from, to, b) ==
  \A at \in Nat, k \in Nat: \A i: k > b + 12 /\ at \div size \in (from \div size)..(to \div size)
                        => Meant(p, c, code, at, i, k)

EraseSound(p, c, s, b, n, code, size, from, to) ==
  /\ n \in Nat \ {0} /\ b + n * 22 <= Len(s)
  /\ \A k \in (b + 1)..(b + n * 22): Sound(p, c, s, k)
  /\ s[b + 1] = Quad /\ Starts(s, b + 6, "06")
  /\ ErasesAll(s, {code}, size, from, to)

\* The erases of a loop behind position b are sound.
LEMMA EraseLoopSound ==
  ASSUME NEW p, NEW c, NEW s, IsSeq(s), NEW b \in Nat, NEW code \in Erases \ {"60"},
         NEW size \in Nat \ {0}, NEW from \in Nat, NEW to \in Nat, from <= to,
         Within(EraseLoop(code, AddressBytes(code), size, from, to), b, s),
         to < Limit(p), AddressBytes(code) = 3 => ~FourBytes(p), c[1] # "page",
         Asks(p, c, code, size, from, to, b)
  PROVE  EraseSound(p, c, s, b, BlocksOf(size, from, to), code, size, from, to)
<1> DEFINE n == BlocksOf(size, from, to)
           f == from \div size
           At2(i) == (f + i - 1) * size
           w == AddressBytes(code)
           t == EraseLoop(code, w, size, from, to)
<1>1. /\ IsSeq(t) /\ n \in Nat \ {0} /\ Len(t) = n * 22
      /\ \A i \in 1..n: Erasing(s, b + (i - 1) * 22, code, w, At2(i))
      /\ \A k \in 1..(n * 22): \E i \in 1..n, j \in 1..22: k = (i - 1) * 22 + j
  <2>1. EraseTurns(t, n, code, w, size, f)  BY EraseLoopIs
  <2>2. Within(t, b, s)  BY DEF t, w
  <2> HIDE DEF t, w, n, f
  <2>3. \A i \in 1..n: Erasing(s, b + (i - 1) * 22, code, w, (f + i - 1) * size)
    BY <2>1, <2>2, Zenon DEF EraseTurns
  <2>4. IsSeq(t) /\ n \in Nat \ {0} /\ Len(t) = n * 22  BY <2>1, Zenon DEF EraseTurns
  <2>5. \A k \in 1..(n * 22): \E i \in 1..n, j \in 1..22: k = (i - 1) * 22 + j
    BY <2>1, Zenon DEF EraseTurns
  <2> QED  BY <2>3, <2>4, <2>5, Zenon DEF At2
<1>2. \A i \in 1..n: /\ At2(i) \in Nat /\ At2(i) <= to
                     /\ At2(i) \div size \in f..(to \div size)
  <2> TAKE i \in 1..n
  <2> HIDE DEF w, t
  <2>1. i \in 1..(to \div size - from \div size + 1)  BY DEF BlocksOf
  <2>2. StartsBlock(from \div size + i - 1, size, from, to)  BY <2>1, BlockTop
  <2> QED  BY <2>2 DEF StartsBlock
<1>3. Limit(p) \in Nat  BY RpcAssumption, FlashAssumption DEF Limit
<1>4. b + n * 22 <= Len(s)  BY <1>1 DEF Within
<1> HIDE DEF n, At2
<1>5. ASSUME NEW i \in 1..n
      PROVE  LET o == b + (i - 1) * 22 IN
             /\ o \in Nat /\ o >= b
             /\ \A k \in (o + 1)..(o + 22): Sound(p, c, s, k)
             /\ s[o + 1] = Quad /\ Starts(s, o + 6, "06")
             /\ Starts(s, o + 13, code) /\ Address(s, o + 13) = At2(i) /\ o + 22 <= Len(s)
  <2> DEFINE o == b + (i - 1) * 22
  <2>1. o \in Nat /\ o >= b /\ o + 13 > b + 12 /\ o + 13 \in Nat  BY <1>1
  <2>2. Erasing(s, o, code, w, At2(i))  BY <1>1
  <2> HIDE DEF o
  <2>3. At2(i) < Limit(p)  BY <1>2, <1>3
  <2>4. Sent(At2(i), w) = At2(i)  BY <2>3, <1>2, Reached
  <2>5. \A j: Meant(p, c, code, At2(i), j, o + 13)  BY <2>1, <1>2 DEF Asks
  <2>6. code \in Erases  OBVIOUS
  <2>7. /\ \A k \in (o + 1)..(o + 22): Sound(p, c, s, k)
        /\ s[o + 1] = Quad /\ Starts(s, o + 6, "06")
        /\ Starts(s, o + 13, code) /\ Address(s, o + 13) = At2(i) /\ o + 22 <= Len(s)
    <3> HIDE DEF n, At2, f, t
    <3> QED  BY <2>1, <2>2, <2>4, <2>5, <2>6, ErasingSound, ZenonT(60)
  <2> QED  BY <2>1, <2>7 DEF o
<1>6. ASSUME NEW k \in (b + 1)..(b + n * 22)  PROVE Sound(p, c, s, k)
  <2>1. k - b \in 1..(n * 22)  BY <1>1
  <2>2. PICK i \in 1..n, j \in 1..22: k - b = (i - 1) * 22 + j  BY <2>1, <1>1
  <2>3. i \in Nat /\ (i - 1) * 22 \in Int  BY <1>1
  <2>4. k \in ((b + (i - 1) * 22) + 1)..((b + (i - 1) * 22) + 22)  BY <2>2, <2>3
  <2> QED  BY <2>4, <1>5
<1>7. s[b + 1] = Quad /\ Starts(s, b + 6, "06")
  <2>1. 1 \in 1..n /\ b + (1 - 1) * 22 = b  BY <1>1
  <2> QED  BY <2>1, <1>5
<1>8. ErasesAll(s, {code}, size, from, to)
  <2> SUFFICES ASSUME NEW q \in f..(to \div size)
               PROVE  \E k \in 1..Len(s): s[k][1] = "start" /\ Code(s, k) = code /\ Address(s, k) \div size = q
    BY DEF ErasesAll
  <2>1. f \in Nat /\ to \div size \in Nat  BY Quotients
  <2> DEFINE i == q - f + 1
             o == b + (i - 1) * 22
  <2>2. i \in 1..n /\ f + i - 1 = q  BY <2>1, <1>1 DEF n, BlocksOf
  <2>3. At2(i) \div size = q
    <3> HIDE DEF i
    <3>1. i \in 1..(to \div size - from \div size + 1)  BY <2>2 DEF n, BlocksOf
    <3>2. StartsBlock(from \div size + i - 1, size, from, to)  BY <3>1, BlockTop
    <3> QED  BY <3>2, <2>2 DEF At2, StartsBlock
  <2> HIDE DEF i, f
  <2>4. o \in Nat /\ Starts(s, o + 13, code) /\ Address(s, o + 13) = At2(i) /\ o + 22 <= Len(s)
    BY <2>2, <1>5
  <2> HIDE DEF o
  <2>5. o + 13 \in 1..Len(s)  BY <2>4, Lengths
  <2> QED  BY <2>3, <2>4, <2>5 DEF Starts
<1> QED  BY <1>1, <1>4, <1>6, <1>7, <1>8, Zenon DEF n, EraseSound

Saves(c, from, to) == c[1] = "save" /\ c[2] = from /\ c[3] = to

SaveSound(p, c, s, b, n, from, to) ==
  /\ n \in Nat \ {0} /\ b + n * 26 <= Len(s)
  /\ \A k \in (b + 1)..(b + n * 26): Sound(p, c, s, k)
  /\ ProgramsAll(s, from, to)

\* So are the page programs.
LEMMA SaveLoopSound ==
  ASSUME NEW p, NEW c, NEW s, IsSeq(s), NEW b \in Nat, NEW code \in Programs,
         NEW from \in Nat, NEW to \in Nat, from <= to, Saves(c, from, to),
         Within(SaveLoop(code, AddressBytes(code), from, to), b, s),
         to < Limit(p), AddressBytes(code) = 3 => ~FourBytes(p)
  PROVE  SaveSound(p, c, s, b, PagesOf(from, to), from, to)
<1> DEFINE n == PagesOf(from, to)
           w == AddressBytes(code)
           t == SaveLoop(code, w, from, to)
<1>1. /\ IsSeq(t) /\ n \in Nat \ {0} /\ Len(t) = n * 26
      /\ \A i \in 1..n: Saving(s, b + (i - 1) * 26, code, w, from + i - 1, i - 1)
      /\ \A k \in 1..(n * 26): \E i \in 1..n, j \in 1..26: k = (i - 1) * 26 + j
  <2>1. SaveTurns(t, n, code, w, from)  BY SaveLoopIs
  <2>2. Within(t, b, s)  BY DEF t, w
  <2> HIDE DEF t, w, n
  <2> QED  BY <2>1, <2>2, Zenon DEF SaveTurns
<1>3. Limit(p) \in Nat  BY RpcAssumption, FlashAssumption DEF Limit
<1>4. b + n * 26 <= Len(s)  BY <1>1 DEF Within
<1>5. ASSUME NEW i \in 1..n
      PROVE  LET o == b + (i - 1) * 26 IN
             /\ o \in Nat /\ \A k \in (o + 1)..(o + 26): Sound(p, c, s, k)
             /\ Starts(s, o + 15, code) /\ Address(s, o + 15) = from + i - 1 /\ o + 26 <= Len(s)
  <2> DEFINE o == b + (i - 1) * 26
             a == from + i - 1
             j == i - 1
  <2>1. o \in Nat /\ a \in from..to /\ j \in Int /\ j = a - from /\ a \in Nat /\ a < Limit(p)
    BY <1>1, <1>3 DEF PagesOf
  <2>2. Saving(s, o, code, w, a, j)  BY <1>1
  <2> HIDE DEF o, a, j, n, t, w
  <2>4. Sent(a, w) = a  BY <2>1, Reached DEF w
  <2>5. Meant(p, c, code, a, j, o + 15) /\ c[1] # "page"  BY <2>1 DEF Meant, Programs, Saves
  <2>7. o + 26 <= Len(s)  BY <2>2 DEF Saving
  <2>6. /\ \A k \in (o + 1)..(o + 26): Sound(p, c, s, k)
        /\ Starts(s, o + 15, code) /\ Address(s, o + 15) = a
    BY <2>1, <2>2, <2>4, <2>5, SavingSound, Zenon DEF w, Saving
  <2> QED  BY <2>1, <2>6, <2>7 DEF o, a
<1> HIDE DEF n, t
<1>6. ASSUME NEW k \in (b + 1)..(b + n * 26)  PROVE Sound(p, c, s, k)
  <2>1. k - b \in 1..(n * 26)  BY <1>1
  <2>2. PICK i \in 1..n, j \in 1..26: k - b = (i - 1) * 26 + j  BY <2>1, <1>1
  <2>3. i \in Nat /\ (i - 1) * 26 \in Int  BY <1>1
  <2>4. k \in ((b + (i - 1) * 26) + 1)..((b + (i - 1) * 26) + 26)  BY <2>2, <2>3
  <2> QED  BY <2>4, <1>5
<1>7. ProgramsAll(s, from, to)
  <2> SUFFICES ASSUME NEW a \in from..to
               PROVE  \E k \in 1..Len(s): s[k][1] = "start" /\ Code(s, k) \in Programs /\ Address(s, k) = a
    BY DEF ProgramsAll
  <2> DEFINE i == a - from + 1
             o == b + (i - 1) * 26
  <2>1. i \in 1..n /\ from + i - 1 = a  BY <1>1 DEF n, PagesOf
  <2> HIDE DEF i
  <2>2. o \in Nat /\ Starts(s, o + 15, code) /\ Address(s, o + 15) = a /\ o + 26 <= Len(s)
    BY <2>1, <1>5
  <2> HIDE DEF o
  <2>3. o + 15 \in 1..Len(s)  BY <2>2, Lengths
  <2> QED  BY <2>2, <2>3 DEF Starts
<1> QED  BY <1>1, <1>4, <1>6, <1>7, Zenon DEF n, SaveSound

\* What the functions of the driver are made of.
LEMMA LoopsAre ==
  ASSUME NEW p, NEW from, NEW to
  PROVE  /\ SectorEraseQspi_Flash(p, from, to) =
              (IF p = "S25FS128S" THEN SetSectorErase256kbQspiFlashCypress ELSE << >>)
              \o (IF FourBytes(p) THEN EraseLoop("DC", 4, gQspi_sa_size(p), from, to)
                  ELSE EraseLoop("D8", 3, gQspi_sa_size(p), from, to))
         /\ ParameterSectorEraseQspiFlash(p, from, to) =
              IF FourBytes(p) THEN EraseLoop("21", 4, CellsOf[4], from, to)
              ELSE EraseLoop("20", 3, CellsOf[4], from, to)
<1>1. CASE FourBytes(p)
  <2>1. \A a: SectorEraseQspiFlashInternal(p, a) = WREN \o Command("DC", 4, a, 0, "none") \o UntilReady
    BY <1>1 DEF SectorEraseQspiFlashInternal, SectorErase4QspiFlash
  <2>2. \A a: ParameterSectorErase4kbQspiFlash(p, a) = WREN \o Command("21", 4, a, 0, "none") \o UntilReady
    BY <1>1 DEF ParameterSectorErase4kbQspiFlash, ParameterSectorErase4QspiFlash
  <2>3. Blocks(gQspi_sa_size(p), from, to, LAMBDA a: SectorEraseQspiFlashInternal(p, a))
        = EraseLoop("DC", 4, gQspi_sa_size(p), from, to)
    BY <2>1, Zenon DEF Blocks, EraseLoop
  <2>4. Blocks(CellsOf[4], from, to, LAMBDA a: ParameterSectorErase4kbQspiFlash(p, a))
        = EraseLoop("21", 4, CellsOf[4], from, to)
    BY <2>2, Zenon DEF Blocks, EraseLoop
  <2> QED
    BY <1>1, <2>3, <2>4, Zenon DEF SectorEraseQspi_Flash, ParameterSectorEraseQspiFlash
<1>2. CASE ~FourBytes(p)
  <2>1. \A a: SectorEraseQspiFlashInternal(p, a) = WREN \o Command("D8", 3, a, 0, "none") \o UntilReady
    BY <1>2 DEF SectorEraseQspiFlashInternal, SectorEraseQspiFlash
  <2>2. \A a: ParameterSectorErase4kbQspiFlash(p, a) = WREN \o Command("20", 3, a, 0, "none") \o UntilReady
    BY <1>2 DEF ParameterSectorErase4kbQspiFlash, ParameterSectorErase3QspiFlash
  <2>3. Blocks(gQspi_sa_size(p), from, to, LAMBDA a: SectorEraseQspiFlashInternal(p, a))
        = EraseLoop("D8", 3, gQspi_sa_size(p), from, to)
    BY <2>1, Zenon DEF Blocks, EraseLoop
  <2>4. Blocks(CellsOf[4], from, to, LAMBDA a: ParameterSectorErase4kbQspiFlash(p, a))
        = EraseLoop("20", 3, CellsOf[4], from, to)
    BY <2>2, Zenon DEF Blocks, EraseLoop
  <2> QED
    BY <1>2, <2>3, <2>4, Zenon DEF SectorEraseQspi_Flash, ParameterSectorEraseQspiFlash
<1> QED  BY <1>1, <1>2

\* A save is a write enable and the loop over its pages.
LEMMA SavesAre ==
  ASSUME NEW p, NEW from, NEW to
  PROVE  SaveDataWithBuffeQspiFlash(p, from, to) =
           Command("06", 0, 0, 0, "none")
           \o (IF FourBytes(p) THEN SaveLoop("12", 4, from, to) ELSE SaveLoop("02", 3, from, to))
<1> DEFINE pages == Turns([i \in 1..(to - from + 1) |-> PageProgramWithBuffeQspiFlash(p, from + i - 1, i - 1)])
<1>1. CASE FourBytes(p)
  <2>1. \A a, i: PageProgramWithBuffeQspiFlash(p, a, i) = WREN \o Buffered("12", 4, a, i) \o UntilReady
    BY <1>1 DEF PageProgramWithBuffeQspiFlash, PageProgramWithBuffeQspiFlashNoWait, WriteData4ppWithBufferQspiFlash
  <2>2. pages = SaveLoop("12", 4, from, to)  BY <2>1, Zenon DEF SaveLoop
  <2> QED  BY <1>1, <2>2, Zenon DEF SaveDataWithBuffeQspiFlash, WREN, WriteCommandQspiFlash
<1>2. CASE ~FourBytes(p)
  <2>1. \A a, i: PageProgramWithBuffeQspiFlash(p, a, i) = WREN \o Buffered("02", 3, a, i) \o UntilReady
    BY <1>2 DEF PageProgramWithBuffeQspiFlash, PageProgramWithBuffeQspiFlashNoWait, WriteDataPpWithBufferQspiFlash
  <2>2. pages = SaveLoop("02", 3, from, to)  BY <2>1, Zenon DEF SaveLoop
  <2> QED  BY <1>2, <2>2, Zenon DEF SaveDataWithBuffeQspiFlash, WREN, WriteCommandQspiFlash
<1> QED  BY <1>1, <1>2

\* Nothing in front of a sequence.
LEMMA EmptyPrefix == ASSUME NEW t, IsSeq(t)  PROVE << >> \o t = t
<1>1. PICK T: t \in Seq(T)  BY DEF IsSeq
<1>2. << >> \in Seq(T)  OBVIOUS
<1>3. << >> \o t \in Seq(T) /\ Len(<< >> \o t) = Len(t)  BY <1>1, <1>2
<1>4. \A i \in 1..Len(t): (<< >> \o t)[i] = t[i]  BY <1>1, <1>2
<1> QED  BY <1>1, <1>3, <1>4

\* A sequence stands in itself, the parts of a sum stand in it.
LEMMA Whole == ASSUME NEW t, IsSeq(t)  PROVE Within(t, 0, t)
BY Lengths DEF Within

\* Two sequences stand in their sum.
LEMMA Behind ==
  ASSUME NEW u, NEW t, IsSeq(u), IsSeq(t)
  PROVE  IsSeq(u \o t) /\ Within(u, 0, u \o t) /\ Within(t, Len(u), u \o t) /\ Len(u \o t) = Len(u) + Len(t)
<1> DEFINE s == u \o t
<1>1. IsSeq(s) /\ Len(s) = Len(u) + Len(t)  BY Joined
<1>2. Within(s, 0, s)  BY <1>1, Whole
<1>3. Within(u, 0, s) /\ Within(t, 0 + Len(u), s)  BY <1>1, <1>2, Parted
<1>4. Len(u) \in Nat  BY Lengths
<1> QED  BY <1>1, <1>3, <1>4

\* The widths of the commands that FourBytes chooses.
LEMMA Widths ==
  /\ AddressBytes("DC") = 4 /\ AddressBytes("21") = 4 /\ AddressBytes("12") = 4 /\ AddressBytes("0C") = 4
  /\ AddressBytes("D8") = 3 /\ AddressBytes("20") = 3 /\ AddressBytes("02") = 3 /\ AddressBytes("0B") = 3
BY Expected

Does(c, operation) == c[1] = operation

\* The script of an erase is sound, with the choice of the sector size or without.
LEMMA EraseFormed ==
  ASSUME NEW p, NEW c \in Calls, Fits(p, c), Does(c, "erase")
  PROVE  WellFormed(p, c, Function(p, c))
<1> DEFINE g == gQspi_sa_size(p)
           from == c[2]
           to == c[3]
           n == BlocksOf(g, from, to)
           code == IF FourBytes(p) THEN "DC" ELSE "D8"
           t == EraseLoop(code, AddressBytes(code), g, from, to)
           u == SetSectorErase256kbQspiFlashCypress
           s == Function(p, c)
<1>1. /\ from \in Nat /\ to \in Nat /\ from <= to /\ Supported(p) /\ to < Limit(p) /\ g \in Nat \ {0}
  BY CallsAre, SectorIs DEF Does
<1>2. code \in Erases \ {"60"} /\ (AddressBytes(code) = 3 => ~FourBytes(p)) /\ code \in {"DC", "D8"}
  BY Widths DEF Erases
<1>3. IsSeq(t) /\ n \in Nat \ {0} /\ Len(t) = n * 22
  <2> HIDE DEF g, from, to, code
  <2> QED  BY <1>1, EraseLoopLen
<1>4. s = IF p = "S25FS128S" THEN u \o t ELSE t
  <2>1. s = SectorEraseQspi_Flash(p, from, to)  BY DEF Function, Does
  <2>2. t = IF FourBytes(p) THEN EraseLoop("DC", 4, g, from, to) ELSE EraseLoop("D8", 3, g, from, to)
    BY Widths
  <2>3. s = (IF p = "S25FS128S" THEN u ELSE << >>) \o t
    <3>1. SectorEraseQspi_Flash(p, from, to) = (IF p = "S25FS128S" THEN u ELSE << >>)
            \o (IF FourBytes(p) THEN EraseLoop("DC", 4, g, from, to) ELSE EraseLoop("D8", 3, g, from, to))
      BY LoopsAre
    <3> HIDE DEF s, t, u, g, from, to
    <3> QED  BY <2>1, <2>2, <3>1
  <2> HIDE DEF s, t, u
  <2>4. << >> \o t = t  BY <1>3, EmptyPrefix
  <2> QED  BY <2>3, <2>4
<1>5. \A b \in Nat: (p = "S25FS128S" => b = 33) => Asks(p, c, code, g, from, to, b)
  <2> HIDE DEF g, code, s, t, u, n
  <2> SUFFICES ASSUME NEW b \in Nat, p = "S25FS128S" => b = 33,
                      NEW at \in Nat, NEW k \in Nat, NEW i, k > b + 12, at \div g \in (from \div g)..(to \div g)
               PROVE  Meant(p, c, code, at, i, k)
    BY DEF Asks
  <2>1. p = "S25FS128S" => k > 34  OBVIOUS
  <2>2. code \notin {"20", "21", "60", "71"} \cup Programs  BY <1>2 DEF Programs
  <2> QED  BY <2>1, <2>2 DEF Meant, Does, g, from, to
<1>6. CASE p # "S25FS128S"
  <2>1. s = t  BY <1>4, <1>6
  <2>2. Within(t, 0, t)  BY <1>3, Whole
  <2> HIDE DEF g, from, to, code, s
  <2>3. 0 \in Nat /\ Asks(p, c, code, g, from, to, 0) /\ c[1] # "page"  BY <1>5, <1>6 DEF Does
  <2>4. (\A k \in (0 + 1)..(0 + n * 22): Sound(p, c, t, k)) /\ ErasesAll(t, {code}, g, from, to)
    <3> HIDE DEF t, n
    <3>1. Within(EraseLoop(code, AddressBytes(code), g, from, to), 0, t)  BY <2>2 DEF t
    <3>2. EraseSound(p, c, t, 0, n, code, g, from, to)
      BY <3>1, <1>1, <1>2, <1>3, <2>3, EraseLoopSound, Zenon DEF n
    <3> QED  BY <3>2, Zenon DEF EraseSound
  <2>5. 0 + 1 = 1 /\ 0 + n * 22 = Len(t)  BY <1>3
  <2>6. \A k \in 1..Len(t): Sound(p, c, t, k)  BY <2>4, <2>5, Zenon
  <2>7. ErasesAll(t, {"D8", "DC"}, g, from, to)  BY <2>4, <1>2 DEF ErasesAll
  <2>8. Covers(p, c, t)  BY <2>7, <1>6 DEF Covers, Does, g, from, to
  <2> QED  BY <2>1, <2>6, <2>8, <1>3 DEF WellFormed, Fronted, Does, s
<1>7. CASE p = "S25FS128S"
  <2>0. IsSeq(u) /\ Len(u) = 33 /\ (\A q: IsSeq(q) /\ Within(u, 0, q) => UnitChanging(q))
    BY UnitChangingIs
  <2>1. s = u \o t  BY <1>4, <1>7
  <2>2. IsSeq(s) /\ Within(u, 0, s) /\ Within(t, 33, s) /\ Len(s) = 33 + n * 22
    <3> HIDE DEF u, t, s
    <3> QED  BY <2>0, <2>1, <1>3, Behind
  <2> HIDE DEF g, from, to, code, s, u
  <2>3. 33 \in Nat /\ Asks(p, c, code, g, from, to, 33) /\ c[1] # "page"  BY <1>5 DEF Does
  <2>4. /\ \A k \in (33 + 1)..(33 + n * 22): Sound(p, c, s, k)
        /\ s[33 + 1] = Quad /\ Starts(s, 33 + 6, "06") /\ ErasesAll(s, {code}, g, from, to)
    <3> HIDE DEF t, n
    <3>1. Within(EraseLoop(code, AddressBytes(code), g, from, to), 33, s)  BY <2>2 DEF t
    <3>2. IsSeq(s)  BY <2>2
    <3>3. EraseSound(p, c, s, 33, n, code, g, from, to)
      BY <3>1, <3>2, <1>1, <1>2, <2>3, EraseLoopSound, Zenon DEF n
    <3> QED  BY <3>3, Zenon DEF EraseSound
  <2>5. s[34] = Quad /\ Starts(s, 39, "06") /\ Len(s) > 39
    <3>1. 33 + 1 = 34 /\ 33 + 6 = 39  OBVIOUS
    <3> QED  BY <3>1, <2>4, <2>2, <1>3
  <2>6. (\A k \in 1..33: Sound(p, c, s, k)) /\ Chosen(p, c, s, 8) /\ Starts(s, 22, "71")
    <3>1. UnitChanging(s)  BY <2>0, <2>2
    <3> QED  BY <3>1, <2>2, <2>5, <1>7, UnitSound DEF Does
  <2>7. ASSUME NEW k \in 1..Len(s)  PROVE Sound(p, c, s, k)
    <3>1. k \in 1..33 \/ k \in (33 + 1)..(33 + n * 22)  BY <2>2, <1>3
    <3> QED  BY <3>1, <2>4, <2>6
  <2>8. ErasesAll(s, {"D8", "DC"}, g, from, to)  BY <2>4, <1>2 DEF ErasesAll
  <2>9. Covers(p, c, s)  BY <2>6, <2>8 DEF Covers, Does, g, from, to
  <2> QED  BY <2>2, <2>7, <2>9 DEF WellFormed, Fronted, Does, s
<1> QED  BY <1>6, <1>7

\* The script of a parameter sector erase is sound.
LEMMA ParameterFormed ==
  ASSUME NEW p, NEW c \in Calls, Fits(p, c), Does(c, "parameterErase")
  PROVE  WellFormed(p, c, Function(p, c))
<1> DEFINE g == CellsOf[4]
           from == c[2]
           to == c[3]
           n == BlocksOf(g, from, to)
           code == IF FourBytes(p) THEN "21" ELSE "20"
           t == EraseLoop(code, AddressBytes(code), g, from, to)
           s == Function(p, c)
<1>1. /\ from \in Nat /\ to \in Nat /\ from <= to /\ Supported(p) /\ to < Limit(p)
  BY CallsAre DEF Does
<1>0. g \in Nat \ {0}  BY RpcAssumption DEF Sizes
<1>2. code \in Erases \ {"60"} /\ (AddressBytes(code) = 3 => ~FourBytes(p)) /\ code \in {"20", "21"}
  BY Widths DEF Erases
<1>3. IsSeq(t) /\ n \in Nat \ {0} /\ Len(t) = n * 22
  <2> HIDE DEF g, from, to, code
  <2> QED  BY <1>0, <1>1, EraseLoopLen
<1>4. s = t
  <2>1. s = ParameterSectorEraseQspiFlash(p, from, to)  BY DEF Function, Does
  <2>2. t = IF FourBytes(p) THEN EraseLoop("21", 4, g, from, to) ELSE EraseLoop("20", 3, g, from, to)
    BY Widths
  <2>3. ParameterSectorEraseQspiFlash(p, from, to) =
          IF FourBytes(p) THEN EraseLoop("21", 4, g, from, to) ELSE EraseLoop("20", 3, g, from, to)
    <3> HIDE DEF s, t, from, to, code, n
    <3> QED  BY LoopsAre, Zenon
  <2> HIDE DEF s, t, g, from, to
  <2> QED  BY <2>1, <2>2, <2>3
<1>5. Asks(p, c, code, g, from, to, 0)
  <2> HIDE DEF g, code, s, t, n
  <2> SUFFICES ASSUME NEW at \in Nat, NEW k \in Nat, NEW i, at \div g \in (from \div g)..(to \div g)
               PROVE  Meant(p, c, code, at, i, k)
    BY DEF Asks
  <2>2. code \notin {"D8", "DC", "60", "71"} \cup Programs  BY <1>2 DEF Programs
  <2> QED  BY <2>2 DEF Meant, Does, g, from, to
<1>6. Within(t, 0, t)  BY <1>3, Whole
<1> HIDE DEF g, from, to, code, s
<1>7. (\A k \in (0 + 1)..(0 + n * 22): Sound(p, c, t, k)) /\ ErasesAll(t, {code}, g, from, to)
  <2> HIDE DEF t, n
  <2>1. Within(EraseLoop(code, AddressBytes(code), g, from, to), 0, t)  BY <1>6 DEF t
  <2>2. 0 \in Nat /\ c[1] # "page"  BY DEF Does
  <2>3. EraseSound(p, c, t, 0, n, code, g, from, to)
    BY <2>1, <2>2, <1>0, <1>1, <1>2, <1>3, <1>5, EraseLoopSound, Zenon DEF n
  <2> QED  BY <2>3, Zenon DEF EraseSound
<1>8. 0 + 1 = 1 /\ 0 + n * 22 = Len(t)  BY <1>3
<1>9. \A k \in 1..Len(t): Sound(p, c, t, k)  BY <1>7, <1>8, Zenon
<1>10. ErasesAll(t, {"20", "21"}, g, from, to)  BY <1>7, <1>2 DEF ErasesAll
<1>11. Covers(p, c, t)  BY <1>10 DEF Covers, Does, g, from, to
<1> QED  BY <1>4, <1>9, <1>11, <1>3 DEF WellFormed, Fronted, Does, s

\* The script of a bulk erase is sound.
LEMMA BulkFormed ==
  ASSUME NEW p, NEW c \in Calls, Does(c, "bulkErase")
  PROVE  WellFormed(p, c, Function(p, c))
<1> DEFINE e == WREN \o Command("60", 0, 0, 0, "none") \o UntilReady
           s == Function(p, c)
<1>1. s = e  BY DEF Function, Does, BulkEraseQspiFlash, WriteCommandQspiFlash
<1>2. /\ IsSeq(e) /\ Len(e) = 22
      /\ \A t, b: IsSeq(t) /\ Within(e, b, t) => Erasing(t, b, "60", 0, 0)
  BY ErasingIs
<1> HIDE DEF e, s
<1>3. Within(e, 0, e)  BY <1>2, Whole
<1>4. Erasing(e, 0, "60", AddressBytes("60"), 0)  BY <1>2, <1>3, Expected
<1>5. "60" \in Erases /\ Sent(0, AddressBytes("60")) = 0  BY SentZero, Expected DEF Erases
<1>6. c[1] # "page" /\ c[1] # "identify"  BY DEF Does
<1>7. \A i: Meant(p, c, "60", 0, i, 0 + 13)  BY DEF Meant, Programs, Does
<1>8. (\A k \in (0 + 1)..(0 + 22): Sound(p, c, e, k)) /\ Starts(e, 0 + 13, "60")
  <2> 0 \in Nat  OBVIOUS
  <2>1. IsSeq(e)  BY <1>2
  <2> QED  BY <2>1, <1>4, <1>5, <1>6, <1>7, ErasingSound, Zenon
<1>9. \A k \in 1..Len(e): Sound(p, c, e, k)  BY <1>8, <1>2
<1>10. \E k \in 1..Len(e): e[k][1] = "start" /\ Code(e, k) = "60"
  <2>1. 0 + 13 = 13 /\ 13 \in 1..Len(e)  BY <1>2
  <2> QED  BY <2>1, <1>8 DEF Starts
<1>11. Covers(p, c, e)  BY <1>10 DEF Covers, Does
<1> QED  BY <1>1, <1>2, <1>6, <1>9, <1>11 DEF WellFormed, Fronted, s

\* The script of a save is sound.
LEMMA SaveFormed ==
  ASSUME NEW p, NEW c \in Calls, Fits(p, c), Does(c, "save")
  PROVE  WellFormed(p, c, Function(p, c))
<1> DEFINE from == c[2]
           to == c[3]
           n == PagesOf(from, to)
           code == IF FourBytes(p) THEN "12" ELSE "02"
           t == SaveLoop(code, AddressBytes(code), from, to)
           u == Command("06", 0, 0, 0, "none")
           s == u \o t
<1>1. from \in Nat /\ to \in Nat /\ from <= to /\ to < Limit(p)  BY CallsAre DEF Does
<1>2. code \in Programs /\ (AddressBytes(code) = 3 => ~FourBytes(p))  BY Widths DEF Programs
<1>3. IsSeq(t) /\ n \in Nat \ {0} /\ Len(t) = n * 26
  <2> HIDE DEF from, to, code
  <2> QED  BY <1>1, SaveLoopLen
<1>4. Function(p, c) = s
  <2>1. Function(p, c) = SaveDataWithBuffeQspiFlash(p, from, to)  BY DEF Function, Does
  <2>2. t = IF FourBytes(p) THEN SaveLoop("12", 4, from, to) ELSE SaveLoop("02", 3, from, to)
    BY Widths
  <2>3. SaveDataWithBuffeQspiFlash(p, from, to) =
          u \o (IF FourBytes(p) THEN SaveLoop("12", 4, from, to) ELSE SaveLoop("02", 3, from, to))
    BY SavesAre
  <2> HIDE DEF t, u, from, to
  <2> QED  BY <2>1, <2>2, <2>3
<1>5. IsSeq(u) /\ Len(u) = 7  BY CommandIs
<1>6. IsSeq(s) /\ Within(u, 0, s) /\ Within(t, 7, s) /\ Len(s) = 7 + n * 26
  <2> HIDE DEF u, t
  <2> QED  BY <1>3, <1>5, Behind
<1>7. \A k \in 1..7: Sound(p, c, s, k)
  <2> HIDE DEF s
  <2>1. Plainly(s, 0 + 6, "06", 0, 0, 0, "none")  BY <1>6, CommandAt
  <2>2. Plainly(s, 6, "06", 0, 0, 0, "none")
    <3>1. 0 + 6 = 6  OBVIOUS
    <3> QED  BY <2>1, <3>1, Zenon
  <2>3. /\ Framed(s, 6) /\ Starts(s, 6, "06")
        /\ \A j \in (6 - 5)..(6 + 1): j # 6 => Plain(s, j)
    BY <1>6, <2>2, FrameShort, Expected, 6 \in Int
  <2>4. "06" \notin Changes  BY DEF Changes, Erases, Programs
  <2>5. Sound(p, c, s, 6)  BY <2>3, <2>4, SoundStart
  <2> QED  BY <2>3, <2>5 DEF Sound
<1>8. (\A k \in (7 + 1)..(7 + n * 26): Sound(p, c, s, k)) /\ ProgramsAll(s, from, to)
  <2>1. Saves(c, from, to)  BY DEF Saves, Does
  <2> HIDE DEF s, n, from, to, code
  <2>2. Within(SaveLoop(code, AddressBytes(code), from, to), 7, s)  BY <1>6 DEF t
  <2>3. IsSeq(s) /\ 7 \in Nat  BY <1>6
  <2> HIDE DEF t
  <2>4. SaveSound(p, c, s, 7, n, from, to)
    BY <2>1, <2>2, <2>3, <1>1, <1>2, SaveLoopSound, Zenon DEF n
  <2> QED  BY <2>4, Zenon DEF SaveSound
<1>9. ASSUME NEW k \in 1..Len(s)  PROVE Sound(p, c, s, k)
  <2>1. k \in 1..7 \/ k \in (7 + 1)..(7 + n * 26)  BY <1>6, <1>3
  <2> QED  BY <2>1, <1>7, <1>8
<1> HIDE DEF s
<1>10. Covers(p, c, s)  BY <1>8 DEF Covers, Does
<1> QED  BY <1>4, <1>6, <1>9, <1>10 DEF WellFormed, Fronted, Does

\* The script of a page of a stream is sound.
LEMMA PageFormed ==
  ASSUME NEW p, NEW c \in Calls, Fits(p, c), Does(c, "page")
  PROVE  WellFormed(p, c, Function(p, c))
<1> DEFINE at == c[2]
           code == IF FourBytes(p) THEN "12" ELSE "02"
           s == UntilReady \o (WREN \o Buffered(code, AddressBytes(code), at, 0))
<1>1. at \in Nat /\ at < Limit(p) /\ c[3] = at  BY CallsAre DEF Does
<1>2. code \in Programs /\ (AddressBytes(code) = 3 => ~FourBytes(p))  BY Widths DEF Programs
<1>3. Function(p, c) = s
  <2>1. Function(p, c) = UntilReady \o PageProgramWithBuffeQspiFlashNoWait(p, at, 0)
    BY DEF Function, Does
  <2> QED
    BY <2>1, Widths DEF PageProgramWithBuffeQspiFlashNoWait, WriteData4ppWithBufferQspiFlash,
       WriteDataPpWithBufferQspiFlash
<1>4. IsSeq(s) /\ Streaming(s, code, AddressBytes(code), at, 0)
  <2> HIDE DEF code, at
  <2> QED  BY StreamingIs
<1>5. Sent(at, AddressBytes(code)) = at
  <2> HIDE DEF code, at
  <2> QED  BY <1>1, <1>2, Reached
<1>6. Meant(p, c, code, at, 0, 23)
  <2> HIDE DEF code
  <2>1. at \in c[2]..c[3] /\ 0 = at - c[2]  BY <1>1
  <2> QED  BY <1>2, <2>1 DEF Meant, Programs, Does
<1> HIDE DEF s, code, at
<1>7. c[1] = "page" /\ 0 \in Int  BY DEF Does
<1>8. /\ \A k \in 1..26: Sound(p, c, s, k)
      /\ Starts(s, 23, code) /\ Address(s, 23) = at /\ Fronted(c, s)
  BY <1>2, <1>4, <1>5, <1>6, <1>7, StreamingSound
<1>9. Len(s) = 26  BY <1>4 DEF Streaming
<1>10. ProgramsAll(s, c[2], c[3])
  <2> SUFFICES ASSUME NEW a \in c[2]..c[3]
               PROVE  \E k \in 1..Len(s): s[k][1] = "start" /\ Code(s, k) \in Programs /\ Address(s, k) = a
    BY DEF ProgramsAll
  <2>1. a = at /\ 23 \in 1..Len(s)  BY <1>1, <1>9 DEF at
  <2>2. s[23][1] = "start" /\ Code(s, 23) = code  BY <1>8, Zenon DEF Starts
  <2>3. Address(s, 23) = a  BY <1>8, <2>1, Zenon
  <2>4. Code(s, 23) \in Programs  BY <2>2, <1>2
  <2> QED  BY <2>1, <2>2, <2>3, <2>4, Zenon
<1>11. Covers(p, c, s)  BY <1>7, <1>10 DEF Covers
<1> QED  BY <1>3, <1>4, <1>8, <1>9, <1>11 DEF WellFormed

\* The script of an identification is sound.
LEMMA IdentifyFormed ==
  ASSUME NEW p, NEW c, Does(c, "identify")
  PROVE  WellFormed(p, c, Function(p, c))
<1> DEFINE s == ReadQspiFlashID \o << <<"known?">> >>
<1>1. Function(p, c) = s  BY DEF Function, Does
<1>2. IsSeq(s) /\ Identifying(s)  BY IdentifyingIs
<1> HIDE DEF s
<1>3. (\A k \in 1..8: Sound(p, c, s, k)) /\ Fronted(c, s)  BY <1>2, IdentifyingSound DEF Does
<1>4. Len(s) = 8  BY <1>2 DEF Identifying
<1>5. Covers(p, c, s)  BY DEF Covers, Does
<1> QED  BY <1>1, <1>2, <1>3, <1>4, <1>5 DEF WellFormed

\* The script of a read is sound.
LEMMA FastRdFormed ==
  ASSUME NEW p, NEW c, c[1] \in {"read", "sectorRead"},
         NEW from \in Nat, NEW to \in Nat, from <= to, to < Limit(p)
  PROVE  WellFormed(p, c, FastRd(p, from, to))
<1> DEFINE code == IF FourBytes(p) THEN "0C" ELSE "0B"
           s == ExtMode(code, AddressBytes(code)) \o mem_copy(from, to)
<1>1. FastRd(p, from, to) = s
  BY Widths DEF FastRd, InitRPC_QspiFlash4FastReadExtMode, InitRPC_QspiFlashFastReadExtMode
<1>2. IsSeq(s) /\ Reading(s, code, AddressBytes(code), from, to)
  <2> HIDE DEF code
  <2> QED  BY ReadingIs
<1>3. code \in {"0B", "0C"} /\ (code = "0B" => to < Window)  BY DEF Limit
<1>4. to \in Cells /\ (code = "0B" => to \in 0..(Window - 1))
  <2>1. FlashSize \in Nat /\ Window \in Nat /\ Window <= FlashSize  BY RpcAssumption, FlashAssumption
  <2>2. to < FlashSize  BY <2>1 DEF Limit
  <2> QED  BY <1>3, <2>1, <2>2 DEF Cells
<1> HIDE DEF code, s
<1>5. (\A k \in 1..Len(s): Sound(p, c, s, k)) /\ Fronted(c, s)
  BY <1>2, <1>3, <1>4, ReadingSound
<1>6. Covers(p, c, s)  BY DEF Covers
<1> QED  BY <1>1, <1>2, <1>5, <1>6 DEF WellFormed

\* Every call runs a script that is sound.
LEMMA ScriptsFormed ==
  ASSUME NEW p, NEW c \in Calls, Fits(p, c)
  PROVE  WellFormed(p, c, Function(p, c))
<1>1. c[1] \in Operations /\ c[2] \in Nat /\ c[3] \in Nat /\ c[2] <= c[3]  BY CallsAre
<1>2. CASE c[1] = "identify"  BY <1>2, IdentifyFormed DEF Does
<1>3. CASE c[1] = "erase"  BY <1>3, EraseFormed DEF Does
<1>4. CASE c[1] = "parameterErase"  BY <1>4, ParameterFormed DEF Does
<1>5. CASE c[1] = "bulkErase"  BY <1>5, BulkFormed DEF Does
<1>6. CASE c[1] = "save"  BY <1>6, SaveFormed DEF Does
<1>7. CASE c[1] = "page"  BY <1>7, PageFormed DEF Does
<1>8. CASE c[1] = "read"
  <2>1. c[3] < Limit(p)  BY <1>8, CallsAre
  <2>2. WellFormed(p, c, FastRd(p, c[2], c[3]))  BY <2>1, <1>1, <1>8, FastRdFormed
  <2>3. Function(p, c) = FastRd(p, c[2], c[3])  BY <1>8 DEF Function
  <2> QED  BY <2>2, <2>3
<1>9. CASE c[1] = "sectorRead"
  <2> DEFINE g == gQspi_sa_size(p)
             a == c[2]
             top == a - (a % g)
  <2>1. Supported(p) /\ c[3] < Limit(p)  BY <1>9, CallsAre
  <2>2. g \in Nat \ {0} /\ FlashSize % g = 0 /\ Window % g = 0  BY <2>1, SectorIs
  <2>3. Limit(p) \in Nat /\ Limit(p) % g = 0  BY <2>2, RpcAssumption, FlashAssumption DEF Limit
  <2>4. a \in Nat /\ a < Limit(p)  BY <1>1, <2>1, <2>3
  <2> HIDE DEF g, a
  <2>5. 0 % g = 0
    <3>1. 0 \in Nat /\ 0 < g  BY <2>2
    <3> QED  BY <3>1, <2>2, Below
  <2>6. 0 <= top /\ top \in Int
    <3>1. a \in Int /\ 0 \in Int /\ 0 <= a  BY <2>4
    <3> QED  BY <3>1, <2>2, <2>5, BlockWithin, TopOf
  <2>7. top + g <= Limit(p)
    <3>1. a \in Int /\ Limit(p) \in Int  BY <2>3, <2>4
    <3> QED  BY <3>1, <2>2, <2>3, <2>4, BlockWithin
  <2>8. SectorTop(p, a) = top  BY DEF SectorTop, g
  <2> HIDE DEF top
  <2>9. top \in Nat /\ top + g - 1 \in Nat /\ top <= top + g - 1 /\ top + g - 1 < Limit(p)
    BY <2>2, <2>3, <2>6, <2>7
  <2>10. WellFormed(p, c, FastRd(p, top, top + g - 1))  BY <2>9, <1>9, FastRdFormed
  <2>11. Function(p, c) = FastRd(p, top, top + g - 1)
    BY <1>9, <2>8 DEF Function, SectorRdQspiFlash, g, a
  <2> QED  BY <2>10, <2>11
<1> QED  BY <1>1, <1>2, <1>3, <1>4, <1>5, <1>6, <1>7, <1>8, <1>9 DEF Operations

-----------------------------------------------------------------------------
(* The invariant.                                                          *)

Now == Script[part][call]
Transfers(k) == Now[k][1] = "start"
Of(k) == Code(Now, k)

Names ==
  {"phycnt", "cmncr", "drcr", "smcmr", "smadr", "smenr", "smcr", "smwdr0", "wrbuf", "smrdr0",
   "drcmr", "drenr", "busy"}

Types ==
  /\ part \in Parts /\ known \in BOOLEAN
  /\ call \in Calls \cup {NoCall} /\ (call # NoCall => Fits(part, call))
  /\ ip \in 1..(Len(Now) + 1) /\ (Idle => ip = Len(Now) + 1)
  /\ rpc = [n \in Names |-> rpc[n]] /\ rpc.busy \in BOOLEAN /\ rpc.wrbuf \in Int
  /\ chip = [cells |-> chip.cells, wel |-> chip.wel, wip |-> chip.wip, unit |-> chip.unit, lost |-> chip.lost]
  /\ chip.wip \in BOOLEAN /\ chip.cells = [a \in Cells |-> chip.cells[a]]
  /\ DOMAIN cache \subseteq Cells

\* What the operations before a start have set is there until the transfer has ended.
Set(k) ==
  /\ ip \in (k - 4)..(k + 1) /\ Of(k) \notin Programs => rpc.phycnt = Quad[3]
  /\ ip \in (k - 5)..(k + 1) /\ Of(k) \in Programs => rpc.phycnt = QuadBuffer[3]
  /\ ip \in (k - 3)..(k + 1) => rpc.cmncr = "manual"
  /\ ip \in (k - 2)..(k + 1) => rpc.smcmr = Of(k)
  /\ ip \in (k - 1)..(k + 1) => rpc.smadr = Address(Now, k)
  /\ ip \in k..(k + 1) => rpc.smenr = [width |-> AddressBytes(Of(k)), size |-> DataBytes(Of(k))]
  /\ ip = k + 1 => rpc.smcr = Way(Of(k))
FrameSet == \A k \in 1..Len(Now): Transfers(k) => Set(k)

\* A transfer is waited for.
BusyWaits == rpc.busy => ~Idle /\ ip \in 2..Len(Now) /\ Now[ip] = Await /\ Now[ip - 1][1] = "start"

\* An answer given by a busy flash.
Told(k) == ip = k \/ (ip = k - 1 /\ ~rpc.busy)
Asked ==
  /\ \A k \in 2..Len(Now): Now[k] = Poll /\ Told(k) /\ chip.wip => rpc.smrdr0 = "busy"
  /\ call[1] = "identify" /\ Told(8) /\ chip.wip => rpc.smrdr0 = "nothing"
  /\ call[1] = "identify" /\ ip = 9 /\ chip.wip => ~known

\* The flash is busy while a change is waited for, from a page of a stream until the
\* poll of the next one, and with the identification in between.
Pending(k) ==
  /\ Transfers(k) /\ Of(k) \in Changes /\ ip \in (k + 1)..(k + Rest(Of(k)))
  /\ ip = k + 1 => ~rpc.busy
Identifies == call[1] = "identify"
Streams == call[1] = "page"
BetweenPages == ip <= 8 \/ (ip >= 24 /\ (ip = 24 => ~rpc.busy))
Waits == \E k \in 1..Len(Now): Pending(k)
Settles ==
  chip.wip /\ ~Idle => Identifies \/ (Streams /\ BetweenPages) \/ (~Identifies /\ ~Streams /\ Waits)
BusyIsUnknown == chip.wip /\ Idle => ~known \/ call[1] = "page"

\* External address mode.
ReadSet ==
  (\E k \in 1..Len(Now): Now[k][1] = "load") =>
    /\ ip > 1 => rpc.phycnt = Quad[3]
    /\ ip > 2 => rpc.cmncr = "external"
    /\ ip > 4 => rpc.drcmr = Now[4][3]
    /\ ip > 5 => rpc.drenr = Now[5][3]

\* The cache is clear for a page program.
CacheClear ==
  \A k \in 1..Len(Now): Transfers(k) /\ Of(k) \in Programs /\ ip \in (k - 6)..(k + 1) => cache = << >>

Inv ==
  /\ Types /\ FrameSet /\ BusyWaits /\ Asked /\ Settles /\ BusyIsUnknown /\ ReadSet /\ CacheClear
  /\ CacheHidesNoProgram

-----------------------------------------------------------------------------
(* What the invariant says of the script.                                  *)

\* The script of the call in progress is sound.
LEMMA Here ==
  ASSUME Types
  PROVE  WellFormed(part, call, Now) /\ Len(Now) \in Nat /\ (call = NoCall => Len(Now) = 0)
<1>1. part \in Parts /\ call \in Calls \cup {NoCall} /\ (call # NoCall => Fits(part, call))
  BY DEF Types
<1>2. Now = Function(part, call)
  <2>1. call \in {d \in Calls: Fits(part, d)} \cup {NoCall}  BY <1>1
  <2> QED  BY <1>1, <2>1 DEF Now, Script
<1>3. CASE call = NoCall
  <2>1. NoCall[1] = "none"  BY DEF NoCall
  <2>2. Now = << >>  BY <1>2, <1>3, <2>1 DEF Function
  <2>3. IsSeq(<< >>) /\ Len(<< >>) = 0
    <3>1. << >> \in Seq({})  OBVIOUS
    <3> QED  BY <3>1 DEF IsSeq
  <2>4. \A k \in 1..Len(<< >>): Sound(part, call, << >>, k)  BY <2>3
  <2>5. Fronted(call, << >>) /\ Covers(part, call, << >>)  BY <1>3, <2>1 DEF Fronted, Covers
  <2> QED  BY <2>2, <2>3, <2>4, <2>5 DEF WellFormed
<1>4. CASE call # NoCall
  <2>1. call \in Calls /\ Fits(part, call)  BY <1>1, <1>4
  <2>2. WellFormed(part, call, Now)  BY <1>2, <2>1, ScriptsFormed
  <2> QED  BY <1>4, <2>2, Lengths DEF WellFormed
<1> QED  BY <1>3, <1>4

\* The first component says which kind of operation it is.
LEMMA Kinds ==
  ASSUME NEW p, NEW c, NEW s, NEW k, Sound(p, c, s, k)
  PROVE  /\ s[k][1] = "start" => Started(p, c, s, k)
         /\ s[k][1] = "write" => s[k][2] \in Written /\ (s[k][2] = "wrbuf" => s[k][3] \in Int)
         /\ s[k][1] = "ready?" => Polled(s, k)
         /\ s[k][1] = "load" => Loaded(c, s, k)
         /\ s[k][1] = "known?" => Known(c, s, k)
         /\ s[k][1] = "unit?" => Chosen(p, c, s, k)
         /\ s[k][1] = "WaitRpcTxEnd" \/ s[k][1] = "write" => Plain(s, k)
BY DEF Sound, Plain, Started, Polled, Poll, Loaded, Known, Chosen

\* A transfer has its frame.
FrameOf(s, k) ==
  /\ k \in 6..(Len(s) - 1) /\ s[k + 1] = Await /\ s[k] = <<"start", Way(Code(s, k))>>
  /\ s[k - 1] = <<"write", "smenr", [width |-> AddressBytes(Code(s, k)), size |-> DataBytes(Code(s, k))]>>
  /\ s[k - 2] = <<"write", "smadr", Address(s, k)>> /\ s[k - 3] = <<"write", "smcmr", Code(s, k)>>
  /\ s[k - 4] = <<"write", "cmncr", "manual">>
  /\ Code(s, k) \notin Programs => s[k - 5] = Quad
  /\ Code(s, k) \in Programs => /\ s[k - 7] = Clear /\ s[k - 6] = QuadBuffer /\ k > 7
                                /\ s[k - 5] = <<"write", "wrbuf", Index(s, k)>>

\* A framed transfer has the frame.
LEMMA Frames == ASSUME NEW s, NEW k, Framed(s, k), s[k][1] = "start"  PROVE FrameOf(s, k)
<1>1. k \in 5..(Len(s) - 1)  BY DEF Framed, Commands
<1>2. k > 5  BY <1>1 DEF Framed
<1> QED  BY <1>1, <1>2 DEF Framed, Commands, FrameOf

\* No jump leads into a frame.
LEMMA Landing ==
  ASSUME NEW s, NEW k, Framed(s, k), s[k][1] = "start", NEW x, s[x] = Quad
  PROVE  x \notin (k - 4)..(k + 1) /\ (Code(s, k) \in Programs => x \notin (k - 6)..(k + 1))
<1>0. FrameOf(s, k)  BY Frames
<1>1. k \in Int  BY <1>0 DEF FrameOf
<1>2. x \notin {k - 4, k - 3, k - 2, k - 1, k, k + 1}  BY <1>0 DEF FrameOf, Quad, Await
<1>3. Code(s, k) \in Programs => x \notin {k - 6, k - 5}
  <2>1. [memory |-> "QSPI", buffered |-> FALSE] # [memory |-> "QSPI", buffered |-> TRUE]  OBVIOUS
  <2> QED  BY <2>1, <1>0 DEF FrameOf, Quad, QuadBuffer
<1> QED  BY <1>1, <1>2, <1>3

\* A transfer of the script is started as the invariant of scripts says.
LEMMA StartedAt ==
  ASSUME Types, NEW k \in 1..Len(Now), Transfers(k)
  PROVE  /\ Started(part, call, Now, k) /\ FrameOf(Now, k) /\ Framed(Now, k)
         /\ Code(Now, k) \in Codes /\ Sent(Address(Now, k), AddressBytes(Code(Now, k))) = Address(Now, k)
<1>1. Sound(part, call, Now, k) /\ Now[k][1] = "start"  BY Here DEF WellFormed, Transfers
<1>2. Started(part, call, Now, k)  BY <1>1, Kinds
<1>3. Framed(Now, k)  BY <1>2 DEF Started
<1> QED  BY <1>1, <1>2, <1>3, Frames DEF Framed

\* The initial states.
LEMMA InitInv == Init => Inv
<1> SUFFICES ASSUME Init  PROVE Inv  OBVIOUS
<1>1. part \in Parts /\ rpc = Registers /\ cache = << >> /\ known = FALSE /\ call = NoCall /\ ip = 1
      /\ goal = Contract!NoGoal
  BY DEF Init
<1>2. PICK unit: chip = Chip([a \in Cells |-> Was(a)], unit)  BY DEF Init
<1>3. Len(Now) = 0
  <2>1. Now = << >>  BY <1>1 DEF Now, Script, Function, NoCall
  <2> QED  BY <2>1
<1>4. Types
  <2>1. rpc = [n \in Names |-> rpc[n]] /\ rpc.busy = FALSE /\ rpc.wrbuf = 0
    BY <1>1 DEF Registers, Names
  <2>2. /\ chip = [cells |-> chip.cells, wel |-> chip.wel, wip |-> chip.wip, unit |-> chip.unit, lost |-> chip.lost]
        /\ chip.wip = FALSE /\ chip.cells = [a \in Cells |-> chip.cells[a]]
    BY <1>2 DEF Chip
  <2>3. ip = Len(Now) + 1  BY <1>1, <1>3
  <2>4. DOMAIN cache \subseteq Cells  BY <1>1
  <2>5. ip \in 1..(Len(Now) + 1)  BY <1>1, <1>3
  <2>6. known \in BOOLEAN /\ rpc.busy \in BOOLEAN /\ chip.wip \in BOOLEAN /\ rpc.wrbuf \in Int
    <3>1. known = FALSE /\ rpc.busy = FALSE /\ chip.wip = FALSE /\ rpc.wrbuf = 0  BY <1>1, <2>1, <2>2
    <3>2. 0 \in Int /\ FALSE \in BOOLEAN  OBVIOUS
    <3> QED  BY <3>1, <3>2, Zenon
  <2>7. call \in Calls \cup {NoCall} /\ (call # NoCall => Fits(part, call))  BY <1>1
  <2> QED  BY <1>1, <2>1, <2>2, <2>3, <2>4, <2>5, <2>6, <2>7, Zenon DEF Types
<1>5. chip.wip = FALSE /\ rpc.busy = FALSE  BY <1>1, <1>2 DEF Chip, Registers
<1>6. FrameSet /\ CacheClear /\ ReadSet  BY <1>3 DEF FrameSet, CacheClear, ReadSet
<1>7. BusyWaits /\ Asked /\ Settles /\ BusyIsUnknown  BY <1>5 DEF BusyWaits, Asked, Settles, BusyIsUnknown
<1>8. CacheHidesNoProgram  BY <1>1 DEF CacheHidesNoProgram
<1> QED  BY <1>4, <1>6, <1>7, <1>8 DEF Inv

-----------------------------------------------------------------------------
(* One step.                                                               *)

\* A write.
LEMMA WriteSets ==
  ASSUME Inv, Write
  PROVE  FrameSet' /\ Now' = Now /\ Now[ip][2] \in Written /\ ip \in 1..Len(Now) /\ ~rpc.busy
         /\ rpc' = [n \in Names |-> rpc'[n]] /\ rpc'.busy = FALSE /\ rpc'.smrdr0 = rpc.smrdr0
         /\ rpc'.wrbuf \in Int
<1>1. Types /\ FrameSet /\ BusyWaits  BY DEF Inv
<1>2. /\ ~Idle /\ ~Ended /\ Now[ip][1] = "write" /\ ip' = ip + 1 /\ UNCHANGED <<part, call>>
      /\ rpc' = [rpc EXCEPT ![Now[ip][2]] = Now[ip][3]]
  BY DEF Write, At, Op, Step, Now
<1>3. ip \in 1..Len(Now) /\ Len(Now) \in Nat  BY <1>1, <1>2, Here DEF Types, Ended, Now
<1>4. Now' = Now  BY <1>2 DEF Now
<1>5. Sound(part, call, Now, ip)  BY <1>1, <1>3, Here DEF WellFormed
<1>6. Now[ip][2] \in Written /\ (Now[ip][2] = "wrbuf" => Now[ip][3] \in Int)  BY <1>2, <1>5, Kinds
<1>7. ~rpc.busy
  <2>1. Now[ip] # Await  BY <1>2 DEF Await
  <2> QED  BY <1>1, <2>1 DEF BusyWaits
<1>8. /\ rpc = [n \in Names |-> rpc[n]] /\ rpc.busy \in BOOLEAN /\ rpc.wrbuf \in Int  BY <1>1 DEF Types
<1>9. \A n \in Names: rpc'[n] = IF n = Now[ip][2] THEN Now[ip][3] ELSE rpc[n]
  BY <1>2, <1>6, <1>8 DEF Written, Names
<1>10. rpc' = [n \in Names |-> rpc'[n]]  BY <1>2, <1>8
<1>11. rpc'.busy = FALSE /\ rpc'.smrdr0 = rpc.smrdr0  BY <1>6, <1>7, <1>8, <1>9 DEF Written, Names
<1>12. rpc'.wrbuf \in Int  BY <1>6, <1>8, <1>9 DEF Written, Names
<1>15. /\ rpc'.phycnt = IF Now[ip][2] = "phycnt" THEN Now[ip][3] ELSE rpc.phycnt
       /\ rpc'.cmncr = IF Now[ip][2] = "cmncr" THEN Now[ip][3] ELSE rpc.cmncr
       /\ rpc'.smcmr = IF Now[ip][2] = "smcmr" THEN Now[ip][3] ELSE rpc.smcmr
       /\ rpc'.smadr = IF Now[ip][2] = "smadr" THEN Now[ip][3] ELSE rpc.smadr
       /\ rpc'.smenr = IF Now[ip][2] = "smenr" THEN Now[ip][3] ELSE rpc.smenr
  BY <1>9 DEF Names
<1>13. ASSUME NEW k \in 1..Len(Now), Transfers(k)  PROVE Set(k)'
  <2>1. FrameOf(Now, k) /\ k \in Int  BY <1>1, <1>13, StartedAt
  <2>2. Set(k) /\ k \in 6..(Len(Now) - 1)  BY <1>1, <1>13, <2>1 DEF FrameSet, FrameOf
  <2>3. Of(k)' = Of(k) /\ Address(Now, k)' = Address(Now, k)  BY <1>4 DEF Of, Code, Address
  <2>4. ip # k  BY <1>2, <1>13 DEF Transfers
  <2> DEFINE o == Now[ip]
  <2>5. CASE ip = k - 1
    <3>1. o[2] = "smenr" /\ o[3] = [width |-> AddressBytes(Of(k)), size |-> DataBytes(Of(k))]
      BY <2>1, <2>5, SMTT(20) DEF FrameOf, Of
    <3> QED  BY <3>1, <2>2, <2>3, <2>5, <1>2, <1>15, SMTT(20) DEF Set
  <2>6. CASE ip = k - 2
    <3>1. o[2] = "smadr" /\ o[3] = Address(Now, k)  BY <2>1, <2>6, SMTT(20) DEF FrameOf
    <3> QED  BY <3>1, <2>2, <2>3, <2>6, <1>2, <1>15, SMTT(20) DEF Set
  <2>7. CASE ip = k - 3
    <3>1. o[2] = "smcmr" /\ o[3] = Of(k)  BY <2>1, <2>7, SMTT(20) DEF FrameOf, Of
    <3> QED  BY <3>1, <2>2, <2>3, <2>7, <1>2, <1>15, SMTT(20) DEF Set
  <2>8. CASE ip = k - 4
    <3>1. o[2] = "cmncr" /\ o[3] = "manual"  BY <2>1, <2>8 DEF FrameOf
    <3> QED  BY <3>1, <2>2, <2>3, <2>8, <1>2, <1>15, SMTT(20) DEF Set
  <2>9. CASE ip = k - 5
    <3>1. CASE Of(k) \in Programs
      <4>1. o[2] = "wrbuf"  BY <2>1, <2>9, <3>1, SMTT(20) DEF FrameOf, Of
      <4> QED  BY <4>1, <3>1, <2>2, <2>3, <2>9, <1>2, <1>15, SMTT(20) DEF Set
    <3>2. CASE Of(k) \notin Programs
      <4>0. Now[k - 5] = Quad  BY <2>1, <3>2 DEF FrameOf, Of
      <4>1. o[2] = "phycnt" /\ o[3] = Quad[3]  BY <4>0, <2>9 DEF Quad
      <4> QED  BY <4>1, <3>2, <2>2, <2>3, <2>9, <1>2, <1>15, SMTT(20) DEF Set
    <3> QED  BY <3>1, <3>2
  <2>10. CASE ip = k - 6
    <3>1. CASE Of(k) \in Programs
      <4>0. Now[k - 6] = QuadBuffer  BY <2>1, <3>1 DEF FrameOf, Of
      <4>1. o[2] = "phycnt" /\ o[3] = QuadBuffer[3]  BY <4>0, <2>10 DEF QuadBuffer
      <4> QED  BY <4>1, <3>1, <2>2, <2>3, <2>10, <1>2, <1>15, SMTT(20) DEF Set
    <3>2. CASE Of(k) \notin Programs
      BY <3>2, <2>2, <2>3, <2>10, <1>2 DEF Set
    <3> QED  BY <3>1, <3>2
  <2>11. CASE ip \notin (k - 6)..k
    <3>1. ip + 1 \notin (k - 5)..(k + 1)  BY <2>11, <2>2, <1>3
    <3> QED  BY <3>1, <2>2, <1>2 DEF Set
  <2> QED  BY <2>2, <2>4, <2>5, <2>6, <2>7, <2>8, <2>9, <2>10, <2>11, <1>3
<1>14. FrameSet'
  <2>1. \A k: Transfers(k)' <=> Transfers(k)  BY <1>4 DEF Transfers
  <2> QED  BY <1>4, <1>13, <2>1 DEF FrameSet
<1> QED  BY <1>3, <1>4, <1>6, <1>7, <1>10, <1>11, <1>12, <1>14

\* What follows a change up to the poll.
LEMMA After ==
  ASSUME Types, call[1] # "page", NEW k \in 1..Len(Now), Pending(k)
  PROVE  LET r == k + Rest(Of(k))
         IN  /\ r \in (k + 9)..Len(Now) /\ Now[r] = Poll /\ Now[r - 2][1] = "start" /\ Of(r - 2) = "05"
             /\ \A j \in (k + 1)..(r - 1): j # r - 2 => Plain(Now, j)
<1> DEFINE r == k + Rest(Of(k))
<1>1. Transfers(k) /\ Of(k) \in Changes  BY DEF Pending
<1>2. Started(part, call, Now, k)  BY <1>1, StartedAt
<1>3. Awaited(call, Now, k)  BY <1>1, <1>2 DEF Started, Of
<1>4. r >= k + 9 /\ r \in Int  BY DEF Rest
<1>5. r <= Len(Now) /\ Now[r] = Poll /\ Starts(Now, r - 2, "05")
      /\ \A j \in (k + 1)..(r - 1): j # r - 2 => Plain(Now, j)
  BY <1>3 DEF Awaited, Of
<1>6. Len(Now) \in Nat  BY Here
<1> QED  BY <1>4, <1>5, <1>6 DEF Starts, Of

\* It stays pending when the driver goes on to the next operation, but for the poll.
LEMMA PendingOn ==
  ASSUME Types, call[1] # "page", NEW k \in 1..Len(Now), Pending(k), ip' = ip + 1, Now' = Now,
         Now[ip] # Poll, ip \in 1..Len(Now)
  PROVE  Pending(k)'
<1> DEFINE r == k + Rest(Of(k))
<1>1. r \in (k + 9)..Len(Now) /\ Now[r] = Poll  BY After
<1>2. Transfers(k) /\ Of(k) \in Changes /\ ip \in (k + 1)..r  BY DEF Pending
<1>3. Len(Now) \in Nat  BY Here
<1>4. ip # r  BY <1>1
<1>5. ip' \in (k + 1)..r /\ ip' # k + 1  BY <1>1, <1>2, <1>3, <1>4
<1>6. Transfers(k)' /\ Of(k)' = Of(k)  BY <1>2 DEF Transfers, Of, Code
<1> QED  BY <1>2, <1>5, <1>6 DEF Pending, Rest

\* What the flash is busy with stays when the driver goes on, but for the poll.
LEMMA OnSettles ==
  ASSUME Types, Settles, ip \in 1..Len(Now), ip' = ip + 1, Now[ip] # Poll, Now' = Now,
         UNCHANGED <<call, chip, goal>>
  PROVE  Settles'
<1>1. WellFormed(part, call, Now)  BY Here
<1>2. ASSUME Streams, BetweenPages  PROVE BetweenPages'
  <2>1. ip \in Int  OBVIOUS
  <2>2. CASE ip <= 8
    <3>1. Now[8] = Poll  BY <1>1, <1>2 DEF WellFormed, Fronted, Streams
    <3>2. ip # 8  BY <3>1
    <3>3. ip' <= 8  BY <3>2, <2>1, <2>2
    <3> QED  BY <3>3 DEF BetweenPages
  <2>3. CASE ip >= 24
    <3>1. ip' >= 24 /\ ip' # 24  BY <2>1, <2>3
    <3> QED  BY <3>1, Zenon DEF BetweenPages
  <2> QED  BY <1>2, <2>2, <2>3, Zenon DEF BetweenPages
<1>3. ASSUME ~Streams, Waits  PROVE Waits'
  <2>1. PICK k \in 1..Len(Now): Pending(k)  BY <1>3 DEF Waits
  <2>2. call[1] # "page"  BY <1>3 DEF Streams
  <2>3. Pending(k)'  BY <2>1, <2>2, PendingOn
  <2> QED  BY <2>3, Zenon DEF Waits
<1>4. (Streams' <=> Streams) /\ (Identifies' <=> Identifies) /\ (Idle' <=> Idle)
  BY Zenon DEF Streams, Identifies, Idle
<1> QED  BY <1>2, <1>3, <1>4, Zenon DEF Settles

\* An operation other than a write keeps the frames; a start ends one.
LEMMA OnFrames ==
  ASSUME Types, FrameSet, ip \in 1..Len(Now), ip' = ip + 1, Now' = Now, Now[ip][1] # "write",
         \A n \in {"phycnt", "cmncr", "smcmr", "smadr", "smenr"}: rpc'[n] = rpc[n],
         Now[ip][1] = "start" => rpc'.smcr = Now[ip][2]
  PROVE  FrameSet'
<1>1. ASSUME NEW k \in 1..Len(Now), Transfers(k)  PROVE Set(k)'
  <2>1. FrameOf(Now, k) /\ k \in Int  BY <1>1, StartedAt
  <2>2. Set(k)  BY <1>1 DEF FrameSet
  <2>3. Of(k)' = Of(k) /\ Address(Now, k)' = Address(Now, k)  BY DEF Of, Code, Address
  <2>4. ip \notin {k - 4, k - 3, k - 2, k - 1}  BY <2>1, SMTT(20) DEF FrameOf
  <2>5. ip # k - 5 \/ Of(k) \in Programs  BY <2>1 DEF FrameOf, Of, Quad
  <2>6. Of(k) \in Programs => ip # k - 5 /\ ip # k - 6  BY <2>1 DEF FrameOf, Of, QuadBuffer
  <2>7. ip = k => rpc'.smcr = Way(Of(k))  BY <2>1, SMTT(20) DEF FrameOf, Of
  <2>8. ip \in Int  OBVIOUS
  <2> QED  BY <2>1, <2>2, <2>3, <2>4, <2>5, <2>6, <2>7, <2>8 DEF Set
<1>2. \A k: Transfers(k)' <=> Transfers(k)  BY DEF Transfers
<1> QED  BY <1>1, <1>2 DEF FrameSet

\* The cache stays clear through a frame.
LEMMA OnClear ==
  ASSUME Types, CacheClear, ip \in 1..Len(Now), ip' = ip + 1, Now' = Now, Now[ip][1] # "write",
         cache' = cache \/ Now[ip][1] = "load"
  PROVE  CacheClear'
<1> SUFFICES ASSUME NEW k \in 1..Len(Now), Transfers(k), Of(k) \in Programs, ip' \in (k - 6)..(k + 1)
             PROVE  cache' = << >>
  BY DEF CacheClear, Transfers, Of, Code
<1>1. FrameOf(Now, k) /\ k \in Int /\ ip \in Int  BY StartedAt
<1>2. /\ ip # k - 7 /\ ip # k - 6 /\ ip # k - 5 /\ ip # k - 4 /\ ip # k - 3
      /\ ip # k - 2 /\ ip # k - 1
  BY <1>1, SMTT(20) DEF FrameOf, Of, Clear, QuadBuffer
<1>3. ip = k
  <2>1. k \in Int /\ ip \in Int /\ ip + 1 \in (k - 6)..(k + 1)  BY <1>1
  <2>2. ip >= k - 7 /\ ip <= k  BY <2>1
  <2> HIDE DEF FrameOf
  <2> QED  BY <2>1, <2>2, <1>2
<1>4. Now[ip][1] = "start"  BY <1>3 DEF Transfers
<1>5. ip \in (k - 6)..(k + 1)  BY <1>1, <1>3
<1> QED  BY <1>4, <1>5 DEF CacheClear

\* The external address mode stays set while the driver loads.
LEMMA OnRead ==
  ASSUME Types, ReadSet, ip \in 1..Len(Now), ip' = ip + 1, Now' = Now, Now[ip][1] # "write",
         \A n \in {"phycnt", "cmncr", "drcmr", "drenr"}: rpc'[n] = rpc[n]
  PROVE  ReadSet'
<1> SUFFICES ASSUME NEW k \in 1..Len(Now), Now[k][1] = "load"
             PROVE  /\ ip' > 1 => rpc'.phycnt = Quad[3]
                    /\ ip' > 2 => rpc'.cmncr = "external"
                    /\ ip' > 4 => rpc'.drcmr = Now[4][3]
                    /\ ip' > 5 => rpc'.drenr = Now[5][3]
  BY DEF ReadSet
<1>1. Loaded(call, Now, k)
  <2>1. Sound(part, call, Now, k)  BY Here DEF WellFormed
  <2> QED  BY <2>1, Kinds
<1>2. ip \notin {1, 2, 3, 4, 5}  BY <1>1 DEF Loaded, Quad
<1>3. ip > 5 /\ ip' > 5  BY <1>2
<1>4. /\ rpc.phycnt = Quad[3] /\ rpc.cmncr = "external" /\ rpc.drcmr = Now[4][3] /\ rpc.drenr = Now[5][3]
  BY <1>3 DEF ReadSet
<1> QED  BY <1>4

\* The positions before a poll, and those of an identification.
LEMMA PollAt ==
  ASSUME Types, NEW k \in 1..Len(Now), Now[k] = Poll
  PROVE  /\ k > 7 /\ Now[k - 1] = Await /\ Now[k - 2][1] = "start" /\ Of(k - 2) = "05"
         /\ k - 2 \in 1..Len(Now) /\ Now[k - 7] = Quad
<1>0. WellFormed(part, call, Now) /\ Len(Now) \in Nat  BY Here
<1>1. Polled(Now, k)
  <2>1. Sound(part, call, Now, k)  BY <1>0 DEF WellFormed
  <2> QED  BY <2>1, Kinds DEF Poll
<1>2. k > 7 /\ Starts(Now, k - 2, "05") /\ Framed(Now, k - 2)  BY <1>1 DEF Polled
<1>3. Now[k - 2][1] = "start" /\ Of(k - 2) = "05"  BY <1>2 DEF Starts, Of
<1>4. FrameOf(Now, k - 2)  BY <1>2, <1>3, Frames
<1>5. (k - 2) + 1 = k - 1 /\ (k - 2) - 5 = k - 7 /\ k - 2 \in 1..Len(Now)  BY <1>0, <1>2
<1>6. "05" \notin Programs  BY DEF Programs
<1> QED  BY <1>2, <1>3, <1>4, <1>5, <1>6 DEF FrameOf, Of

\* The operations of an identification.
LEMMA IdentifyAt ==
  ASSUME Types, call[1] = "identify"
  PROVE  /\ Len(Now) = 8 /\ Now[8] = <<"known?">> /\ Now[7] = Await /\ Now[6][1] = "start" /\ Of(6) = "9F"
         /\ \A j \in 1..7: j # 6 => Plain(Now, j)
<1>1. /\ Len(Now) = 8 /\ Now[8] = <<"known?">> /\ Starts(Now, 6, "9F")
      /\ \A j \in 1..7: j # 6 => Plain(Now, j)
  BY Here DEF WellFormed, Fronted
<1>2. 6 \in 1..Len(Now) /\ Transfers(6)  BY <1>1 DEF Starts, Transfers
<1>3. FrameOf(Now, 6)  BY <1>2, StartedAt
<1> QED  BY <1>1, <1>3 DEF FrameOf, Starts, Of

\* A write keeps the invariant.
LEMMA WriteStep == ASSUME Inv, Write  PROVE Inv'
<1>1. Types /\ Asked /\ Settles /\ BusyIsUnknown /\ ReadSet /\ CacheClear /\ CacheHidesNoProgram
  BY DEF Inv
<1>2. /\ ~Idle /\ Now[ip][1] = "write" /\ ip' = ip + 1
      /\ UNCHANGED <<part, chip, known, call, goal, calls>>
      /\ cache' = IF Now[ip][2] = "drcr" /\ Now[ip][3] = "clear" THEN << >> ELSE cache
      /\ rpc' = [rpc EXCEPT ![Now[ip][2]] = Now[ip][3]]
  BY DEF Write, At, Op, Step, Now
<1>3. FrameSet' /\ Now' = Now /\ Now[ip][2] \in Written /\ ip \in 1..Len(Now) /\ ~rpc.busy
      /\ rpc' = [n \in Names |-> rpc'[n]] /\ rpc'.busy = FALSE /\ rpc'.smrdr0 = rpc.smrdr0
      /\ rpc'.wrbuf \in Int
  BY WriteSets
<1>4. WellFormed(part, call, Now) /\ Len(Now) \in Nat  BY <1>1, Here
<1>5. Sound(part, call, Now, ip)  BY <1>3, <1>4 DEF WellFormed
<1>6. Plain(Now, ip)  BY <1>2, <1>5, Kinds
<1>7. ~Idle'  BY <1>2 DEF Idle
<1>8. Types'
  <2>1. ip' \in 1..(Len(Now') + 1)  BY <1>2, <1>3, <1>4
  <2>2. rpc'.busy \in BOOLEAN  BY <1>3, Zenon
  <2>3. DOMAIN cache' \subseteq Cells  BY <1>1, <1>2 DEF Types
  <2>4. Fits(part, call)' <=> Fits(part, call)  BY <1>2 DEF Fits
  <2> QED  BY <1>1, <1>2, <1>3, <1>7, <2>1, <2>2, <2>3, <2>4, Zenon DEF Types
<1>9. BusyWaits'  BY <1>3 DEF BusyWaits
<1>10. Now[ip] # Poll /\ Now[ip][1] # "known?" /\ Now[ip][1] # "start" /\ Now[ip] # Await
  BY <1>2 DEF Poll, Await
<1>11. Asked'
  <2>1. ASSUME NEW k \in 2..Len(Now), Now[k] = Poll, ip + 1 = k \/ ip + 1 = k - 1  PROVE FALSE
    <3>1. k \in 1..Len(Now)  BY <1>4
    <3>2. Now[k - 1] = Await /\ Now[k - 2][1] = "start"  BY <3>1, <2>1, <1>1, PollAt
    <3>3. ip = k - 1 \/ ip = k - 2  BY <2>1, <1>3, <1>4
    <3> QED  BY <3>2, <3>3, <1>10
  <2>2. call[1] = "identify" => ip + 1 \notin {7, 8, 9}
    <3>1. CASE call[1] = "identify"
      <4>1. ip \notin {6, 7, 8}  BY <3>1, <1>1, <1>10, IdentifyAt
      <4> QED  BY <4>1, <1>3
    <3> QED  BY <3>1
  <2> QED  BY <2>1, <2>2, <1>2, <1>3 DEF Asked, Told
<1>12. Settles'  BY <1>1, <1>2, <1>3, <1>10, OnSettles
<1>13. BusyIsUnknown'  BY <1>7 DEF BusyIsUnknown
<1>14. ReadSet'
  <2> SUFFICES ASSUME NEW k \in 1..Len(Now), Now[k][1] = "load"
               PROVE  /\ ip' > 1 => rpc'.phycnt = Quad[3]
                      /\ ip' > 2 => rpc'.cmncr = "external"
                      /\ ip' > 4 => rpc'.drcmr = Now[4][3]
                      /\ ip' > 5 => rpc'.drenr = Now[5][3]
    BY <1>3 DEF ReadSet
  <2>1. Sound(part, call, Now, k)  BY <1>4 DEF WellFormed
  <2>2. Loaded(call, Now, k)  BY <2>1, Kinds
  <2>3. ip \in 1..5
    <3>1. \A j \in 6..Len(Now): Now[j][1] = "load"  BY <2>2 DEF Loaded
    <3> QED  BY <3>1, <1>2, <1>3, <1>4
  <2>4. PICK code: /\ Now[1] = Quad /\ Now[2] = <<"write", "cmncr", "external">>
                   /\ Now[3] = <<"write", "drcr", "burst">> /\ Now[4] = <<"write", "drcmr", code>>
                   /\ Now[5] = <<"write", "drenr", AddressBytes(code)>>
    BY <2>2 DEF Loaded
  <2>5. \A n \in Names: rpc'[n] = IF n = Now[ip][2] THEN Now[ip][3] ELSE rpc[n]
    <3>1. rpc = [n \in Names |-> rpc[n]]  BY <1>1 DEF Types
    <3> QED  BY <3>1, <1>2, <1>3 DEF Written, Names
  <2>6. /\ ip > 1 => rpc.phycnt = Quad[3]
        /\ ip > 2 => rpc.cmncr = "external"
        /\ ip > 4 => rpc.drcmr = Now[4][3]
    BY <1>1 DEF ReadSet
  <2>7. CASE ip = 1  BY <2>4, <2>5, <2>6, <2>7, <1>2 DEF Names, Quad
  <2>8. CASE ip = 2  BY <2>4, <2>5, <2>6, <2>8, <1>2 DEF Names
  <2>9. CASE ip = 3  BY <2>4, <2>5, <2>6, <2>9, <1>2 DEF Names
  <2>10. CASE ip = 4  BY <2>4, <2>5, <2>6, <2>10, <1>2 DEF Names
  <2>11. CASE ip = 5  BY <2>4, <2>5, <2>6, <2>11, <1>2 DEF Names
  <2> QED  BY <2>3, <2>7, <2>8, <2>9, <2>10, <2>11
<1>15. CacheClear'
  <2> SUFFICES ASSUME NEW k \in 1..Len(Now), Transfers(k), Of(k) \in Programs, ip' \in (k - 6)..(k + 1)
               PROVE  cache' = << >>
    BY <1>3 DEF CacheClear, Transfers, Of, Code
  <2>1. FrameOf(Now, k) /\ k \in Int  BY <1>1, StartedAt
  <2>2. CASE ip = k - 7
    <3>1. Now[ip] = Clear  BY <2>1, <2>2 DEF FrameOf, Of
    <3> QED  BY <3>1, <1>2 DEF Clear
  <2>3. CASE ip # k - 7
    <3>1. ip \in (k - 6)..(k + 1)  BY <2>1, <2>3, <1>2, <1>3
    <3>2. cache = << >>  BY <3>1, <1>1 DEF CacheClear
    <3> QED  BY <3>2, <1>2
  <2> QED  BY <2>2, <2>3
<1>16. CacheHidesNoProgram'  BY <1>1, <1>2 DEF CacheHidesNoProgram
<1> QED  BY <1>3, <1>8, <1>9, <1>11, <1>12, <1>13, <1>14, <1>15, <1>16 DEF Inv

\* The operation in progress is one of the script.
LEMMA Current ==
  ASSUME Types, NEW kind, At(kind)
  PROVE  /\ ~Idle /\ ip \in 1..Len(Now) /\ Now[ip][1] = kind /\ Sound(part, call, Now, ip)
         /\ Now[ip] = Op
<1>1. ~Idle /\ ~Ended /\ Now[ip][1] = kind /\ Now[ip] = Op  BY DEF At, Op, Now
<1>2. ip \in 1..Len(Now)
  <2>1. ip \in 1..(Len(Now) + 1) /\ ~(ip > Len(Now)) /\ Len(Now) \in Nat
    BY <1>1, Here DEF Types, Ended, Now
  <2> QED  BY <2>1
<1> QED  BY <1>1, <1>2, Here DEF WellFormed

\* The types stay when the driver goes on.
LEMMA TypesOn ==
  ASSUME Types, ip \in 1..Len(Now), ~Idle, UNCHANGED <<part, chip, call, goal>>, ip' \in 1..(Len(Now) + 1),
         rpc' = [n \in Names |-> rpc'[n]], rpc'.busy \in BOOLEAN, rpc'.wrbuf = rpc.wrbuf,
         known' \in BOOLEAN, DOMAIN cache' \subseteq Cells
  PROVE  Types' /\ Now' = Now /\ ~Idle'
<1>1. Now' = Now  BY DEF Now
<1>2. ~Idle'  BY DEF Idle
<1>3. Fits(part, call)' <=> Fits(part, call)  BY DEF Fits
<1>4. Types'  BY <1>1, <1>2, <1>3, Zenon DEF Types
<1> QED  BY <1>1, <1>2, <1>4

\* The start of a transfer keeps the invariant.
LEMMA StartStep == ASSUME Inv, Start  PROVE Inv'
<1>1. /\ Types /\ FrameSet /\ BusyWaits /\ Asked /\ Settles /\ ReadSet /\ CacheClear
      /\ CacheHidesNoProgram
  BY DEF Inv
<1>2. /\ ~Idle /\ ip \in 1..Len(Now) /\ Now[ip][1] = "start" /\ Now[ip] = Op
  BY <1>1, Current DEF Start
<1>3. /\ ip' = ip + 1 /\ UNCHANGED <<part, chip, cache, known, call, goal, calls>>
      /\ rpc' = [rpc EXCEPT !.smcr = Now[ip][2], !.busy = TRUE]
  BY <1>2 DEF Start, Step
<1>4. rpc = [n \in Names |-> rpc[n]]  BY <1>1 DEF Types
<1>5. /\ rpc' = [n \in Names |-> rpc'[n]] /\ rpc'.busy = TRUE /\ rpc'.smcr = Now[ip][2]
      /\ \A n \in Names \ {"smcr", "busy"}: rpc'[n] = rpc[n]
  BY <1>3, <1>4 DEF Names
<1>6. Len(Now) \in Nat  BY <1>1, Here
<1>7. Types' /\ Now' = Now /\ ~Idle'
  <2>1. ip' \in 1..(Len(Now) + 1)  BY <1>2, <1>3, <1>6
  <2>2. rpc'.busy \in BOOLEAN  BY <1>5, Zenon
  <2>3. rpc'.wrbuf = rpc.wrbuf  BY <1>5 DEF Names
  <2>4. known' \in BOOLEAN /\ DOMAIN cache' \subseteq Cells  BY <1>1, <1>3, Zenon DEF Types
  <2> QED  BY <1>1, <1>2, <1>3, <1>5, <2>1, <2>2, <2>3, <2>4, TypesOn
<1>8. FrameOf(Now, ip)
  <2>1. Transfers(ip)  BY <1>2 DEF Transfers
  <2> QED  BY <2>1, <1>1, <1>2, StartedAt
<1>9. FrameSet'
  <2>1. \A n \in {"phycnt", "cmncr", "smcmr", "smadr", "smenr"}: rpc'[n] = rpc[n]
    BY <1>5 DEF Names
  <2> QED  BY <2>1, <1>1, <1>2, <1>3, <1>5, <1>7, OnFrames
<1>10. BusyWaits'
  <2>1. ip + 1 \in 2..Len(Now) /\ Now[ip + 1] = Await /\ (ip + 1) - 1 = ip
    BY <1>2, <1>6, <1>8 DEF FrameOf
  <2> QED  BY <2>1, <1>2, <1>3, <1>7 DEF BusyWaits
<1>11. Now[ip] # Poll /\ Now[ip] # Await /\ Now[ip] # <<"known?">>  BY <1>2 DEF Poll, Await
<1>12. Asked'
  <2>1. ASSUME NEW k \in 2..Len(Now), Now[k] = Poll  PROVE ~Told(k)'
    <3>1. k \in 1..Len(Now) /\ k \in Int /\ ip \in Int  BY <1>2, <1>6
    <3>2. Now[k - 1] = Await  BY <3>1, <2>1, <1>1, PollAt
    <3>3. ip + 1 # k
      <4>1. ip # k - 1  BY <3>2, <1>11
      <4> QED  BY <4>1, <3>1
    <3> QED  BY <3>3, <1>3, <1>5 DEF Told
  <2>2. call[1] = "identify" => ~Told(8)' /\ ip' # 9
    <3>1. CASE call[1] = "identify"
      <4>1. ip # 7 /\ ip # 8  BY <3>1, <1>1, <1>11, IdentifyAt
      <4> QED  BY <4>1, <1>2, <1>3, <1>5 DEF Told
    <3> QED  BY <3>1
  <2> QED  BY <2>1, <2>2, <1>3, <1>7 DEF Asked
<1>13. Settles'  BY <1>1, <1>2, <1>3, <1>7, <1>11, OnSettles
<1>14. BusyIsUnknown'  BY <1>7 DEF BusyIsUnknown
<1>15. ReadSet'
  <2>1. \A n \in {"phycnt", "cmncr", "drcmr", "drenr"}: rpc'[n] = rpc[n]  BY <1>5 DEF Names
  <2> QED  BY <2>1, <1>1, <1>2, <1>3, <1>7, OnRead
<1>16. CacheClear'  BY <1>1, <1>2, <1>3, <1>7, OnClear
<1>17. CacheHidesNoProgram'  BY <1>1, <1>3 DEF CacheHidesNoProgram
<1> QED  BY <1>7, <1>9, <1>10, <1>12, <1>13, <1>14, <1>15, <1>16, <1>17 DEF Inv

\* The end of a transfer keeps the invariant.
LEMMA AwaitEndStep == ASSUME Inv, AwaitEnd  PROVE Inv'
<1>1. /\ Types /\ FrameSet /\ BusyWaits /\ Asked /\ Settles /\ ReadSet /\ CacheClear
      /\ CacheHidesNoProgram
  BY DEF Inv
<1>2. /\ ~Idle /\ ip \in 1..Len(Now) /\ Now[ip][1] = "WaitRpcTxEnd" /\ ~rpc.busy
  BY <1>1, Current DEF AwaitEnd
<1>3. ip' = ip + 1 /\ UNCHANGED <<part, chip, rpc, cache, known, call, goal, calls>>
  BY DEF AwaitEnd, Step
<1>4. rpc = [n \in Names |-> rpc[n]] /\ rpc.busy \in BOOLEAN /\ Len(Now) \in Nat  BY <1>1, Here DEF Types
<1>5. Types' /\ Now' = Now /\ ~Idle'
  <2>1. ip' \in 1..(Len(Now) + 1)  BY <1>2, <1>3, <1>4
  <2>2. known' \in BOOLEAN /\ DOMAIN cache' \subseteq Cells  BY <1>1, <1>3, Zenon DEF Types
  <2>3. rpc' = [n \in Names |-> rpc'[n]] /\ rpc'.busy \in BOOLEAN /\ rpc'.wrbuf = rpc.wrbuf
    BY <1>3, <1>4, Zenon
  <2> QED  BY <1>1, <1>2, <1>3, <2>1, <2>2, <2>3, TypesOn
<1>6. FrameSet'  BY <1>1, <1>2, <1>3, <1>5, OnFrames
<1>7. BusyWaits'  BY <1>2, <1>3 DEF BusyWaits
<1>8. Now[ip][1] \notin {"start", "known?", "ready?"} /\ Now[ip] # Poll  BY <1>2 DEF Poll
<1>9. Asked'
  <2>1. ASSUME NEW k \in 2..Len(Now), Now[k] = Poll, Told(k)'  PROVE Told(k)
    <3>1. k \in 1..Len(Now) /\ k \in Int /\ ip \in Int  BY <1>2, <1>4
    <3>2. Now[k - 2][1] = "start"  BY <3>1, <2>1, <1>1, PollAt
    <3>3. ip # k - 2  BY <3>2, <1>8
    <3>4. ip + 1 = k \/ ip + 1 = k - 1  BY <2>1, <1>3 DEF Told
    <3>5. ip = k - 1  BY <3>1, <3>3, <3>4
    <3> QED  BY <3>5, <1>2 DEF Told
  <2>2. call[1] = "identify" => (Told(8)' => Told(8)) /\ ip' # 9
    <3>1. CASE call[1] = "identify"
      <4>1. ip # 6 /\ ip # 8  BY <3>1, <1>1, <1>8, IdentifyAt
      <4> QED  BY <4>1, <1>2, <1>3 DEF Told
    <3> QED  BY <3>1
  <2> QED  BY <2>1, <2>2, <1>1, <1>3, <1>5 DEF Asked
<1>10. Settles'  BY <1>1, <1>2, <1>3, <1>5, <1>8, OnSettles
<1>11. BusyIsUnknown'  BY <1>5 DEF BusyIsUnknown
<1>12. ReadSet'  BY <1>1, <1>2, <1>3, <1>5, OnRead
<1>13. CacheClear'  BY <1>1, <1>2, <1>3, <1>5, OnClear
<1>14. CacheHidesNoProgram'  BY <1>1, <1>3 DEF CacheHidesNoProgram
<1> QED  BY <1>5, <1>6, <1>7, <1>9, <1>10, <1>11, <1>12, <1>13, <1>14 DEF Inv

\* The result of the identification keeps the invariant.
LEMMA IdentifyStep == ASSUME Inv, Identify  PROVE Inv'
<1>1. /\ Types /\ FrameSet /\ BusyWaits /\ Asked /\ Settles /\ ReadSet /\ CacheClear
      /\ CacheHidesNoProgram
  BY DEF Inv
<1>2. /\ ~Idle /\ ip \in 1..Len(Now) /\ Now[ip][1] = "known?" /\ Sound(part, call, Now, ip)
  BY <1>1, Current DEF Identify
<1>3. /\ ip' = ip + 1 /\ UNCHANGED <<part, chip, rpc, cache, call, goal, calls>>
      /\ known' = Supported(rpc.smrdr0)
  BY DEF Identify, Step
<1>4. rpc = [n \in Names |-> rpc[n]] /\ rpc.busy \in BOOLEAN /\ Len(Now) \in Nat  BY <1>1, Here DEF Types
<1>5. Types' /\ Now' = Now /\ ~Idle'
  <2>1. ip' \in 1..(Len(Now) + 1)  BY <1>2, <1>3, <1>4
  <2>2. known' \in BOOLEAN /\ DOMAIN cache' \subseteq Cells  BY <1>1, <1>3 DEF Types, Supported
  <2>3. rpc' = [n \in Names |-> rpc'[n]] /\ rpc'.busy \in BOOLEAN /\ rpc'.wrbuf = rpc.wrbuf
    BY <1>3, <1>4, Zenon
  <2> QED  BY <1>1, <1>2, <1>3, <2>1, <2>2, <2>3, TypesOn
<1>6. FrameSet'  BY <1>1, <1>2, <1>3, <1>5, OnFrames
<1>7. ip = 8 /\ Len(Now) = 8 /\ call[1] = "identify"
  <2>1. Known(call, Now, ip)  BY <1>2, Kinds
  <2> QED  BY <2>1 DEF Known
<1>8. ~rpc.busy
  <2>1. Now[ip] # Await  BY <1>2 DEF Await
  <2> QED  BY <2>1, <1>1 DEF BusyWaits
<1>9. BusyWaits'  BY <1>8, <1>3 DEF BusyWaits
<1>10. Asked'
  <2>1. \A k \in 2..Len(Now): ~Told(k)'  BY <1>3, <1>7 DEF Told
  <2>2. chip.wip => ~known'
    <3>1. chip.wip => rpc.smrdr0 = "nothing"  BY <1>1, <1>7 DEF Asked, Told
    <3> QED  BY <3>1, <1>3, SectorsAre
  <2>3. ~Told(8)'  BY <1>3, <1>7 DEF Told
  <2> QED  BY <2>1, <2>2, <2>3, <1>3, <1>5 DEF Asked
<1>11. Now[ip] # Poll  BY <1>2 DEF Poll
<1>12. Settles'  BY <1>1, <1>2, <1>3, <1>5, <1>11, OnSettles
<1>13. BusyIsUnknown'  BY <1>5 DEF BusyIsUnknown
<1>14. ReadSet'  BY <1>1, <1>2, <1>3, <1>5, OnRead
<1>15. CacheClear'  BY <1>1, <1>2, <1>3, <1>5, OnClear
<1>16. CacheHidesNoProgram'  BY <1>1, <1>3 DEF CacheHidesNoProgram
<1> QED  BY <1>5, <1>6, <1>9, <1>10, <1>12, <1>13, <1>14, <1>15, <1>16 DEF Inv

\* While the driver loads, the flash is not busy.
LEMMA Loading ==
  ASSUME Inv, At("load")
  PROVE  /\ Loaded(call, Now, ip) /\ ip > 5 /\ ~chip.wip
         /\ \A k \in 1..Len(Now): Now[k] # Poll
<1>1. Types /\ Settles  BY DEF Inv
<1>2. /\ ~Idle /\ ip \in 1..Len(Now) /\ Now[ip][1] = "load" /\ Sound(part, call, Now, ip)
  BY <1>1, Current
<1>3. Loaded(call, Now, ip)  BY <1>2, Kinds
<1>4. ip > 5 /\ ~Identifies /\ ~Streams  BY <1>3 DEF Loaded, Identifies, Streams
<1>5. ASSUME Waits  PROVE FALSE
  <2>1. PICK k \in 1..Len(Now): Pending(k)  BY <1>5 DEF Waits
  <2>2. k \in 1..5
    <3>1. Now[k][1] = "start"  BY <2>1 DEF Pending, Transfers
    <3>2. \A j \in 6..Len(Now): Now[j][1] = "load"  BY <1>3 DEF Loaded
    <3>3. k \notin 6..Len(Now)  BY <3>1, <3>2
    <3> QED  BY <3>3
  <2>3. k \in 6..(Len(Now) - 1)  BY <2>1, <1>1, StartedAt DEF Pending, FrameOf
  <2> QED  BY <2>2, <2>3
<1>6. ~chip.wip  BY <1>1, <1>2, <1>4, <1>5, Zenon DEF Settles
<1>7. \A k \in 1..Len(Now): Now[k] # Poll
  <2> TAKE k \in 1..Len(Now)
  <2>1. CASE k \in 6..Len(Now)  BY <2>1, <1>3 DEF Loaded, Poll
  <2>2. CASE k \in {1, 2, 3, 4, 5}  BY <2>2, <1>3 DEF Loaded, Quad, Poll
  <2> QED  BY <2>1, <2>2
<1> QED  BY <1>3, <1>4, <1>6, <1>7

\* A load keeps the invariant.
LEMMA LoadStep == ASSUME Inv, Load  PROVE Inv'
<1>1. /\ Types /\ FrameSet /\ BusyWaits /\ Asked /\ Settles /\ ReadSet /\ CacheClear
      /\ CacheHidesNoProgram
  BY DEF Inv
<1>2. /\ ~Idle /\ ip \in 1..Len(Now) /\ Now[ip][1] = "load" /\ Now[ip] = Op
  BY <1>1, Current DEF Load
<1>3. /\ ip' = ip + 1 /\ UNCHANGED <<part, chip, rpc, known, call, goal, calls>>
      /\ cache' \in {cache, [a \in {Now[ip][2]} |-> chip.cells[a]]}
  BY <1>2 DEF Load, Step
<1>4. rpc = [n \in Names |-> rpc[n]] /\ rpc.busy \in BOOLEAN /\ Len(Now) \in Nat  BY <1>1, Here DEF Types
<1>5. /\ Loaded(call, Now, ip) /\ ip > 5 /\ ~chip.wip
      /\ \A k \in 1..Len(Now): Now[k] # Poll
  BY Loading DEF Load
<1>6. Types' /\ Now' = Now /\ ~Idle'
  <2>1. ip' \in 1..(Len(Now) + 1)  BY <1>2, <1>3, <1>4
  <2>2. DOMAIN cache' \subseteq Cells
    <3>1. Now[ip][2] \in Cells  BY <1>5 DEF Loaded
    <3> QED  BY <3>1, <1>1, <1>3 DEF Types
  <2>3. rpc' = [n \in Names |-> rpc'[n]] /\ rpc'.busy \in BOOLEAN /\ rpc'.wrbuf = rpc.wrbuf
    BY <1>3, <1>4, Zenon
  <2>4. known' \in BOOLEAN  BY <1>1, <1>3, Zenon DEF Types
  <2> QED  BY <1>1, <1>2, <1>3, <2>1, <2>2, <2>3, <2>4, TypesOn
<1>7. FrameSet'  BY <1>1, <1>2, <1>3, <1>6, OnFrames
<1>8. ~rpc.busy
  <2>1. Now[ip] # Await  BY <1>2 DEF Await
  <2> QED  BY <2>1, <1>1 DEF BusyWaits
<1>9. BusyWaits'  BY <1>8, <1>3 DEF BusyWaits
<1>10. ~chip'.wip  BY <1>3, <1>5
<1>11. Asked' /\ Settles' /\ BusyIsUnknown'  BY <1>10 DEF Asked, Settles, BusyIsUnknown
<1>12. ReadSet'  BY <1>1, <1>2, <1>3, <1>6, OnRead
<1>13. CacheClear'  BY <1>1, <1>2, <1>3, <1>6, OnClear
<1>14. CacheHidesNoProgram'
  <2>1. CASE cache' = cache  BY <2>1, <1>1, <1>3 DEF CacheHidesNoProgram
  <2>2. CASE cache' = [a \in {Now[ip][2]} |-> chip.cells[a]]
    BY <2>2, <1>3 DEF CacheHidesNoProgram
  <2> QED  BY <2>1, <2>2, <1>3
<1> QED  BY <1>6, <1>7, <1>9, <1>11, <1>12, <1>13, <1>14 DEF Inv

\* A jump leads to the beginning of a command.
LEMMA Jumped ==
  ASSUME Inv, NEW x \in 1..Len(Now), ip' = x, Now[x] = Quad, Now' = Now, ~rpc.busy, ~Identifies,
         \A k \in 1..Len(Now): Now[k][1] # "load",
         UNCHANGED <<part, chip, rpc, cache, known, call, goal>>
  PROVE  FrameSet' /\ BusyWaits' /\ Asked' /\ ReadSet' /\ CacheClear' /\ CacheHidesNoProgram'
<1>0. Types /\ CacheHidesNoProgram  BY DEF Inv
<1>1. ASSUME NEW k \in 1..Len(Now), Transfers(k)
      PROVE  /\ x \notin (k - 4)..(k + 1)
             /\ Of(k) \in Programs => x \notin (k - 6)..(k + 1)
             /\ k \in Int
  <2>1. Framed(Now, k) /\ FrameOf(Now, k) /\ Now[k][1] = "start"
    BY <1>0, <1>1, StartedAt DEF Transfers
  <2> QED  BY <2>1, Landing DEF Of
<1>2. ASSUME NEW k \in 1..Len(Now), Transfers(k)  PROVE Set(k)'
  <2>1. Of(k)' = Of(k) /\ Address(Now, k)' = Address(Now, k)  BY DEF Of, Code, Address
  <2>2. x \notin (k - 4)..(k + 1) /\ (Of(k) \in Programs => x \notin (k - 5)..(k + 1)) /\ x \in Int
    BY <1>1, <1>2
  <2>3. k \in Int  BY <1>1, <1>2
  <2> QED  BY <2>1, <2>2, <2>3 DEF Set
<1>3. \A k: Transfers(k)' <=> Transfers(k)  BY DEF Transfers
<1>4. FrameSet'  BY <1>2, <1>3 DEF FrameSet
<1>5. BusyWaits'  BY Zenon DEF BusyWaits
<1>6. Asked'
  <2>1. ASSUME NEW k \in 2..Len(Now), Now[k] = Poll  PROVE ~Told(k)'
    <3>1. k \in 1..Len(Now) /\ Now[k] # Quad  BY <2>1 DEF Poll, Quad
    <3>2. Now[k - 1] = Await  BY <3>1, <2>1, <1>0, PollAt
    <3>3. Now[k - 1] # Quad  BY <3>2 DEF Await, Quad
    <3> QED  BY <3>1, <3>3, Zenon DEF Told
  <2>2. ~Identifies'  BY Zenon DEF Identifies
  <2> QED  BY <2>1, <2>2 DEF Asked, Identifies
<1>7. ReadSet'  BY DEF ReadSet
<1>8. CacheClear'
  <2> SUFFICES ASSUME NEW k \in 1..Len(Now), Transfers(k), Of(k) \in Programs, x \in (k - 6)..(k + 1)
               PROVE  cache' = << >>
    BY DEF CacheClear, Transfers, Of, Code
  <2> QED  BY <1>1
<1>9. CacheHidesNoProgram'  BY <1>0 DEF CacheHidesNoProgram
<1> QED  BY <1>4, <1>5, <1>6, <1>7, <1>8, <1>9

\* A script with a poll does not load.
LEMMA PollsOnly ==
  ASSUME Types, NEW k \in 1..Len(Now), Now[k] = Poll
  PROVE  \A j \in 1..Len(Now): Now[j][1] # "load"
<1> SUFFICES ASSUME NEW j \in 1..Len(Now), Now[j][1] = "load"  PROVE FALSE  OBVIOUS
<1>1. Sound(part, call, Now, j)  BY Here DEF WellFormed
<1>2. Loaded(call, Now, j)  BY <1>1, Kinds
<1>3. k > 7  BY PollAt
<1>4. \A i \in 6..Len(Now): Now[i][1] = "load"  BY <1>2 DEF Loaded
<1>5. k \in 6..Len(Now)  BY <1>3
<1>6. Now[k][1] = "load"  BY <1>4, <1>5
<1> QED  BY <1>6 DEF Poll

\* Nor does it identify.
LEMMA PollsUnknown ==
  ASSUME Types, NEW k \in 1..Len(Now), Now[k] = Poll
  PROVE  ~Identifies
<1> SUFFICES ASSUME Identifies  PROVE FALSE  OBVIOUS
<1>1. Len(Now) = 8 /\ Now[8] = <<"known?">>  BY IdentifyAt DEF Identifies
<1>2. k > 7  BY PollAt
<1>3. k = 8  BY <1>1, <1>2
<1> QED  BY <1>1, <1>3 DEF Poll

\* The poll keeps the invariant: it goes back while the flash is busy.
LEMMA PollReadyStep == ASSUME Inv, PollReady  PROVE Inv'
<1>1. /\ Types /\ FrameSet /\ BusyWaits /\ Asked /\ Settles /\ ReadSet /\ CacheClear
      /\ CacheHidesNoProgram
  BY DEF Inv
<1>2. /\ ~Idle /\ ip \in 1..Len(Now) /\ Now[ip][1] = "ready?" /\ Sound(part, call, Now, ip)
      /\ Now[ip] = Op
  BY <1>1, Current DEF PollReady
<1>3. Polled(Now, ip) /\ Now[ip] = Poll  BY <1>2, Kinds DEF Polled
<1>4. /\ ip' = IF rpc.smrdr0 = "busy" THEN ip - 7 ELSE ip + 1
      /\ UNCHANGED <<part, chip, rpc, cache, known, call, goal, calls>>
  BY <1>2, <1>3 DEF PollReady, Poll
<1>5. /\ ip > 7 /\ Now[ip - 1] = Await /\ Now[ip - 2][1] = "start" /\ Now[ip - 7] = Quad
  BY <1>1, <1>2, <1>3, PollAt
<1>6. rpc = [n \in Names |-> rpc[n]] /\ rpc.busy \in BOOLEAN /\ Len(Now) \in Nat  BY <1>1, Here DEF Types
<1>7. ~rpc.busy
  <2>1. Now[ip] # Await  BY <1>2 DEF Await
  <2> QED  BY <2>1, <1>1 DEF BusyWaits
<1>8. Types' /\ Now' = Now /\ ~Idle'
  <2>1. ip' \in 1..(Len(Now) + 1)  BY <1>2, <1>4, <1>5, <1>6
  <2>2. known' \in BOOLEAN /\ DOMAIN cache' \subseteq Cells  BY <1>1, <1>4, Zenon DEF Types
  <2>3. rpc' = [n \in Names |-> rpc'[n]] /\ rpc'.busy \in BOOLEAN /\ rpc'.wrbuf = rpc.wrbuf
    BY <1>4, <1>6, Zenon
  <2> QED  BY <1>1, <1>2, <1>4, <2>1, <2>2, <2>3, TypesOn
<1>9. \A j \in 1..Len(Now): Now[j][1] # "load"  BY <1>1, <1>2, <1>3, PollsOnly
<1>10. ~Identifies  BY <1>1, <1>2, <1>3, PollsUnknown
<1>11. BusyIsUnknown'  BY <1>8 DEF BusyIsUnknown
<1>12. CASE rpc.smrdr0 = "busy"
  <2>1. ip' = ip - 7 /\ ip - 7 \in 1..Len(Now)  BY <1>2, <1>4, <1>5, <1>12
  <2>2. FrameSet' /\ BusyWaits' /\ Asked' /\ ReadSet' /\ CacheClear' /\ CacheHidesNoProgram'
    BY <2>1, <1>4, <1>5, <1>7, <1>8, <1>9, <1>10, Jumped
  <2>3. ASSUME Streams, BetweenPages  PROVE BetweenPages'
    <3>1. Len(Now) = 26 /\ \A j \in (1..7) \cup (24..26): j # 6 => Plain(Now, j)
      BY <2>3, <1>1, Here DEF WellFormed, Fronted, Streams
    <3>2. ~Plain(Now, ip)  BY <1>2 DEF Plain
    <3>3. ip \notin 24..26  BY <3>1, <3>2
    <3>4. ip <= 8  BY <3>1, <3>3, <2>3, <1>2 DEF BetweenPages
    <3>5. ip' <= 8  BY <3>4, <2>1, <1>2
    <3> QED  BY <3>5 DEF BetweenPages
  <2>4. ASSUME ~Streams, Waits  PROVE Waits'
    <3>1. PICK k \in 1..Len(Now): Pending(k)  BY <2>4 DEF Waits
    <3> DEFINE r == k + Rest(Of(k))
    <3>2. call[1] # "page"  BY <2>4 DEF Streams
    <3>3. /\ r \in (k + 9)..Len(Now) /\ Now[r - 2][1] = "start"
          /\ \A j \in (k + 1)..(r - 1): j # r - 2 => Plain(Now, j)
      BY <1>1, <3>1, <3>2, After
    <3>4. Transfers(k) /\ Of(k) \in Changes /\ ip \in (k + 1)..r  BY <3>1 DEF Pending
    <3>5. ~Plain(Now, ip) /\ Now[ip][1] # "start"  BY <1>2 DEF Plain
    <3>6. k \in Int /\ r \in Int  BY <3>3
    <3> HIDE DEF r
    <3>7. ip = r  BY <3>3, <3>4, <3>5, <3>6
    <3>8. ip' \in (k + 1)..r /\ ip' # k + 1  BY <3>3, <3>6, <3>7, <2>1
    <3>9. Transfers(k)' /\ Of(k)' = Of(k)  BY <3>4, <1>8 DEF Transfers, Of, Code
    <3>10. Pending(k)'  BY <3>4, <3>8, <3>9 DEF Pending, Rest, r
    <3> QED  BY <3>10, <1>8, Zenon DEF Waits
  <2>5. (Streams' <=> Streams) /\ (Identifies' <=> Identifies) /\ (Idle' <=> Idle)
    BY <1>4, Zenon DEF Streams, Identifies, Idle
  <2>6. Settles'  BY <2>3, <2>4, <2>5, <1>1, <1>4, Zenon DEF Settles
  <2> QED  BY <2>2, <2>6, <1>8, <1>11 DEF Inv
<1>13. CASE rpc.smrdr0 # "busy"
  <2>1. ip' = ip + 1  BY <1>4, <1>13
  <2>2. ~chip.wip
    <3>1. ip \in 2..Len(Now)  BY <1>2, <1>5
    <3>2. chip.wip => rpc.smrdr0 = "busy"  BY <3>1, <1>1, <1>3 DEF Asked, Told
    <3> QED  BY <3>2, <1>13
  <2>3. FrameSet' /\ CacheClear' /\ ReadSet'
    BY <2>1, <1>1, <1>2, <1>4, <1>8, OnFrames, OnClear, OnRead
  <2>4. BusyWaits'  BY <1>4, <1>7, Zenon DEF BusyWaits
  <2>5. Asked' /\ Settles'  BY <1>4, <2>2 DEF Asked, Settles
  <2>6. CacheHidesNoProgram'  BY <1>1, <1>4 DEF CacheHidesNoProgram
  <2> QED  BY <2>3, <2>4, <2>5, <2>6, <1>8, <1>11 DEF Inv
<1> QED  BY <1>12, <1>13

\* The choice of the sector size keeps the invariant.
LEMMA SkipIfUnitStep == ASSUME Inv, SkipIfUnit  PROVE Inv'
<1>1. /\ Types /\ FrameSet /\ BusyWaits /\ Settles /\ ReadSet /\ CacheClear /\ CacheHidesNoProgram
  BY DEF Inv
<1>2. /\ ~Idle /\ ip \in 1..Len(Now) /\ Now[ip][1] = "unit?" /\ Sound(part, call, Now, ip)
      /\ Now[ip] = Op
  BY <1>1, Current DEF SkipIfUnit
<1>3. Chosen(part, call, Now, ip)  BY <1>2, Kinds
<1>4. ip = 8 /\ call[1] = "erase" /\ Len(Now) > 39 /\ Now[34] = Quad  BY <1>3 DEF Chosen
<1>5. /\ ip' = (IF rpc.smrdr0 = "256KB" THEN 34 ELSE ip + 1)
      /\ UNCHANGED <<part, chip, rpc, cache, known, call, goal, calls>>
  <2>1. Op = <<"unit?", "256KB", 25>>  BY <1>2, <1>3 DEF Chosen
  <2>2. ip + 25 + 1 = 34  BY <1>4
  <2> QED  BY <2>1, <2>2 DEF SkipIfUnit
<1>6. rpc = [n \in Names |-> rpc[n]] /\ rpc.busy \in BOOLEAN /\ Len(Now) \in Nat  BY <1>1, Here DEF Types
<1>7. ~rpc.busy
  <2>1. Now[ip] # Await  BY <1>2 DEF Await
  <2> QED  BY <2>1, <1>1 DEF BusyWaits
<1>8. Types' /\ Now' = Now /\ ~Idle'
  <2>1. ip' \in 1..(Len(Now) + 1)  BY <1>2, <1>4, <1>5, <1>6
  <2>2. known' \in BOOLEAN /\ DOMAIN cache' \subseteq Cells  BY <1>1, <1>5, Zenon DEF Types
  <2>3. rpc' = [n \in Names |-> rpc'[n]] /\ rpc'.busy \in BOOLEAN /\ rpc'.wrbuf = rpc.wrbuf
    BY <1>5, <1>6, Zenon
  <2> QED  BY <1>1, <1>2, <1>5, <2>1, <2>2, <2>3, TypesOn
<1>9. \A j \in 1..Len(Now): Now[j][1] # "load"
  <2> SUFFICES ASSUME NEW j \in 1..Len(Now), Now[j][1] = "load"  PROVE FALSE  OBVIOUS
  <2>1. Sound(part, call, Now, j)  BY <1>1, Here DEF WellFormed
  <2>2. Loaded(call, Now, j)  BY <2>1, Kinds
  <2> QED  BY <2>2, <1>4 DEF Loaded
<1>10. ~Identifies /\ ~Streams  BY <1>4 DEF Identifies, Streams
<1>11. BusyIsUnknown'  BY <1>8 DEF BusyIsUnknown
<1>12. ~chip.wip
  <2>1. ASSUME Waits  PROVE FALSE
    <3>1. PICK k \in 1..Len(Now): Pending(k)  BY <2>1 DEF Waits
    <3> DEFINE r == k + Rest(Of(k))
    <3>2. /\ r \in (k + 9)..Len(Now) /\ Now[r] = Poll /\ Now[r - 2][1] = "start"
          /\ \A j \in (k + 1)..(r - 1): j # r - 2 => Plain(Now, j)
      BY <1>1, <1>4, <3>1, After
    <3>3. ip \in (k + 1)..r  BY <3>1 DEF Pending
    <3>4. ~Plain(Now, ip) /\ Now[ip][1] # "start" /\ Now[ip] # Poll  BY <1>2 DEF Plain, Poll
    <3> HIDE DEF r
    <3> QED  BY <3>2, <3>3, <3>4
  <2> QED  BY <2>1, <1>1, <1>2, <1>10, Zenon DEF Settles
<1>13. Asked' /\ Settles'  BY <1>5, <1>12 DEF Asked, Settles
<1>14. CASE rpc.smrdr0 = "256KB"
  <2>1. ip' = 34 /\ 34 \in 1..Len(Now)  BY <1>4, <1>5, <1>6, <1>14
  <2>2. FrameSet' /\ BusyWaits' /\ ReadSet' /\ CacheClear' /\ CacheHidesNoProgram'
    BY <2>1, <1>4, <1>5, <1>7, <1>8, <1>9, <1>10, Jumped
  <2> QED  BY <2>2, <1>8, <1>11, <1>13 DEF Inv
<1>15. CASE rpc.smrdr0 # "256KB"
  <2>1. ip' = ip + 1  BY <1>5, <1>15
  <2>2. FrameSet' /\ CacheClear' /\ ReadSet'
    BY <2>1, <1>1, <1>2, <1>5, <1>8, OnFrames, OnClear, OnRead
  <2>3. BusyWaits'  BY <1>5, <1>7, Zenon DEF BusyWaits
  <2>4. CacheHidesNoProgram'  BY <1>1, <1>5 DEF CacheHidesNoProgram
  <2> QED  BY <2>2, <2>3, <2>4, <1>8, <1>11, <1>13 DEF Inv
<1> QED  BY <1>14, <1>15

\* The end of what the flash has begun keeps the invariant.
LEMMA ReadyStep == ASSUME Inv, Ready  PROVE Inv'
<1>1. /\ Types /\ FrameSet /\ BusyWaits /\ ReadSet /\ CacheClear /\ CacheHidesNoProgram
  BY DEF Inv
<1>2. chip' = Finish(chip) /\ UNCHANGED <<part, rpc, cache, known, call, ip, goal, calls>>
  BY DEF Ready
<1>3. Now' = Now  BY <1>2 DEF Now
<1>4. /\ chip' = [cells |-> chip'.cells, wel |-> chip'.wel, wip |-> chip'.wip, unit |-> chip'.unit,
                  lost |-> chip'.lost]
      /\ chip'.wip = FALSE /\ chip'.cells = chip.cells
  BY <1>1, <1>2 DEF Types, Finish
<1>5. ~chip'.wip /\ chip'.wip \in BOOLEAN  BY <1>4, Zenon
<1>6. Types'
  <2>1. Fits(part, call)' <=> Fits(part, call)  BY <1>2 DEF Fits
  <2>2. Idle' <=> Idle  BY <1>2, Zenon DEF Idle
  <2> QED  BY <1>1, <1>2, <1>3, <1>4, <1>5, <2>1, <2>2, Zenon DEF Types
<1>7. FrameSet' /\ BusyWaits' /\ ReadSet' /\ CacheClear'
  <2>1. \A k: /\ Transfers(k)' <=> Transfers(k)
              /\ Of(k)' = Of(k) /\ Address(Now, k)' = Address(Now, k)
    BY <1>3 DEF Transfers, Of, Code, Address
  <2>2. \A k: Set(k)' <=> Set(k)  BY <2>1, <1>2 DEF Set
  <2>3. FrameSet'  BY <1>1, <1>3, <2>1, <2>2 DEF FrameSet
  <2>4. CacheClear'  BY <1>1, <1>2, <1>3, <2>1 DEF CacheClear
  <2>5. ReadSet'  BY <1>1, <1>2, <1>3 DEF ReadSet
  <2>6. BusyWaits'  BY <1>1, <1>2, <1>3 DEF BusyWaits, Idle
  <2> QED  BY <2>3, <2>4, <2>5, <2>6
<1>8. Asked' /\ Settles' /\ BusyIsUnknown'  BY <1>5 DEF Asked, Settles, BusyIsUnknown
<1>9. CacheHidesNoProgram'  BY <1>1, <1>2, <1>4 DEF CacheHidesNoProgram
<1> QED  BY <1>6, <1>7, <1>8, <1>9 DEF Inv

\* The return of a call keeps the invariant.
LEMMA ReturnStep == ASSUME Inv, Return  PROVE Inv'
<1>1. /\ Types /\ FrameSet /\ BusyWaits /\ Asked /\ Settles /\ ReadSet /\ CacheClear
      /\ CacheHidesNoProgram
  BY DEF Inv
<1>2. /\ ~Idle /\ Ended /\ goal' = Contract!NoGoal
      /\ UNCHANGED <<part, chip, rpc, cache, known, call, ip, calls>>
  BY DEF Return
<1>3. Now' = Now /\ Len(Now) \in Nat  BY <1>1, <1>2, Here DEF Now
<1>4. ip = Len(Now) + 1  BY <1>1, <1>2, <1>3 DEF Types, Ended, Now
<1>5. ~rpc.busy  BY <1>1, <1>3, <1>4 DEF BusyWaits
<1>6. Idle'  BY <1>2 DEF Idle
<1>7. Types'
  <2>1. Fits(part, call)' <=> Fits(part, call)  BY <1>2 DEF Fits
  <2>2. ip' = Len(Now') + 1  BY <1>2, <1>3, <1>4
  <2> QED  BY <1>1, <1>2, <1>3, <2>1, <2>2, Zenon DEF Types
<1>8. FrameSet' /\ ReadSet' /\ CacheClear'
  <2>1. \A k: /\ Transfers(k)' <=> Transfers(k)
              /\ Of(k)' = Of(k) /\ Address(Now, k)' = Address(Now, k)
    BY <1>3 DEF Transfers, Of, Code, Address
  <2>2. \A k: Set(k)' <=> Set(k)  BY <2>1, <1>2 DEF Set
  <2>3. FrameSet'  BY <1>1, <1>3, <2>1, <2>2 DEF FrameSet
  <2>4. CacheClear'  BY <1>1, <1>2, <1>3, <2>1 DEF CacheClear
  <2>5. ReadSet'  BY <1>1, <1>2, <1>3 DEF ReadSet
  <2> QED  BY <2>3, <2>4, <2>5
<1>9. BusyWaits'  BY <1>2, <1>5, Zenon DEF BusyWaits
<1>10. Asked'  BY <1>1, <1>2, <1>3 DEF Asked, Told
<1>11. Settles'  BY <1>6, Zenon DEF Settles
<1>12. BusyIsUnknown'
  <2>1. ASSUME chip.wip, Identifies  PROVE ~known
    <3>0. Identifies  BY <2>1
    <3>2. Len(Now) = 8  BY <3>0, <1>1, IdentifyAt DEF Identifies
    <3>1. ip = 9  BY <1>4, <3>2
    <3> QED  BY <2>1, <3>1, <1>1, Zenon DEF Asked, Identifies
  <2>2. ASSUME ~Streams, Waits  PROVE FALSE
    <3>1. PICK k \in 1..Len(Now): Pending(k)  BY <2>2 DEF Waits
    <3> DEFINE r == k + Rest(Of(k))
    <3>2. call[1] # "page"  BY <2>2 DEF Streams
    <3>3. r \in (k + 9)..Len(Now)  BY <1>1, <3>1, <3>2, After
    <3>4. ip \in (k + 1)..r  BY <3>1 DEF Pending
    <3> QED  BY <1>3, <1>4, <3>3, <3>4
  <2>3. chip.wip => ~known \/ Streams  BY <2>1, <2>2, <1>1, <1>2, Zenon DEF Settles
  <2> QED  BY <2>3, <1>2 DEF BusyIsUnknown, Streams
<1>13. CacheHidesNoProgram'  BY <1>1, <1>2 DEF CacheHidesNoProgram
<1> QED  BY <1>7, <1>8, <1>9, <1>10, <1>11, <1>12, <1>13 DEF Inv

\* What a call wants is a function on the cells.
LEMMA Wants ==
  ASSUME Types, NEW c  PROVE Contract!Wanted(c) # Contract!NoGoal
<1>1. 0 \in Cells
  <2>1. FlashSize \in Nat /\ FlashSize >= 1  BY RpcAssumption, FlashAssumption
  <2> QED  BY <2>1 DEF Cells
<1>2. chip.cells = [a \in Cells |-> chip.cells[a]]  BY DEF Types
<1>3. DOMAIN chip.cells = Cells  BY <1>2, Zenon
<1>4. Contract!Cells = Cells  BY DEF Cells, Contract!Cells
<1>5. \A size, from, to: DOMAIN Contract!Erased(size, from, to) = Cells  BY <1>4 DEF Contract!Erased
<1>6. \A from, to: DOMAIN Contract!Saved(from, to) = Cells  BY <1>4 DEF Contract!Saved
<1>7. DOMAIN Contract!Wanted(c) = Cells  BY <1>3, <1>5, <1>6 DEF Contract!Wanted
<1>8. 0 \notin DOMAIN Contract!NoGoal  BY DEF Contract!NoGoal
<1> QED  BY <1>1, <1>7, <1>8

\* A new call keeps the invariant.
LEMMA CallStep == ASSUME Inv, NEW c \in Calls, Call(c)  PROVE Inv'
<1>1. Types /\ BusyWaits /\ BusyIsUnknown /\ CacheHidesNoProgram  BY DEF Inv
<1>2. /\ Idle /\ (c[1] # "identify" => known /\ Fits(part, c))
      /\ (call[1] = "page" => c[1] \in {"identify", "page"})
      /\ call' = c /\ ip' = 1 /\ goal' = Contract!Wanted(c)
      /\ UNCHANGED <<part, chip, rpc, cache, known>>
  BY DEF Call
<1>3. Fits(part, c)
  <2>1. CASE c[1] = "identify"  BY <2>1 DEF Fits
  <2>2. CASE c[1] # "identify"  BY <2>2, <1>2
  <2> QED  BY <2>1, <2>2
<1>4. Now' = Function(part, c)
  <2>1. c \in {d \in Calls: Fits(part, d)} \cup {NoCall} /\ part \in Parts  BY <1>1, <1>3 DEF Types
  <2> QED  BY <1>2, <2>1 DEF Now, Script
<1> DEFINE s == Now'
<1>5. IsSeq(s) /\ (\A k \in 1..Len(s): Sound(part, c, s, k)) /\ Len(s) \in Nat
  BY <1>3, <1>4, ScriptsFormed, Lengths DEF WellFormed
<1>6. ~Idle'  BY <1>1, <1>2, Wants DEF Idle
<1>7. Types'
  <2>1. ip' \in 1..(Len(Now') + 1)  BY <1>2, <1>5
  <2>2. call' \in Calls \cup {NoCall} /\ Fits(part, call)'  BY <1>2, <1>3 DEF Fits
  <2> QED  BY <1>1, <1>2, <1>6, <2>1, <2>2, Zenon DEF Types
<1>8. ASSUME NEW k \in 1..Len(s), s[k][1] = "start"
      PROVE  k > 5 /\ k \in Int /\ (Code(s, k) \in Programs => k > 7)
  <2>1. Sound(part, c, s, k)  BY <1>5
  <2>2. Framed(s, k)  BY <2>1, <1>8, Kinds DEF Started
  <2>3. FrameOf(s, k)  BY <2>2, <1>8, Frames
  <2> QED  BY <2>3 DEF FrameOf
<1>9. FrameSet'
  <2> SUFFICES ASSUME NEW k \in 1..Len(s), s[k][1] = "start"  PROVE Set(k)'
    BY DEF FrameSet, Transfers
  <2>1. k > 5 /\ k \in Int /\ (Code(s, k) \in Programs => k > 7)  BY <1>8
  <2> QED  BY <2>1, <1>2 DEF Set, Of
<1>10. CacheClear'
  <2> SUFFICES ASSUME NEW k \in 1..Len(s), s[k][1] = "start", Code(s, k) \in Programs, 1 \in (k - 6)..(k + 1)
               PROVE  cache' = << >>
    BY <1>2 DEF CacheClear, Transfers, Of
  <2>1. k > 7 /\ k \in Int  BY <1>8
  <2> QED  BY <2>1
<1>11. ReadSet'  BY <1>2 DEF ReadSet
<1>12. BusyWaits'
  <2>1. ~rpc.busy  BY <1>1, <1>2 DEF BusyWaits
  <2> QED  BY <2>1, <1>2, Zenon DEF BusyWaits
<1>13. Asked'
  <2>1. ASSUME NEW k \in 2..Len(s), s[k] = Poll  PROVE ~Told(k)'
    <3>1. Sound(part, c, s, k)  BY <1>5
    <3>2. k > 7  BY <3>1, <2>1, Kinds DEF Poll, Polled
    <3> QED  BY <3>2, <1>2 DEF Told
  <2>2. ~Told(8)' /\ ip' # 9  BY <1>2 DEF Told
  <2> QED  BY <2>1, <2>2 DEF Asked
<1>14. Settles'
  <2>1. chip.wip => ~known \/ Streams  BY <1>1, <1>2 DEF BusyIsUnknown, Streams
  <2>2. ~known => Identifies'  BY <1>2 DEF Identifies
  <2>3. Streams => Identifies' \/ Streams'  BY <1>2 DEF Streams, Identifies
  <2>4. BetweenPages'  BY <1>2 DEF BetweenPages
  <2>5. chip' = chip  BY <1>2
  <2> QED  BY <2>1, <2>2, <2>3, <2>4, <2>5, Zenon DEF Settles
<1>15. BusyIsUnknown'  BY <1>6 DEF BusyIsUnknown
<1>16. CacheHidesNoProgram'  BY <1>1, <1>2 DEF CacheHidesNoProgram
<1> QED  BY <1>7, <1>9, <1>10, <1>11, <1>12, <1>13, <1>14, <1>15, <1>16 DEF Inv

\* A transfer in progress is that of the operation before the wait.
InProgress(k) ==
  /\ ip = k + 1 /\ k \in 6..(Len(Now) - 1) /\ Now[k][1] = "start" /\ Now[ip] = Await
  /\ Started(part, call, Now, k) /\ FrameOf(Now, k) /\ Of(k) \in Codes
  /\ rpc.smcmr = Of(k) /\ rpc.smadr = Address(Now, k) /\ Sent(rpc.smadr, AddressBytes(Of(k))) = rpc.smadr
  /\ rpc.smenr = [width |-> AddressBytes(Of(k)), size |-> DataBytes(Of(k))]
  /\ rpc.cmncr = "manual" /\ rpc.smcr = Way(Of(k))
  /\ rpc.phycnt = IF Of(k) \in Programs THEN QuadBuffer[3] ELSE Quad[3]
  /\ Of(k) \in Programs => cache = << >>

\* The transfer in progress has its frame in the registers.
LEMMA Busy == ASSUME Inv, rpc.busy  PROVE ~Idle /\ InProgress(ip - 1)
<1>1. Types /\ FrameSet /\ BusyWaits /\ CacheClear  BY DEF Inv
<1>2. ~Idle /\ ip \in 2..Len(Now) /\ Now[ip] = Await /\ Now[ip - 1][1] = "start"
  BY <1>1 DEF BusyWaits
<1>3. Len(Now) \in Nat  BY <1>1, Here
<1> DEFINE k == ip - 1
<1>4. k \in 1..Len(Now) /\ ip = k + 1 /\ Now[k][1] = "start" /\ Transfers(k) /\ k \in Int
  BY <1>2, <1>3 DEF Transfers
<1> HIDE DEF k
<1>5. /\ Started(part, call, Now, k) /\ FrameOf(Now, k) /\ Of(k) \in Codes
      /\ Sent(Address(Now, k), AddressBytes(Of(k))) = Address(Now, k)
  BY <1>1, <1>4, StartedAt DEF Of
<1>6. Set(k)  BY <1>1, <1>4 DEF FrameSet
<1>7. /\ ip \in (k - 6)..(k + 1) /\ ip \in (k - 5)..(k + 1) /\ ip \in (k - 4)..(k + 1) /\ ip \in (k - 3)..(k + 1)
      /\ ip \in (k - 2)..(k + 1) /\ ip \in (k - 1)..(k + 1) /\ ip \in k..(k + 1)
  BY <1>4
<1>8. /\ rpc.smcmr = Of(k) /\ rpc.smadr = Address(Now, k)
      /\ rpc.smenr = [width |-> AddressBytes(Of(k)), size |-> DataBytes(Of(k))]
      /\ rpc.cmncr = "manual" /\ rpc.smcr = Way(Of(k))
      /\ rpc.phycnt = IF Of(k) \in Programs THEN QuadBuffer[3] ELSE Quad[3]
  BY <1>4, <1>6, <1>7 DEF Set
<1>9. Of(k) \in Programs => cache = << >>  BY <1>1, <1>4, <1>7 DEF CacheClear
<1>10. k \in 6..(Len(Now) - 1)  BY <1>5 DEF FrameOf
<1>11. InProgress(k)  BY <1>2, <1>4, <1>5, <1>8, <1>9, <1>10 DEF InProgress
<1> QED  BY <1>2, <1>11 DEF k

\* A busy flash is asked for its status or its identification only.
LEMMA BusyFlash == ASSUME Inv, rpc.busy, chip.wip  PROVE Of(ip - 1) \in {"05", "9F"}
<1> DEFINE k == ip - 1
<1>1. Types /\ Settles  BY DEF Inv
<1>2. ~Idle /\ InProgress(k)  BY Busy
<1>3. ip = k + 1 /\ k \in 6..(Len(Now) - 1) /\ Now[k][1] = "start" /\ Len(Now) \in Nat
  BY <1>1, <1>2, Here DEF InProgress
<1> HIDE DEF k
<1>4. ~Plain(Now, k)  BY <1>3 DEF Plain
<1>5. ASSUME Identifies  PROVE Of(k) = "9F"
  <2>1. Len(Now) = 8 /\ Of(6) = "9F" /\ \A j \in 1..7: j # 6 => Plain(Now, j)
    BY <1>1, <1>5, IdentifyAt DEF Identifies
  <2>2. k = 6  BY <2>1, <1>3, <1>4
  <2> QED  BY <2>1, <2>2
<1>6. ASSUME Streams, BetweenPages  PROVE Of(k) = "05"
  <2>1. /\ Len(Now) = 26 /\ Starts(Now, 6, "05")
        /\ \A j \in (1..7) \cup (24..26): j # 6 => Plain(Now, j)
    BY <1>1, <1>6, Here DEF WellFormed, Fronted, Streams
  <2>2. ip <= 8 \/ ip >= 25  BY <1>3, <1>6 DEF BetweenPages
  <2>3. k <= 7 \/ k \in 24..26  BY <2>1, <2>2, <1>3
  <2>4. k = 6  BY <2>1, <2>3, <1>3, <1>4
  <2> QED  BY <2>1, <2>4 DEF Starts, Of
<1>7. ASSUME ~Streams, Waits  PROVE Of(k) = "05"
  <2>1. PICK j \in 1..Len(Now): Pending(j)  BY <1>7 DEF Waits
  <2> DEFINE r == j + Rest(Of(j))
  <2>2. call[1] # "page"  BY <1>7 DEF Streams
  <2>3. /\ r \in (j + 9)..Len(Now) /\ Of(r - 2) = "05"
        /\ \A i \in (j + 1)..(r - 1): i # r - 2 => Plain(Now, i)
    BY <1>1, <2>1, <2>2, After
  <2>4. ip \in (j + 1)..r /\ ip # j + 1  BY <2>1 DEF Pending
  <2> HIDE DEF r
  <2>5. k \in (j + 1)..(r - 1)  BY <2>3, <2>4, <1>3
  <2>6. k = r - 2  BY <2>3, <2>5, <1>4
  <2> QED  BY <2>3, <2>6
<1>8. Of(k) = "9F" \/ Of(k) = "05"
  BY <1>1, <1>2, <1>5, <1>6, <1>7, Zenon DEF Settles
<1> QED  BY <1>8 DEF k

\* What a command makes of the flash.
IsChip(c) ==
  /\ c = [cells |-> c.cells, wel |-> c.wel, wip |-> c.wip, unit |-> c.unit, lost |-> c.lost]
  /\ c.wip \in BOOLEAN /\ c.cells = [a \in Cells |-> c.cells[a]]

\* A change, ignored or begun, leaves a chip.
LEMMA Begun ==
  ASSUME NEW c, IsChip(c), NEW new, new = [a \in Cells |-> new[a]]
  PROVE  IsChip(Begin(c, new)) /\ (Begin(c, new).cells = c.cells \/ Begin(c, new).cells = new)
<1>1. CASE c.wip \/ ~c.wel
  <2>1. Begin(c, new) = [c EXCEPT !.lost = TRUE]  BY <1>1 DEF Begin
  <2>2. Begin(c, new) = [cells |-> c.cells, wel |-> c.wel, wip |-> c.wip, unit |-> c.unit, lost |-> TRUE]
    BY <2>1 DEF IsChip
  <2>3. Begin(c, new).wip = c.wip /\ Begin(c, new).cells = c.cells  BY <2>2
  <2>4. Begin(c, new) = [cells |-> Begin(c, new).cells, wel |-> Begin(c, new).wel, wip |-> Begin(c, new).wip,
                         unit |-> Begin(c, new).unit, lost |-> Begin(c, new).lost]
    BY <2>2
  <2> QED  BY <2>3, <2>4, Zenon DEF IsChip
<1>2. CASE ~(c.wip \/ ~c.wel)
  <2>1. Begin(c, new) = [c EXCEPT !.cells = new, !.wip = TRUE]  BY <1>2 DEF Begin
  <2>2. Begin(c, new) = [cells |-> new, wel |-> c.wel, wip |-> TRUE, unit |-> c.unit, lost |-> c.lost]
    BY <2>1 DEF IsChip
  <2>3. Begin(c, new).wip = TRUE /\ Begin(c, new).cells = new  BY <2>2
  <2>4. Begin(c, new) = [cells |-> Begin(c, new).cells, wel |-> Begin(c, new).wel, wip |-> Begin(c, new).wip,
                         unit |-> Begin(c, new).unit, lost |-> Begin(c, new).lost]
    BY <2>2
  <2>5. Begin(c, new).wip \in BOOLEAN  BY <2>3, Zenon
  <2> QED  BY <2>3, <2>4, <2>5, Zenon DEF IsChip
<1> QED  BY <1>1, <1>2, Zenon

\* A command other than a program leaves each cell as it is or erased.
LEMMA ExecutedIs ==
  ASSUME NEW c, IsChip(c), NEW code \in Codes, NEW at
  PROVE  /\ IsChip(Executed(c, code, at))
         /\ code \notin Changes =>
              Executed(c, code, at).cells = c.cells /\ Executed(c, code, at).wip = c.wip
         /\ code \notin Programs => \A a \in Cells: Executed(c, code, at).cells[a] \in {c.cells[a], FF}
<1> DEFINE e == Executed(c, code, at)
<1>0. c.cells = [a \in Cells |-> c.cells[a]]  BY DEF IsChip
<1>1. CASE code = "06"
  <2>1. e = WriteEnable(c) /\ code \in Codes \ (Changes \cup Programs)
    BY <1>1 DEF Executed, Codes, Changes, Erases, Programs
  <2>2. CASE c.wip
    <3>1. e = c  BY <2>1, <2>2 DEF WriteEnable
    <3> QED  BY <3>1
  <2>3. CASE ~c.wip
    <3>1. e = [c EXCEPT !.wel = TRUE]  BY <2>1, <2>3 DEF WriteEnable
    <3>2. e = [cells |-> c.cells, wel |-> TRUE, wip |-> c.wip, unit |-> c.unit, lost |-> c.lost]
      BY <3>1 DEF IsChip
    <3>3. e.wip = c.wip /\ e.cells = c.cells
          /\ e = [cells |-> e.cells, wel |-> e.wel, wip |-> e.wip, unit |-> e.unit, lost |-> e.lost]
      BY <3>2
    <3> HIDE DEF e
    <3>4. IsChip(e)  BY <3>3, Zenon DEF IsChip
    <3> QED  BY <3>3, <3>4 DEF e
  <2> QED  BY <2>2, <2>3
<1>2. CASE code = "60"
  <2> DEFINE new == [a \in Cells |-> FF]
  <2>1. e = Begin(c, new) /\ code \in Changes  BY <1>2 DEF Executed, BulkErase, Changes, Erases
  <2>2. new = [a \in Cells |-> new[a]]  OBVIOUS
  <2>3. IsChip(e) /\ (e.cells = c.cells \/ e.cells = new)
    <3> HIDE DEF new
    <3> QED  BY <2>1, <2>2, Begun
  <2>4. \A a \in Cells: e.cells[a] \in {c.cells[a], FF}  BY <2>3
  <2> QED  BY <2>1, <2>3, <2>4
<1>3. ASSUME NEW size, e = BlockErase(c, at, size)
      PROVE  IsChip(e) /\ \A a \in Cells: e.cells[a] \in {c.cells[a], FF}
  <2> DEFINE new == [a \in Cells |-> IF a \div size = at \div size THEN FF ELSE c.cells[a]]
  <2>1. e = Begin(c, new)  BY <1>3 DEF BlockErase
  <2>2. new = [a \in Cells |-> new[a]] /\ \A a \in Cells: new[a] \in {c.cells[a], FF}  OBVIOUS
  <2>3. IsChip(e) /\ (e.cells = c.cells \/ e.cells = new)
    <3> HIDE DEF new, e
    <3> QED  BY <2>1, <2>2, Begun
  <2> HIDE DEF new, e
  <2>4. \A a \in Cells: e.cells[a] \in {c.cells[a], FF}  BY <2>2, <2>3
  <2> QED  BY <2>3, <2>4
<1>4. CASE code \in {"D8", "DC"}
  <2>1. e = BlockErase(c, at, c.unit) /\ code \in Changes  BY <1>4 DEF Executed, Changes, Erases
  <2> QED  BY <2>1, <1>3
<1>5. CASE code \in {"20", "21"}
  <2>1. e = BlockErase(c, at, CellsOf[4]) /\ code \in Changes  BY <1>5 DEF Executed, Changes, Erases
  <2> QED  BY <2>1, <1>3
<1>6. CASE code \in Programs
  <2> DEFINE buffer == [i \in {0} |-> Contract!Datum(rpc.wrbuf)]
             new == [a \in Cells |-> IF PageTop(a) = PageTop(at)
                                     THEN Programmed(c.cells[a], buffer[Source(at, a)]) ELSE c.cells[a]]
  <2>1. e = PageProgram(c, at, buffer) /\ code \in Changes  BY <1>6 DEF Executed, Changes, Programs
  <2>2. e = Begin(c, new)  BY <2>1 DEF PageProgram
  <2>3. new = [a \in Cells |-> new[a]]  OBVIOUS
  <2> HIDE DEF new, e
  <2>4. IsChip(e)  BY <2>2, <2>3, Begun
  <2> QED  BY <2>1, <2>4, <1>6 DEF e
<1>7. CASE code = "71"
  <2> DEFINE b == Begin(c, c.cells)
  <2>1. e = [b EXCEPT !.unit = rpc.smwdr0] /\ code \in Changes  BY <1>7 DEF Executed, Changes
  <2>2. IsChip(b) /\ b.cells = c.cells
    <3>1. IsChip(b) /\ (b.cells = c.cells \/ b.cells = c.cells)  BY <1>0, Begun
    <3> QED  BY <3>1
  <2> HIDE DEF b, e
  <2>3. e = [cells |-> b.cells, wel |-> b.wel, wip |-> b.wip, unit |-> rpc.smwdr0, lost |-> b.lost]
    BY <2>1, <2>2 DEF IsChip
  <2>4. e.wip = b.wip /\ e.cells = b.cells
        /\ e = [cells |-> e.cells, wel |-> e.wel, wip |-> e.wip, unit |-> e.unit, lost |-> e.lost]
    BY <2>3
  <2>5. IsChip(e)  BY <2>2, <2>4, Zenon DEF IsChip
  <2>6. \A a \in Cells: e.cells[a] \in {c.cells[a], FF}  BY <2>2, <2>4
  <2> QED  BY <2>1, <2>5, <2>6 DEF e
<1>8. CASE code \in {"05", "9F", "65"}
  <2>1. e = c  BY <1>8 DEF Executed
  <2> QED  BY <2>1
<1> QED  BY <1>1, <1>2, <1>4, <1>5, <1>6, <1>7, <1>8 DEF Codes, Programs

\* The transfer of a command keeps the invariant.
LEMMA TransferStep == ASSUME Inv, Transfer  PROVE Inv'
<1> DEFINE k == ip - 1
<1>1. /\ Types /\ FrameSet /\ BusyWaits /\ Asked /\ Settles /\ ReadSet /\ CacheClear
      /\ CacheHidesNoProgram
  BY DEF Inv
<1>2. /\ rpc.busy /\ rpc' = [rpc EXCEPT !.busy = FALSE, !.smrdr0 = Answer(chip, rpc.smcmr)]
      /\ chip' = Executed(chip, rpc.smcmr, Sent(rpc.smadr, rpc.smenr.width))
      /\ UNCHANGED <<part, cache, known, call, ip, goal, calls>>
  BY DEF Transfer
<1>3. ~Idle /\ InProgress(k)  BY <1>2, Busy
<1> HIDE DEF k
<1>4. /\ ip = k + 1 /\ k \in 6..(Len(Now) - 1) /\ Transfers(k) /\ Now[ip] = Await
      /\ Started(part, call, Now, k) /\ Of(k) \in Codes /\ rpc.smcmr = Of(k)
      /\ Of(k) \in Programs => cache = << >>
  BY <1>3 DEF InProgress, Transfers
<1>5. Len(Now) \in Nat /\ k \in Int /\ ip \in Int  BY <1>1, <1>4, Here
<1>6. Now' = Now  BY <1>2 DEF Now
<1>7. /\ rpc' = [n \in Names |-> rpc'[n]] /\ rpc'.busy = FALSE /\ rpc'.smrdr0 = Answer(chip, Of(k))
      /\ \A n \in Names \ {"busy", "smrdr0"}: rpc'[n] = rpc[n]
  <2>1. rpc = [n \in Names |-> rpc[n]]  BY <1>1 DEF Types
  <2> QED  BY <2>1, <1>2, <1>4 DEF Names
<1>8. IsChip(chip)  BY <1>1 DEF Types, IsChip
<1>9. PICK at: chip' = Executed(chip, Of(k), at)  BY <1>2, <1>4
<1>10. /\ IsChip(chip')
       /\ Of(k) \notin Changes => chip'.cells = chip.cells /\ chip'.wip = chip.wip
       /\ Of(k) \notin Programs => \A a \in Cells: chip'.cells[a] \in {chip.cells[a], FF}
  BY <1>4, <1>8, <1>9, ExecutedIs
<1>11. Types'
  <2>1. rpc'.wrbuf = rpc.wrbuf  BY <1>7 DEF Names
  <2>2. rpc'.busy \in BOOLEAN  BY <1>7, Zenon
  <2>3. Fits(part, call)' <=> Fits(part, call)  BY <1>2 DEF Fits
  <2>4. Idle' <=> Idle  BY <1>2, Zenon DEF Idle
  <2>5. rpc'.wrbuf \in Int  BY <2>1, <1>1, Zenon DEF Types
  <2> QED  BY <1>1, <1>2, <1>6, <1>7, <1>10, <2>2, <2>3, <2>4, <2>5, Zenon DEF Types, IsChip
<1>12. FrameSet' /\ ReadSet' /\ CacheClear'
  <2>1. \A j: /\ Transfers(j)' <=> Transfers(j)
              /\ Of(j)' = Of(j) /\ Address(Now, j)' = Address(Now, j)
    BY <1>6 DEF Transfers, Of, Code, Address
  <2>2. \A n \in {"phycnt", "cmncr", "smcmr", "smadr", "smenr", "smcr", "drcmr", "drenr"}: rpc'[n] = rpc[n]
    BY <1>7 DEF Names
  <2>3. \A j: Set(j)' <=> Set(j)  BY <2>1, <2>2, <1>2 DEF Set
  <2>4. FrameSet'  BY <1>1, <1>6, <2>1, <2>3 DEF FrameSet
  <2>5. CacheClear'  BY <1>1, <1>2, <1>6, <2>1 DEF CacheClear
  <2>6. ReadSet'  BY <1>1, <1>2, <1>6, <2>2 DEF ReadSet
  <2> QED  BY <2>4, <2>5, <2>6
<1>13. ~rpc'.busy  BY <1>7
<1>14. BusyWaits' /\ BusyIsUnknown'
  <2>1. ~Idle'  BY <1>2, <1>3, Zenon DEF Idle
  <2> QED  BY <2>1, <1>13, Zenon DEF BusyWaits, BusyIsUnknown
<1>15. Asked'
  <2>1. ASSUME NEW j \in 2..Len(Now), Now[j] = Poll, Told(j)', chip'.wip  PROVE rpc'.smrdr0 = "busy"
    <3>1. j \in 1..Len(Now) /\ j \in Int  BY <1>5
    <3>2. ip # j  BY <2>1, <1>4 DEF Poll, Await
    <3>3. ip = j - 1  BY <2>1, <3>2, <1>2 DEF Told
    <3>4. k = j - 2  BY <3>1, <3>3, <1>4, <1>5
    <3>5. Of(k) = "05"  BY <3>1, <3>4, <2>1, <1>1, PollAt
    <3>6. chip'.wip = chip.wip  BY <3>5, <1>10 DEF Changes, Erases, Programs
    <3>7. chip.wip  BY <2>1, <3>6, Zenon
    <3>8. Answer(chip, "05") = "busy"  BY <3>7 DEF Answer
    <3> QED  BY <3>5, <3>8, <1>7
  <2>2. ASSUME Identifies, Told(8)', chip'.wip  PROVE rpc'.smrdr0 = "nothing"
    <3>0. Identifies  BY <2>2
    <3>1. Len(Now) = 8 /\ Now[8] = <<"known?">> /\ Of(6) = "9F"
      BY <3>0, <1>1, IdentifyAt DEF Identifies
    <3>2. ip # 8  BY <3>1, <1>4 DEF Await
    <3>3. ip = 7  BY <2>2, <3>2, <1>2 DEF Told
    <3>4. Of(k) = "9F"
      <4>1. k = 6  BY <3>3, <1>4, <1>5
      <4> QED  BY <4>1, <3>1
    <3>5. chip'.wip = chip.wip  BY <3>4, <1>10 DEF Changes, Erases, Programs
    <3>6. chip.wip  BY <2>2, <3>5, Zenon
    <3>7. Answer(chip, "9F") = "nothing"  BY <3>6 DEF Answer
    <3> QED  BY <3>4, <3>7, <1>7
  <2>3. Identifies => ip' # 9
    <3> SUFFICES ASSUME Identifies  PROVE ip' # 9  OBVIOUS
    <3>1. Len(Now) = 8  BY <1>1, IdentifyAt DEF Identifies
    <3> QED  BY <3>1, <1>2, <1>4
  <2>4. Identifies' <=> Identifies  BY <1>2, Zenon DEF Identifies
  <2>5. \A j \in 2..Len(Now'): Now'[j] = Poll /\ Told(j)' /\ chip'.wip => rpc'.smrdr0 = "busy"
    BY <2>1, <1>6, Zenon
  <2> QED  BY <2>2, <2>3, <2>4, <2>5, Zenon DEF Asked, Identifies
<1>16. Settles'
  <2>1. ASSUME BetweenPages  PROVE BetweenPages'
    BY <2>1, <1>2, <1>13, Zenon DEF BetweenPages
  <2>2. ASSUME NEW j \in 1..Len(Now), Transfers(j), Of(j) \in Changes, ip \in (j + 1)..(j + Rest(Of(j)))
        PROVE  Waits'
    <3>1. Transfers(j)' /\ Of(j)' = Of(j)  BY <2>2, <1>6 DEF Transfers, Of, Code
    <3>2. ip' \in (j + 1)..(j + Rest(Of(j)))  BY <2>2, <1>2
    <3>3. Pending(j)'  BY <2>2, <3>1, <3>2, <1>13, Zenon DEF Pending
    <3> QED  BY <3>3, <1>6, Zenon DEF Waits
  <2>3. ASSUME Waits  PROVE Waits'
    <3>1. PICK j \in 1..Len(Now): Pending(j)  BY <2>3 DEF Waits
    <3>2. Transfers(j) /\ Of(j) \in Changes /\ ip \in (j + 1)..(j + Rest(Of(j)))
      BY <3>1, Zenon DEF Pending
    <3> QED  BY <2>2, <3>2
  <2>4. ASSUME Of(k) \in Changes, ~Streams  PROVE Waits'
    <3>1. k \in 1..Len(Now) /\ ip \in (k + 1)..(k + Rest(Of(k)))  BY <1>4, <1>5 DEF Rest
    <3> QED  BY <2>2, <2>4, <3>1, <1>4
  <2>5. ASSUME Of(k) \in Changes, Streams  PROVE BetweenPages'
    <3>1. k = 23  BY <2>5, <1>4 DEF Started, Awaited, Of, Streams
    <3>2. ip' >= 24  BY <3>1, <1>2, <1>4
    <3> QED  BY <3>2, <1>13, Zenon DEF BetweenPages
  <2>6. (Streams' <=> Streams) /\ (Identifies' <=> Identifies) /\ (Idle' <=> Idle)
    BY <1>2, Zenon DEF Streams, Identifies, Idle
  <2>7. Of(k) \notin Changes => chip'.wip = chip.wip  BY <1>10
  <2> QED  BY <2>1, <2>3, <2>4, <2>5, <2>6, <2>7, <1>1, Zenon DEF Settles
<1>17. CacheHidesNoProgram'
  <2>1. CASE Of(k) \in Programs
    <3>1. cache' = << >>  BY <2>1, <1>2, <1>4
    <3> QED  BY <3>1 DEF CacheHidesNoProgram
  <2>2. CASE Of(k) \notin Programs
    <3>1. \A a \in Cells: chip'.cells[a] \in {chip.cells[a], FF}  BY <2>2, <1>10
    <3>2. DOMAIN cache \subseteq Cells  BY <1>1 DEF Types
    <3> QED  BY <3>1, <3>2, <1>1, <1>2 DEF CacheHidesNoProgram
  <2> QED  BY <2>1, <2>2
<1> QED  BY <1>11, <1>12, <1>14, <1>15, <1>16, <1>17 DEF Inv

-----------------------------------------------------------------------------
(* The theorems.                                                           *)

\* The invariant holds in every reachable state.
THEOREM Invariant == Spec => []Inv
<1>1. Init => Inv  BY InitInv
<1>2. Inv /\ [Next]_vars => Inv'
  <2> SUFFICES ASSUME Inv, [Next]_vars  PROVE Inv'  OBVIOUS
  <2>1. CASE \E c \in Calls: Call(c)  BY <2>1, CallStep
  <2>2. CASE Return  BY <2>2, ReturnStep
  <2>3. CASE Write  BY <2>3, WriteStep
  <2>4. CASE Start  BY <2>4, StartStep
  <2>5. CASE AwaitEnd  BY <2>5, AwaitEndStep
  <2>6. CASE PollReady  BY <2>6, PollReadyStep
  <2>7. CASE SkipIfUnit  BY <2>7, SkipIfUnitStep
  <2>8. CASE Identify  BY <2>8, IdentifyStep
  <2>9. CASE Load  BY <2>9, LoadStep
  <2>10. CASE Transfer  BY <2>10, TransferStep
  <2>11. CASE Ready  BY <2>11, ReadyStep
  <2>12. CASE UNCHANGED vars
    <3>1. UNCHANGED <<part, chip, rpc, cache, known, call, ip, goal>>  BY <2>12 DEF vars
    <3>2. Now' = Now  BY <3>1 DEF Now
    <3>3. \A k: (Transfers(k)' <=> Transfers(k)) /\ Of(k)' = Of(k) /\ Address(Now, k)' = Address(Now, k)
      BY <3>2 DEF Transfers, Of, Code, Address
    <3>4. \A k: Set(k)' <=> Set(k)  BY <3>1, <3>3 DEF Set
    <3>5. FrameSet' /\ CacheClear'  BY <3>1, <3>2, <3>3, <3>4 DEF Inv, FrameSet, CacheClear
    <3>6. ReadSet' /\ CacheHidesNoProgram'
      BY <3>1, <3>2 DEF Inv, ReadSet, CacheHidesNoProgram
    <3>7. (Idle' <=> Idle) /\ (Fits(part, call)' <=> Fits(part, call))
      BY <3>1, Zenon DEF Idle, Fits
    <3>8. Types'  BY <3>1, <3>2, <3>7, Zenon DEF Inv, Types
    <3>9. BusyWaits'  BY <3>1, <3>2, <3>7, Zenon DEF Inv, BusyWaits
    <3>10. BusyIsUnknown'  BY <3>1, <3>7, Zenon DEF Inv, BusyIsUnknown
    <3>11. Asked'
      <4>1. \A k: Told(k)' <=> Told(k)  BY <3>1, Zenon DEF Told
      <4> QED  BY <3>1, <3>2, <4>1, Zenon DEF Inv, Asked
    <3>12. Settles'
      <4>1. \A k: Pending(k) => Pending(k)'  BY <3>1, <3>3, Zenon DEF Pending
      <4>2. Waits => Waits'  BY <3>2, <4>1, Zenon DEF Waits
      <4>3. /\ (Streams' <=> Streams) /\ (Identifies' <=> Identifies)
            /\ (BetweenPages' <=> BetweenPages)
        BY <3>1, Zenon DEF Streams, Identifies, BetweenPages
      <4> QED  BY <3>1, <3>7, <4>2, <4>3, Zenon DEF Inv, Settles
    <3> QED  BY <3>5, <3>6, <3>8, <3>9, <3>10, <3>11, <3>12 DEF Inv
  <2> QED
    BY <2>1, <2>2, <2>3, <2>4, <2>5, <2>6, <2>7, <2>8, <2>9, <2>10, <2>11, <2>12 DEF Next, Cpu
<1> QED  BY <1>1, <1>2, PTL DEF Spec

\* Nothing that has been programmed is hidden by the read cache.
THEOREM NoProgramHidden == Spec => []CacheHidesNoProgram
<1>1. Inv => CacheHidesNoProgram  BY DEF Inv
<1> QED  BY <1>1, Invariant, PTL

\* Every transfer and every load is what the flash understands, and no transfer
\* disturbs a busy flash.
THEOREM FramesAlwaysFit == Spec => []FramesFit
<1>1. ASSUME Inv  PROVE FramesFit
  <2>1. ASSUME rpc.busy
        PROVE  /\ rpc.phycnt = [memory |-> "QSPI", buffered |-> rpc.smcmr \in {"02", "12"}]
               /\ rpc.cmncr = "manual" /\ rpc.smcr = Way(rpc.smcmr)
               /\ rpc.smenr = [width |-> AddressBytes(rpc.smcmr), size |-> DataBytes(rpc.smcmr)]
               /\ Sent(rpc.smadr, rpc.smenr.width) = rpc.smadr
               /\ chip.wip => rpc.smcmr \in {"05", "9F"}
               /\ At("WaitRpcTxEnd")
    <3> DEFINE k == ip - 1
    <3>1. ~Idle /\ InProgress(k)  BY <1>1, <2>1, Busy
    <3>2. chip.wip => Of(k) \in {"05", "9F"}  BY <1>1, <2>1, BusyFlash
    <3> HIDE DEF k
    <3>3. /\ rpc.smcmr = Of(k) /\ Sent(rpc.smadr, AddressBytes(Of(k))) = rpc.smadr
          /\ rpc.smenr = [width |-> AddressBytes(Of(k)), size |-> DataBytes(Of(k))]
          /\ rpc.cmncr = "manual" /\ rpc.smcr = Way(Of(k))
          /\ rpc.phycnt = IF Of(k) \in Programs THEN QuadBuffer[3] ELSE Quad[3]
      BY <3>1 DEF InProgress
    <3>4. rpc.phycnt = [memory |-> "QSPI", buffered |-> rpc.smcmr \in {"02", "12"}]
      <4>1. QuadBuffer[3] = [memory |-> "QSPI", buffered |-> TRUE]
            /\ Quad[3] = [memory |-> "QSPI", buffered |-> FALSE]
        BY DEF QuadBuffer, Quad
      <4>2. CASE Of(k) \in Programs
        <5>1. (rpc.smcmr \in {"02", "12"}) = TRUE  BY <3>3, <4>2 DEF Programs
        <5> QED  BY <5>1, <3>3, <4>1, <4>2
      <4>3. CASE Of(k) \notin Programs
        <5>1. (rpc.smcmr \in {"02", "12"}) = FALSE  BY <3>3, <4>3 DEF Programs
        <5> QED  BY <5>1, <3>3, <4>1, <4>3
      <4> QED  BY <4>2, <4>3
    <3>5. At("WaitRpcTxEnd")
      <4>1. Now[ip] = Await /\ ip = k + 1 /\ k \in 6..(Len(Now) - 1) /\ Len(Now) \in Nat
        BY <1>1, <3>1, Here DEF InProgress, Inv
      <4> QED  BY <4>1, <3>1 DEF At, Ended, Op, Now, Await
    <3>6. Sent(rpc.smadr, rpc.smenr.width) = rpc.smadr
      <4>1. rpc.smenr.width = AddressBytes(Of(k))  BY <3>3
      <4> QED  BY <3>3, <4>1
    <3> QED  BY <3>2, <3>3, <3>4, <3>5, <3>6
  <2>2. ASSUME At("load")
        PROVE  /\ rpc.phycnt = [memory |-> "QSPI", buffered |-> FALSE] /\ rpc.cmncr = "external"
               /\ rpc.drenr = AddressBytes(rpc.drcmr) /\ Sent(Op[2], rpc.drenr) = Op[2]
               /\ ~chip.wip
    <3>1. Loaded(call, Now, ip) /\ ip > 5 /\ ~chip.wip  BY <1>1, <2>2, Loading
    <3>2. ip \in 1..Len(Now) /\ Now[ip] = Op  BY <1>1, <2>2, Current DEF Inv
    <3>3. PICK code \in {"0B", "0C"}:
            /\ Now[4] = <<"write", "drcmr", code>> /\ Now[5] = <<"write", "drenr", AddressBytes(code)>>
            /\ Sent(Now[ip][2], AddressBytes(code)) = Now[ip][2]
      BY <3>1 DEF Loaded
    <3>4. Now[ip][1] = "load"  BY <3>1 DEF Loaded
    <3>5. /\ rpc.phycnt = Quad[3] /\ rpc.cmncr = "external"
          /\ rpc.drcmr = Now[4][3] /\ rpc.drenr = Now[5][3]
      BY <1>1, <3>1, <3>2, <3>4 DEF Inv, ReadSet
    <3> QED  BY <3>1, <3>2, <3>3, <3>5 DEF Quad
  <2> QED  BY <2>1, <2>2 DEF FramesFit
<1> QED  BY <1>1, Invariant, PTL

-----------------------------------------------------------------------------
(* The contract: what the call in progress has done so far.                *)

\* A change at k has been enabled, and the flash has not been told of it yet.
Wren(k) == k - Lead(Of(k))
Primed(k) ==
  /\ Transfers(k) /\ Of(k) \in Changes /\ ip \in (Wren(k) + 1)..(k + 1)
  /\ ip = Wren(k) + 1 => ~rpc.busy
  /\ ip = k + 1 => rpc.busy
EnabledSet == \A k \in 1..Len(Now): Primed(k) => chip.wel = TRUE /\ ~chip.wip

\* The data of a transfer are there until it has ended.
Data(k) ==
  /\ Of(k) \in Programs /\ ip \in (k - 4)..(k + 1) => rpc.wrbuf = Index(Now, k)
  /\ Of(k) = "71" /\ ip \in (k - 5)..(k + 1) => rpc.smwdr0 = CellsOf[256]
DataSet == \A k \in 1..Len(Now): Transfers(k) => Data(k)

\* What the flash erases at a time is what the driver counts on.
Selecting == part = "S25FS128S" /\ call[1] = "erase"
UnitSet ==
  /\ Supported(part) /\ part # "S25FS128S" => chip.unit = gQspi_sa_size(part)
  /\ Selecting /\ (ip > 23 \/ (ip = 23 /\ ~rpc.busy)) => chip.unit = CellsOf[256]
  /\ Selecting /\ Told(8) /\ rpc.smrdr0 = "256KB" => chip.unit = CellsOf[256]

\* What a call makes of a cell of the contents m.
Targets(p, c, a) ==
  \/ c[1] = "erase" /\ a \div gQspi_sa_size(p) \in (c[2] \div gQspi_sa_size(p))..(c[3] \div gQspi_sa_size(p))
  \/ c[1] = "parameterErase" /\ a \div CellsOf[4] \in (c[2] \div CellsOf[4])..(c[3] \div CellsOf[4])
  \/ c[1] = "bulkErase"
  \/ c[1] \in {"save", "page"} /\ a \in c[2]..c[3]
Aim(p, c, m, a) ==
  IF ~Targets(p, c, a) THEN m[a]
  ELSE IF c[1] \in {"save", "page"} THEN Programmed(m[a], Contract!Datum(a - c[2])) ELSE FF

\* The goal of the call in progress is still the same, whatever it has done.
Aims ==
  ~Idle => goal = [a \in Cells |-> goal[a]] /\ \A a \in Cells: goal[a] = Aim(part, call, chip.cells, a)

\* The cells of the transfers that have ended are as the call wants them.
Passed(k) == ip > k + 1 \/ (ip = k + 1 /\ ~rpc.busy)
Reaches(k, a) ==
  \/ Of(k) = "60"
  \/ Of(k) \in {"D8", "DC"} /\ a \div gQspi_sa_size(part) = Address(Now, k) \div gQspi_sa_size(part)
  \/ Of(k) \in {"20", "21"} /\ a \div CellsOf[4] = Address(Now, k) \div CellsOf[4]
  \/ Of(k) \in Programs /\ a = Address(Now, k)
Done(k) == \A a \in Cells: Reaches(k, a) => chip.cells[a] = goal[a]
AllDone == ~Idle => \A k \in 1..Len(Now): Transfers(k) /\ Passed(k) => Done(k)

Contracted == EnabledSet /\ DataSet /\ UnitSet /\ Aims /\ AllDone

\* What stands around a change.
LEMMA ChangeAt ==
  ASSUME Types, NEW k \in 1..Len(Now), Transfers(k), Of(k) \in Changes
  PROVE  /\ k \in Int /\ Wren(k) \in Int /\ Wren(k) > 5 /\ Wren(k) + 7 <= k /\ k < Len(Now)
         /\ Now[Wren(k)][1] = "start" /\ Of(Wren(k)) = "06"
         /\ \A j \in (Wren(k) + 1)..(k - 1): Plain(Now, j)
         /\ Meant(part, call, Of(k), Address(Now, k), Index(Now, k), k)
<1>1. Started(part, call, Now, k) /\ FrameOf(Now, k)  BY StartedAt
<1>2. Enabled(Now, k) /\ Meant(part, call, Of(k), Address(Now, k), Index(Now, k), k)
  BY <1>1 DEF Started, Of
<1>3. k \in 6..(Len(Now) - 1) /\ Len(Now) \in Nat  BY <1>1, Here DEF FrameOf
<1>4. Lead(Of(k)) \in 7..9  BY DEF Lead
<1>5. /\ Wren(k) > 5 /\ Starts(Now, Wren(k), "06")
      /\ \A j \in (Wren(k) + 1)..(k - 1): Plain(Now, j)
  BY <1>2 DEF Enabled, Wren, Of
<1>6. k \in Int /\ Wren(k) \in Int /\ Wren(k) + 7 <= k /\ k < Len(Now)  BY <1>3, <1>4 DEF Wren
<1> QED  BY <1>2, <1>5, <1>6 DEF Starts, Of

\* The data of a transfer are written before the rest of its frame.
LEMMA DataAt ==
  ASSUME Types, NEW k \in 1..Len(Now), Transfers(k)
  PROVE  /\ Of(k) \in Programs => Now[k - 5] = <<"write", "wrbuf", Index(Now, k)>>
         /\ Of(k) = "71" => Now[k - 6] = <<"write", "smwdr0", CellsOf[256]>> /\ Now[k - 5] = Quad /\ k > 6
<1>1. FrameOf(Now, k) /\ Framed(Now, k)  BY StartedAt
<1>2. "71" \notin Programs  BY DEF Programs
<1> QED  BY <1>1, <1>2 DEF FrameOf, Framed, Of

\* The driver goes on to the next operation.
GoesOn ==
  /\ ~Idle /\ ip \in 1..Len(Now) /\ ~rpc.busy /\ ip' = ip + 1 /\ Now' = Now
  /\ UNCHANGED <<part, chip, call, goal>>
  /\ Now[ip][1] = "start" => rpc'.busy
  /\ rpc'.smrdr0 = rpc.smrdr0
  /\ rpc'.wrbuf = IF Now[ip][1] = "write" /\ Now[ip][2] = "wrbuf" THEN Now[ip][3] ELSE rpc.wrbuf
  /\ rpc'.smwdr0 = IF Now[ip][1] = "write" /\ Now[ip][2] = "smwdr0" THEN Now[ip][3] ELSE rpc.smwdr0

\* What depends on the script only stays the same with it.
LEMMA SameScript ==
  ASSUME Now' = Now, UNCHANGED <<part, call>>
  PROVE  \A k: /\ Transfers(k)' <=> Transfers(k)
               /\ Of(k)' = Of(k) /\ Address(Now, k)' = Address(Now, k) /\ Index(Now, k)' = Index(Now, k)
               /\ Wren(k)' = Wren(k) /\ \A a: Reaches(k, a)' <=> Reaches(k, a)
<1>1. \A k: /\ Transfers(k)' <=> Transfers(k)
            /\ Of(k)' = Of(k) /\ Address(Now, k)' = Address(Now, k) /\ Index(Now, k)' = Index(Now, k)
  BY DEF Transfers, Of, Code, Address, Index
<1>2. \A k: Wren(k)' = Wren(k)  BY <1>1 DEF Wren, Lead
<1>3. \A k, a: Reaches(k, a)' <=> Reaches(k, a)  BY <1>1 DEF Reaches
<1> QED  BY <1>1, <1>2, <1>3

\* Where a write of data to a register is not, the register stays.
LEMMA FrameKeeps ==
  ASSUME Types, NEW k \in 1..Len(Now), Transfers(k), ip \in (k - 4)..k, NEW r \in {"wrbuf", "smwdr0"}
  PROVE  ~(Now[ip][1] = "write" /\ Now[ip][2] = r)
<1>1. FrameOf(Now, k) /\ k \in Int /\ Now[k][1] = "start"  BY StartedAt DEF Transfers
<1>2. ip = k \/ ip = k - 1 \/ ip = k - 2 \/ ip = k - 3 \/ ip = k - 4  BY <1>1
<1>3. Now[k - 1][2] = "smenr" /\ Now[k - 2][2] = "smadr" /\ Now[k - 3][2] = "smcmr" /\ Now[k - 4][2] = "cmncr"
  BY <1>1 DEF FrameOf
<1> QED  BY <1>1, <1>2, <1>3

\* The driver goes on with a change that is enabled.
LEMMA GoesOnEnabled == ASSUME Types, EnabledSet, GoesOn  PROVE EnabledSet'
<1>1. ip' = ip + 1 /\ ip \in 1..Len(Now) /\ ~rpc.busy /\ Now' = Now /\ chip' = chip
      /\ (Now[ip][1] = "start" => rpc'.busy) /\ UNCHANGED <<part, call>>
  BY DEF GoesOn
<1>2. ASSUME NEW k \in 1..Len(Now), Primed(k)'  PROVE chip.wel = TRUE /\ ~chip.wip
  <2>1. Transfers(k) /\ Of(k) \in Changes /\ Of(k)' = Of(k) /\ Wren(k)' = Wren(k)
    BY <1>1, <1>2, SameScript DEF Primed
  <2>2. ip + 1 \in (Wren(k) + 1)..(k + 1) /\ (ip + 1 = Wren(k) + 1 => ~rpc'.busy)
    BY <1>1, <1>2, <2>1 DEF Primed
  <2>3. k \in Int /\ Wren(k) \in Int /\ Now[Wren(k)][1] = "start"  BY <2>1, ChangeAt
  <2>4. ip # Wren(k)  BY <1>1, <2>2, <2>3
  <2>5. ip \in (Wren(k) + 1)..(k + 1) /\ ip # k + 1  BY <1>1, <2>2, <2>3, <2>4
  <2>6. Primed(k)  BY <1>1, <2>1, <2>5, Zenon DEF Primed
  <2> QED  BY <2>6 DEF EnabledSet
<1> QED  BY <1>1, <1>2, Zenon DEF EnabledSet

\* The driver goes on with the data of a transfer.
LEMMA GoesOnData == ASSUME Types, DataSet, GoesOn  PROVE DataSet'
<1>1. ip' = ip + 1 /\ ip \in 1..Len(Now) /\ Now' = Now /\ UNCHANGED <<part, call>>
  BY DEF GoesOn
<1>2. ASSUME NEW k \in 1..Len(Now), Transfers(k)  PROVE Data(k)'
  <2>1. Of(k)' = Of(k) /\ Index(Now, k)' = Index(Now, k)  BY <1>1, SameScript
  <2>2. k \in Int /\ ip \in Int  BY <1>1
  <2>3. Data(k)  BY <1>2 DEF DataSet
  <2>4. ASSUME Of(k) \in Programs, ip + 1 \in (k - 4)..(k + 1)  PROVE rpc'.wrbuf = Index(Now, k)
    <3>1. ip = k - 5 \/ ip \in (k - 4)..k  BY <2>2, <2>4
    <3>2. CASE ip = k - 5
      <4>1. Now[ip] = <<"write", "wrbuf", Index(Now, k)>>  BY <1>2, <2>4, <3>2, DataAt
      <4> QED  BY <4>1 DEF GoesOn
    <3>3. CASE ip \in (k - 4)..k
      <4>1. rpc.wrbuf = Index(Now, k)
        <5>1. ip \in (k - 4)..(k + 1)  BY <2>2, <3>3
        <5> QED  BY <5>1, <2>3, <2>4 DEF Data
      <4>2. ~(Now[ip][1] = "write" /\ Now[ip][2] = "wrbuf")  BY <1>2, <3>3, FrameKeeps
      <4> QED  BY <4>1, <4>2 DEF GoesOn
    <3> QED  BY <3>1, <3>2, <3>3
  <2>5. ASSUME Of(k) = "71", ip + 1 \in (k - 5)..(k + 1)  PROVE rpc'.smwdr0 = CellsOf[256]
    <3>1. ip = k - 6 \/ ip \in (k - 5)..k  BY <2>2, <2>5
    <3>2. CASE ip = k - 6
      <4>1. Now[ip] = <<"write", "smwdr0", CellsOf[256]>>  BY <1>2, <2>5, <3>2, DataAt
      <4> QED  BY <4>1 DEF GoesOn
    <3>3. CASE ip \in (k - 5)..k
      <4>1. rpc.smwdr0 = CellsOf[256]
        <5>1. ip \in (k - 5)..(k + 1)  BY <2>2, <3>3
        <5> QED  BY <5>1, <2>3, <2>5 DEF Data
      <4>2. ~(Now[ip][1] = "write" /\ Now[ip][2] = "smwdr0")
        <5>1. ip = k - 5 \/ ip \in (k - 4)..k  BY <2>2, <3>3
        <5>2. CASE ip = k - 5
          <6>1. Now[ip] = Quad  BY <1>2, <2>5, <5>2, DataAt
          <6> QED  BY <6>1 DEF Quad
        <5>3. CASE ip \in (k - 4)..k  BY <1>2, <5>3, FrameKeeps
        <5> QED  BY <5>1, <5>2, <5>3
      <4> QED  BY <4>1, <4>2 DEF GoesOn
    <3> QED  BY <3>1, <3>2, <3>3
  <2>6. Of(k)' \in Programs /\ ip' \in (k - 4)..(k + 1) => rpc'.wrbuf = Index(Now, k)'
    BY <1>1, <2>1, <2>4
  <2>7. Of(k)' = "71" /\ ip' \in (k - 5)..(k + 1) => rpc'.smwdr0 = CellsOf[256]  BY <1>1, <2>1, <2>5
  <2> QED  BY <2>6, <2>7, Zenon DEF Data
<1>3. \A k: Transfers(k)' <=> Transfers(k)  BY <1>1, SameScript
<1> QED  BY <1>1, <1>2, <1>3, Zenon DEF DataSet

\* Where the S25FS128S is told what to erase at a time.
LEMMA SelectingAt ==
  ASSUME Types, Selecting
  PROVE  /\ Now[22][1] = "start" /\ Of(22) = "71" /\ Now[6][1] = "start" /\ Of(6) = "65"
         /\ Now[8] = <<"unit?", "256KB", 25>> /\ Now[34] = Quad /\ Now[39][1] = "start" /\ Of(39) = "06"
         /\ Len(Now) > 39 /\ Now[7] = Await
<1>1. Covers(part, call, Now)  BY Here DEF WellFormed
<1>2. Chosen(part, call, Now, 8) /\ Starts(Now, 22, "71")  BY <1>1 DEF Covers, Selecting
<1>3. Starts(Now, 6, "65") /\ Framed(Now, 6)  BY <1>2 DEF Chosen
<1>4. FrameOf(Now, 6)  BY <1>3, Frames DEF Starts
<1>5. 6 + 1 = 7  OBVIOUS
<1> QED  BY <1>2, <1>3, <1>4, <1>5 DEF Chosen, Starts, Of, FrameOf

\* The driver goes on with the sector size that is set.
LEMMA GoesOnUnits == ASSUME Types, UnitSet, GoesOn  PROVE UnitSet'
<1>1. ip' = ip + 1 /\ ip \in Int /\ ~rpc.busy /\ UNCHANGED <<part, call, chip>>
      /\ (Now[ip][1] = "start" => rpc'.busy) /\ rpc'.smrdr0 = rpc.smrdr0
  BY DEF GoesOn
<1>2. ASSUME Selecting, ip + 1 > 23 \/ (ip + 1 = 23 /\ ~rpc'.busy)  PROVE chip.unit = CellsOf[256]
  <2>1. ip # 22 \/ rpc'.busy  BY <1>1, <1>2, SelectingAt
  <2>2. ip > 23 \/ ip = 23  BY <1>1, <1>2, <2>1
  <2> QED  BY <1>1, <1>2, <2>2 DEF UnitSet
<1>3. ASSUME Selecting, Told(8)', rpc.smrdr0 = "256KB"  PROVE chip.unit = CellsOf[256]
  <2>1. ip # 6 \/ rpc'.busy  BY <1>1, <1>3, SelectingAt
  <2>2. ip = 7  BY <1>1, <1>3, <2>1 DEF Told
  <2>3. Told(8)
    <3>1. 8 - 1 = 7  OBVIOUS
    <3> QED  BY <3>1, <2>2, <1>1, Zenon DEF Told
  <2> QED  BY <1>3, <2>3 DEF UnitSet
<1>4. Selecting' <=> Selecting  BY <1>1 DEF Selecting
<1>5. Supported(part) /\ part # "S25FS128S" => chip.unit = gQspi_sa_size(part)  BY DEF UnitSet
<1> QED  BY <1>1, <1>2, <1>3, <1>4, <1>5 DEF UnitSet

\* The driver goes on with nothing done.
LEMMA GoesOnDone == ASSUME Types, Aims, AllDone, GoesOn  PROVE Aims' /\ AllDone'
<1>1. ip' = ip + 1 /\ ip \in 1..Len(Now) /\ ~rpc.busy /\ Now' = Now /\ UNCHANGED <<part, call, chip, goal>>
      /\ (Now[ip][1] = "start" => rpc'.busy) /\ ~Idle
  BY DEF GoesOn
<1>2. Aims'  BY <1>1 DEF Aims, Idle
<1>3. ASSUME NEW k \in 1..Len(Now), Transfers(k), Passed(k)'  PROVE Passed(k)
  <2>1. ip # k \/ rpc'.busy  BY <1>1, <1>3 DEF Transfers
  <2>2. ip + 1 > k + 1 \/ (ip + 1 = k + 1 /\ ~rpc'.busy)  BY <1>1, <1>3 DEF Passed
  <2>3. ip > k + 1 \/ ip = k + 1
    <3>1. ip \in Int /\ k \in Int  BY <1>1
    <3> QED  BY <3>1, <2>1, <2>2
  <2> QED  BY <1>1, <2>3, Zenon DEF Passed
<1>4. ASSUME NEW k \in 1..Len(Now), Transfers(k), Passed(k)'  PROVE Done(k)'
  <2>1. Done(k)  BY <1>1, <1>3, <1>4 DEF AllDone
  <2>2. \A a: Reaches(k, a)' <=> Reaches(k, a)  BY <1>1, SameScript
  <2> QED  BY <1>1, <2>1, <2>2 DEF Done
<1>5. \A k: Transfers(k)' <=> Transfers(k)  BY <1>1, SameScript
<1>6. AllDone'  BY <1>1, <1>4, <1>5, Zenon DEF AllDone
<1> QED  BY <1>2, <1>6

\* All of that together.
LEMMA GoesOnContracted == ASSUME Types, Contracted, GoesOn  PROVE Contracted'
BY GoesOnEnabled, GoesOnData, GoesOnUnits, GoesOnDone, Zenon DEF Contracted

\* The driver goes back or forth to a command that changes nothing.
JumpsTo(f) ==
  /\ ~Idle /\ ~rpc.busy /\ Now' = Now /\ UNCHANGED <<part, chip, rpc, call, goal>>
  /\ f \in 1..Len(Now) /\ Transfers(f) /\ Of(f) \notin Changes /\ ip' = f - 5

\* A jump does not lead between a change and what enables it.
LEMMA JumpsEnabled == ASSUME Types, NEW f, JumpsTo(f)  PROVE EnabledSet'
<1>1. /\ ~rpc'.busy /\ Now' = Now /\ ip' = f - 5 /\ UNCHANGED <<part, call>>
      /\ f \in 1..Len(Now) /\ Transfers(f) /\ Of(f) \notin Changes
  BY DEF JumpsTo
<1>2. FrameOf(Now, f) /\ Now[f][1] = "start" /\ f \in Int  BY <1>1, StartedAt DEF Transfers
<1>3. ASSUME NEW k \in 1..Len(Now), Primed(k)'  PROVE FALSE
  <2>1. Transfers(k) /\ Of(k) \in Changes /\ Of(k)' = Of(k) /\ Wren(k)' = Wren(k)
    BY <1>1, <1>3, SameScript DEF Primed
  <2>2. /\ k \in Int /\ Wren(k) \in Int /\ Now[k][1] = "start"
        /\ \A j \in (Wren(k) + 1)..(k - 1): Plain(Now, j)
    BY <2>1, ChangeAt DEF Transfers
  <2>3. f - 5 \in (Wren(k) + 1)..(k + 1) /\ f - 5 # k + 1  BY <1>1, <1>3, <2>1 DEF Primed
  <2>4. f # k  BY <1>1, <2>1
  <2>5. CASE f < k
    <3>1. f \in (Wren(k) + 1)..(k - 1)  BY <1>2, <2>2, <2>3, <2>5
    <3>2. Plain(Now, f)  BY <2>2, <3>1
    <3> QED  BY <1>2, <3>2 DEF Plain
  <2>6. CASE f > k
    <3>1. k = f - 5 \/ k = f - 4 \/ k = f - 3 \/ k = f - 2 \/ k = f - 1  BY <1>2, <2>2, <2>3, <2>6
    <3>2. Now[f - 5] = Quad  BY <1>1, <1>2 DEF FrameOf, Of, Changes
    <3>3. /\ Now[f - 5][1] = "write" /\ Now[f - 4][1] = "write" /\ Now[f - 3][1] = "write"
          /\ Now[f - 2][1] = "write" /\ Now[f - 1][1] = "write"
      BY <1>2, <3>2 DEF FrameOf, Quad
    <3> QED  BY <2>2, <3>1, <3>3
  <2> QED  BY <1>2, <2>2, <2>4, <2>5, <2>6
<1> QED  BY <1>1, <1>3, Zenon DEF EnabledSet

\* Nor does it lead between the data of a transfer and its start.
LEMMA JumpsData == ASSUME Types, NEW f, JumpsTo(f)  PROVE DataSet'
<1>1. /\ Now' = Now /\ ip' = f - 5 /\ UNCHANGED <<part, call>>
      /\ f \in 1..Len(Now) /\ Transfers(f) /\ Of(f) \notin Changes
  BY DEF JumpsTo
<1>2. FrameOf(Now, f) /\ f \in Int  BY <1>1, StartedAt
<1>3. Now[f - 5] = Quad  BY <1>1, <1>2 DEF FrameOf, Of, Changes
<1>4. ASSUME NEW k \in 1..Len(Now), Transfers(k)  PROVE Data(k)'
  <2>1. Of(k)' = Of(k) /\ Index(Now, k)' = Index(Now, k)  BY <1>1, SameScript
  <2>2. Framed(Now, k) /\ Now[k][1] = "start" /\ k \in Int  BY <1>4, StartedAt DEF Transfers
  <2>3. f - 5 \notin (k - 4)..(k + 1)  BY <1>3, <2>2, Landing
  <2>4. Of(k) = "71" => f # k  BY <1>1 DEF Changes
  <2>5. Of(k) = "71" => f - 5 \notin (k - 5)..(k + 1)  BY <1>2, <2>2, <2>3, <2>4
  <2> QED  BY <1>1, <2>1, <2>3, <2>5, Zenon DEF Data
<1>5. \A k: Transfers(k)' <=> Transfers(k)  BY <1>1, SameScript
<1> QED  BY <1>1, <1>4, <1>5, Zenon DEF DataSet

\* What has been done is undone by no jump that passes no change.
LEMMA JumpsDone ==
  ASSUME Types, Aims, AllDone, NEW f, JumpsTo(f),
         \A k \in 1..Len(Now): Transfers(k) /\ f - 5 > k => Passed(k) \/ \A a \in Cells: ~Reaches(k, a)
  PROVE  Aims' /\ AllDone'
<1>1. /\ ~Idle /\ Now' = Now /\ ip' = f - 5 /\ UNCHANGED <<part, chip, rpc, call, goal>> /\ f \in Int
  BY DEF JumpsTo
<1>2. Aims'  BY <1>1 DEF Aims, Idle
<1>3. ASSUME NEW k \in 1..Len(Now), Transfers(k), Passed(k)'  PROVE Done(k)'
  <2>1. f - 5 > k  BY <1>1, <1>3 DEF Passed
  <2>2. Passed(k) \/ \A a \in Cells: ~Reaches(k, a)  BY <1>3, <2>1
  <2>3. Done(k)  BY <1>1, <1>3, <2>2 DEF AllDone, Done
  <2>4. \A a: Reaches(k, a)' <=> Reaches(k, a)  BY <1>1, SameScript
  <2> QED  BY <1>1, <2>3, <2>4 DEF Done
<1>4. \A k: Transfers(k)' <=> Transfers(k)  BY <1>1, SameScript
<1> QED  BY <1>1, <1>2, <1>3, <1>4, Zenon DEF AllDone

\* The controller is idle where the driver does not wait for it.
LEMMA NotBusy == ASSUME Inv, Now[ip] # Await  PROVE ~rpc.busy
BY DEF Inv, BusyWaits

\* Operations that read and write neither register keep the data.
LEMMA SameRegisters ==
  ASSUME Types, NEW kind, At(kind), kind \notin {"write", "start"}, ~rpc.busy, rpc' = rpc, ip' = ip + 1,
         UNCHANGED <<part, chip, call, goal>>
  PROVE  GoesOn
<1>1. ~Idle /\ ip \in 1..Len(Now) /\ Now[ip][1] = kind  BY Current
<1>2. Now' = Now  BY DEF Now
<1> QED  BY <1>1, <1>2 DEF GoesOn

\* A write goes on.
LEMMA WriteGoesOn == ASSUME Inv, Write  PROVE GoesOn
<1>1. Types  BY DEF Inv
<1>2. ~Idle /\ ip \in 1..Len(Now) /\ Now[ip][1] = "write" /\ Now[ip] = Op  BY <1>1, Current DEF Write
<1>3. /\ ip' = ip + 1 /\ UNCHANGED <<part, chip, call, goal>>
      /\ rpc' = [rpc EXCEPT ![Now[ip][2]] = Now[ip][3]]
  BY <1>2 DEF Write, Step
<1>4. ~rpc.busy /\ rpc'.smrdr0 = rpc.smrdr0 /\ Now' = Now /\ Now[ip][2] \in Written  BY WriteSets
<1>5. rpc = [n \in Names |-> rpc[n]]  BY <1>1 DEF Types
<1>6. \A n \in Names: rpc'[n] = IF n = Now[ip][2] THEN Now[ip][3] ELSE rpc[n]
  BY <1>3, <1>5
<1>7. /\ rpc'.wrbuf = IF Now[ip][2] = "wrbuf" THEN Now[ip][3] ELSE rpc.wrbuf
      /\ rpc'.smwdr0 = IF Now[ip][2] = "smwdr0" THEN Now[ip][3] ELSE rpc.smwdr0
  BY <1>6 DEF Names
<1> QED  BY <1>2, <1>3, <1>4, <1>7 DEF GoesOn

\* A start goes on.
LEMMA StartGoesOn == ASSUME Inv, Start  PROVE GoesOn
<1>1. Types  BY DEF Inv
<1>2. ~Idle /\ ip \in 1..Len(Now) /\ Now[ip][1] = "start" /\ Now[ip] = Op  BY <1>1, Current DEF Start
<1>3. /\ ip' = ip + 1 /\ UNCHANGED <<part, chip, call, goal>>
      /\ rpc' = [rpc EXCEPT !.smcr = Now[ip][2], !.busy = TRUE]
  BY <1>2 DEF Start, Step
<1>4. Now[ip] # Await  BY <1>2 DEF Await
<1>5. ~rpc.busy  BY <1>4, NotBusy
<1>6. rpc = [n \in Names |-> rpc[n]]  BY <1>1 DEF Types
<1>7. rpc'.busy = TRUE /\ rpc'.wrbuf = rpc.wrbuf /\ rpc'.smwdr0 = rpc.smwdr0 /\ rpc'.smrdr0 = rpc.smrdr0
  BY <1>3, <1>6 DEF Names
<1>8. Now' = Now  BY <1>3 DEF Now
<1> QED  BY <1>2, <1>3, <1>5, <1>7, <1>8 DEF GoesOn

\* The poll goes on or jumps back.
LEMMA PollReadyContracted == ASSUME Inv, Contracted, PollReady  PROVE Contracted'
<1>1. Types  BY DEF Inv
<1>2. /\ ~Idle /\ ip \in 1..Len(Now) /\ Now[ip][1] = "ready?" /\ Sound(part, call, Now, ip)
      /\ Now[ip] = Op
  BY <1>1, Current DEF PollReady
<1>3. Polled(Now, ip) /\ Now[ip] = Poll  BY <1>2, Kinds DEF Polled
<1>4. /\ ip' = IF rpc.smrdr0 = "busy" THEN ip - 7 ELSE ip + 1
      /\ UNCHANGED <<part, chip, rpc, call, goal>>
  BY <1>2, <1>3 DEF PollReady, Poll
<1>5. Now[ip] # Await  BY <1>3 DEF Poll, Await
<1>6. ~rpc.busy  BY <1>5, NotBusy
<1>7. CASE rpc.smrdr0 # "busy"
  <2>1. At("ready?") /\ rpc' = rpc /\ ip' = ip + 1  BY <1>4, <1>7 DEF PollReady
  <2>2. GoesOn  BY <2>1, <1>1, <1>4, <1>6, SameRegisters
  <2> QED  BY <2>2, <1>1, GoesOnContracted
<1>8. CASE rpc.smrdr0 = "busy"
  <2> DEFINE f == ip - 2
  <2>1. /\ ip > 7 /\ Now[f][1] = "start" /\ Of(f) = "05" /\ f \in 1..Len(Now) /\ Now[ip - 7] = Quad
    BY <1>1, <1>2, <1>3, PollAt
  <2>2. ip' = ip - 7 /\ ip \in Int /\ ip - 7 = f - 5  BY <1>2, <1>4, <1>8
  <2>3. Now' = Now  BY <1>4 DEF Now
  <2> HIDE DEF f
  <2>4. JumpsTo(f)
    <3>1. Of(f) \notin Changes  BY <2>1 DEF Changes, Erases, Programs
    <3> QED  BY <3>1, <2>1, <2>2, <2>3, <1>2, <1>4, <1>6, Zenon DEF JumpsTo, Transfers
  <2>5. EnabledSet' /\ DataSet'  BY <1>1, <2>4, JumpsEnabled, JumpsData
  <2>6. Aims' /\ AllDone'
    <3>1. ASSUME NEW k \in 1..Len(Now), f - 5 > k  PROVE Passed(k)
      <4>1. ip > k + 1  BY <3>1, <2>2
      <4> QED  BY <4>1 DEF Passed
    <3> QED  BY <3>1, <2>4, <1>1, JumpsDone DEF Contracted
  <2>7. UnitSet'
    <3>1. UnitSet  BY DEF Contracted
    <3>2. ASSUME Selecting  PROVE ip - 7 # 8 /\ ip - 7 # 7
      BY <3>2, <1>1, <2>1, SelectingAt DEF Quad, Await
    <3>3. Selecting' <=> Selecting  BY <1>4 DEF Selecting
    <3>4. ip - 7 > 23 \/ ip - 7 = 23 => ip > 23  BY <2>2
    <3>5. Selecting => ~Told(8)'
      <4>1. 8 - 1 = 7  OBVIOUS
      <4> QED  BY <4>1, <3>2, <2>2, Zenon DEF Told
    <3> QED  BY <3>1, <3>3, <3>4, <3>5, <2>2, <1>4 DEF UnitSet
  <2> QED  BY <2>5, <2>6, <2>7 DEF Contracted
<1> QED  BY <1>7, <1>8

\* Before the choice of the sector size nothing is erased.
LEMMA NoneReached ==
  ASSUME Types, Selecting, NEW k \in 1..Len(Now), Transfers(k), k < 34, NEW a
  PROVE  ~Reaches(k, a)
<1> SUFFICES ASSUME Reaches(k, a)  PROVE FALSE  OBVIOUS
<1>1. Of(k) \in Erases \cup Programs  BY DEF Reaches, Erases
<1>2. Meant(part, call, Of(k), Address(Now, k), Index(Now, k), k) /\ k \in Int
  <2>1. Of(k) \in Changes  BY <1>1 DEF Changes
  <2> QED  BY <2>1, ChangeAt
<1>3. call[1] = "erase" /\ part = "S25FS128S"  BY DEF Selecting
<1>4. Of(k) \in {"D8", "DC"}  BY <1>1, <1>2, <1>3 DEF Meant, Erases
<1>5. k > 34  BY <1>2, <1>3, <1>4 DEF Meant
<1> QED  BY <1>2, <1>5

\* The choice of the sector size goes on or jumps to the erases.
LEMMA SkipIfUnitContracted == ASSUME Inv, Contracted, SkipIfUnit  PROVE Contracted'
<1>1. Types  BY DEF Inv
<1>2. /\ ~Idle /\ ip \in 1..Len(Now) /\ Now[ip][1] = "unit?" /\ Sound(part, call, Now, ip)
      /\ Now[ip] = Op
  BY <1>1, Current DEF SkipIfUnit
<1>3. Chosen(part, call, Now, ip)  BY <1>2, Kinds
<1>4. ip = 8 /\ Selecting  BY <1>3 DEF Chosen, Selecting
<1>5. /\ ip' = (IF rpc.smrdr0 = "256KB" THEN 34 ELSE ip + 1)
      /\ UNCHANGED <<part, chip, rpc, call, goal>>
  <2>1. Op = <<"unit?", "256KB", 25>>  BY <1>2, <1>3 DEF Chosen
  <2>2. ip + 25 + 1 = 34  BY <1>4
  <2> QED  BY <2>1, <2>2 DEF SkipIfUnit
<1>6. Now[ip] # Await  BY <1>2 DEF Await
<1>7. ~rpc.busy  BY <1>6, NotBusy
<1>8. CASE rpc.smrdr0 # "256KB"
  <2>1. At("unit?") /\ rpc' = rpc /\ ip' = ip + 1  BY <1>5, <1>8 DEF SkipIfUnit
  <2>2. GoesOn  BY <2>1, <1>1, <1>5, <1>7, SameRegisters
  <2> QED  BY <2>2, <1>1, GoesOnContracted
<1>9. CASE rpc.smrdr0 = "256KB"
  <2>1. Now[39][1] = "start" /\ Of(39) = "06" /\ Len(Now) > 39 /\ Len(Now) \in Nat
    BY <1>1, <1>4, SelectingAt, Here
  <2>2. ip' = 39 - 5 /\ 39 - 5 = 34 /\ 39 \in 1..Len(Now)  BY <2>1, <1>5, <1>9
  <2>3. Now' = Now  BY <1>5 DEF Now
  <2>4. JumpsTo(39)
    <3>1. Of(39) \notin Changes  BY <2>1 DEF Changes, Erases, Programs
    <3> QED  BY <3>1, <2>1, <2>2, <2>3, <1>2, <1>5, <1>7, Zenon DEF JumpsTo, Transfers
  <2>5. EnabledSet' /\ DataSet'  BY <1>1, <2>4, JumpsEnabled, JumpsData
  <2>6. Aims' /\ AllDone'
    <3>1. ASSUME NEW k \in 1..Len(Now), Transfers(k), 39 - 5 > k  PROVE \A a \in Cells: ~Reaches(k, a)
      <4>1. k < 34  BY <3>1
      <4> QED  BY <4>1, <3>1, <1>1, <1>4, NoneReached
    <3> QED  BY <3>1, <2>4, <1>1, JumpsDone DEF Contracted
  <2>7. UnitSet'
    <3>1. UnitSet  BY DEF Contracted
    <3>2. Told(8)  BY <1>4 DEF Told
    <3>3. chip.unit = CellsOf[256]  BY <3>1, <3>2, <1>4, <1>9 DEF UnitSet
    <3>4. Supported(part) /\ part # "S25FS128S" => chip.unit = gQspi_sa_size(part)  BY <3>1 DEF UnitSet
    <3> QED  BY <3>3, <3>4, <1>5 DEF UnitSet
  <2> QED  BY <2>5, <2>6, <2>7 DEF Contracted
<1> QED  BY <1>8, <1>9

\* A step of the driver keeps to the contract; only a return ends the call.
LEMMA CpuContracted == ASSUME Inv, Contracted, Cpu, ~Return  PROVE Contracted'
<1>1. Types  BY DEF Inv
<1>2. CASE Write  BY <1>1, <1>2, WriteGoesOn, GoesOnContracted
<1>3. CASE Start  BY <1>1, <1>3, StartGoesOn, GoesOnContracted
<1>4. CASE AwaitEnd
  <2>1. At("WaitRpcTxEnd") /\ ~rpc.busy /\ ip' = ip + 1 /\ rpc' = rpc /\ UNCHANGED <<part, chip, call, goal>>
    BY <1>4 DEF AwaitEnd, Step
  <2>2. GoesOn  BY <2>1, <1>1, SameRegisters
  <2> QED  BY <2>2, <1>1, GoesOnContracted
<1>5. CASE PollReady  BY <1>5, PollReadyContracted
<1>6. CASE SkipIfUnit  BY <1>6, SkipIfUnitContracted
<1>7. ASSUME NEW kind \in {"known?", "load"}, At(kind), ip' = ip + 1, rpc' = rpc,
             UNCHANGED <<part, chip, call, goal>>
      PROVE  Contracted'
  <2>1. Now[ip][1] = kind  BY <1>1, <1>7, Current
  <2>2. Now[ip] # Await  BY <2>1 DEF Await
  <2>3. ~rpc.busy  BY <2>2, NotBusy
  <2>4. GoesOn  BY <2>3, <1>1, <1>7, SameRegisters
  <2> QED  BY <2>4, <1>1, GoesOnContracted
<1>8. CASE Identify  BY <1>7, <1>8 DEF Identify, Step
<1>9. CASE Load  BY <1>7, <1>9 DEF Load, Step
<1> QED  BY <1>2, <1>3, <1>4, <1>5, <1>6, <1>8, <1>9 DEF Cpu

\* What a call wants, cell by cell.
LEMMA WantedIs ==
  ASSUME Types, NEW c \in Calls
  PROVE  Contract!Wanted(c) = [a \in Cells |-> Aim(part, c, chip.cells, a)]
<1>1. Contract!Cells = Cells /\ Contract!FF = FF  BY DEF Cells, Contract!Cells, FF, Contract!FF
<1>2. \A old, new: Contract!Programmed(old, new) = Programmed(old, new)
  BY DEF Programmed, Contract!Programmed, FF, Contract!FF, Mixed, Contract!Mixed
<1>3. c[1] \in Operations  BY CallsAre
<1>4. chip.cells = [a \in Cells |-> chip.cells[a]]  BY DEF Types
<1>5. CASE c[1] = "erase"
  <2>1. Contract!Wanted(c) = Contract!Erased(gQspi_sa_size(part), c[2], c[3])  BY <1>5 DEF Contract!Wanted
  <2>2. Contract!Wanted(c) = [a \in Cells |-> IF a \div gQspi_sa_size(part) \in
          (c[2] \div gQspi_sa_size(part))..(c[3] \div gQspi_sa_size(part)) THEN FF ELSE chip.cells[a]]
    BY <2>1, <1>1 DEF Contract!Erased
  <2>3. \A a: Targets(part, c, a) <=> a \div gQspi_sa_size(part) \in
          (c[2] \div gQspi_sa_size(part))..(c[3] \div gQspi_sa_size(part))
    BY <1>5 DEF Targets
  <2> QED  BY <2>2, <2>3, <1>5 DEF Aim
<1>6. CASE c[1] = "parameterErase"
  <2>1. Contract!Wanted(c) = Contract!Erased(CellsOf[4], c[2], c[3])  BY <1>6 DEF Contract!Wanted
  <2>2. Contract!Wanted(c) = [a \in Cells |-> IF a \div CellsOf[4] \in
          (c[2] \div CellsOf[4])..(c[3] \div CellsOf[4]) THEN FF ELSE chip.cells[a]]
    BY <2>1, <1>1 DEF Contract!Erased
  <2>3. \A a: Targets(part, c, a) <=> a \div CellsOf[4] \in (c[2] \div CellsOf[4])..(c[3] \div CellsOf[4])
    BY <1>6 DEF Targets
  <2> QED  BY <2>2, <2>3, <1>6 DEF Aim
<1>7. CASE c[1] = "bulkErase"
  <2>1. Contract!Wanted(c) = Contract!Erased(FlashSize, 0, 0)  BY <1>7 DEF Contract!Wanted
  <2>2. Contract!Wanted(c) = [a \in Cells |-> IF a \div FlashSize \in (0 \div FlashSize)..(0 \div FlashSize)
                                              THEN FF ELSE chip.cells[a]]
    BY <2>1, <1>1 DEF Contract!Erased
  <2>3. FlashSize \in Nat \ {0}  BY RpcAssumption, FlashAssumption
  <2>4. ASSUME NEW a \in Cells  PROVE a \div FlashSize \in (0 \div FlashSize)..(0 \div FlashSize)
    <3>1. a \in 0..(FlashSize - 1) /\ 0 \in 0..(FlashSize - 1) /\ 0 \in Int  BY <2>3 DEF Cells
    <3>2. (FlashSize * 0 + a) \div FlashSize = 0 /\ (FlashSize * 0 + 0) \div FlashSize = 0
      BY <2>3, <3>1, DividedOnce
    <3>3. FlashSize * 0 + a = a /\ FlashSize * 0 + 0 = 0  BY <2>3, <3>1
    <3>4. a \div FlashSize = 0 /\ 0 \div FlashSize = 0  BY <3>2, <3>3
    <3> QED  BY <3>4
  <2>5. \A a: Targets(part, c, a)  BY <1>7 DEF Targets
  <2>6. Contract!Wanted(c) = [a \in Cells |-> FF]  BY <2>2, <2>4
  <2>7. \A a: Aim(part, c, chip.cells, a) = FF  BY <2>5, <1>7 DEF Aim
  <2> QED  BY <2>6, <2>7
<1>8. CASE c[1] \in {"save", "page"}
  <2>1. Contract!Wanted(c) = Contract!Saved(c[2], c[3])  BY <1>8 DEF Contract!Wanted
  <2>2. Contract!Wanted(c) = [a \in Cells |-> IF a \in c[2]..c[3]
          THEN Programmed(chip.cells[a], Contract!Datum(a - c[2])) ELSE chip.cells[a]]
    BY <2>1, <1>1, <1>2 DEF Contract!Saved
  <2>3. \A a: Targets(part, c, a) <=> a \in c[2]..c[3]  BY <1>8 DEF Targets
  <2> QED  BY <2>2, <2>3, <1>8 DEF Aim
<1>9. CASE c[1] \in {"identify", "read", "sectorRead"}
  <2>1. Contract!Wanted(c) = chip.cells  BY <1>9 DEF Contract!Wanted
  <2>2. \A a: ~Targets(part, c, a)  BY <1>9 DEF Targets
  <2>3. \A a: Aim(part, c, chip.cells, a) = chip.cells[a]  BY <2>2 DEF Aim
  <2> QED  BY <2>1, <2>3, <1>4
<1> QED  BY <1>3, <1>5, <1>6, <1>7, <1>8, <1>9 DEF Operations

\* To program the same once more changes nothing.
LEMMA ProgrammedTwice ==
  ASSUME NEW old, NEW new  PROVE Programmed(Programmed(old, new), new) = Programmed(old, new)
<1>1. FF # Mixed  BY DEF FF, Mixed
<1>2. CASE old = FF  BY <1>2 DEF Programmed
<1>3. CASE old # FF /\ new \in {FF, old}  BY <1>3 DEF Programmed
<1>4. CASE old # FF /\ new \notin {FF, old}  BY <1>1, <1>4 DEF Programmed
<1> QED  BY <1>2, <1>3, <1>4

\* The goal stays the same while cells change towards it.
LEMMA AimsStay ==
  ASSUME Aims, UNCHANGED <<part, call, goal>>,
         ~Idle => \A a \in Cells: chip'.cells[a] \in {chip.cells[a], goal[a]}
  PROVE  Aims'
<1> SUFFICES ASSUME ~Idle
             PROVE  goal = [a \in Cells |-> goal[a]] /\ \A a \in Cells: goal[a] = Aim(part, call, chip'.cells, a)
  BY Zenon DEF Aims, Idle
<1>1. goal = [a \in Cells |-> goal[a]] /\ \A a \in Cells: goal[a] = Aim(part, call, chip.cells, a)
  BY Zenon DEF Aims
<1>2. ASSUME NEW a \in Cells  PROVE goal[a] = Aim(part, call, chip'.cells, a)
  <2>1. goal[a] = Aim(part, call, chip.cells, a) /\ chip'.cells[a] \in {chip.cells[a], goal[a]}
    BY <1>1
  <2>2. CASE ~Targets(part, call, a)  BY <2>1, <2>2 DEF Aim
  <2>3. CASE Targets(part, call, a) /\ call[1] \notin {"save", "page"}  BY <2>1, <2>3 DEF Aim
  <2>4. CASE Targets(part, call, a) /\ call[1] \in {"save", "page"}
    <3> DEFINE d == Contract!Datum(a - call[2])
    <3>1. goal[a] = Programmed(chip.cells[a], d)  BY <2>1, <2>4 DEF Aim
    <3>2. Programmed(goal[a], d) = goal[a]  BY <3>1, ProgrammedTwice
    <3>3. Programmed(chip'.cells[a], d) = goal[a]  BY <2>1, <3>1, <3>2
    <3> QED  BY <3>3, <2>4 DEF Aim
  <2> QED  BY <2>2, <2>3, <2>4
<1> QED  BY <1>1, <1>2

\* What is begun has the new contents, and no beginning changes the unit.
LEMMA BegunIs ==
  ASSUME NEW c, IsChip(c), NEW new
  PROVE  /\ Begin(c, new).unit = c.unit
         /\ c.wel = TRUE /\ ~c.wip => Begin(c, new).cells = new
<1>1. CASE c.wip \/ ~c.wel
  <2>1. Begin(c, new) = [c EXCEPT !.lost = TRUE]  BY <1>1 DEF Begin
  <2>2. Begin(c, new) = [cells |-> c.cells, wel |-> c.wel, wip |-> c.wip, unit |-> c.unit, lost |-> TRUE]
    BY <2>1 DEF IsChip
  <2>3. Begin(c, new).unit = c.unit  BY <2>2
  <2> QED  BY <2>3, <1>1, Zenon
<1>2. CASE ~(c.wip \/ ~c.wel)
  <2>1. Begin(c, new) = [c EXCEPT !.cells = new, !.wip = TRUE]  BY <1>2 DEF Begin
  <2>2. Begin(c, new) = [cells |-> new, wel |-> c.wel, wip |-> TRUE, unit |-> c.unit, lost |-> c.lost]
    BY <2>1 DEF IsChip
  <2> QED  BY <2>2
<1> QED  BY <1>1, <1>2, Zenon

\* A change that is transferred has been enabled.
LEMMA Primes ==
  ASSUME Inv, Contracted, rpc.busy, Of(ip - 1) \in Changes
  PROVE  chip.wel = TRUE /\ ~chip.wip
<1> DEFINE k == ip - 1
<1>1. Types  BY DEF Inv
<1>2. InProgress(k)  BY Busy
<1>3. /\ k \in 1..Len(Now) /\ ip = k + 1 /\ Transfers(k) /\ k \in Int /\ Of(k) \in Changes
  BY <1>1, <1>2, Here DEF InProgress, Transfers
<1> HIDE DEF k
<1>4. Wren(k) \in Int /\ Wren(k) + 7 <= k  BY <1>1, <1>3, ChangeAt
<1>5. ip \in (Wren(k) + 1)..(k + 1) /\ ip # Wren(k) + 1  BY <1>3, <1>4
<1>6. Primed(k)  BY <1>3, <1>5, Zenon DEF Primed
<1> QED  BY <1>3, <1>6 DEF Contracted, EnabledSet

\* The transfer in progress makes of the cells it reaches what the call wants, and
\* leaves the others alone.
TransferMakes(k) ==
  /\ \A a \in Cells: chip'.cells[a] = IF Reaches(k, a) THEN goal[a] ELSE chip.cells[a]
  /\ Of(k) = "06" => chip'.wel = TRUE /\ ~chip'.wip
  /\ chip'.unit = IF Of(k) = "71" THEN CellsOf[256] ELSE chip.unit

\* A transfer that changes no cell.
LEMMA TransferReads ==
  ASSUME Inv, Contracted, Transfer, NEW k, InProgress(k), k = ip - 1, Of(k) \notin Erases \cup Programs
  PROVE  TransferMakes(k)
<1>1. Types /\ chip' = Executed(chip, Of(k), Sent(rpc.smadr, rpc.smenr.width)) /\ rpc.busy
  BY DEF Inv, Transfer, InProgress
<1>2. IsChip(chip)  BY <1>1 DEF Types, IsChip
<1>3. \A a: ~Reaches(k, a)  BY DEF Reaches, Erases
<1>4. chip.wip => Of(k) \in {"05", "9F"}  BY <1>1, BusyFlash
<1>5. CASE Of(k) = "06"
  <2>1. ~chip.wip  BY <1>4, <1>5
  <2>2. chip' = [chip EXCEPT !.wel = TRUE]  BY <1>1, <1>5, <2>1 DEF Executed, WriteEnable
  <2>3. chip' = [cells |-> chip.cells, wel |-> TRUE, wip |-> chip.wip, unit |-> chip.unit, lost |-> chip.lost]
    BY <2>2, <1>2 DEF IsChip
  <2>4. chip'.cells = chip.cells /\ chip'.wel = TRUE /\ chip'.wip = chip.wip /\ chip'.unit = chip.unit
    BY <2>3
  <2>5. Of(k) # "71"  BY <1>5
  <2>6. ~chip'.wip  BY <2>1, <2>4, Zenon
  <2> QED  BY <1>3, <2>4, <2>5, <2>6, Zenon DEF TransferMakes
<1>6. CASE Of(k) = "71"
  <2> DEFINE b == Begin(chip, chip.cells)
  <2>1. chip' = [b EXCEPT !.unit = rpc.smwdr0]  BY <1>1, <1>6 DEF Executed
  <2>2. IsChip(b) /\ b.cells = chip.cells
    <3>1. chip.cells = [a \in Cells |-> chip.cells[a]]  BY <1>2 DEF IsChip
    <3>2. IsChip(b) /\ (b.cells = chip.cells \/ b.cells = chip.cells)  BY <1>2, <3>1, Begun
    <3> QED  BY <3>2
  <2> HIDE DEF b
  <2>3. chip' = [cells |-> b.cells, wel |-> b.wel, wip |-> b.wip, unit |-> rpc.smwdr0, lost |-> b.lost]
    BY <2>1, <2>2 DEF IsChip
  <2>4. chip'.cells = chip.cells /\ chip'.unit = rpc.smwdr0  BY <2>2, <2>3
  <2>5. rpc.smwdr0 = CellsOf[256]
    <3>1. k \in 1..Len(Now) /\ Transfers(k) /\ k \in Int /\ ip = k + 1
      BY <1>1, Here DEF InProgress, Transfers
    <3>2. ip \in (k - 5)..(k + 1)  BY <3>1
    <3> QED  BY <3>1, <3>2, <1>6 DEF Contracted, DataSet, Data
  <2> QED  BY <1>3, <1>6, <2>4, <2>5 DEF TransferMakes
<1>7. CASE Of(k) \in {"05", "9F", "65"}
  <2>1. chip' = chip  BY <1>1, <1>7 DEF Executed
  <2> QED  BY <1>3, <1>7, <2>1 DEF TransferMakes
<1>8. Of(k) \in Codes  BY DEF InProgress
<1> QED  BY <1>5, <1>6, <1>7, <1>8 DEF Codes, Erases, Programs

\* The size of the sectors the flash erases is that of the driver.
LEMMA UnitIs ==
  ASSUME Inv, Contracted, NEW k, InProgress(k), Of(k) \in {"D8", "DC"}
  PROVE  chip.unit = gQspi_sa_size(part)
<1>1. Types /\ UnitSet  BY DEF Inv, Contracted
<1>2. k \in 1..Len(Now) /\ Transfers(k) /\ ip = k + 1 /\ Of(k) \in Changes /\ k \in Int
  BY <1>1, Here DEF InProgress, Transfers, Changes, Erases
<1>3. Meant(part, call, Of(k), Address(Now, k), Index(Now, k), k)  BY <1>1, <1>2, ChangeAt
<1>4. call[1] = "erase" /\ (part = "S25FS128S" => k > 34)  BY <1>3 DEF Meant
<1>5. Supported(part)
  <2>1. call # NoCall  BY <1>4 DEF NoCall
  <2>2. Fits(part, call)  BY <1>1, <2>1 DEF Types
  <2> QED  BY <2>2, <1>4 DEF Fits
<1>6. CASE part # "S25FS128S"  BY <1>1, <1>5, <1>6 DEF UnitSet
<1>7. CASE part = "S25FS128S"
  <2>1. Selecting /\ ip > 23  BY <1>2, <1>4, <1>7 DEF Selecting
  <2>2. chip.unit = CellsOf[256]  BY <1>1, <2>1 DEF UnitSet
  <2>3. gQspi_sa_size(part) = CellsOf[256]  BY <1>7, SectorsAre DEF gQspi_sa_size
  <2> QED  BY <2>2, <2>3
<1> QED  BY <1>6, <1>7

\* An erase.
LEMMA TransferErases ==
  ASSUME Inv, Contracted, Transfer, NEW k, InProgress(k), k = ip - 1, Of(k) \in Erases
  PROVE  TransferMakes(k)
<1> DEFINE at == Address(Now, k)
           g == gQspi_sa_size(part)
<1>1. /\ Types /\ Aims /\ chip' = Executed(chip, Of(k), at) /\ rpc.busy /\ ~Idle
  <2>1. rpc.busy /\ ~Idle  BY Busy DEF Transfer
  <2>2. rpc.smenr.width = AddressBytes(Of(k))  BY DEF InProgress
  <2> QED  BY <2>1, <2>2 DEF Inv, Contracted, Transfer, InProgress
<1>2. k \in 1..Len(Now) /\ Transfers(k) /\ Of(k) \in Changes
  BY <1>1, Here DEF InProgress, Transfers, Changes
<1>3. Meant(part, call, Of(k), at, Index(Now, k), k)  BY <1>1, <1>2, ChangeAt
<1>4. IsChip(chip)  BY <1>1 DEF Types, IsChip
<1>5. chip.wel = TRUE /\ ~chip.wip  BY <1>1, <1>2, Primes
<1>6. \A a \in Cells: goal[a] = Aim(part, call, chip.cells, a)  BY <1>1, Zenon DEF Aims
<1>7. Of(k) # "06" /\ Of(k) # "71" /\ Of(k) \notin Programs  BY DEF Erases, Programs
<1> HIDE DEF at
<1>8. ASSUME NEW size, chip' = BlockErase(chip, at, size), \A a: Reaches(k, a) <=> a \div size = at \div size,
             call[1] \notin {"save", "page"},
             \A a: Targets(part, call, a) <=> a \div size \in (call[2] \div size)..(call[3] \div size),
             at \div size \in (call[2] \div size)..(call[3] \div size)
      PROVE  TransferMakes(k)
  <2> DEFINE new == [a \in Cells |-> IF a \div size = at \div size THEN FF ELSE chip.cells[a]]
  <2>1. chip' = Begin(chip, new)  BY <1>8 DEF BlockErase
  <2>2. chip'.cells = new /\ chip'.unit = chip.unit
    <3> HIDE DEF new
    <3> QED  BY <2>1, <1>4, <1>5, BegunIs
  <2>3. ASSUME NEW a \in Cells  PROVE chip'.cells[a] = IF Reaches(k, a) THEN goal[a] ELSE chip.cells[a]
    <3>1. chip'.cells[a] = IF a \div size = at \div size THEN FF ELSE chip.cells[a]  BY <2>2
    <3>2. CASE a \div size = at \div size
      <4>1. Targets(part, call, a)  BY <1>8, <3>2
      <4>2. goal[a] = FF  BY <4>1, <1>6, <1>8 DEF Aim
      <4>3. Reaches(k, a)  BY <1>8, <3>2
      <4> QED  BY <3>1, <3>2, <4>2, <4>3
    <3>3. CASE a \div size # at \div size
      <4>1. ~Reaches(k, a)  BY <1>8, <3>3
      <4> QED  BY <3>1, <3>3, <4>1
    <3> QED  BY <3>2, <3>3
  <2> QED  BY <2>2, <2>3, <1>7, Zenon DEF TransferMakes
<1>9. CASE Of(k) \in {"D8", "DC"}
  <2>1. chip.unit = g  BY <1>9, UnitIs
  <2>2. chip' = BlockErase(chip, at, g)  BY <1>1, <1>9, <2>1 DEF Executed
  <2>3. \A a: Reaches(k, a) <=> a \div g = at \div g
    BY <1>9 DEF Reaches, Programs, at
  <2>4. call[1] = "erase" /\ at \div g \in (call[2] \div g)..(call[3] \div g)  BY <1>3, <1>9 DEF Meant
  <2>5. \A a: Targets(part, call, a) <=> a \div g \in (call[2] \div g)..(call[3] \div g)
    BY <2>4 DEF Targets
  <2> HIDE DEF g
  <2> QED  BY <2>2, <2>3, <2>4, <2>5, <1>8
<1>10. CASE Of(k) \in {"20", "21"}
  <2>2. chip' = BlockErase(chip, at, CellsOf[4])  BY <1>1, <1>10 DEF Executed
  <2>3. \A a: Reaches(k, a) <=> a \div CellsOf[4] = at \div CellsOf[4]
    BY <1>10 DEF Reaches, Programs, at
  <2>4. call[1] = "parameterErase" /\ at \div CellsOf[4] \in (call[2] \div CellsOf[4])..(call[3] \div CellsOf[4])
    BY <1>3, <1>10 DEF Meant
  <2>5. \A a: Targets(part, call, a) <=> a \div CellsOf[4] \in (call[2] \div CellsOf[4])..(call[3] \div CellsOf[4])
    BY <2>4 DEF Targets
  <2> QED  BY <2>2, <2>3, <2>4, <2>5, <1>8
<1>11. CASE Of(k) = "60"
  <2> DEFINE new == [a \in Cells |-> FF]
  <2>1. chip' = Begin(chip, new)  BY <1>1, <1>11 DEF Executed, BulkErase
  <2>2. chip'.cells = new /\ chip'.unit = chip.unit
    <3> HIDE DEF new
    <3> QED  BY <2>1, <1>4, <1>5, BegunIs
  <2>3. call[1] = "bulkErase" /\ \A a: Reaches(k, a)  BY <1>3, <1>11 DEF Meant, Reaches
  <2>4. \A a: Targets(part, call, a)  BY <2>3 DEF Targets
  <2>5. \A a \in Cells: goal[a] = FF  BY <2>3, <2>4, <1>6 DEF Aim
  <2>6. \A a \in Cells: chip'.cells[a] = FF  BY <2>2
  <2> QED  BY <2>2, <2>3, <2>5, <2>6, <1>7 DEF TransferMakes
<1> QED  BY <1>9, <1>10, <1>11 DEF Erases

\* A page program.
LEMMA TransferPrograms ==
  ASSUME Inv, Contracted, Transfer, NEW k, InProgress(k), k = ip - 1, Of(k) \in Programs
  PROVE  TransferMakes(k)
<1> DEFINE at == Address(Now, k)
           d == Contract!Datum(rpc.wrbuf)
           new == [a \in Cells |-> IF a = at THEN Programmed(chip.cells[a], d) ELSE chip.cells[a]]
<1>1. /\ Types /\ Aims /\ chip' = Executed(chip, Of(k), at) /\ rpc.busy /\ ~Idle
  <2>1. rpc.busy /\ ~Idle  BY Busy DEF Transfer
  <2>2. rpc.smenr.width = AddressBytes(Of(k))  BY DEF InProgress
  <2> QED  BY <2>1, <2>2 DEF Inv, Contracted, Transfer, InProgress
<1>2. k \in 1..Len(Now) /\ Transfers(k) /\ Of(k) \in Changes /\ ip = k + 1 /\ k \in Int
  BY <1>1, Here DEF InProgress, Transfers, Changes
<1>3. Meant(part, call, Of(k), at, Index(Now, k), k)  BY <1>1, <1>2, ChangeAt
<1>4. IsChip(chip)  BY <1>1 DEF Types, IsChip
<1>5. chip.wel = TRUE /\ ~chip.wip  BY <1>1, <1>2, Primes
<1>6. \A a \in Cells: goal[a] = Aim(part, call, chip.cells, a)  BY <1>1, Zenon DEF Aims
<1>7. call[1] \in {"save", "page"} /\ at \in call[2]..call[3] /\ rpc.wrbuf = at - call[2]
  <2>1. ip \in (k - 4)..(k + 1)  BY <1>2
  <2>2. rpc.wrbuf = Index(Now, k)  BY <2>1, <1>2 DEF Contracted, DataSet, Data
  <2> QED  BY <2>2, <1>3 DEF Meant
<1>8. at \in Int
  <2>1. call # NoCall  BY <1>7 DEF NoCall
  <2>2. call \in Calls  BY <2>1, <1>1 DEF Types
  <2> QED  BY <2>2, <1>7, CallsAre
<1>9. chip' = PageProgram(chip, at, [i \in {0} |-> d])  BY <1>1 DEF Executed, Programs
<1> HIDE DEF at
<1>10. ASSUME NEW a \in Cells
       PROVE  (PageTop(a) = PageTop(at) <=> a = at) /\ Source(at, a) = 0
  <2>1. a \in Int  BY DEF Cells
  <2>2. Page = 1  BY RpcAssumption
  <2>3. \A i \in Int: i % 1 = 0  OBVIOUS
  <2>4. a - at \in Int /\ a - 0 = a /\ at - 0 = at  BY <2>1, <1>8
  <2> QED  BY <2>1, <2>2, <2>3, <2>4, <1>8 DEF PageTop, Source
<1>11. chip' = Begin(chip, new)
  <2>1. chip' = Begin(chip, [a \in Cells |-> IF PageTop(a) = PageTop(at)
          THEN Programmed(chip.cells[a], [i \in {0} |-> d][Source(at, a)]) ELSE chip.cells[a]])
    BY <1>9 DEF PageProgram
  <2>2. \A a \in Cells: [i \in {0} |-> d][Source(at, a)] = d  BY <1>10
  <2>3. [a \in Cells |-> IF PageTop(a) = PageTop(at)
          THEN Programmed(chip.cells[a], [i \in {0} |-> d][Source(at, a)]) ELSE chip.cells[a]] = new
    <3> HIDE DEF d
    <3> QED  BY <1>10, <2>2
  <2> QED  BY <2>1, <2>3, Zenon
<1>12. chip'.cells = new /\ chip'.unit = chip.unit
  <2> HIDE DEF new
  <2> QED  BY <1>11, <1>4, <1>5, BegunIs
<1>13. \A a: Reaches(k, a) <=> a = at  BY DEF Reaches, Programs, at
<1>14. ASSUME NEW a \in Cells  PROVE chip'.cells[a] = IF Reaches(k, a) THEN goal[a] ELSE chip.cells[a]
  <2>1. chip'.cells[a] = IF a = at THEN Programmed(chip.cells[a], d) ELSE chip.cells[a]
    <3> HIDE DEF d
    <3> QED  BY <1>12
  <2>2. CASE a = at
    <3>1. Targets(part, call, a)  BY <1>7, <2>2 DEF Targets
    <3>2. goal[a] = Programmed(chip.cells[a], Contract!Datum(a - call[2]))  BY <3>1, <1>6, <1>7 DEF Aim
    <3>3. a - call[2] = rpc.wrbuf  BY <1>7, <2>2
    <3>4. goal[a] = Programmed(chip.cells[a], d)  BY <3>2, <3>3
    <3>5. Reaches(k, a)  BY <1>13, <2>2
    <3> HIDE DEF d
    <3> QED  BY <2>1, <2>2, <3>4, <3>5
  <2>3. CASE a # at
    <3>1. ~Reaches(k, a)  BY <1>13, <2>3
    <3> HIDE DEF d
    <3> QED  BY <2>1, <2>3, <3>1
  <2> QED  BY <2>2, <2>3
<1>15. Of(k) # "06" /\ Of(k) # "71"  BY DEF Programs
<1> QED  BY <1>12, <1>14, <1>15, Zenon DEF TransferMakes

\* The transfer in progress, whatever it is.
LEMMA TransferDoes ==
  ASSUME Inv, Contracted, Transfer
  PROVE  InProgress(ip - 1) /\ TransferMakes(ip - 1) /\ ~Idle
<1>1. ~Idle /\ InProgress(ip - 1)  BY Busy DEF Transfer
<1> DEFINE k == ip - 1
<1>2. CASE Of(k) \in Erases  BY <1>1, <1>2, TransferErases
<1>3. CASE Of(k) \in Programs  BY <1>1, <1>3, TransferPrograms
<1>4. CASE Of(k) \notin Erases \cup Programs  BY <1>1, <1>4, TransferReads
<1> QED  BY <1>1, <1>2, <1>3, <1>4

\* The transfer of a command keeps to the contract.
LEMMA TransferContracted == ASSUME Inv, Contracted, Transfer  PROVE Contracted'
<1> DEFINE k == ip - 1
<1>1. Types /\ EnabledSet /\ DataSet /\ UnitSet /\ Aims /\ AllDone  BY DEF Inv, Contracted
<1>2. InProgress(k) /\ TransferMakes(k) /\ ~Idle  BY TransferDoes
<1>3. /\ k \in 1..Len(Now) /\ ip = k + 1 /\ k \in Int /\ Transfers(k) /\ Len(Now) \in Nat
      /\ Now[k][1] = "start" /\ Of(k) \in Codes /\ Now[ip] = Await
  BY <1>1, <1>2, Here DEF InProgress, Transfers
<1> HIDE DEF k
<1>4. /\ rpc.busy /\ rpc' = [rpc EXCEPT !.busy = FALSE, !.smrdr0 = Answer(chip, rpc.smcmr)]
      /\ UNCHANGED <<part, call, ip, goal>>
  BY DEF Transfer
<1>5. rpc'.busy = FALSE /\ rpc'.smrdr0 = Answer(chip, Of(k)) /\ rpc'.wrbuf = rpc.wrbuf /\ rpc'.smwdr0 = rpc.smwdr0
  <2>1. rpc = [n \in Names |-> rpc[n]]  BY <1>1 DEF Types
  <2>2. rpc.smcmr = Of(k)  BY <1>2 DEF InProgress
  <2> QED  BY <2>1, <2>2, <1>4 DEF Names
<1>6. ~rpc'.busy  BY <1>5
<1>7. Now' = Now  BY <1>4 DEF Now
<1>8. \A a \in Cells: chip'.cells[a] = IF Reaches(k, a) THEN goal[a] ELSE chip.cells[a]
  BY <1>2, Zenon DEF TransferMakes
<1>9. EnabledSet'
  <2>1. ASSUME NEW j \in 1..Len(Now), Primed(j)'  PROVE chip'.wel = TRUE /\ ~chip'.wip
    <3>1. Transfers(j) /\ Of(j) \in Changes /\ Of(j)' = Of(j) /\ Wren(j)' = Wren(j)
      BY <1>4, <1>7, <2>1, SameScript DEF Primed
    <3>2. /\ j \in Int /\ Wren(j) \in Int /\ Of(Wren(j)) = "06"
          /\ \A i \in (Wren(j) + 1)..(j - 1): Plain(Now, i)
      BY <1>1, <3>1, ChangeAt
    <3>3. ip \in (Wren(j) + 1)..(j + 1) /\ ip # j + 1  BY <1>4, <1>6, <2>1, <3>1 DEF Primed
    <3>4. ~Plain(Now, k)  BY <1>3 DEF Plain
    <3>5. k = Wren(j)
      <4>1. k \in Wren(j)..(j - 1)  BY <1>3, <3>2, <3>3
      <4>2. k \notin (Wren(j) + 1)..(j - 1)  BY <3>2, <3>4
      <4> QED  BY <4>1, <4>2, <3>2
    <3>6. Of(k) = "06"  BY <3>2, <3>5
    <3> QED  BY <3>6, <1>2, Zenon DEF TransferMakes
  <2> QED  BY <2>1, <1>7, Zenon DEF EnabledSet
<1>10. DataSet'
  <2>1. \A j: /\ Transfers(j)' <=> Transfers(j)
              /\ Of(j)' = Of(j) /\ Index(Now, j)' = Index(Now, j)
    BY <1>4, <1>7, SameScript
  <2>2. \A j: Data(j)' <=> Data(j)  BY <2>1, <1>4, <1>5 DEF Data
  <2> QED  BY <2>1, <2>2, <1>1, <1>7, Zenon DEF DataSet
<1>11. UnitSet'
  <2>1. chip'.unit = IF Of(k) = "71" THEN CellsOf[256] ELSE chip.unit  BY <1>2 DEF TransferMakes
  <2>2. Selecting' <=> Selecting  BY <1>4 DEF Selecting
  <2>3. ASSUME Supported(part), part # "S25FS128S"  PROVE chip'.unit = gQspi_sa_size(part)
    <3>1. Of(k) # "71"
      <4> SUFFICES ASSUME Of(k) = "71"  PROVE FALSE  OBVIOUS
      <4>1. Meant(part, call, Of(k), Address(Now, k), Index(Now, k), k)
        <5>1. Of(k) \in Changes  BY DEF Changes
        <5> QED  BY <5>1, <1>1, <1>3, ChangeAt
      <4> QED  BY <4>1, <2>3 DEF Meant
    <3> QED  BY <3>1, <2>1, <2>3, <1>1 DEF UnitSet
  <2>4. ASSUME Selecting, ip > 23 \/ ip = 23  PROVE chip'.unit = CellsOf[256]
    <3>1. CASE ip = 23
      <4>1. k = 22  BY <1>3, <3>1
      <4>2. Of(k) = "71"  BY <4>1, <2>4, <1>1, SelectingAt
      <4> QED  BY <4>2, <2>1
    <3>2. CASE ip > 23
      <4>1. chip.unit = CellsOf[256]  BY <2>4, <3>2, <1>1 DEF UnitSet
      <4> QED  BY <4>1, <2>1
    <3> QED  BY <3>1, <3>2, <2>4
  <2>5. ASSUME Selecting, Told(8)', rpc'.smrdr0 = "256KB"  PROVE chip'.unit = CellsOf[256]
    <3>1. Now[8] # Await  BY <2>5, <1>1, SelectingAt DEF Await
    <3>2. ip = 7  BY <1>3, <1>4, <2>5, <3>1 DEF Told
    <3>3. k = 6  BY <1>3, <3>2
    <3>4. Of(k) = "65"  BY <3>3, <2>5, <1>1, SelectingAt
    <3>5. Answer(chip, "65") = "256KB"  BY <3>4, <2>5, <1>5
    <3>6. chip.unit = CellsOf[256]
      <4>1. CASE chip.wip  BY <4>1, <3>5 DEF Answer
      <4>2. CASE ~chip.wip  BY <4>2, <3>5 DEF Answer
      <4> QED  BY <4>1, <4>2
    <3>7. chip'.unit = chip.unit  BY <2>1, <3>4
    <3> QED  BY <3>6, <3>7
  <2> QED  BY <2>2, <2>3, <2>4, <2>5, <1>4, Zenon DEF UnitSet
<1>12. Aims'
  <2>1. \A a \in Cells: chip'.cells[a] \in {chip.cells[a], goal[a]}  BY <1>8
  <2> QED  BY <2>1, <1>1, <1>4, AimsStay
<1>13. AllDone'
  <2>1. \A j: (Transfers(j)' <=> Transfers(j)) /\ \A a: Reaches(j, a)' <=> Reaches(j, a)
    BY <1>4, <1>7, SameScript
  <2>2. ASSUME NEW j \in 1..Len(Now), Transfers(j), Passed(j)', NEW a \in Cells, Reaches(j, a)
        PROVE  chip'.cells[a] = goal[a]
    <3>1. CASE j = k  BY <3>1, <2>2, <1>8
    <3>2. CASE j # k
      <4>1. ip > j + 1 \/ ip = j + 1  BY <1>4, <2>2 DEF Passed
      <4>2. ip > j + 1
        <5>1. j \in Int  BY <1>3
        <5> QED  BY <5>1, <4>1, <3>2, <1>3
      <4>3. chip.cells[a] = goal[a]
        <5>1. Passed(j)  BY <4>2 DEF Passed
        <5> QED  BY <5>1, <2>2, <1>1, <1>2 DEF AllDone, Done
      <4> QED  BY <4>3, <1>8
    <3> QED  BY <3>1, <3>2
  <2>3. ASSUME NEW j \in 1..Len(Now), Transfers(j), Passed(j)'  PROVE Done(j)'
    BY <2>1, <2>2, <2>3, <1>4, Zenon DEF Done
  <2> QED  BY <2>1, <2>3, <1>7, Zenon DEF AllDone
<1> QED  BY <1>9, <1>10, <1>11, <1>12, <1>13 DEF Contracted

\* The end of what the flash has begun keeps to the contract: nothing is enabled then.
LEMMA ReadyContracted == ASSUME Inv, Contracted, Ready  PROVE Contracted'
<1>1. Types /\ EnabledSet /\ DataSet /\ UnitSet /\ Aims /\ AllDone  BY DEF Inv, Contracted
<1>2. chip.wip /\ chip' = Finish(chip) /\ UNCHANGED <<part, rpc, call, ip, goal>>  BY DEF Ready
<1>3. Now' = Now  BY <1>2 DEF Now
<1>4. chip'.cells = chip.cells /\ chip'.unit = chip.unit
  <2>1. chip' = [cells |-> chip.cells, wel |-> FALSE, wip |-> FALSE, unit |-> chip.unit, lost |-> chip.lost]
    BY <1>1, <1>2 DEF Types, Finish
  <2> QED  BY <2>1
<1>5. \A k: /\ Transfers(k)' <=> Transfers(k)
            /\ Of(k)' = Of(k) /\ Index(Now, k)' = Index(Now, k) /\ Wren(k)' = Wren(k)
            /\ \A a: Reaches(k, a)' <=> Reaches(k, a)
  BY <1>2, <1>3, SameScript
<1>6. EnabledSet'
  <2>1. \A k: Primed(k)' <=> Primed(k)  BY <1>2, <1>5, Zenon DEF Primed
  <2>2. \A k \in 1..Len(Now): ~Primed(k)  BY <1>1, <1>2, Zenon DEF EnabledSet
  <2> QED  BY <2>1, <2>2, <1>3, Zenon DEF EnabledSet
<1>7. DataSet'
  <2>1. \A k: Data(k)' <=> Data(k)  BY <1>2, <1>5 DEF Data
  <2> QED  BY <2>1, <1>1, <1>3, <1>5, Zenon DEF DataSet
<1>8. UnitSet'
  <2>1. (Selecting' <=> Selecting) /\ (Told(8)' <=> Told(8))  BY <1>2, Zenon DEF Selecting, Told
  <2> QED  BY <2>1, <1>1, <1>2, <1>4, ZenonT(40) DEF UnitSet
<1>9. Aims'  BY <1>1, <1>2, <1>4, AimsStay
<1>10. AllDone'
  <2>1. \A k: (Passed(k)' <=> Passed(k)) /\ (Done(k)' <=> Done(k))
    BY <1>2, <1>4, <1>5, Zenon DEF Passed, Done
  <2> QED  BY <2>1, <1>1, <1>2, <1>3, <1>5, Zenon DEF AllDone, Idle
<1> QED  BY <1>6, <1>7, <1>8, <1>9, <1>10 DEF Contracted

\* At the prompt nothing is owed.
LEMMA ReturnContracted == ASSUME Inv, Contracted, Return  PROVE Contracted'
<1>1. Types /\ EnabledSet /\ DataSet /\ UnitSet  BY DEF Inv, Contracted
<1>2. Idle' /\ UNCHANGED <<part, chip, rpc, call, ip>>  BY DEF Return, Idle
<1>3. Now' = Now  BY <1>2 DEF Now
<1>4. \A k: /\ Transfers(k)' <=> Transfers(k)
            /\ Of(k)' = Of(k) /\ Index(Now, k)' = Index(Now, k) /\ Wren(k)' = Wren(k)
  BY <1>2, <1>3, SameScript
<1>5. EnabledSet'
  <2>1. \A k: Primed(k)' <=> Primed(k)  BY <1>2, <1>4, Zenon DEF Primed
  <2> QED  BY <2>1, <1>1, <1>2, <1>3, Zenon DEF EnabledSet
<1>6. DataSet'
  <2>1. \A k: Data(k)' <=> Data(k)  BY <1>2, <1>4 DEF Data
  <2> QED  BY <2>1, <1>1, <1>3, <1>4, Zenon DEF DataSet
<1>7. UnitSet'
  <2>1. (Selecting' <=> Selecting) /\ (Told(8)' <=> Told(8))  BY <1>2, Zenon DEF Selecting, Told
  <2> QED  BY <2>1, <1>1, <1>2, Zenon DEF UnitSet
<1>8. Aims' /\ AllDone'  BY <1>2, Zenon DEF Aims, AllDone
<1> QED  BY <1>5, <1>6, <1>7, <1>8 DEF Contracted

\* A new call begins with nothing done and its goal before it.
LEMMA CallContracted == ASSUME Inv, Contracted, NEW c \in Calls, Call(c)  PROVE Contracted'
<1>1. Types /\ UnitSet  BY DEF Inv, Contracted
<1>2. call' = c /\ ip' = 1 /\ goal' = Contract!Wanted(c) /\ UNCHANGED <<part, chip, rpc>>  BY DEF Call
<1>3. Types'  BY CallStep DEF Inv
<1>4. Now' = Function(part, c) /\ Fits(part, c)
  <2>1. call' \in Calls \cup {NoCall} /\ (call' # NoCall => Fits(part, call)') /\ part' \in Parts
    BY <1>3 DEF Types
  <2>2. c # NoCall
    <3>1. c[1] \in Operations  BY CallsAre
    <3> QED  BY <3>1 DEF NoCall, Operations
  <2>3. Fits(part, call)' <=> Fits(part, c)  BY <1>2 DEF Fits
  <2>4. Fits(part, c)  BY <2>1, <2>2, <2>3, <1>2
  <2>5. c \in {d \in Calls: Fits(part, d)} \cup {NoCall} /\ part \in Parts  BY <2>4, <1>1 DEF Types
  <2> QED  BY <1>2, <2>4, <2>5 DEF Now, Script
<1> DEFINE s == Now'
<1>5. IsSeq(s) /\ (\A k \in 1..Len(s): Sound(part, c, s, k)) /\ Len(s) \in Nat
  BY <1>4, ScriptsFormed, Lengths DEF WellFormed
<1>6. ASSUME NEW k \in 1..Len(s), s[k][1] = "start"
      PROVE  /\ k > 5 /\ k \in Int /\ (Code(s, k) \in Programs => k > 7) /\ (Code(s, k) = "71" => k > 6)
             /\ Code(s, k) \in Changes => k - Lead(Code(s, k)) > 5
  <2>1. Started(part, c, s, k)
    <3>1. Sound(part, c, s, k)  BY <1>5
    <3> QED  BY <3>1, <1>6, Kinds
  <2>2. Framed(s, k)  BY <2>1 DEF Started
  <2>3. FrameOf(s, k)  BY <2>2, <1>6, Frames
  <2>4. Code(s, k) = "71" => k > 6  BY <2>2 DEF Framed
  <2>5. Code(s, k) \in Changes => k - Lead(Code(s, k)) > 5  BY <2>1 DEF Started, Enabled
  <2> QED  BY <2>3, <2>4, <2>5 DEF FrameOf
<1>7. EnabledSet'
  <2> SUFFICES ASSUME NEW k \in 1..Len(s), Primed(k)'  PROVE FALSE  BY DEF EnabledSet
  <2>1. s[k][1] = "start" /\ Code(s, k) \in Changes /\ 1 \in (k - Lead(Code(s, k)) + 1)..(k + 1)
    BY <1>2 DEF Primed, Transfers, Of, Wren
  <2>2. k - Lead(Code(s, k)) > 5 /\ k \in Int  BY <1>6, <2>1
  <2>3. Lead(Code(s, k)) \in Int  BY DEF Lead
  <2> HIDE DEF s
  <2> QED  BY <2>1, <2>2, <2>3
<1>8. DataSet'
  <2> SUFFICES ASSUME NEW k \in 1..Len(s), s[k][1] = "start"  PROVE Data(k)'
    BY DEF DataSet, Transfers
  <2>1. k \in Int /\ (Code(s, k) \in Programs => k > 7) /\ (Code(s, k) = "71" => k > 6)  BY <1>6
  <2> QED  BY <2>1, <1>2 DEF Data, Of
<1>9. UnitSet'
  <2>1. ~Told(8)' /\ ~(ip' > 23) /\ ip' # 23
    <3>1. 1 # 8 /\ 1 # 8 - 1 /\ ~(1 > 23) /\ 1 # 23  OBVIOUS
    <3> QED  BY <3>1, <1>2, Zenon DEF Told
  <2>2. Supported(part) /\ part # "S25FS128S" => chip.unit = gQspi_sa_size(part)  BY <1>1 DEF UnitSet
  <2> QED  BY <2>1, <2>2, <1>2, Zenon DEF UnitSet
<1>10. Aims'
  <2>1. goal' = [a \in Cells |-> Aim(part, c, chip.cells, a)]  BY <1>1, <1>2, WantedIs
  <2>2. goal' = [a \in Cells |-> goal'[a]] /\ \A a \in Cells: goal'[a] = Aim(part, c, chip.cells, a)
    BY <2>1
  <2> QED  BY <2>2, <1>2 DEF Aims
<1>11. AllDone'
  <2>1. \A k \in 1..Len(s): ~Passed(k)'
    <3> SUFFICES ASSUME NEW k \in 1..Len(s)  PROVE ~(1 > k + 1) /\ 1 # k + 1
      BY <1>2, Zenon DEF Passed
    <3> HIDE DEF s
    <3> QED  OBVIOUS
  <2> QED  BY <2>1, Zenon DEF AllDone
<1> QED  BY <1>7, <1>8, <1>9, <1>10, <1>11 DEF Contracted

\* The initial states.
LEMMA InitContracted == Init => Contracted
<1> SUFFICES ASSUME Init  PROVE Contracted  OBVIOUS
<1>1. Types  BY InitInv DEF Inv
<1>2. call = NoCall /\ ip = 1 /\ Idle /\ NoCall[1] = "none"  BY DEF Init, NoCall, Idle
<1>3. Len(Now) = 0  BY <1>1, <1>2, Here
<1>4. EnabledSet /\ DataSet /\ AllDone  BY <1>3 DEF EnabledSet, DataSet, AllDone
<1>5. Aims  BY <1>2, Zenon DEF Aims
<1>6. UnitSet
  <2>1. PICK unit \in {CellsOf[64], CellsOf[256]}:
          /\ Supported(part) /\ part # "S25FS128S" => unit = gQspi_sa_size(part)
          /\ chip = Chip([a \in Cells |-> Was(a)], unit)
    BY DEF Init
  <2>2. chip.unit = unit  BY <2>1 DEF Chip
  <2>3. ~Selecting  BY <1>2 DEF Selecting
  <2> QED  BY <2>1, <2>2, <2>3, Zenon DEF UnitSet
<1> QED  BY <1>4, <1>5, <1>6 DEF Contracted

\* A call returns when all cells are as it wants them.
LEMMA ReturnDone == ASSUME Inv, Contracted, ~Idle, Ended  PROVE goal = chip.cells
<1>1. Types /\ Aims /\ AllDone  BY DEF Inv, Contracted
<1>2. /\ goal = [a \in Cells |-> goal[a]] /\ \A a \in Cells: goal[a] = Aim(part, call, chip.cells, a)
  BY <1>1, Zenon DEF Aims
<1>3. chip.cells = [a \in Cells |-> chip.cells[a]]  BY <1>1 DEF Types
<1>4. WellFormed(part, call, Now) /\ Len(Now) \in Nat /\ ip > Len(Now)  BY <1>1, Here DEF Ended, Now
<1>5. Covers(part, call, Now)  BY <1>4 DEF WellFormed
<1>6. ASSUME NEW k \in 1..Len(Now), Transfers(k), NEW a \in Cells, Reaches(k, a)  PROVE chip.cells[a] = goal[a]
  <2>1. k + 1 <= Len(Now)
    <3>1. FrameOf(Now, k)  BY <1>1, <1>6, StartedAt
    <3> QED  BY <3>1, <1>4 DEF FrameOf
  <2>2. ip > k + 1  BY <2>1, <1>1, <1>4 DEF Types
  <2>3. Passed(k)  BY <2>2 DEF Passed
  <2> QED  BY <2>3, <1>6, <1>1 DEF AllDone, Done
<1>7. ASSUME NEW size, NEW codes, NEW a \in Cells, ErasesAll(Now, codes, size, call[2], call[3]),
             a \div size \in (call[2] \div size)..(call[3] \div size),
             \A k: Of(k) \in codes /\ a \div size = Address(Now, k) \div size => Reaches(k, a)
      PROVE  chip.cells[a] = goal[a]
  <2>1. PICK k \in 1..Len(Now): Now[k][1] = "start" /\ Code(Now, k) \in codes
                                /\ Address(Now, k) \div size = a \div size
    BY <1>7 DEF ErasesAll
  <2>2. Transfers(k) /\ Of(k) \in codes  BY <2>1 DEF Transfers, Of
  <2>3. Reaches(k, a)  BY <2>1, <2>2, <1>7
  <2> QED  BY <2>2, <2>3, <1>6
<1>8. ASSUME NEW a \in Cells  PROVE goal[a] = chip.cells[a]
  <2>1. CASE ~Targets(part, call, a)  BY <2>1, <1>2 DEF Aim
  <2>2. CASE call[1] = "erase" /\ Targets(part, call, a)
    <3>1. a \div gQspi_sa_size(part) \in (call[2] \div gQspi_sa_size(part))..(call[3] \div gQspi_sa_size(part))
      BY <2>2 DEF Targets
    <3>2. ErasesAll(Now, {"D8", "DC"}, gQspi_sa_size(part), call[2], call[3])  BY <2>2, <1>5 DEF Covers
    <3>3. \A k: Of(k) \in {"D8", "DC"} /\ a \div gQspi_sa_size(part) = Address(Now, k) \div gQspi_sa_size(part)
                => Reaches(k, a)
      BY DEF Reaches
    <3> QED  BY <3>1, <3>2, <3>3, <1>7
  <2>3. CASE call[1] = "parameterErase" /\ Targets(part, call, a)
    <3>1. a \div CellsOf[4] \in (call[2] \div CellsOf[4])..(call[3] \div CellsOf[4])
      BY <2>3 DEF Targets
    <3>2. ErasesAll(Now, {"20", "21"}, CellsOf[4], call[2], call[3])  BY <2>3, <1>5 DEF Covers
    <3>3. \A k: Of(k) \in {"20", "21"} /\ a \div CellsOf[4] = Address(Now, k) \div CellsOf[4] => Reaches(k, a)
      BY DEF Reaches
    <3> QED  BY <3>1, <3>2, <3>3, <1>7
  <2>4. CASE call[1] = "bulkErase"
    <3>1. PICK k \in 1..Len(Now): Now[k][1] = "start" /\ Code(Now, k) = "60"  BY <2>4, <1>5 DEF Covers
    <3>2. Transfers(k) /\ Reaches(k, a)  BY <3>1 DEF Transfers, Reaches, Of
    <3> QED  BY <3>2, <1>6
  <2>5. CASE call[1] \in {"save", "page"} /\ Targets(part, call, a)
    <3>1. a \in call[2]..call[3]  BY <2>5 DEF Targets
    <3>2. PICK k \in 1..Len(Now): Now[k][1] = "start" /\ Code(Now, k) \in Programs /\ Address(Now, k) = a
      BY <2>5, <3>1, <1>5 DEF Covers, ProgramsAll
    <3>3. Transfers(k) /\ Reaches(k, a)  BY <3>2 DEF Transfers, Reaches, Of
    <3> QED  BY <3>3, <1>6
  <2> QED  BY <2>1, <2>2, <2>3, <2>4, <2>5 DEF Targets
<1> QED  BY <1>2, <1>3, <1>8

\* Every step keeps to the contract.
LEMMA NextContracted == ASSUME Inv, Contracted, [Next]_vars  PROVE Contracted'
<1>1. CASE \E c \in Calls: Call(c)  BY <1>1, CallContracted
<1>2. CASE Return  BY <1>2, ReturnContracted
<1>3. CASE Cpu /\ ~Return  BY <1>3, CpuContracted
<1>4. CASE Transfer  BY <1>4, TransferContracted
<1>5. CASE Ready  BY <1>5, ReadyContracted
<1>6. CASE UNCHANGED vars
  <2>1. UNCHANGED <<part, chip, rpc, call, ip, goal>>  BY <1>6 DEF vars
  <2>2. Now' = Now  BY <2>1 DEF Now
  <2>3. \A k: /\ Transfers(k)' <=> Transfers(k)
              /\ Of(k)' = Of(k) /\ Index(Now, k)' = Index(Now, k) /\ Wren(k)' = Wren(k)
              /\ \A a: Reaches(k, a)' <=> Reaches(k, a)
    BY <2>1, <2>2, SameScript
  <2>4. \A k: (Primed(k)' <=> Primed(k)) /\ (Passed(k)' <=> Passed(k)) /\ (Done(k)' <=> Done(k))
    BY <2>1, <2>3, Zenon DEF Primed, Passed, Done
  <2>5. \A k: Data(k)' <=> Data(k)  BY <2>1, <2>3 DEF Data
  <2>6. (Selecting' <=> Selecting) /\ (Told(8)' <=> Told(8)) /\ (Idle' <=> Idle)
    BY <2>1, Zenon DEF Selecting, Told, Idle
  <2>7. EnabledSet' /\ DataSet'
    BY <2>1, <2>2, <2>3, <2>4, <2>5, Zenon DEF Contracted, EnabledSet, DataSet
  <2>8. UnitSet'  BY <2>1, <2>6, ZenonT(40) DEF Contracted, UnitSet
  <2>9. Aims'  BY <2>1, AimsStay DEF Contracted
  <2>10. AllDone'  BY <2>1, <2>2, <2>3, <2>4, <2>6, Zenon DEF Contracted, AllDone
  <2> QED  BY <2>7, <2>8, <2>9, <2>10 DEF Contracted
<1> QED  BY <1>1, <1>2, <1>3, <1>4, <1>5, <1>6 DEF Next, Cpu

\* The driver does what its contract says: whatever it does between a call and its
\* return leaves each cell as it was or as the call wants it, and it returns when all
\* cells are as the call wants them (spiflash1drv.c, for the commands of dgmodul4.c).
\* That it returns is left to the model checker.
THEOREM ContractKept == Spec => Contract!Safe
<1> DEFINE Steps == Contract!Call \/ Contract!Work \/ Contract!Return
<1>1. Init => Contract!Init  BY DEF Init, Contract!Init
<1>2. ASSUME Inv, Contracted, [Next]_vars  PROVE [Steps]_(Contract!contract)
  <2>1. Types  BY <1>2 DEF Inv
  <2>2. ASSUME UNCHANGED <<part, goal>>, chip'.cells = chip.cells  PROVE UNCHANGED Contract!contract
    BY <2>2 DEF Contract!contract
  <2>3. ASSUME NEW c \in Calls, Call(c)  PROVE Contract!Call
    BY <2>3 DEF Call, Contract!Call, Idle
  <2>4. CASE Return
    <3>1. goal = chip.cells  BY <1>2, <2>4, ReturnDone DEF Return
    <3> QED  BY <3>1, <2>4 DEF Return, Contract!Return
  <2>5. CASE Cpu /\ ~Return
    <3>1. UNCHANGED <<part, chip, goal>>
      BY <2>5 DEF Cpu, Write, Start, AwaitEnd, PollReady, SkipIfUnit, Identify, Load
    <3> QED  BY <3>1, <2>2
  <2>6. CASE Transfer
    <3>1. ~Idle /\ TransferMakes(ip - 1)  BY <1>2, <2>6, TransferDoes
    <3>2. \A a \in Cells: chip'.cells[a] \in {chip.cells[a], goal[a]}  BY <3>1 DEF TransferMakes
    <3>3. DOMAIN chip'.cells = Cells
      <4>1. Types'  BY <1>2, <2>6, TransferStep DEF Inv
      <4>2. chip'.cells = [a \in Cells |-> chip'.cells[a]]  BY <4>1 DEF Types
      <4> QED  BY <4>2, Zenon
    <3>4. Contract!Cells = Cells  BY DEF Cells, Contract!Cells
    <3>5. UNCHANGED <<part, goal>>  BY <2>6 DEF Transfer
    <3> QED  BY <3>1, <3>2, <3>3, <3>4, <3>5 DEF Contract!Work, Idle
  <2>7. CASE Ready
    <3>1. chip' = [chip EXCEPT !.wip = FALSE, !.wel = FALSE] /\ UNCHANGED <<part, goal>>
      BY <2>7 DEF Ready, Finish
    <3>2. chip'.cells = chip.cells  BY <3>1, <2>1 DEF Types
    <3> QED  BY <3>1, <3>2, <2>2
  <2>8. CASE UNCHANGED vars  BY <2>8, <2>2 DEF vars
  <2> QED  BY <1>2, <2>3, <2>4, <2>5, <2>6, <2>7, <2>8 DEF Next, Cpu
<1>3. Init => Contracted  BY InitContracted
<1>4. Inv /\ Contracted /\ [Next]_vars => Contracted'  BY NextContracted
<1>5. Spec => []Contracted
  <2>1. Spec => Init /\ [][Next]_vars  BY PTL DEF Spec
  <2> QED  BY <1>3, <1>4, <2>1, Invariant, PTL
<1>6. Spec => [][Steps]_(Contract!contract)
  <2>1. Inv /\ Contracted /\ [Next]_vars => [Steps]_(Contract!contract)  BY <1>2
  <2>2. Spec => Init /\ [][Next]_vars  BY PTL DEF Spec
  <2> QED  BY <2>1, <2>2, <1>5, Invariant, PTL
<1> QED  BY <1>1, <1>6, PTL DEF Spec, Contract!Safe
=============================================================================
