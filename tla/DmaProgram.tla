----------------------------- MODULE DmaProgram -----------------------------
(***************************************************************************)
(* The programs alt_dma.c assembles for a channel of the DMA-330.  A       *)
(* program is a sequence of instructions; Program(r) is the one built for  *)
(* the request r, and Verdict(r) what the assembly returns.  Memory is     *)
(* byte addressed; a device register and the words of an I2C scratch       *)
(* buffer have negative addresses.  alt_mmu_va_to_pa is the flat mapping   *)
(* the file falls back to, so that a region is one segment.                *)
(***************************************************************************)
EXTENDS Integers, SequencesExt

CONSTANTS
  AddrSpace,  \* number of byte addresses, 2^32 in the code
  I2cFifo     \* entries of the I2C FIFOs, 64 in the code

ASSUME AddrSpaceAssumption == AddrSpace \in Nat \ {0}
ASSUME I2cFifoAssumption == I2cFifo \in Nat /\ I2cFifo >= 2

Least(a, b) == IF a < b THEN a ELSE b
Wrap(n) == n % AddrSpace

Register == -100
Scratch(k) == -1 - k

-----------------------------------------------------------------------------
\* Instructions.  CCR: bytes per beat, beats and increment, of source and destination.
Mov(reg, v) == <<[op |-> reg, at |-> v]>>
Ccr(ss, sb, si, ds, db, di) ==
  <<[op |-> "CCR", ss |-> ss, sb |-> sb, si |-> si, ds |-> ds, db |-> db, di |-> di]>>
Op(name) == <<[op |-> name]>>
Wfp(dir, burst) == <<[op |-> "WFP", dir |-> dir, burst |-> burst]>>
LdSt == Op("LD") \o Op("ST")
Times(n, body) == FlattenSeq([i \in 1..n |-> body])

Rounds(n, body) == <<[op |-> "LP", n |-> n]>> \o body \o Op("LPEND")

\* A loop of one round is written without DMALP; DMALP counts to 256.
Loop(n, body) ==
  CASE n = 0 -> <<>>
    [] n = 1 -> body
    [] OTHER -> Rounds(n, body)

\* Mutant of Repeat: the rest after the full loops is forgotten.
RepeatFullLoops(n, body) == IF n < 256 THEN Loop(n, body) ELSE Times(n \div 256, Loop(256, body))

\* Mutant of Repeat: full loops are nested in an outer loop here as well.
RepeatNesting(n, body) == Loop(n \div 256, Loop(256, body)) \o Loop(n % 256, body)

\* while (n > 0): a loop of at most 256 rounds.
Repeat(n, body) == Times(n \div 256, Loop(256, body)) \o Loop(n % 256, body)

\* The same with full loops nested in an outer loop.
Nested(n, body) == Repeat(n \div 256, Loop(256, body)) \o Loop(n % 256, body)

-----------------------------------------------------------------------------
\* Memory to memory and zero to memory: single bytes until the address read (or
\* zeroed) is a multiple of 8, bursts of 16 times 8 bytes, one shorter burst, the
\* bytes an unaligned destination left in the FIFO, and the last 0 to 7 bytes.
AlignCount(a, size) == IF a % 8 = 0 THEN 0 ELSE Least(8 - (a % 8), size)
BurstCount(a, size) == (size - AlignCount(a, size)) \div 8
PostCount(a, size) == (size - AlignCount(a, size)) % 8

Copy(beat, len) == Ccr(beat, len, TRUE, beat, len, TRUE) \o LdSt
AlignPart(a, size) == IF a % 8 = 0 THEN <<>> ELSE Copy(1, AlignCount(a, size))
FullBursts(n) ==
  IF n \div 16 = 0 THEN <<>>
  ELSE Ccr(8, 16, TRUE, 8, 16, TRUE) \o Repeat(n \div 16, LdSt)
RestBurst(n) == IF n % 16 = 0 THEN <<>> ELSE Copy(8, n % 16)

\* Mutant of CorrectCount: the count is not reduced to less than 8.
CorrectCountUnmasked(dst, src) == dst + (8 - (src % 8))

CorrectCount(dst, src) == (dst + (8 - (src % 8))) % 8
Correction(dst, src, n) ==
  IF n # 0 /\ src % 8 # dst % 8
  THEN LET c == CorrectCount(dst, src) IN Ccr(1, c, TRUE, 1, c, TRUE) \o Op("ST")
  ELSE <<>>
PostPart(n) == IF n = 0 THEN <<>> ELSE Copy(1, n)

CopySegment(dst, src, size) ==
  LET n == BurstCount(src, size) IN
  Mov("SAR", src) \o Mov("DAR", dst) \o AlignPart(src, size)
    \o FullBursts(n) \o RestBurst(n) \o Correction(dst, src, n) \o PostPart(PostCount(src, size))

Zeroes(beat, len) == Ccr(1, 1, TRUE, beat, len, TRUE) \o Op("STZ")
ZeroBursts(n) ==
  (IF n \div 16 = 0 THEN <<>>
   ELSE Ccr(1, 1, TRUE, 8, 16, TRUE) \o Nested(n \div 16, Op("STZ")))
  \o (IF n % 16 = 0 THEN <<>> ELSE Zeroes(8, n % 16))
ZeroSegment(buf, size) ==
  LET rest == PostCount(buf, size) IN
  Mov("DAR", buf)
    \o (IF buf % 8 = 0 THEN <<>> ELSE Zeroes(1, AlignCount(buf, size)))
    \o ZeroBursts(BurstCount(buf, size))
    \o (IF rest = 0 THEN <<>> ELSE Zeroes(1, rest))

-----------------------------------------------------------------------------
\* Memory to register and back: bursts of 16 accesses of the width of the register.
ToRegisterSegment(src, w, n) ==
  Mov("SAR", src)
    \o (IF n \div 16 = 0 THEN <<>>
        ELSE Ccr(w, 16, TRUE, w, 16, FALSE) \o Nested(n \div 16, LdSt))
    \o (IF n % 16 = 0 THEN <<>> ELSE Ccr(w, n % 16, TRUE, w, n % 16, FALSE) \o LdSt)
FromRegisterSegment(dst, w, n) ==
  Mov("DAR", dst)
    \o (IF n \div 16 = 0 THEN <<>>
        ELSE Ccr(w, 16, FALSE, w, 16, TRUE) \o Nested(n \div 16, LdSt))
    \o (IF n % 16 = 0 THEN <<>> ELSE Ccr(w, n % 16, FALSE, w, n % 16, TRUE) \o LdSt)

-----------------------------------------------------------------------------
\* I2C.  A burst has at most 16 accesses; the threshold is kept in 8 bits.
Threshold(level) == (level + 1) % 256
BurstSize(level) == IF Threshold(level) > 1 THEN Least(Threshold(level), 16) ELSE 0

\* Command word k of the scratch buffer to the I2C, n times.
Custom(k, n, first) ==
  (IF first THEN Mov("DAR", Register) ELSE <<>>) \o Mov("SAR", Scratch(k))
    \o (IF first THEN Ccr(4, 1, FALSE, 4, 1, FALSE) ELSE <<>>)
    \o Repeat(n, Wfp("tx", FALSE) \o LdSt)

\* Transfers of n bytes in bursts of bs, where bs is not 0, and then one by one.
Bursts(n, bs, ccr, body) == IF bs = 0 \/ n < bs THEN <<>> ELSE ccr \o Repeat(n \div bs, body)
Singles(n, bs, ccr, body) ==
  LET left == IF bs = 0 THEN n ELSE n % bs IN IF left = 0 THEN <<>> ELSE ccr \o Repeat(left, body)

I2cSendSegment(src, n, level) ==
  LET bs == BurstSize(level) IN
  Mov("SAR", src)
    \o Bursts(n, bs, Ccr(1, bs, TRUE, 1, 1, FALSE), Wfp("tx", TRUE) \o Op("LD") \o Times(bs, Op("ST")))
    \o Singles(n, bs, Ccr(1, 1, TRUE, 1, 1, FALSE), Wfp("tx", FALSE) \o LdSt)
I2cSend(src, n, level) == Mov("DAR", Register) \o I2cSendSegment(src, n, level)
I2cReceiveSegment(dst, n, level) ==
  LET bs == BurstSize(level) IN
  Mov("DAR", dst)
    \o Bursts(n, bs, Ccr(1, 1, FALSE, 1, bs, TRUE), Wfp("rx", TRUE) \o Times(bs, Op("LD")) \o Op("ST"))
    \o Singles(n, bs, Ccr(1, 1, FALSE, 1, 1, TRUE), Wfp("rx", FALSE) \o LdSt)
I2cReceive(dst, n, level) == Mov("SAR", Register) \o I2cReceiveSegment(dst, n, level)

\* Mutant of I2cSendMaster: the byte sent with the restart is sent again.
I2cSendMasterAgain(src, size, p) ==
  LET n == size - (IF p.restart THEN 1 ELSE 0) - (IF p.stop THEN 1 ELSE 0) IN
  IF size = 1 THEN Custom(3, 1, TRUE)
  ELSE (IF p.restart THEN Custom(1, 1, TRUE) ELSE <<>>)
       \o (IF n > 0 THEN I2cSend(src, n, p.level) ELSE <<>>)
       \o (IF p.stop THEN Custom(2, 1, n # 0) ELSE <<>>)

\* The first byte with a restart is word 1, the last with a stop word 2, a single
\* byte word 3.
I2cSendMaster(src, size, p) ==
  LET restart == IF p.restart THEN 1 ELSE 0
      n == size - restart - (IF p.stop THEN 1 ELSE 0)
  IN IF size = 1 THEN Custom(3, 1, TRUE)
     ELSE (IF p.restart THEN Custom(1, 1, TRUE) ELSE <<>>)
          \o (IF n > 0 THEN I2cSend(src + restart, n, p.level) ELSE <<>>)
          \o (IF p.stop THEN Custom(2, 1, n # 0) ELSE <<>>)

\* The read commands that fill the FIFO before the first byte is taken.
Prefill(size) ==
  LET n == Least(size, I2cFifo) IN
  CASE n = 1 -> Custom(3, 1, TRUE)
    [] n # 1 /\ n = size ->
         Custom(1, 1, TRUE) \o (IF n > 2 THEN Custom(0, n - 2, FALSE) ELSE <<>>) \o Custom(2, 1, FALSE)
    [] OTHER -> Custom(1, 1, TRUE) \o Custom(0, n - 1, FALSE)

\* Mutant of Refill: as many read commands as there is room in an empty FIFO.
RefillWhole(left) ==
  LET n == Least(left, I2cFifo) IN
  CASE n = 0 -> <<>>
    [] n # 0 /\ n = left -> Custom(0, n - 1, TRUE) \o Custom(2, 1, FALSE)
    [] OTHER -> Custom(0, n, TRUE)

\* Mutant of Refill: every batch of commands ends with the stop.
RefillStopping(left) ==
  LET n == Least(left, I2cFifo \div 2) IN
  IF n = 0 THEN <<>> ELSE Custom(0, n - 1, TRUE) \o Custom(2, 1, FALSE)

\* Mutant of Refill: only whole halves of a FIFO are asked for.
RefillHalves(left) == IF left < I2cFifo \div 2 THEN <<>> ELSE Custom(0, I2cFifo \div 2, TRUE)

Refill(left) ==
  LET n == Least(left, I2cFifo \div 2) IN
  CASE n = 0 -> <<>>
    [] n # 0 /\ n = left -> Custom(0, n - 1, TRUE) \o Custom(2, 1, FALSE)
    [] OTHER -> Custom(0, n, TRUE)

\* Then half a FIFO is taken and half a FIFO asked for, until all is taken.
I2cReceiveMaster(dst, size, p) ==
  LET half == I2cFifo \div 2
      Round(i) ==
        LET done == (i - 1) * half
            asked == I2cFifo + done
        IN I2cReceive(dst + done, Least(size - done, half), p.level)
           \o (IF size > asked THEN Refill(size - asked) ELSE <<>>)
  IN Prefill(size) \o FlattenSeq([i \in 1..((size + half - 1) \div half) |-> Round(i)])

-----------------------------------------------------------------------------
\* QSPI.  A request of 2^log bytes is moved in beats of 4 bytes on the side of the
\* flash, of up to 8 bytes in bursts of up to 16 on the side of the memory.
Beat(log) == 2 ^ Least(3, log)
Beats(log) == 2 ^ log \div Beat(log)
Multiple(log) == IF Beats(log) <= 16 THEN 1 ELSE Beats(log) \div 16
QspiUsesBursts(p, n) == p.burst > p.single /\ n \div 2 ^ p.burst # 0
QspiSingles(p, n) == (IF QspiUsesBursts(p, n) THEN n % 2 ^ p.burst ELSE n) \div 2 ^ p.single
QspiRest(a, size) == IF a % 8 = 0 THEN size ELSE size - 4

QspiSendBlock(log, burst, n) ==
  Ccr(Beat(log), Least(Beats(log), 16), TRUE, 4, 1, FALSE)
    \o Repeat(n, Wfp("tx", burst) \o Times(Multiple(log), Op("LD")) \o Times(2 ^ log \div 4, Op("ST")))
QspiSendBursts(n, p) ==
  IF QspiUsesBursts(p, n) THEN QspiSendBlock(p.burst, TRUE, n \div 2 ^ p.burst) ELSE <<>>
QspiSendSingles(n, p) ==
  IF QspiSingles(p, n) = 0 THEN <<>> ELSE QspiSendBlock(p.single, FALSE, QspiSingles(p, n))
QspiSendSegment(src, size, p) ==
  LET n == QspiRest(src, size) IN
  Mov("SAR", src)
    \o (IF src % 8 = 0 THEN <<>> ELSE Ccr(4, 1, TRUE, 4, 1, FALSE) \o Wfp("tx", FALSE) \o LdSt)
    \o QspiSendBursts(n, p) \o QspiSendSingles(n, p)
QspiSend(src, size, p) == Mov("DAR", Register) \o QspiSendSegment(src, size, p)

QspiReceiveBlock(log, burst, n) ==
  Ccr(4, 1, FALSE, Beat(log), Least(Beats(log), 16), TRUE)
    \o Nested(n, Wfp("rx", burst) \o Times(2 ^ log \div 4, Op("LD")) \o Times(Multiple(log), Op("ST")))
QspiReceiveBursts(n, p) ==
  IF QspiUsesBursts(p, n) THEN QspiReceiveBlock(p.burst, TRUE, n \div 2 ^ p.burst) ELSE <<>>
QspiReceiveSingles(n, p) ==
  IF QspiSingles(p, n) = 0 THEN <<>> ELSE QspiReceiveBlock(p.single, FALSE, QspiSingles(p, n))
QspiReceiveSegment(dst, size, p) ==
  LET n == QspiRest(dst, size) IN
  Mov("DAR", dst)
    \o (IF dst % 8 = 0 THEN <<>> ELSE Ccr(4, 1, FALSE, 4, 1, TRUE) \o Wfp("rx", FALSE) \o LdSt)
    \o QspiReceiveBursts(n, p) \o QspiReceiveSingles(n, p)
QspiReceive(dst, size, p) == Mov("SAR", Register) \o QspiReceiveSegment(dst, size, p)

-----------------------------------------------------------------------------
\* 16550 UART.  Bursts are cut to a multiple of 16 bytes.
UartTxBurst(p) ==
  CASE p.trigger = "EMPTY" -> p.depth
    [] p.trigger = "ALMOST_EMPTY" -> Wrap(p.depth - 2)
    [] p.trigger = "QUARTER_FULL" -> 3 * (p.depth \div 4)
    [] OTHER -> p.depth \div 2
UartRxBurst(p) ==
  CASE p.trigger = "ANY" -> 1
    [] p.trigger = "QUARTER_FULL" -> p.depth \div 4
    [] p.trigger = "HALF_FULL" -> p.depth \div 2
    [] OTHER -> Wrap(p.depth - 2)
\* Mutant of UartBurst: rounded up to a multiple of 16.
UartBurstUp(p, b) == IF p.fifo /\ b >= 16 THEN 16 * ((b + 15) \div 16) ELSE 0

UartBurst(p, b) == IF p.fifo /\ b >= 16 THEN b - (b % 16) ELSE 0

UartBody(dir, bs) == Wfp(dir, TRUE) \o Rounds(bs \div 16, LdSt)
UartSendBursts(n, bs) == Bursts(n, bs, Ccr(1, 16, TRUE, 1, 16, FALSE), UartBody("tx", bs))
UartSendSingles(n, bs) == Singles(n, bs, Ccr(1, 1, TRUE, 1, 1, FALSE), Wfp("tx", FALSE) \o LdSt)
UartSendRegion(src, n, bs) == Mov("SAR", src) \o UartSendBursts(n, bs) \o UartSendSingles(n, bs)
UartSend(src, n, p) ==
  Mov("DAR", Register) \o UartSendRegion(src, n, UartBurst(p, UartTxBurst(p)))

UartReceiveBursts(n, bs) == Bursts(n, bs, Ccr(1, 16, FALSE, 1, 16, TRUE), UartBody("rx", bs))
UartReceiveSingles(n, bs) == Singles(n, bs, Ccr(1, 1, FALSE, 1, 1, TRUE), Wfp("rx", FALSE) \o LdSt)
UartReceiveRegion(dst, n, bs) ==
  Mov("DAR", dst) \o UartReceiveBursts(n, bs) \o UartReceiveSingles(n, bs)
UartReceive(dst, n, p) ==
  Mov("SAR", Register) \o UartReceiveRegion(dst, n, UartBurst(p, UartRxBurst(p)))

-----------------------------------------------------------------------------
\* Requests.  dst, src: where; a device is Register.  n: bytes, or accesses of a
\* register of width bytes.  evt: an event is asked for.  per: the peripheral.
Size(r) == Wrap(r.n * r.width)
Memory(r) == IF r.op \in {"m2r", "m2p"} THEN r.src ELSE r.dst

Overshoots(a, n) == Wrap(a + n - 1) < a

Overlaps(dst, src, n) == IF dst > src THEN Wrap(src + n - 1) > dst ELSE Wrap(dst + n - 1) > src

QspiRefuses(a, n, p) == a % 4 # 0 \/ n % 4 # 0 \/ n % 2 ^ p.single # 0

CopyVerdict(r) ==
  CASE Overlaps(r.dst, r.src, r.n) -> "bad_arg"
    [] Overshoots(r.dst, r.n) \/ Overshoots(r.src, r.n) -> "error"
    [] OTHER -> "success"
RegisterVerdict(r) ==
  CASE r.width \notin {1, 2, 4, 8} -> "bad_arg"
    [] Memory(r) % r.width # 0 -> "bad_arg"
    [] Overshoots(Memory(r), Size(r)) -> "error"
    [] OTHER -> "success"
PeriphVerdict(r) ==
  CASE Overshoots(Memory(r), r.n) \/ r.per.kind = "other" -> "bad_arg"
    [] r.per.kind = "qspi" /\ QspiRefuses(Memory(r), r.n, r.per) -> "error"
    [] OTHER -> "success"
Verdict(r) ==
  CASE r.n = 0 -> "success"
    [] r.n # 0 /\ r.op = "m2m" -> CopyVerdict(r)
    [] r.n # 0 /\ r.op = "zero" -> IF Overshoots(r.dst, r.n) THEN "error" ELSE "success"
    [] r.n # 0 /\ r.op \in {"m2r", "r2m"} -> RegisterVerdict(r)
    [] OTHER -> PeriphVerdict(r)

ToI2c(r) ==
  IF r.per.master THEN I2cSendMaster(r.src, r.n, r.per) ELSE I2cSend(r.src, r.n, r.per.level)
ToPeriph(r) ==
  CASE r.per.kind = "i2c" -> ToI2c(r)
    [] r.per.kind = "qspi" -> QspiSend(r.src, r.n, r.per)
    [] OTHER -> UartSend(r.src, r.n, r.per)
FromI2c(r) ==
  IF r.per.master THEN I2cReceiveMaster(r.dst, r.n, r.per) ELSE I2cReceive(r.dst, r.n, r.per.level)
FromPeriph(r) ==
  CASE r.per.kind = "i2c" -> FromI2c(r)
    [] r.per.kind = "qspi" -> QspiReceive(r.dst, r.n, r.per)
    [] OTHER -> UartReceive(r.dst, r.n, r.per)

ToRegister(r) ==
  Mov("DAR", Register)
    \o (IF Size(r) = 0 THEN <<>> ELSE ToRegisterSegment(r.src, r.width, Size(r) \div r.width))
FromRegister(r) ==
  Mov("SAR", Register)
    \o (IF Size(r) = 0 THEN <<>> ELSE FromRegisterSegment(r.dst, r.width, Size(r) \div r.width))

Transfer(r) ==
  CASE r.op = "m2m" -> CopySegment(r.dst, r.src, r.n)
    [] r.op = "zero" -> ZeroSegment(r.dst, r.n)
    [] r.op = "m2r" -> ToRegister(r)
    [] r.op = "r2m" -> FromRegister(r)
    [] r.op = "m2p" -> ToPeriph(r)
    [] OTHER -> FromPeriph(r)

\* Mutant of Signal: the barrier is forgotten.
SignalAtOnce(r) == IF r.evt THEN Op("SEV") ELSE <<>>

\* Only a copy waits for its stores before it sends the event.
Signal(r) == IF r.evt THEN (IF r.op = "m2m" THEN Op("WMB") ELSE <<>>) \o Op("SEV") ELSE <<>>

\* The program of a request that is not refused.
Program(r) == (IF r.n = 0 THEN <<>> ELSE Transfer(r)) \o Signal(r) \o Op("END")

=============================================================================
