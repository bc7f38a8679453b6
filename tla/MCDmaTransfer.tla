--------------------------- MODULE MCDmaTransfer ----------------------------
EXTENDS DmaTransfer

\* Regions far from and next to each other, every alignment, sizes around the bursts
\* of 8 and 128 bytes and one beyond 256 bursts.
None == [kind |-> "none"]
Call(op, dst, src, n, width, evt, per) ==
  [op |-> op, dst |-> dst, src |-> src, n |-> n, width |-> width, evt |-> evt, per |-> per]
Mem == 4096

\* Copies between regions that overlap, touch, or lie just apart.
CloseCopies == {Call("m2m", Mem + k, Mem, n, 1, FALSE, None) : k \in -10..10, n \in {1, 9, 10}}

Copies ==
  {Call("m2m", d, s, n, 1, n = 9, None) :
     d \in 0..7, s \in Mem..(Mem + 7), n \in {0, 1, 2, 7, 8, 9, 15, 24, 139, 264}}
  \cup {Call("m2m", s, s, n, 1, FALSE, None) : s \in {Mem}, n \in {0, 1, 2, 9}}
  \cup CloseCopies
  \cup {Call("m2m", AddrSpace - k, Mem, n, 1, FALSE, None) : k \in 1..9, n \in {1, 8, 9}}
  \cup {Call("m2m", Mem, AddrSpace - k, n, 1, FALSE, None) : k \in 1..9, n \in {1, 8, 9}}
  \cup {Call("m2m", 2, 16 * Mem + 1, 128 * 258 + 9, 1, TRUE, None), Call("m2m", 8, 0, 0, 1, TRUE, None)}

Zeros ==
  {Call("zero", d, 0, n, 1, n = 9, None) : d \in 0..7, n \in {0, 1, 7, 9, 24, 139, 264}}
  \cup {Call("zero", AddrSpace - k, 0, 8, 1, FALSE, None) : k \in 7..9}
  \cup {Call("zero", 3, 0, 128 * 514 + 17, 1, FALSE, None)}

OfRegister(op, at, n, w) ==
  Call(op, IF op = "m2r" THEN Register ELSE at, IF op = "m2r" THEN at ELSE Register, n, w, n = 15, None)
RegisterCalls ==
  {OfRegister(op, at, n, w) : op \in {"m2r", "r2m"}, at \in {0, 2, 8}, w \in {1, 2, 3, 4, 8},
     n \in {0, 1, 15, 16, 33}}
  \cup {OfRegister(op, at, n, 2) : op \in {"m2r", "r2m"}, at \in {2, AddrSpace - 8240}, n \in {16 * 257 + 8}}
  \cup {OfRegister(op, at, AddrSpace \div 8 + k, 8) : op \in {"m2r", "r2m"}, at \in {0, 8}, k \in {0, 1}}

OfPeriph(op, at, n, per) ==
  Call(op, IF op = "m2p" THEN Register ELSE at, IF op = "m2p" THEN at ELSE Register, n, 1, n = 3, per)
I2cCalls ==
  {OfPeriph(op, 5, n, [kind |-> "i2c", master |-> m, level |-> l, restart |-> rs, stop |-> st]) :
     op \in {"m2p", "p2m"}, n \in {1, 2, 3, 20, 64, 65, 97}, m \in BOOLEAN, l \in {0, 7},
     rs \in BOOLEAN, st \in BOOLEAN}
  \cup {OfPeriph(op, 5, 50, [kind |-> "i2c", master |-> TRUE, level |-> l, restart |-> TRUE, stop |-> TRUE]) :
          op \in {"m2p", "p2m"}, l \in {15, 40, 255}}
QspiCalls ==
  {OfPeriph(op, at, n, [kind |-> "qspi", single |-> s, burst |-> b]) :
     op \in {"m2p", "p2m"}, at \in {0, 2, 4}, n \in {4, 8, 10, 64, 104, 384}, s \in 0..5, b \in {1, 2, 5, 8}}
  \cup {OfPeriph(op, 4, 4 * 515, [kind |-> "qspi", single |-> 2, burst |-> 0]) : op \in {"m2p", "p2m"}}
TxTriggers == {"EMPTY", "ALMOST_EMPTY", "QUARTER_FULL", "HALF_FULL"}
RxTriggers == {"ANY", "QUARTER_FULL", "HALF_FULL", "ALMOST_FULL"}
Uart(f, d, t) == [kind |-> "uart", fifo |-> f, depth |-> d, trigger |-> t]
Uarts(triggers) ==
  {Uart(TRUE, d, t) : d \in {16, 64, 128}, t \in triggers} \cup
  {Uart(FALSE, d, t) : d \in {0, 16, 64, 128}, t \in triggers}
UartCalls ==
  {OfPeriph("m2p", 1, n, u) : n \in {1, 16, 113}, u \in Uarts(TxTriggers)}
  \cup {OfPeriph("p2m", 1, n, u) : n \in {1, 16, 113}, u \in Uarts(RxTriggers)}
  \cup {OfPeriph("m2p", 1, 16 * 513, Uart(TRUE, 16, "EMPTY"))}
  \cup {OfPeriph("p2m", AddrSpace - 4, n, Uart(TRUE, 16, "ANY")) : n \in {0, 3, 4, 5}}
  \cup {OfPeriph(op, 0, 1, [kind |-> "other"]) : op \in {"m2p", "p2m"}}

AllRequests == Copies \cup Zeros \cup RegisterCalls \cup I2cCalls \cup QspiCalls \cup UartCalls

=============================================================================
