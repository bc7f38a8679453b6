---------------------------- MODULE DmaTransfer -----------------------------
(***************************************************************************)
(* One channel of the DMA-330 executes what DmaProgram assembled for a     *)
(* request.  The controller, the memory and the peripherals are outside    *)
(* the repository: they are modelled as far as alt_dma.c relies on them.   *)
(* A byte in the FIFO of the channel is known by its offset in the data of *)
(* the request, a word of the I2C scratch buffer by its negative address.  *)
(***************************************************************************)
EXTENDS DmaProgram

CONSTANT Requests  \* the calls that are made

\* The arguments of a call as their types bound them: 32 bit numbers, and the fields of the
\* I2C and QSPI registers that hold a FIFO level (8 bits) or the exponent of a size (4 bits).
\* The UART tells its depth in an 8 bit number of 16 bytes (4998, 5436); a FIFO that is
\* enabled exists.
Words == 0..(AddrSpace - 1)
Peripherals ==
  [kind : {"i2c"}, master : BOOLEAN, level : 0..255, restart : BOOLEAN, stop : BOOLEAN] \cup
  [kind : {"qspi"}, single : 0..15, burst : 0..15] \cup
  {p \in [kind : {"uart"}, fifo : BOOLEAN, depth : {16 * k : k \in 0..255}, trigger : STRING] :
     p.fifo => p.depth > 0} \cup
  [kind : {"other"}]

ASSUME RequestsAssumption ==
  \A r \in Requests :
    /\ r.n \in Words /\ r.width \in Nat
    /\ CASE r.op = "m2m" -> r.dst \in Words /\ r.src \in Words
         [] r.op = "zero" -> r.dst \in Words
         [] r.op \in {"m2r", "m2p"} -> r.dst = Register /\ r.src \in Words
         [] r.op \in {"r2m", "p2m"} -> r.dst \in Words /\ r.src = Register
         [] OTHER -> FALSE
    /\ r.op \notin {"m2r", "r2m"} => r.width = 1
    /\ IF r.op \in {"m2p", "p2m"} THEN r.per \in Peripherals ELSE r.per.kind = "none"

VARIABLES
  req,        \* the request
  phase,      \* "idle", "run", "ended", "refused" or "starved"
  prog, pc,   \* its program, and the instruction to execute
  loops,      \* open loops, the inner one last
  sar, dar,   \* addresses to load from and to store to
  ccr,        \* shape of the loads and stores
  fifo,       \* loaded and not yet stored
  got,        \* bytes loaded from a device
  done,       \* bytes of the request stored ...
  landed,     \* ... and known to have arrived
  asked,      \* read commands given to the I2C
  room,       \* what the peripheral granted and was not yet used
  bus,        \* the last word written to the I2C
  exact,      \* no byte was stored in a wrong place, twice or out of order
  signalled   \* the event was sent

registers == <<pc, loops, sar, dar, ccr>>
data == <<fifo, got, done, landed, asked, room, bus, exact, signalled>>
vars == <<req, phase, prog, registers, data>>

NoRequest == [op |-> "none", dst |-> 0, src |-> 0, n |-> 0, width |-> 1, evt |-> FALSE,
              per |-> [kind |-> "none"]]
NoCcr == Ccr(1, 1, TRUE, 1, 1, TRUE)[1]
NoWord == [at |-> -1, restart |-> FALSE, stop |-> FALSE]

TypeOK ==
  /\ phase = "idle" <=> req = NoRequest
  /\ phase \in {"idle", "run", "ended", "refused", "starved"}
  /\ phase = "run" => pc \in 1..Len(prog)
  /\ \A k \in 1..Len(loops) : loops[k].start \in 1..pc /\ loops[k].left \in 1..256
  /\ ccr.sb \in 1..16 /\ ccr.db \in 1..16
  /\ ccr.ss \in {1, 2, 4, 8} /\ ccr.ds \in {1, 2, 4, 8}
  /\ sar \in -100..AddrSpace /\ dar \in -100..AddrSpace
  /\ <<got, done, landed, asked>> \in Nat \X Nat \X Nat \X Nat
  /\ exact \in BOOLEAN /\ signalled \in BOOLEAN

Blank ==
  /\ pc' = 1 /\ loops' = <<>> /\ sar' = 0 /\ dar' = 0 /\ ccr' = NoCcr
  /\ fifo' = <<>> /\ got' = 0 /\ done' = 0 /\ landed' = 0 /\ asked' = 0
  /\ room' = 0 /\ bus' = NoWord /\ exact' = TRUE /\ signalled' = FALSE

Init ==
  /\ req = NoRequest /\ phase = "idle" /\ prog = <<>>
  /\ pc = 1 /\ loops = <<>> /\ sar = 0 /\ dar = 0 /\ ccr = NoCcr
  /\ fifo = <<>> /\ got = 0 /\ done = 0 /\ landed = 0 /\ asked = 0
  /\ room = 0 /\ bus = NoWord /\ exact = TRUE /\ signalled = FALSE

\* A transfer is requested: refused, nothing to do, or handed to the channel.
Request(r) ==
  /\ phase = "idle"
  /\ req' = r
  /\ \/ /\ r.n = 0 /\ ~r.evt
        /\ phase' = "ended" /\ prog' = <<>>
     \/ /\ Verdict(r) # "success"
        /\ phase' = "refused" /\ prog' = <<>>
     \/ /\ Verdict(r) = "success" /\ (r.n # 0 \/ r.evt)
        /\ phase' = "run" /\ prog' = Program(r)
  /\ UNCHANGED <<registers, data>>

\* The caller is through with it, or kills the channel.
Over ==
  /\ phase # "idle"
  /\ phase' = "idle" /\ req' = NoRequest /\ prog' = <<>>
  /\ Blank

-----------------------------------------------------------------------------
At(name) == phase = "run" /\ prog[pc].op = name
Continue == pc' = pc + 1 /\ UNCHANGED <<req, phase, prog>>

MovSar ==
  /\ At("SAR") /\ Continue /\ sar' = prog[pc].at
  /\ UNCHANGED <<loops, dar, ccr, data>>
MovDar ==
  /\ At("DAR") /\ Continue /\ dar' = prog[pc].at
  /\ UNCHANGED <<loops, sar, ccr, data>>
MovCcr ==
  /\ At("CCR") /\ Continue /\ ccr' = prog[pc]
  /\ UNCHANGED <<loops, sar, dar, data>>
Lp ==
  /\ At("LP") /\ Continue
  /\ loops' = Append(loops, [start |-> pc + 1, left |-> prog[pc].n])
  /\ UNCHANGED <<sar, dar, ccr, data>>
LpEnd ==
  /\ At("LPEND")
  /\ LET k == Len(loops) IN
     \/ /\ loops[k].left > 1
        /\ loops' = [loops EXCEPT ![k].left = @ - 1]
        /\ pc' = loops[k].start
     \/ /\ loops[k].left = 1
        /\ loops' = Front(loops)
        /\ pc' = pc + 1
  /\ UNCHANGED <<req, phase, prog, sar, dar, ccr, data>>

\* Fill level at which a UART asks for a burst.
TxMark(p) ==
  CASE p.trigger = "EMPTY" -> 0         [] p.trigger = "ALMOST_EMPTY" -> 2
    [] p.trigger = "QUARTER_FULL" -> p.depth \div 4 [] OTHER -> p.depth \div 2
RxMark(p) ==
  CASE p.trigger = "ANY" -> 1           [] p.trigger = "QUARTER_FULL" -> p.depth \div 4
    [] p.trigger = "HALF_FULL" -> p.depth \div 2    [] OTHER -> p.depth - 2

\* Bytes or I2C words a request of the peripheral promises room or data for.
Grant(dir, burst) ==
  CASE req.per.kind = "qspi" -> 2 ^ (IF burst THEN req.per.burst ELSE req.per.single)
    [] req.per.kind # "qspi" /\ ~burst -> 1
    [] req.per.kind = "i2c" /\ burst -> Threshold(req.per.level)
    [] OTHER -> IF dir = "tx" THEN req.per.depth - TxMark(req.per) ELSE RxMark(req.per)
I2c == req.per.kind = "i2c"
Reads == req.op = "p2m"
Expected == IF I2c /\ req.per.master THEN asked ELSE req.n

\* DMAFLUSHP and DMAWFP.  A device has no more to give than the transfer asks of it.
WaitForPeripheral ==
  /\ At("WFP") /\ Continue
  /\ LET g == Grant(prog[pc].dir, prog[pc].burst) IN
     /\ prog[pc].dir = "rx" => Expected - got >= g
     /\ room' = g
  /\ UNCHANGED <<loops, sar, dar, ccr, fifo, got, done, landed, asked, bus, exact, signalled>>

\* The first beat of an unaligned access is cut to the boundary.
LoadSize == ccr.ss * ccr.sb - (IF ccr.si THEN sar % ccr.ss ELSE 0)
StoreSize == ccr.ds * ccr.db - (IF ccr.di THEN dar % ccr.ds ELSE 0)
Used(n) == CASE req.per.kind = "none" -> 0 [] I2c -> 1 [] OTHER -> n

Load ==
  /\ At("LD") /\ Continue
  /\ fifo' = fifo \o [i \in 1..LoadSize |->
                        IF sar = Register THEN got + i - 1
                        ELSE IF sar < 0 THEN sar ELSE sar - req.src + i - 1]
  /\ sar' = IF ccr.si THEN sar + LoadSize ELSE sar
  /\ IF sar = Register
     THEN got' = got + LoadSize /\ room' = room - Used(LoadSize)
     ELSE UNCHANGED <<got, room>>
  /\ UNCHANGED <<loops, dar, ccr, done, landed, asked, bus, exact, signalled>>

\* What the words of the scratch buffer say; word k is at -1 - k.
SaysRestart(w) == IF Reads THEN w \in {Scratch(1), Scratch(3)} /\ req.per.restart
                  ELSE w = Scratch(1) \/ (w = Scratch(3) /\ req.per.restart)
SaysStop(w) == IF Reads THEN w \in {Scratch(2), Scratch(3)} /\ req.per.stop
               ELSE w = Scratch(2) \/ (w = Scratch(3) /\ req.per.stop)
ByteOf(w) == IF w >= 0 THEN w ELSE IF w = Scratch(2) THEN req.n - 1 ELSE 0

\* To the I2C: a byte, a byte with its flags, or a command to read one.
StoreWord ==
  /\ bus' = [at |-> IF Reads THEN asked ELSE done,
             restart |-> SaysRestart(fifo[1]), stop |-> SaysStop(fifo[1])]
  /\ IF Reads
     THEN asked' = asked + 1 /\ UNCHANGED <<done, exact>>
     ELSE done' = done + 1 /\ exact' = (exact /\ ByteOf(fifo[1]) = done) /\ UNCHANGED asked
StoreBytes ==
  /\ done' = done + StoreSize
  /\ exact' = /\ exact
              /\ dar # Register => dar - req.dst = done
              /\ \A i \in 1..StoreSize : fifo[i] = done + i - 1
  /\ UNCHANGED <<asked, bus>>

Store ==
  /\ At("ST") /\ StoreSize <= Len(fifo) /\ Continue
  /\ fifo' = SubSeq(fifo, StoreSize + 1, Len(fifo))
  /\ dar' = IF ccr.di THEN dar + StoreSize ELSE dar
  /\ IF I2c /\ dar = Register THEN StoreWord ELSE StoreBytes
  /\ room' = IF dar = Register THEN room - Used(StoreSize) ELSE room
  /\ UNCHANGED <<loops, sar, ccr, got, landed, signalled>>

\* Nothing left to store: the channel waits for data that was never loaded.
Starve ==
  /\ At("ST") /\ StoreSize > Len(fifo)
  /\ phase' = "starved"
  /\ UNCHANGED <<req, prog, registers, data>>

StoreZero ==
  /\ At("STZ") /\ Continue
  /\ done' = done + StoreSize
  /\ exact' = (exact /\ dar - req.dst = done)
  /\ dar' = dar + StoreSize
  /\ UNCHANGED <<loops, sar, ccr, fifo, got, landed, asked, room, bus, signalled>>

\* Stores are posted and arrive later, which the program can tell only where it
\* signals or ends; the barrier and the end wait for them.
Land ==
  /\ At("WMB") \/ At("SEV") \/ At("END")
  /\ landed # done
  /\ landed' = done
  /\ UNCHANGED <<req, phase, prog, registers, fifo, got, done, asked, room, bus, exact, signalled>>
Barrier ==
  /\ At("WMB") /\ landed = done /\ Continue
  /\ UNCHANGED <<loops, sar, dar, ccr, data>>
SendEvent ==
  /\ At("SEV") /\ Continue /\ signalled' = TRUE
  /\ UNCHANGED <<loops, sar, dar, ccr, fifo, got, done, landed, asked, room, bus, exact>>
End ==
  /\ At("END") /\ landed = done
  /\ phase' = "ended"
  /\ UNCHANGED <<req, prog, registers, data>>

Execute ==
  \/ MovSar \/ MovDar \/ MovCcr \/ Lp \/ LpEnd \/ WaitForPeripheral
  \/ Load \/ Store \/ Starve \/ StoreZero \/ Barrier \/ SendEvent \/ End

-----------------------------------------------------------------------------
(* Properties.                                                             *)

\* Every byte is stored at its place, in order and once: the corrections of an
\* unaligned copy and the loops of long transfers leave nothing out or behind
\* (alt_dma.c 1123-1401, 1589-1801, 1908-2439 and the peripheral segments).
RightPlace == exact

\* The bytes a transfer asked for; and the QSPI requests whose pieces do not add up:
\* the odd word at the start takes 4 bytes of what are counted as whole requests
\* (3692, 3743), and a request of less than a word moves no word at all (3786, 3906).
Asked(r) == r.n * r.width
QspiMisfit(r) ==
  /\ r.per.kind = "qspi" /\ r.n # 0
  /\ \/ r.per.single > 2 /\ Memory(r) % 8 # 0
     \/ r.per.single < 2 /\ QspiSingles(r.per, QspiRest(Memory(r), r.n)) # 0
     \/ r.per.burst < 2 /\ QspiUsesBursts(r.per, QspiRest(Memory(r), r.n))

\* A transfer that ended has moved all of the request, except exactly for those, and
\* for a count of registers whose bytes wrap round in 32 bits (2182, 2542).
EndsWhole ==
  phase \in {"ended", "starved"} =>
    (phase = "ended" /\ done = Asked(req) <=> ~QspiMisfit(req) /\ Asked(req) < AddrSpace)

\* No request of a peripheral is answered with more than it promised room or data
\* for, so that no FIFO over- or underruns (4998-5036, 5436-5474, 2740-2753), but for
\* the odd word of a QSPI with requests of less than a word (3699-3743).
NoOverrun ==
  room < 0 => req.per.kind = "qspi" /\ req.per.single < 2 /\ Memory(req) % 8 # 0

\* An I2C master transfer has its restart on the first byte and its stop on the last
\* byte only, over whatever pieces it is made of (2994-3076, 3421-3598).
FramedOnce ==
  I2c /\ req.per.master /\ bus.at >= 0 =>
    /\ bus.restart <=> req.per.restart /\ bus.at = 0
    /\ bus.stop <=> req.per.stop /\ bus.at = req.n - 1

\* A master read has never more bytes on their way than the FIFO of the I2C holds,
\* and asks for no more than it takes (3442-3598).
ReadsFitFifo == asked - got <= I2cFifo /\ asked <= req.n

\* The event of a copy is sent after its last byte has arrived (1555-1567).
EventAfterData == signalled /\ req.op = "m2m" => landed = req.n

\* A channel has two loop counters (1706-1726, 4743-4802).
TwoLoops == Len(loops) <= 2

\* Requests in which a burst of the peripheral is moved as a whole.
Matched(r) ==
  /\ ~QspiMisfit(r)
  /\ r.per.kind = "i2c" => Threshold(r.per.level) <= 16
  /\ r.per.kind = "uart" /\ r.op = "p2m" => RxMark(r.per) < 16 \/ RxMark(r.per) % 16 = 0

\* Then the channel never waits for good, not even for a device that has no more
\* data than the transfer asks for (3531-3600, 5436-5502).
TransferEnds == phase = "run" /\ Matched(req) ~> phase # "run"

-----------------------------------------------------------------------------
Next ==
  \/ \E r \in Requests : Request(r)
  \/ Execute \/ Land \/ Over

\* The controller executes and its writes arrive; nobody has to ask or to stop it.
Spec == Init /\ [][Next]_vars /\ WF_vars(Execute) /\ WF_vars(Land)

=============================================================================
