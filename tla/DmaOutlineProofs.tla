-------------------------- MODULE DmaOutlineProofs --------------------------
(***************************************************************************)
(* What the programs of DmaTransfer do to the data, for every request.     *)
(* A program is proved correct piece by piece: an outline assigns states   *)
(* of the data to its positions such that every instruction leads from     *)
(* one of them to another.  Outlines of pieces joined, repeated or put in  *)
(* a loop make an outline of the whole, and a channel never leaves it.     *)
(***************************************************************************)
EXTENDS DmaTransferProofs

-----------------------------------------------------------------------------
(* The data of a channel, and what an instruction does to them.            *)

Raw ==
  [sar : Int, dar : Int, ccr : Ccrs, fifo : Seq(Int), got : Int, done : Int, landed : Int,
   asked : Int, room : Int, bus : [at : Int, restart : BOOLEAN, stop : BOOLEAN],
   exact : BOOLEAN, signalled : BOOLEAN]
Now ==
  [sar |-> sar, dar |-> dar, ccr |-> ccr, fifo |-> fifo, got |-> got, done |-> done,
   landed |-> landed, asked |-> asked, room |-> room, bus |-> bus, exact |-> exact,
   signalled |-> signalled]

\* Requests of the QSPI that move an odd word although they promise less than a word.
Exempt(r) == r.per.kind = "qspi" /\ r.per.single < 2 /\ Memory(r) % 8 # 0

\* What holds of the data at any time.
Sound(r) ==
  {d \in Raw :
     /\ d.sar \in -100..AddrSpace /\ d.dar \in -100..AddrSpace
     /\ d.got \in Nat /\ d.done \in Nat /\ d.landed \in Nat /\ d.asked \in Nat
     /\ d.exact
     /\ d.room < 0 => Exempt(r)
     /\ Master(r) /\ d.bus.at >= 0 =>
          /\ d.bus.restart <=> r.per.restart /\ d.bus.at = 0
          /\ d.bus.stop <=> r.per.stop /\ d.bus.at = r.n - 1
     /\ d.asked - d.got <= I2cFifo /\ d.asked <= r.n
     /\ d.signalled /\ r.op = "m2m" => d.landed = r.n}

\* What holds of them when the program ends.
Final(r) == {d \in Sound(r) : d.done = Asked(r) <=> ~QspiMisfit(r) /\ Asked(r) < AddrSpace}

\* The terms of the model, of some data and the request.
LoadOf(d) == d.ccr.ss * d.ccr.sb - (IF d.ccr.si THEN d.sar % d.ccr.ss ELSE 0)
StoreOf(d) == d.ccr.ds * d.ccr.db - (IF d.ccr.di THEN d.dar % d.ccr.ds ELSE 0)
UsedBy(r, n) == CASE r.per.kind = "none" -> 0 [] r.per.kind = "i2c" -> 1 [] OTHER -> n
Granted(r, dir, burst) ==
  CASE r.per.kind = "qspi" -> 2 ^ (IF burst THEN r.per.burst ELSE r.per.single)
    [] r.per.kind # "qspi" /\ ~burst -> 1
    [] r.per.kind = "i2c" /\ burst -> Threshold(r.per.level)
    [] OTHER -> IF dir = "tx" THEN r.per.depth - TxMark(r.per) ELSE RxMark(r.per)
Restarts(r, w) == IF r.op = "p2m" THEN w \in {Scratch(1), Scratch(3)} /\ r.per.restart
                  ELSE w = Scratch(1) \/ (w = Scratch(3) /\ r.per.restart)
Stops(r, w) == IF r.op = "p2m" THEN w \in {Scratch(2), Scratch(3)} /\ r.per.stop
               ELSE w = Scratch(2) \/ (w = Scratch(3) /\ r.per.stop)
Byte(r, w) == IF w >= 0 THEN w ELSE IF w = Scratch(2) THEN r.n - 1 ELSE 0
Loaded(r, d) ==
  [i \in 1..LoadOf(d) |-> IF d.sar = Register THEN d.got + i - 1
                          ELSE IF d.sar < 0 THEN d.sar ELSE d.sar - r.src + i - 1]

\* The data after an instruction that is no loop and no end.
Stored(r, d) ==
  [d EXCEPT !.fifo = SubSeq(@, StoreOf(d) + 1, Len(@)),
            !.dar = IF d.ccr.di THEN @ + StoreOf(d) ELSE @,
            !.room = IF d.dar = Register THEN @ - UsedBy(r, StoreOf(d)) ELSE @]
Result(r, c, d) ==
  CASE c.op = "SAR" -> [d EXCEPT !.sar = c.at]
    [] c.op = "DAR" -> [d EXCEPT !.dar = c.at]
    [] c.op = "CCR" -> [d EXCEPT !.ccr = c]
    [] c.op = "WFP" -> [d EXCEPT !.room = Granted(r, c.dir, c.burst)]
    [] c.op = "LD" ->
         [d EXCEPT !.fifo = @ \o Loaded(r, d),
                   !.sar = IF d.ccr.si THEN @ + LoadOf(d) ELSE @,
                   !.got = IF d.sar = Register THEN @ + LoadOf(d) ELSE @,
                   !.room = IF d.sar = Register THEN @ - UsedBy(r, LoadOf(d)) ELSE @]
    [] c.op = "ST" /\ r.per.kind = "i2c" /\ d.dar = Register ->
         LET w == d.fifo[1] IN
         IF r.op = "p2m"
         THEN [Stored(r, d) EXCEPT
                 !.bus = [at |-> d.asked, restart |-> Restarts(r, w), stop |-> Stops(r, w)],
                 !.asked = @ + 1]
         ELSE [Stored(r, d) EXCEPT
                 !.bus = [at |-> d.done, restart |-> Restarts(r, w), stop |-> Stops(r, w)],
                 !.done = @ + 1,
                 !.exact = @ /\ Byte(r, w) = d.done]
    [] c.op = "ST" /\ ~(r.per.kind = "i2c" /\ d.dar = Register) ->
         [Stored(r, d) EXCEPT
            !.done = @ + StoreOf(d),
            !.exact = /\ @
                      /\ d.dar # Register => d.dar - r.dst = d.done
                      /\ \A i \in 1..StoreOf(d) : d.fifo[i] = d.done + i - 1]
    [] c.op = "STZ" ->
         [d EXCEPT !.done = @ + StoreOf(d), !.exact = @ /\ d.dar - r.dst = d.done,
                   !.dar = @ + StoreOf(d)]
    [] c.op = "SEV" -> [d EXCEPT !.signalled = TRUE]
    [] OTHER -> d

\* When it can be executed.
Able(c, d) ==
  /\ c.op = "ST" => StoreOf(d) <= Len(d.fifo)
  /\ c.op = "WMB" => d.landed = d.done

-----------------------------------------------------------------------------
(* Outlines.                                                               *)

\* An open loop: where its body starts, and how often it is still executed.
Turns == [start : Nat \ {0}, left : 1..256]
Down(s) == [s EXCEPT ![Len(s)].left = @ - 1]
Open(s, i) ==
  /\ s \in Seq(Turns)
  /\ \A j \in 1..Len(s) : s[j].start <= i /\ \A k \in 1..j : s[k].start <= s[j].start

\* Whoever is at position i with the open loops s and the data d finds the places it may
\* go to in A.
Loops == {"LP", "LPEND"}
Waits == {"WMB", "SEV", "END"}
Follows(r, p, A, i, s, d) ==
  /\ p[i].op = "LP" =>
       <<i + 1, Append(s, [start |-> i + 1, left |-> p[i].n]), d>> \in A
  /\ p[i].op = "LPEND" =>
       /\ Len(s) > 0
       /\ IF s[Len(s)].left > 1
          THEN <<s[Len(s)].start, Down(s), d>> \in A
          ELSE <<i + 1, Front(s), d>> \in A
  /\ p[i].op \in Waits => <<i, s, [d EXCEPT !.landed = d.done]>> \in A
  /\ p[i].op = "END" /\ d.landed = d.done => d \in Final(r)
  /\ p[i].op = "ST" => StoreOf(d) <= Len(d.fifo) \/ QspiMisfit(r)
  /\ p[i].op \notin Loops \cup {"END"} /\ Able(p[i], d) => <<i + 1, s, Result(r, p[i], d)>> \in A
Outlined(r, p, A) ==
  /\ A \subseteq Nat \X Seq(Turns) \X Raw
  /\ \A i, s, d : <<i, s, d>> \in A =>
       /\ i \in 1..(Len(p) + 1) /\ Open(s, i) /\ d \in Sound(r)
       /\ i = Len(p) + 1 => s = <<>>
       /\ i \in 1..Len(p) => Follows(r, p, A, i, s, d)

\* Executed with data in P the program p is through, if at all, with data in Q.
Leads(r, p, P, Q) ==
  /\ p \in Seq(Instructions)
  /\ \E A : /\ Outlined(r, p, A)
            /\ \A d \in P : <<1, <<>>, d>> \in A
            /\ \A d : <<Len(p) + 1, <<>>, d>> \in A => d \in Q

LEMMA NothingLeads ==
  ASSUME NEW r, NEW P \in SUBSET Sound(r), NEW Q, P \subseteq Q
  PROVE  Leads(r, <<>>, P, Q)
<1>. DEFINE A == {<<1, <<>>, d>> : d \in P}
<1>1. <<>> \in Seq(Instructions) /\ Len(<<>>) = 0
  OBVIOUS
<1>2. Open(<<>>, 1) /\ <<>> \in Seq(Turns)
  BY DEF Open
<1>3. A \subseteq Nat \X Seq(Turns) \X Raw
  <2>1. \A d \in Sound(r) : d \in Raw
    BY DEF Sound
  <2>2. ASSUME NEW x \in A PROVE x \in Nat \X Seq(Turns) \X Raw
    <3>1. PICK d \in P : x = <<1, <<>>, d>>
      OBVIOUS
    <3>. QED  BY <1>2, <2>1, <3>1
  <2>. QED  BY <2>2
<1>4. \A i, s, d : <<i, s, d>> \in A => i = 1 /\ s = <<>> /\ d \in Sound(r)
  OBVIOUS
<1>5. Outlined(r, <<>>, A)
  <2>. HIDE DEF A
  <2>. QED  BY <1>1, <1>2, <1>3, <1>4 DEF Outlined
<1>. QED  BY <1>1, <1>4, <1>5 DEF Leads

LEMMA LeadsWeaker ==
  ASSUME NEW r, NEW p, NEW P, NEW Q, Leads(r, p, P, Q), NEW P2 \in SUBSET P, NEW Q2, Q \subseteq Q2
  PROVE  Leads(r, p, P2, Q2)
BY DEF Leads

\* An instruction that is no loop and waits for nothing.
LEMMA StepLeads ==
  ASSUME NEW r, NEW c \in Instructions, c.op \notin Loops \cup Waits,
         NEW P \in SUBSET Sound(r), NEW Q \in SUBSET Sound(r),
         \A d \in P : /\ c.op = "ST" => StoreOf(d) <= Len(d.fifo) \/ QspiMisfit(r)
                      /\ Able(c, d) => Result(r, c, d) \in Q
  PROVE  Leads(r, <<c>>, P, Q)
<1>. DEFINE A == {<<1, <<>>, d>> : d \in P} \cup {<<2, <<>>, d>> : d \in Q}
<1>1. <<c>> \in Seq(Instructions) /\ Len(<<c>>) = 1 /\ <<c>>[1] = c
  OBVIOUS
<1>2. Open(<<>>, 1) /\ Open(<<>>, 2) /\ <<>> \in Seq(Turns)
  BY DEF Open
<1>3. A \subseteq Nat \X Seq(Turns) \X Raw
  <2>1. \A d \in Sound(r) : d \in Raw
    BY DEF Sound
  <2>2. ASSUME NEW x \in A PROVE x \in Nat \X Seq(Turns) \X Raw
    <3>1. \A y \in Raw : <<1, <<>>, y>> \in Nat \X Seq(Turns) \X Raw
                       /\ <<2, <<>>, y>> \in Nat \X Seq(Turns) \X Raw
      BY <1>2
    <3>2. CASE x \in {<<1, <<>>, d>> : d \in P}
      BY <2>1, <3>1, <3>2
    <3>3. CASE x \in {<<2, <<>>, d>> : d \in Q}
      BY <2>1, <3>1, <3>3
    <3>. QED  BY <3>2, <3>3
  <2>. QED  BY <2>2
<1>. HIDE DEF A
<1>4. Outlined(r, <<c>>, A)
  <2>. SUFFICES ASSUME NEW i, NEW s, NEW d, <<i, s, d>> \in A
                PROVE  /\ i \in 1..2 /\ Open(s, i) /\ d \in Sound(r)
                       /\ i = 2 => s = <<>>
                       /\ i \in 1..1 => Follows(r, <<c>>, A, i, s, d)
    BY <1>1, <1>3 DEF Outlined
  <2>1. s = <<>> /\ \/ i = 1 /\ d \in P
                    \/ i = 2 /\ d \in Q
    BY DEF A
  <2>2. ASSUME i = 1, d \in P PROVE Follows(r, <<c>>, A, 1, <<>>, d)
    <3>1. Able(c, d) => <<1 + 1, <<>>, Result(r, c, d)>> \in A
      BY <2>2 DEF A
    <3>. QED  BY <1>1, <2>2, <3>1 DEF Follows, Loops, Waits
  <2>. QED  BY <1>2, <2>1, <2>2
<1>5. \A d \in P : <<1, <<>>, d>> \in A
  BY DEF A
<1>6. \A d : <<Len(<<c>>) + 1, <<>>, d>> \in A => d \in Q
  BY <1>1 DEF A
<1>. QED  BY <1>1, <1>4, <1>5, <1>6 DEF Leads

-----------------------------------------------------------------------------
(* A piece inside of a program, and inside of open loops of the program.   *)

\* The loops of a piece that starts o instructions later.
Lift(s, o) == [k \in 1..Len(s) |-> [start |-> s[k].start + o, left |-> s[k].left]]
Inside(A, c, o) ==
  {<<x[1] + o, c \o Lift(x[2], o), x[3]>> : x \in A}

LEMMA LiftElements ==
  ASSUME NEW c \in Seq(Turns), NEW s \in Seq(Turns), NEW o \in Nat
  PROVE  /\ c \o Lift(s, o) \in Seq(Turns) /\ Len(c \o Lift(s, o)) = Len(c) + Len(s)
         /\ \A j \in 1..Len(c) : (c \o Lift(s, o))[j] = c[j]
         /\ \A j \in 1..Len(s) :
              (c \o Lift(s, o))[Len(c) + j] = [start |-> s[j].start + o, left |-> s[j].left]
<1>1. \A k \in 1..Len(s) : [start |-> s[k].start + o, left |-> s[k].left] \in Turns
  <2>. TAKE k \in 1..Len(s)
  <2>1. s[k] \in Turns
    OBVIOUS
  <2>. QED  BY <2>1 DEF Turns
<1>2. Lift(s, o) \in Seq(Turns) /\ Len(Lift(s, o)) = Len(s)
  BY <1>1 DEF Lift
<1>3. \A k \in 1..Len(s) : Lift(s, o)[k] = [start |-> s[k].start + o, left |-> s[k].left]
  BY DEF Lift
<1>. DEFINE t == Lift(s, o)
<1>. HIDE DEF t
<1>4. /\ c \o t \in Seq(Turns) /\ Len(c \o t) = Len(c) + Len(t) /\ Len(c) \in Nat /\ Len(t) \in Nat
      /\ \A i \in 1..Len(c) + Len(t) : (c \o t)[i] = IF i <= Len(c) THEN c[i] ELSE t[i - Len(c)]
  <2>1. t \in Seq(Turns)
    BY <1>2 DEF t
  <2>. HIDE DEF Turns
  <2>. QED  BY <2>1, ConcatProperties
<1>5. \A j \in 1..Len(t) : (c \o t)[Len(c) + j] = t[j]
  <2>. TAKE j \in 1..Len(t)
  <2>1. Len(c) + j \in 1..Len(c) + Len(t) /\ ~(Len(c) + j <= Len(c)) /\ (Len(c) + j) - Len(c) = j
    BY <1>4
  <2>. QED  BY <1>4, <2>1
<1>. QED  BY <1>2, <1>3, <1>4, <1>5 DEF t

LEMMA LiftOpen ==
  ASSUME NEW o \in Nat, NEW c, Open(c, o + 1), NEW i \in Nat \ {0}, NEW s, Open(s, i)
  PROVE  Open(c \o Lift(s, o), i + o)
<1>. DEFINE w == c \o Lift(s, o)
<1>1. c \in Seq(Turns) /\ s \in Seq(Turns) /\ Len(c) \in Nat /\ Len(s) \in Nat
  BY DEF Open
<1>2. /\ w \in Seq(Turns) /\ Len(w) = Len(c) + Len(s)
      /\ \A j \in 1..Len(c) : w[j] = c[j]
      /\ \A j \in 1..Len(s) : w[Len(c) + j] = [start |-> s[j].start + o, left |-> s[j].left]
  BY <1>1, LiftElements, SMTT(20), ZenonT(40)
<1>. HIDE DEF w
<1>3. /\ \A j \in 1..Len(c) : c[j].start \in Nat \ {0}
      /\ \A j \in 1..Len(s) : s[j].start \in Nat \ {0}
  <2>1. \A S, x : x \in Seq(S) => \A j \in 1..Len(x) : x[j] \in S
    OBVIOUS
  <2>2. /\ \A j \in 1..Len(c) : c[j] \in Turns
        /\ \A j \in 1..Len(s) : s[j] \in Turns
    BY <1>1, <2>1, Zenon
  <2>. QED  BY <2>2 DEF Turns
<1>4. \A j \in 1..Len(w) : j \in 1..Len(c) \/ (j - Len(c) \in 1..Len(s) /\ j = Len(c) + (j - Len(c)))
  BY <1>1, <1>2
<1>5. \A j \in 1..Len(c) : w[j].start <= o + 1 /\ \A k \in 1..j : w[k].start <= w[j].start
  <2>1. \A j \in 1..Len(c) : \A k \in 1..j : k \in 1..Len(c)
    BY <1>1
  <2>. QED  BY <1>2, <2>1 DEF Open
<1>. DEFINE Begins(j) == w[Len(c) + j].start = s[j].start + o
<1>6. \A j \in 1..Len(s) : Begins(j)
  <2>. TAKE j \in 1..Len(s)
  <2>. DEFINE f == [start |-> s[j].start + o, left |-> s[j].left]
  <2>1. w[Len(c) + j] = f
    BY <1>2
  <2>2. f.start = s[j].start + o
    OBVIOUS
  <2>. HIDE DEF f
  <2>. QED  BY <2>1, <2>2 DEF Begins
<1>. HIDE DEF Begins
<1>7. ASSUME NEW l \in 1..Len(s), NEW k \in 1..(Len(c) + l)
      PROVE  /\ w[Len(c) + l].start >= o + 1 /\ w[Len(c) + l].start <= i + o
             /\ w[k].start <= w[Len(c) + l].start
  <2>1. w[Len(c) + l].start = s[l].start + o /\ s[l].start \in Nat \ {0} /\ s[l].start <= i
    BY <1>3, <1>6 DEF Open, Begins
  <2>2. CASE k \in 1..Len(c)
    <3>1. w[k] = c[k] /\ c[k].start \in Nat \ {0} /\ w[k].start <= o + 1
      BY <1>2, <1>3, <1>5, <2>2, Zenon
    <3>2. w[k].start \in Nat
      BY <3>1
    <3>. DEFINE x == w[Len(c) + l].start
                y == w[k].start
                p == s[l].start
    <3>3. x = p + o /\ p \in Nat \ {0} /\ p <= i /\ y \in Nat /\ y <= o + 1
      BY <2>1, <3>1, <3>2, Zenon
    <3>. HIDE DEF x, y, p
    <3>4. x >= o + 1 /\ x <= i + o /\ y <= x
      BY <3>3
    <3>. QED  BY <3>4, Zenon DEF x, y
  <2>3. CASE k \notin 1..Len(c)
    <3>. DEFINE m == k - Len(c)
    <3>1. m \in 1..l /\ m \in 1..Len(s) /\ k = Len(c) + m
      BY <1>1, <2>3
    <3>2. w[k].start = s[m].start + o /\ s[m].start <= s[l].start /\ s[m].start \in Nat
      BY <1>3, <1>6, <3>1 DEF Open, Begins
    <3>. DEFINE x == w[Len(c) + l].start
                y == w[k].start
                p == s[l].start
                q == s[m].start
    <3>3. x = p + o /\ y = q + o /\ p \in Nat \ {0} /\ p <= i /\ q \in Nat /\ q <= p
      BY <2>1, <3>2, Zenon
    <3>. HIDE DEF m, x, y, p, q
    <3>4. x >= o + 1 /\ x <= i + o /\ y <= x
      BY <3>3
    <3>. QED  BY <3>4, Zenon DEF x, y
  <2>. QED  BY <2>2, <2>3
<1>8. ASSUME NEW j \in 1..Len(w) PROVE w[j].start <= i + o /\ \A k \in 1..j : w[k].start <= w[j].start
  <2>1. CASE j \in 1..Len(c)
    <3>1. w[j].start <= o + 1 /\ w[j].start \in Nat
      BY <1>2, <1>3, <1>5, <2>1
    <3>. QED  BY <1>5, <2>1, <3>1
  <2>2. CASE j \notin 1..Len(c)
    <3>. DEFINE l == j - Len(c)
    <3>1. l \in 1..Len(s) /\ j = Len(c) + l
      BY <1>4, <2>2
    <3>. HIDE DEF l
    <3>. QED  BY <1>7, <3>1
  <2>. QED  BY <2>1, <2>2
<1>. QED  BY <1>2, <1>8 DEF Open, w

\* What happens to the open loops of a piece happens to those of the program.
LEMMA LiftAppend ==
  ASSUME NEW c \in Seq(Turns), NEW s \in Seq(Turns), NEW o \in Nat,
         NEW f \in Turns
  PROVE  c \o Lift(Append(s, f), o)
           = Append(c \o Lift(s, o), [start |-> f.start + o, left |-> f.left])
<1>. DEFINE t == Append(s, f)
            g == [start |-> f.start + o, left |-> f.left]
            w == c \o Lift(s, o)
            v == c \o Lift(t, o)
<1>1. f \in Turns /\ g \in Turns
  BY DEF Turns
<1>2. [start |-> f.start + o, left |-> f.left] = g
  OBVIOUS
<1>. HIDE DEF g
<1>3. /\ t \in Seq(Turns) /\ Len(t) = Len(s) + 1 /\ Len(s) \in Nat /\ Len(c) \in Nat
      /\ \A j \in 1..Len(s) : t[j] = s[j]
      /\ t[Len(s) + 1] = f
  BY <1>1
<1>. HIDE DEF t
<1>4. /\ w \in Seq(Turns) /\ Len(w) = Len(c) + Len(s)
      /\ \A j \in 1..Len(c) : w[j] = c[j]
      /\ \A j \in 1..Len(s) : w[Len(c) + j] = [start |-> s[j].start + o, left |-> s[j].left]
  BY LiftElements
<1>5. /\ v \in Seq(Turns) /\ Len(v) = Len(c) + Len(t)
      /\ \A j \in 1..Len(c) : v[j] = c[j]
      /\ \A j \in 1..Len(t) : v[Len(c) + j] = [start |-> t[j].start + o, left |-> t[j].left]
  <2>1. \A y \in Seq(Turns) :
          LET z == c \o Lift(y, o) IN
          /\ z \in Seq(Turns) /\ Len(z) = Len(c) + Len(y)
          /\ \A j \in 1..Len(c) : z[j] = c[j]
          /\ \A j \in 1..Len(y) : z[Len(c) + j] = [start |-> y[j].start + o, left |-> y[j].left]
    BY LiftElements
  <2>. QED  BY <1>3, <2>1, ZenonT(30)
<1>. HIDE DEF w, v
<1>6. /\ Append(w, g) \in Seq(Turns) /\ Len(Append(w, g)) = Len(w) + 1
      /\ \A j \in 1..Len(w) : Append(w, g)[j] = w[j]
      /\ Append(w, g)[Len(w) + 1] = g
  BY <1>1, <1>4
<1>7. ASSUME NEW j \in 1..Len(v) PROVE v[j] = Append(w, g)[j]
  <2>1. CASE j \in 1..Len(c)
    <3>1. j \in 1..Len(w)
      BY <1>3, <1>4, <2>1
    <3>. QED  BY <1>4, <1>5, <1>6, <2>1, <3>1
  <2>2. CASE j = Len(c) + Len(s) + 1
    <3>1. v[Len(c) + (Len(s) + 1)] = [start |-> t[Len(s) + 1].start + o, left |-> t[Len(s) + 1].left]
      BY <1>3, <1>5
    <3>2. v[j] = g
      BY <1>2, <1>3, <2>2, <3>1
    <3>. QED  BY <1>4, <1>6, <2>2, <3>2
  <2>3. CASE j \notin 1..Len(c) /\ j # Len(c) + Len(s) + 1
    <3>. DEFINE k == j - Len(c)
    <3>0. Len(v) = Len(c) + Len(s) + 1 /\ Len(w) = Len(c) + Len(s) /\ Len(t) = Len(s) + 1
      BY <1>3, <1>4, <1>5
    <3>1. k \in 1..Len(s) /\ k \in 1..Len(t) /\ j = Len(c) + k /\ j \in 1..Len(w)
      <4>. HIDE DEF Turns
      <4>. DEFINE a == Len(c)
                  b == Len(s)
      <4>1. a \in Nat /\ b \in Nat /\ j \in 1..(a + b + 1) /\ ~(j \in 1..a) /\ j # a + b + 1
        BY <1>3, <2>3, <3>0, ZenonT(20), SMTT(20)
      <4>. HIDE DEF a, b
      <4>2. j - a \in 1..b /\ j - a \in 1..(b + 1) /\ j = a + (j - a) /\ j \in 1..(a + b)
        BY <4>1
      <4>. QED  BY <3>0, <4>2, Zenon DEF a, b
    <3>. HIDE DEF k
    <3>2. v[j] = [start |-> t[k].start + o, left |-> t[k].left] /\ t[k] = s[k]
      BY <1>3, <1>5, <3>1
    <3>3. Append(w, g)[j] = [start |-> s[k].start + o, left |-> s[k].left]
      BY <1>4, <1>6, <3>1
    <3>. QED  BY <3>2, <3>3
  <2>. QED  BY <2>1, <2>2, <2>3
<1>8. Len(v) = Len(Append(w, g))
  BY <1>3, <1>4, <1>5, <1>6
<1>9. v = Append(w, g)
  <2>. HIDE DEF Turns
  <2>. QED  BY <1>5, <1>6, <1>7, <1>8, SeqEqual
<1>. QED  BY <1>9 DEF v, w, t, g

LEMMA LiftFront ==
  ASSUME NEW c \in Seq(Turns), NEW s \in Seq(Turns), NEW o \in Nat, Len(s) > 0
  PROVE  c \o Lift(Front(s), o) = Front(c \o Lift(s, o))
<1>. DEFINE t == Front(s)
            w == c \o Lift(s, o)
            v == c \o Lift(t, o)
<1>1. /\ t \in Seq(Turns) /\ Len(t) = Len(s) - 1 /\ Len(s) \in Nat /\ Len(c) \in Nat
      /\ \A j \in 1..Len(t) : t[j] = s[j]
  BY WithoutLast
<1>. HIDE DEF t
<1>2. /\ w \in Seq(Turns) /\ Len(w) = Len(c) + Len(s)
      /\ \A j \in 1..Len(c) : w[j] = c[j]
      /\ \A j \in 1..Len(s) : w[Len(c) + j] = [start |-> s[j].start + o, left |-> s[j].left]
  BY LiftElements
<1>3. /\ v \in Seq(Turns) /\ Len(v) = Len(c) + Len(t)
      /\ \A j \in 1..Len(c) : v[j] = c[j]
      /\ \A j \in 1..Len(t) : v[Len(c) + j] = [start |-> t[j].start + o, left |-> t[j].left]
  BY <1>1, LiftElements
<1>. HIDE DEF w, v
<1>4. /\ Front(w) \in Seq(Turns) /\ Len(Front(w)) = Len(w) - 1
      /\ \A j \in 1..Len(Front(w)) : Front(w)[j] = w[j]
  <2>1. Len(w) >= 1
    BY <1>1, <1>2
  <2>. QED  BY <1>2, <2>1, WithoutLast
<1>5. ASSUME NEW j \in 1..Len(v) PROVE v[j] = Front(w)[j]
  <2>1. j \in 1..Len(Front(w))
    BY <1>1, <1>2, <1>3, <1>4
  <2>2. CASE j \in 1..Len(c)
    BY <1>2, <1>3, <1>4, <2>1, <2>2
  <2>3. CASE j \notin 1..Len(c)
    <3>. DEFINE k == j - Len(c)
    <3>1. k \in 1..Len(t) /\ k \in 1..Len(s) /\ j = Len(c) + k
      BY <1>1, <1>3, <2>3
    <3>. HIDE DEF k
    <3>2. v[j] = [start |-> t[k].start + o, left |-> t[k].left] /\ t[k] = s[k]
      BY <1>1, <1>3, <3>1
    <3>3. Front(w)[j] = [start |-> s[k].start + o, left |-> s[k].left]
      BY <1>2, <1>4, <2>1, <3>1
    <3>. QED  BY <3>2, <3>3
  <2>. QED  BY <2>2, <2>3
<1>6. Len(v) = Len(Front(w))
  BY <1>1, <1>2, <1>3, <1>4
<1>7. v = Front(w)
  <2>. HIDE DEF Turns
  <2>. QED  BY <1>3, <1>4, <1>5, <1>6, SeqEqual
<1>. QED  BY <1>7 DEF v, w, t

LEMMA TurnDown ==
  ASSUME NEW f \in Turns, f.left > 1
  PROVE  /\ [f EXCEPT !.left = @ - 1] \in Turns
         /\ [f EXCEPT !.left = @ - 1] = [start |-> f.start, left |-> f.left - 1]
BY DEF Turns

LEMMA LiftCount ==
  ASSUME NEW c \in Seq(Turns), NEW s \in Seq(Turns), NEW o \in Nat, Len(s) > 0,
         s[Len(s)].left > 1
  PROVE  /\ Len(c \o Lift(s, o)) > 0
         /\ (c \o Lift(s, o))[Len(c \o Lift(s, o))].left = s[Len(s)].left
         /\ (c \o Lift(s, o))[Len(c \o Lift(s, o))].start = s[Len(s)].start + o
         /\ c \o Lift(Down(s), o)
              = Down(c \o Lift(s, o))
<1>. DEFINE n == Len(s)
            t == Down(s)
            w == c \o Lift(s, o)
            v == c \o Lift(t, o)
            x == Down(w)
            f == [start |-> s[n].start + o, left |-> s[n].left]
<1>1. n \in 1..Len(s) /\ s[n] \in Turns /\ n \in Nat /\ Len(c) \in Nat
  OBVIOUS
<1>2. /\ w \in Seq(Turns) /\ Len(w) = Len(c) + n
      /\ \A j \in 1..Len(c) : w[j] = c[j]
      /\ \A j \in 1..n : w[Len(c) + j] = [start |-> s[j].start + o, left |-> s[j].left]
  BY LiftElements
<1>3. /\ t \in Seq(Turns) /\ Len(t) = n
      /\ \A j \in 1..n : t[j] = IF j = n THEN [s[n] EXCEPT !.left = @ - 1] ELSE s[j]
  <2>1. [s[n] EXCEPT !.left = @ - 1] \in Turns
    BY <1>1, TurnDown
  <2>2. t = [s EXCEPT ![n] = [s[n] EXCEPT !.left = @ - 1]]
    BY DEF Down
  <2>. HIDE DEF t, Turns
  <2>. QED  BY <1>1, <2>1, <2>2
<1>. HIDE DEF t, w
<1>4. /\ v \in Seq(Turns) /\ Len(v) = Len(c) + n
      /\ \A j \in 1..Len(c) : v[j] = c[j]
      /\ \A j \in 1..n : v[Len(c) + j] = [start |-> t[j].start + o, left |-> t[j].left]
  <2>1. \A y \in Seq(Turns) :
          LET z == c \o Lift(y, o) IN
          /\ z \in Seq(Turns) /\ Len(z) = Len(c) + Len(y)
          /\ \A j \in 1..Len(c) : z[j] = c[j]
          /\ \A j \in 1..Len(y) : z[Len(c) + j] = [start |-> y[j].start + o, left |-> y[j].left]
    BY LiftElements
  <2>. QED  BY <1>3, <2>1, ZenonT(30)
<1>. HIDE DEF v
<1>5. w[Len(w)] = f /\ f \in Turns /\ f.start = s[n].start + o /\ f.left = s[n].left
  <2>1. w[Len(w)] = f
    BY <1>1, <1>2
  <2>2. f \in Turns /\ f.start = s[n].start + o /\ f.left = s[n].left
    BY <1>1 DEF Turns
  <2>. QED  BY <2>1, <2>2
<1>6. [s[n] EXCEPT !.left = @ - 1] = [start |-> s[n].start, left |-> s[n].left - 1]
  BY <1>1, TurnDown
<1>. HIDE DEF f
<1>7. [f EXCEPT !.left = @ - 1] = [start |-> s[n].start + o, left |-> s[n].left - 1]
  BY <1>5, TurnDown
<1>8. [f EXCEPT !.left = @ - 1] \in Turns
  BY <1>5, TurnDown
<1>9. /\ x \in Seq(Turns) /\ Len(x) = Len(w)
      /\ \A j \in 1..Len(w) : x[j] = IF j = Len(w) THEN [f EXCEPT !.left = @ - 1] ELSE w[j]
  <2>1. x = [w EXCEPT ![Len(w)] = [f EXCEPT !.left = @ - 1]]
    BY <1>5 DEF Down
  <2>2. Len(w) \in 1..Len(w)
    BY <1>1, <1>2
  <2>. HIDE DEF x, Turns
  <2>. QED  BY <1>2, <1>8, <2>1, <2>2
<1>. HIDE DEF x
<1>10. ASSUME NEW j \in 1..Len(v) PROVE v[j] = x[j]
  <2>0. j \in 1..Len(w) /\ (j = Len(w) <=> j = Len(c) + n)
    BY <1>1, <1>2, <1>4
  <2>1. CASE j \in 1..Len(c)
    <3>1. j # Len(w)
      BY <1>1, <1>2, <2>1
    <3>. QED  BY <1>2, <1>4, <1>9, <2>0, <2>1, <3>1
  <2>2. CASE j = Len(c) + n
    <3>1. t[n] = [start |-> s[n].start, left |-> s[n].left - 1]
      BY <1>1, <1>3, <1>6
    <3>2. v[j] = [start |-> t[n].start + o, left |-> t[n].left]
      BY <1>1, <1>4, <2>2
    <3>3. v[j] = [start |-> s[n].start + o, left |-> s[n].left - 1]
      BY <3>1, <3>2
    <3>. QED  BY <1>7, <1>9, <2>0, <2>2, <3>3
  <2>3. CASE j \notin 1..Len(c) /\ j # Len(c) + n
    <3>. DEFINE k == j - Len(c)
    <3>1. k \in 1..n /\ k # n /\ j = Len(c) + k
      BY <1>1, <1>4, <2>3
    <3>. HIDE DEF k
    <3>2. v[j] = [start |-> t[k].start + o, left |-> t[k].left] /\ t[k] = s[k]
      BY <1>3, <1>4, <3>1
    <3>3. x[j] = [start |-> s[k].start + o, left |-> s[k].left]
      BY <1>2, <1>9, <2>0, <2>3, <3>1
    <3>. QED  BY <3>2, <3>3
  <2>. QED  BY <2>1, <2>2, <2>3
<1>11. v = x
  <2>. HIDE DEF Turns
  <2>. QED  BY <1>2, <1>4, <1>9, <1>10, SeqEqual
<1>12. Len(w) > 0 /\ w[Len(w)].left = s[n].left /\ w[Len(w)].start = s[n].start + o
  BY <1>1, <1>2, <1>5
<1>. QED  BY <1>11, <1>12 DEF v, x, w, t

\* A piece goes on inside of the program as it does alone.
LEMMA InsideFollows ==
  ASSUME NEW r, NEW p, NEW q, NEW A, NEW B, Outlined(r, p, A), NEW o \in Nat,
         NEW c, Open(c, o + 1), Inside(A, c, o) \subseteq B,
         NEW i \in 1..Len(p), q[i + o] = p[i], Len(p) \in Nat,
         NEW s, NEW d, <<i, s, d>> \in A
  PROVE  Follows(r, q, B, i + o, c \o Lift(s, o), d)
<1>. DEFINE w == c \o Lift(s, o)
            x == p[i]
<1>1. /\ Open(s, i) /\ Follows(r, p, A, i, s, d) /\ i \in Nat \ {0}
  BY DEF Outlined
<1>2. c \in Seq(Turns) /\ s \in Seq(Turns)
  BY <1>1 DEF Open
<1>3. \A j, t, e : <<j, t, e>> \in A => <<j + o, c \o Lift(t, o), e>> \in B
  <2>. SUFFICES ASSUME NEW j, NEW t, NEW e, <<j, t, e>> \in A
                PROVE  <<j + o, c \o Lift(t, o), e>> \in Inside(A, c, o)
    OBVIOUS
  <2>1. \E y \in A : <<j + o, c \o Lift(t, o), e>> = <<y[1] + o, c \o Lift(y[2], o), y[3]>>
    <3>1. <<j, t, e>>[1] = j /\ <<j, t, e>>[2] = t /\ <<j, t, e>>[3] = e
      OBVIOUS
    <3>. QED  BY <3>1, Zenon
  <2>. QED  BY <2>1, Zenon DEF Inside
<1>4. (i + o) + 1 = (i + 1) + o
  OBVIOUS
<1>5. x.op = "LP" => <<(i + o) + 1, Append(w, [start |-> (i + o) + 1, left |-> x.n]), d>> \in B
  <2>. SUFFICES ASSUME x.op = "LP"
                PROVE  <<(i + o) + 1, Append(w, [start |-> (i + o) + 1, left |-> x.n]), d>> \in B
    OBVIOUS
  <2>1. <<i + 1, Append(s, [start |-> i + 1, left |-> x.n]), d>> \in A
    BY <1>1 DEF Follows
  <2>2. x.n \in 1..256 /\ i + 1 \in Nat \ {0}
    <3>. DEFINE f == [start |-> i + 1, left |-> x.n]
                t == Append(s, f)
    <3>1. t \in Seq(Turns)
      BY <2>1 DEF Outlined, Open
    <3>2. Len(t) = Len(s) + 1 /\ t[Len(s) + 1] = f /\ Len(s) + 1 \in 1..(Len(s) + 1)
      BY <1>2
    <3>. HIDE DEF t, f
    <3>3. f \in Turns
      BY <3>1, <3>2
    <3>. QED  BY <3>3 DEF f, Turns
  <2>3. c \o Lift(Append(s, [start |-> i + 1, left |-> x.n]), o)
          = Append(w, [start |-> (i + 1) + o, left |-> x.n])
    <3>. DEFINE f == [start |-> i + 1, left |-> x.n]
                g == [start |-> (i + 1) + o, left |-> x.n]
    <3>1. f \in Turns /\ g = [start |-> f.start + o, left |-> f.left]
      BY <2>2 DEF Turns
    <3>. HIDE DEF f, g
    <3>2. c \o Lift(Append(s, f), o) = Append(c \o Lift(s, o), [start |-> f.start + o, left |-> f.left])
      BY <1>2, <3>1, LiftAppend
    <3>3. c \o Lift(Append(s, f), o) = Append(c \o Lift(s, o), g)
      BY <3>1, <3>2
    <3>. QED  BY <3>3 DEF f, g
  <2>4. <<(i + 1) + o, Append(w, [start |-> (i + 1) + o, left |-> x.n]), d>> \in B
    BY <1>3, <2>1, <2>3, Zenon
  <2>. QED  BY <1>4, <2>4
<1>6. x.op = "LPEND" =>
       /\ Len(w) > 0
       /\ IF w[Len(w)].left > 1
          THEN <<w[Len(w)].start, Down(w), d>> \in B
          ELSE <<(i + o) + 1, Front(w), d>> \in B
  <2>. SUFFICES ASSUME x.op = "LPEND"
                PROVE  /\ Len(w) > 0
                       /\ IF w[Len(w)].left > 1
                          THEN <<w[Len(w)].start, Down(w), d>> \in B
                          ELSE <<(i + o) + 1, Front(w), d>> \in B
    OBVIOUS
  <2>1. Len(s) > 0 /\ Len(s) \in Nat /\ Len(c) \in Nat
    BY <1>1, <1>2 DEF Follows
  <2>2. CASE s[Len(s)].left > 1
    <3>1. <<s[Len(s)].start, Down(s), d>> \in A
      BY <1>1, <2>2 DEF Follows
    <3>2. /\ Len(w) > 0
          /\ w[Len(w)].left = s[Len(s)].left /\ w[Len(w)].start = s[Len(s)].start + o
          /\ c \o Lift(Down(s), o) = Down(w)
      BY <1>2, <2>1, <2>2, LiftCount, Zenon
    <3>3. <<s[Len(s)].start + o, c \o Lift(Down(s), o), d>> \in B
      BY <1>3, <3>1, Zenon
    <3>. QED  BY <2>2, <3>2, <3>3
  <2>3. CASE ~(s[Len(s)].left > 1)
    <3>1. <<i + 1, Front(s), d>> \in A
      BY <1>1, <2>3 DEF Follows
    <3>2. c \o Lift(Front(s), o) = Front(w)
      BY <1>2, <2>1, LiftFront
    <3>3. <<(i + 1) + o, Front(w), d>> \in B
      BY <1>3, <3>1, <3>2, Zenon
    <3>4. Len(w) = Len(c) + Len(s) /\ w[Len(c) + Len(s)] = [start |-> s[Len(s)].start + o, left |-> s[Len(s)].left]
      <4>1. Len(s) \in 1..Len(s)
        BY <2>1
      <4>2. Len(c \o Lift(s, o)) = Len(c) + Len(s)
            /\ \A j \in 1..Len(s) :
                 (c \o Lift(s, o))[Len(c) + j] = [start |-> s[j].start + o, left |-> s[j].left]
        BY <1>2, LiftElements, SMTT(20), ZenonT(30)
      <4>. QED  BY <4>1, <4>2, Zenon
    <3>5. w[Len(w)].left = s[Len(s)].left
      <4>. DEFINE f == [start |-> s[Len(s)].start + o, left |-> s[Len(s)].left]
      <4>1. w[Len(w)] = f
        BY <3>4
      <4>2. f.left = s[Len(s)].left
        OBVIOUS
      <4>. HIDE DEF f, w
      <4>. QED  BY <4>1, <4>2
    <3>6. Len(w) > 0
      BY <2>1, <3>4
    <3>. HIDE DEF w
    <3>. QED  BY <1>4, <2>3, <3>3, <3>5, <3>6
  <2>. QED  BY <2>2, <2>3
<1>7. x.op \in Waits => <<i + o, w, [d EXCEPT !.landed = d.done]>> \in B
  BY <1>1, <1>3 DEF Follows
<1>8. x.op = "END" /\ d.landed = d.done => d \in Final(r)
  BY <1>1 DEF Follows
<1>9. x.op = "ST" => StoreOf(d) <= Len(d.fifo) \/ QspiMisfit(r)
  BY <1>1 DEF Follows
<1>10. x.op \notin Loops \cup {"END"} /\ Able(x, d) => <<(i + o) + 1, w, Result(r, x, d)>> \in B
  BY <1>1, <1>3, <1>4 DEF Follows
<1>11. q[i + o] = x
  OBVIOUS
<1>. HIDE DEF w, x
<1>. QED  BY <1>5, <1>6, <1>7, <1>8, <1>9, <1>10, <1>11, Zenon DEF Follows, w

\* The places inside of a piece, and where they are in the program.
LEMMA InsidePlaces ==
  ASSUME NEW r, NEW p, NEW A, Outlined(r, p, A), Len(p) \in Nat, NEW o \in Nat, NEW c, Open(c, o + 1)
  PROVE  /\ \A i, s, d : <<i, s, d>> \in A => <<i + o, c \o Lift(s, o), d>> \in Inside(A, c, o)
         /\ \A x \in Inside(A, c, o) :
              \E i, s, d : <<i, s, d>> \in A /\ x = <<i + o, c \o Lift(s, o), d>>
         /\ Inside(A, c, o) \subseteq Nat \X Seq(Turns) \X Raw
<1>1. \A i, s, d : <<i, s, d>> \in A => <<i + o, c \o Lift(s, o), d>> \in Inside(A, c, o)
  <2>. SUFFICES ASSUME NEW j, NEW t, NEW e, <<j, t, e>> \in A
                PROVE  <<j + o, c \o Lift(t, o), e>> \in Inside(A, c, o)
    OBVIOUS
  <2>1. <<j, t, e>>[1] = j /\ <<j, t, e>>[2] = t /\ <<j, t, e>>[3] = e
    OBVIOUS
  <2>2. \E y \in A : <<j + o, c \o Lift(t, o), e>> = <<y[1] + o, c \o Lift(y[2], o), y[3]>>
    BY <2>1, Zenon
  <2>. QED  BY <2>2, Zenon DEF Inside
<1>2. ASSUME NEW x \in Inside(A, c, o)
      PROVE  /\ \E i, s, d : <<i, s, d>> \in A /\ x = <<i + o, c \o Lift(s, o), d>>
             /\ x \in Nat \X Seq(Turns) \X Raw
  <2>1. PICK y \in A : x = <<y[1] + o, c \o Lift(y[2], o), y[3]>>
    BY Zenon DEF Inside
  <2>2. y \in Nat \X Seq(Turns) \X Raw
    BY DEF Outlined
  <2>. DEFINE i == y[1]
              s == y[2]
              d == y[3]
  <2>3. y = <<i, s, d>> /\ i \in Nat /\ s \in Seq(Turns) /\ d \in Raw
    BY <2>2
  <2>4. x = <<i + o, c \o Lift(s, o), d>>
    BY <2>1
  <2>. HIDE DEF i, s, d
  <2>5. <<i, s, d>> \in A
    BY <2>3
  <2>6. c \o Lift(s, o) \in Seq(Turns)
    BY <2>3, LiftElements DEF Open
  <2>7. i + o \in Nat
    BY <2>3
  <2>8. x \in Nat \X Seq(Turns) \X Raw
    BY <2>3, <2>4, <2>6, <2>7
  <2>. QED  BY <2>4, <2>5, <2>8
<1>. QED  BY <1>1, <1>2

LEMMA FollowsMore ==
  ASSUME NEW r, NEW p, NEW q, NEW A, NEW B, NEW i, q[i] = p[i], NEW s, NEW d,
         A \subseteq B, Follows(r, p, A, i, s, d)
  PROVE  Follows(r, q, B, i, s, d)
<1>. DEFINE x == p[i]
<1>1. q[i] = x
  OBVIOUS
<1>. HIDE DEF x
<1>. QED  BY <1>1 DEF Follows, x

LEMMA Joined ==
  ASSUME NEW S, NEW p \in Seq(S), NEW q \in Seq(S)
  PROVE  /\ p \o q \in Seq(S) /\ Len(p \o q) = Len(p) + Len(q) /\ Len(p) \in Nat /\ Len(q) \in Nat
         /\ \A i \in 1..Len(p) : (p \o q)[i] = p[i]
         /\ \A i \in 1..Len(q) : (p \o q)[i + Len(p)] = q[i]
<1>1. /\ p \o q \in Seq(S) /\ Len(p) \in Nat /\ Len(q) \in Nat
      /\ Len(p \o q) = Len(p) + Len(q)
      /\ \A i \in 1..(Len(p) + Len(q)) : (p \o q)[i] = IF i <= Len(p) THEN p[i] ELSE q[i - Len(p)]
  BY ConcatProperties
<1>2. \A i \in 1..Len(q) : (p \o q)[i + Len(p)] = q[i]
  <2>. TAKE i \in 1..Len(q)
  <2>1. i + Len(p) \in 1..(Len(p) + Len(q)) /\ ~(i + Len(p) <= Len(p)) /\ (i + Len(p)) - Len(p) = i
    BY <1>1
  <2>. QED  BY <1>1, <2>1
<1>. QED  BY <1>1, <1>2

LEMMA LiftNone ==
  ASSUME NEW c \in Seq(Turns), NEW o \in Nat
  PROVE  c \o Lift(<<>>, o) = c
<1>1. Lift(<<>>, o) = <<>>
  BY DEF Lift
<1>. QED  BY <1>1

\* One piece after another.
LEMMA JoinLeads ==
  ASSUME NEW r, NEW p, NEW q, NEW P, NEW Q, NEW R, Leads(r, p, P, Q), Leads(r, q, Q, R)
  PROVE  Leads(r, p \o q, P, R)
<1>1. PICK A : /\ Outlined(r, p, A)
               /\ \A d \in P : <<1, <<>>, d>> \in A
               /\ \A d : <<Len(p) + 1, <<>>, d>> \in A => d \in Q
  BY DEF Leads
<1>2. PICK B : /\ Outlined(r, q, B)
               /\ \A d \in Q : <<1, <<>>, d>> \in B
               /\ \A d : <<Len(q) + 1, <<>>, d>> \in B => d \in R
  BY DEF Leads
<1>. DEFINE n == Len(p)
            m == Len(q)
            w == p \o q
            In == Inside(B, <<>>, n)
            C == {x \in A : x[1] <= n} \cup In
<1>3. /\ w \in Seq(Instructions) /\ Len(w) = n + m /\ n \in Nat /\ m \in Nat
      /\ \A i \in 1..n : w[i] = p[i]
      /\ \A i \in 1..m : w[i + n] = q[i]
  BY Joined DEF Leads
<1>4. Open(<<>>, n + 1) /\ <<>> \in Seq(Turns)
  BY DEF Open
<1>5. /\ \A i, s, d : <<i, s, d>> \in B => <<i + n, <<>> \o Lift(s, n), d>> \in In
      /\ \A x \in In : \E i, s, d : <<i, s, d>> \in B /\ x = <<i + n, <<>> \o Lift(s, n), d>>
      /\ In \subseteq Nat \X Seq(Turns) \X Raw
  BY <1>2, <1>3, <1>4, InsidePlaces
<1>. HIDE DEF w, In
<1>6. A \subseteq C
  <2>. SUFFICES ASSUME NEW x \in A, ~(x[1] <= n) PROVE x \in In
    OBVIOUS
  <2>1. x \in Nat \X Seq(Turns) \X Raw
    BY <1>1 DEF Outlined
  <2>2. x = <<x[1], x[2], x[3]>> /\ x[1] \in Nat
    BY <2>1
  <2>3. x[1] \in 1..(n + 1) /\ (x[1] = n + 1 => x[2] = <<>>)
    BY <1>1, <2>2 DEF Outlined
  <2>4. x[1] = n + 1 /\ x[2] = <<>>
    BY <1>3, <2>2, <2>3
  <2>5. x = <<n + 1, <<>>, x[3]>>
    BY <2>2, <2>4
  <2>6. x[3] \in Q
    BY <1>1, <2>5
  <2>7. <<1 + n, <<>> \o Lift(<<>>, n), x[3]>> \in In
    BY <1>2, <1>5, <2>6
  <2>8. <<>> \o Lift(<<>>, n) = <<>>
    BY <1>3, <1>4, LiftNone, Zenon
  <2>9. 1 + n = n + 1
    BY <1>3
  <2>. QED  BY <2>5, <2>7, <2>8, <2>9
<1>. DEFINE First(i, s, d) == <<i, s, d>> \in A /\ i <= n
            Second(i, s, d) == \E k, t : <<k, t, d>> \in B /\ i = k + n /\ s = <<>> \o Lift(t, n)
<1>7. \A i, s, d : <<i, s, d>> \in C => First(i, s, d) \/ Second(i, s, d)
  <2>. TAKE i, s, d
  <2>. HAVE <<i, s, d>> \in C
  <2>1. CASE <<i, s, d>> \in A /\ <<i, s, d>>[1] <= n
    BY <2>1
  <2>2. CASE <<i, s, d>> \in In
    <3>1. PICK k, t, e : <<k, t, e>> \in B /\ <<i, s, d>> = <<k + n, <<>> \o Lift(t, n), e>>
      BY <1>5, <2>2
    <3>. QED  BY <3>1
  <2>. QED  BY <2>1, <2>2
<1>8. C \subseteq Nat \X Seq(Turns) \X Raw /\ In \subseteq C
  BY <1>1, <1>5 DEF Outlined
<1>. HIDE DEF C, First, Second
<1>9. ASSUME NEW i, NEW s, NEW d, <<i, s, d>> \in C
      PROVE  /\ i \in 1..(Len(w) + 1) /\ Open(s, i) /\ d \in Sound(r)
             /\ i = Len(w) + 1 => s = <<>> /\ d \in R
             /\ i \in 1..Len(w) => Follows(r, w, C, i, s, d)
  <2>1. CASE <<i, s, d>> \in A /\ i <= n
    <3>1. i \in 1..(n + 1) /\ Open(s, i) /\ d \in Sound(r) /\ (i \in 1..n => Follows(r, p, A, i, s, d))
      BY <1>1, <2>1 DEF Outlined
    <3>2. i \in 1..n /\ i \in 1..(Len(w) + 1) /\ i # Len(w) + 1
      BY <1>3, <2>1, <3>1
    <3>3. Follows(r, w, C, i, s, d)
      BY <1>3, <1>6, <3>1, <3>2, FollowsMore
    <3>. QED  BY <3>1, <3>2, <3>3
  <2>2. ASSUME NEW k, NEW t, <<k, t, d>> \in B, i = k + n, s = <<>> \o Lift(t, n)
        PROVE  /\ i \in 1..(Len(w) + 1) /\ Open(s, i) /\ d \in Sound(r)
               /\ i = Len(w) + 1 => s = <<>> /\ d \in R
               /\ i \in 1..Len(w) => Follows(r, w, C, i, s, d)
    <3>1. k \in 1..(m + 1) /\ Open(t, k) /\ d \in Sound(r) /\ (k = m + 1 => t = <<>>)
      BY <1>2, <2>2 DEF Outlined
    <3>2. i \in 1..(Len(w) + 1) /\ (i = Len(w) + 1 <=> k = m + 1) /\ (i \in 1..Len(w) => k \in 1..m)
      BY <1>3, <2>2, <3>1
    <3>3. Open(s, i)
      <4>1. k \in Nat \ {0}
        BY <3>1
      <4>2. Open(<<>> \o Lift(t, n), k + n)
        BY <1>3, <1>4, <3>1, <4>1, LiftOpen
      <4>. QED  BY <2>2, <4>2
    <3>4. k = m + 1 => s = <<>> /\ d \in R
      BY <1>2, <1>3, <1>4, <2>2, <3>1, LiftNone
    <3>5. ASSUME k \in 1..m PROVE Follows(r, w, C, i, s, d)
      BY <1>2, <1>3, <1>4, <1>8, <2>2, <3>5, InsideFollows DEF In
    <3>. QED  BY <3>1, <3>2, <3>3, <3>4, <3>5
  <2>3. CASE Second(i, s, d)
    <3>1. PICK k, t : <<k, t, d>> \in B /\ i = k + n /\ s = <<>> \o Lift(t, n)
      BY <2>3 DEF Second
    <3>. QED  BY <2>2, <3>1
  <2>4. First(i, s, d) \/ Second(i, s, d)
    BY <1>7, <1>9, Zenon
  <2>. QED  BY <2>1, <2>3, <2>4 DEF First
<1>10. Outlined(r, w, C)
  BY <1>8, <1>9 DEF Outlined
<1>11. ASSUME NEW d \in P PROVE <<1, <<>>, d>> \in C
  BY <1>1, <1>6
<1>12. \A d : <<Len(w) + 1, <<>>, d>> \in C => d \in R
  BY <1>9
<1>. QED  BY <1>3, <1>10, <1>11, <1>12 DEF Leads, w

\* The loop that is open in the body of a loop with n rounds, before round j + 1.
Turn(n, j) == <<[start |-> 2, left |-> n - j]>>

LEMMA TurnTurns ==
  ASSUME NEW n \in 1..256, NEW j \in 0..(n - 1)
  PROVE  /\ Open(Turn(n, j), 2) /\ Turn(n, j) \in Seq(Turns)
         /\ Len(Turn(n, j)) = 1
         /\ Turn(n, j)[1].start = 2 /\ Turn(n, j)[1].left = n - j
         /\ Front(Turn(n, j)) = <<>>
         /\ j < n - 1 => Down(Turn(n, j)) = Turn(n, j + 1)
<1>. DEFINE f == [start |-> 2, left |-> n - j]
<1>1. f \in Turns /\ f.start = 2 /\ f.left = n - j
  BY DEF Turns
<1>2. Turn(n, j) = <<f>>
  BY DEF Turn
<1>3. n - j - 1 = n - (j + 1)
  OBVIOUS
<1>. HIDE DEF f
<1>4. <<f>> \in Seq(Turns) /\ Len(<<f>>) = 1 /\ <<f>>[1] = f
  BY <1>1
<1>5. Open(<<f>>, 2)
  BY <1>1, <1>4 DEF Open
<1>6. Front(<<f>>) = <<>>
  BY <1>4 DEF Front
<1>7. ASSUME j < n - 1 PROVE Down(<<f>>) = Turn(n, j + 1)
  <2>1. [f EXCEPT !.left = @ - 1] = [start |-> f.start, left |-> f.left - 1]
    BY <1>1, <1>7, TurnDown
  <2>2. [f EXCEPT !.left = @ - 1] = [start |-> 2, left |-> n - (j + 1)]
    BY <1>1, <1>3, <2>1
  <2>3. Down(<<f>>) = <<[f EXCEPT !.left = @ - 1]>>
    BY DEF Down
  <2>. QED  BY <2>2, <2>3 DEF Turn
<1>. QED  BY <1>1, <1>2, <1>4, <1>5, <1>6, <1>7

LEMMA RoundsPositions ==
  ASSUME NEW n \in Int, NEW body \in Seq(Instructions)
  PROVE  /\ Rounds(n, body) \in Seq(Instructions) /\ Len(body) \in Nat
         /\ Len(Rounds(n, body)) = Len(body) + 2
         /\ Rounds(n, body)[1] = [op |-> "LP", n |-> n]
         /\ Rounds(n, body)[Len(body) + 2] = [op |-> "LPEND"]
         /\ \A i \in 1..Len(body) : Rounds(n, body)[i + 1] = body[i]
<1>. DEFINE lp == [op |-> "LP", n |-> n]
            lpend == [op |-> "LPEND"]
            w == Rounds(n, body)
<1>1. lp \in Instructions /\ lpend \in Instructions
  BY DEF Instructions, Others
<1>2. w = <<lp>> \o body \o <<lpend>>
  BY DEF Rounds, Op
<1>. HIDE DEF lp, lpend, w
<1>3. /\ <<lp>> \o body \in Seq(Instructions) /\ Len(<<lp>> \o body) = 1 + Len(body)
      /\ (<<lp>> \o body)[1] = lp
      /\ \A i \in 1..Len(body) : (<<lp>> \o body)[i + 1] = body[i]
  <2>1. <<lp>> \in Seq(Instructions) /\ Len(<<lp>>) = 1 /\ <<lp>>[1] = lp
    BY <1>1
  <2>. QED  BY <2>1, Joined
<1>4. <<lpend>> \in Seq(Instructions) /\ Len(<<lpend>>) = 1 /\ <<lpend>>[1] = lpend
  BY <1>1
<1>. DEFINE v == <<lp>> \o body
<1>5. v \in Seq(Instructions) /\ w = v \o <<lpend>>
  BY <1>2, <1>3
<1>. HIDE DEF v
<1>6. /\ w \in Seq(Instructions) /\ Len(w) = Len(v) + 1 /\ Len(v) \in Nat
      /\ \A i \in 1..Len(v) : w[i] = v[i]
      /\ w[1 + Len(v)] = lpend
  BY <1>4, <1>5, Joined
<1>7. Len(body) \in Nat
  OBVIOUS
<1>8. Len(v) = 1 + Len(body) /\ v[1] = lp /\ \A i \in 1..Len(body) : v[i + 1] = body[i]
  BY <1>3 DEF v
<1>9. \A i \in 1..Len(body) : w[i + 1] = body[i]
  BY <1>6, <1>7, <1>8, SMTT(20), ZenonT(40)
<1>10. w[1] = lp /\ w[Len(body) + 2] = lpend /\ Len(w) = Len(body) + 2
  BY <1>6, <1>7, <1>8
<1>. QED  BY <1>6, <1>7, <1>9, <1>10 DEF w, lp, lpend

\* Every round of a repetition leads from one set of data to the next.
Along(r, n, body, F) ==
  /\ \A j \in 0..n : F[j] \subseteq Sound(r)
  /\ \A j \in 0..(n - 1) : Leads(r, body, F[j], F[j + 1])

\* A loop leads through as many rounds as it has.
LEMMA RoundsLeads ==
  ASSUME NEW r, NEW n \in 1..256, NEW body, NEW F, Along(r, n, body, F)
  PROVE  Leads(r, Rounds(n, body), F[0], F[n])
<1>. DEFINE m == Len(body)
            w == Rounds(n, body)
            Fit(j, A) == /\ Outlined(r, body, A)
                         /\ \A d \in F[j] : <<1, <<>>, d>> \in A
                         /\ \A d : <<m + 1, <<>>, d>> \in A => d \in F[j + 1]
            As == [j \in 0..(n - 1) |-> CHOOSE A : Fit(j, A)]
            In(j) == Inside(As[j], Turn(n, j), 1)
            C == {<<1, <<>>, d>> : d \in F[0]} \cup (UNION {In(j) : j \in 0..(n - 1)})
                 \cup {<<m + 3, <<>>, d>> : d \in F[n]}
<1>0. /\ \A j \in 0..n : F[j] \subseteq Sound(r)
      /\ \A j \in 0..(n - 1) : Leads(r, body, F[j], F[j + 1])
  BY DEF Along
<1>. USE <1>0
<1>1. body \in Seq(Instructions) /\ 0 \in 0..n /\ n \in 0..n /\ 0 \in 0..(n - 1)
  BY DEF Leads
<1>2. /\ w \in Seq(Instructions) /\ m \in Nat /\ Len(w) = m + 2
      /\ w[1] = [op |-> "LP", n |-> n] /\ w[m + 2] = [op |-> "LPEND"]
      /\ \A i \in 1..m : w[i + 1] = body[i]
  BY <1>1, RoundsPositions
<1>3. \A j \in 0..(n - 1) : Fit(j, As[j])
  <2>1. \A j \in 0..(n - 1) : \E A : Fit(j, A)
    BY DEF Leads
  <2>. HIDE DEF Fit
  <2>. QED  BY <2>1
<1>. HIDE DEF w, As
<1>4. ASSUME NEW j \in 0..(n - 1)
      PROVE  /\ \A i, s, d : <<i, s, d>> \in As[j] => <<i + 1, Turn(n, j) \o Lift(s, 1), d>> \in In(j)
             /\ \A x \in In(j) : \E i, s, d : <<i, s, d>> \in As[j]
                                            /\ x = <<i + 1, Turn(n, j) \o Lift(s, 1), d>>
             /\ In(j) \subseteq Nat \X Seq(Turns) \X Raw
             /\ \A d \in F[j] : <<2, Turn(n, j), d>> \in In(j)
  <2>0. Outlined(r, body, As[j])
    BY <1>3
  <2>1. Open(Turn(n, j), 1 + 1) /\ Turn(n, j) \in Seq(Turns) /\ 1 \in Nat
    <3>1. 1 + 1 = 2
      OBVIOUS
    <3>. HIDE DEF Fit
    <3>. QED  BY <3>1, TurnTurns
  <2>2. /\ \A i, s, d : <<i, s, d>> \in As[j] => <<i + 1, Turn(n, j) \o Lift(s, 1), d>> \in In(j)
        /\ \A x \in In(j) : \E i, s, d : <<i, s, d>> \in As[j]
                                       /\ x = <<i + 1, Turn(n, j) \o Lift(s, 1), d>>
        /\ In(j) \subseteq Nat \X Seq(Turns) \X Raw
    BY <1>2, <2>0, <2>1, InsidePlaces
  <2>. HIDE DEF In
  <2>3. \A d \in F[j] : <<1 + 1, Turn(n, j) \o Lift(<<>>, 1), d>> \in In(j)
    BY <1>3, <2>2
  <2>4. Turn(n, j) \o Lift(<<>>, 1) = Turn(n, j)
    BY <2>1, LiftNone
  <2>5. \A d \in F[j] : <<1 + 1, Turn(n, j), d>> \in In(j)
    BY <2>3, <2>4
  <2>6. 1 + 1 = 2
    OBVIOUS
  <2>. QED  BY <2>2, <2>5, <2>6
<1>. HIDE DEF Fit, In
<1>. DEFINE First(i, s, d) == i = 1 /\ s = <<>> /\ d \in F[0]
            Second(i, s, d) == \E j \in 0..(n - 1) : \E k, t :
                                 <<k, t, d>> \in As[j] /\ i = k + 1 /\ s = Turn(n, j) \o Lift(t, 1)
            Third(i, s, d) == i = m + 3 /\ s = <<>> /\ d \in F[n]
<1>5. ASSUME NEW i, NEW s, NEW d, <<i, s, d>> \in C
      PROVE  First(i, s, d) \/ Second(i, s, d) \/ Third(i, s, d)
  <2>1. CASE <<i, s, d>> \in {<<1, <<>>, e>> : e \in F[0]}
    BY <2>1
  <2>2. CASE <<i, s, d>> \in {<<m + 3, <<>>, e>> : e \in F[n]}
    BY <2>2
  <2>3. CASE \E j \in 0..(n - 1) : <<i, s, d>> \in In(j)
    <3>1. PICK j \in 0..(n - 1) : <<i, s, d>> \in In(j)
      BY <2>3
    <3>2. PICK k, t, e : <<k, t, e>> \in As[j] /\ <<i, s, d>> = <<k + 1, Turn(n, j) \o Lift(t, 1), e>>
      BY <1>4, <3>1
    <3>3. i = k + 1 /\ s = Turn(n, j) \o Lift(t, 1) /\ e = d
      BY <3>2
    <3>. QED  BY <3>2, <3>3
  <2>. QED  BY <1>5, <2>1, <2>2, <2>3
<1>6. C \subseteq Nat \X Seq(Turns) \X Raw
  <2>1. \A j \in 0..n : \A d \in F[j] : d \in Raw
    BY DEF Sound
  <2>2. \A d \in Raw : <<1, <<>>, d>> \in Nat \X Seq(Turns) \X Raw
                    /\ <<m + 3, <<>>, d>> \in Nat \X Seq(Turns) \X Raw
    <3>1. <<>> \in Seq(Turns) /\ 1 \in Nat /\ m + 3 \in Nat
      BY <1>2
    <3>. HIDE DEF Turns, m
    <3>. QED  BY <3>1, Zenon
  <2>3. ASSUME NEW x \in C PROVE x \in Nat \X Seq(Turns) \X Raw
    <3>1. CASE x \in {<<1, <<>>, e>> : e \in F[0]}
      BY <1>1, <2>1, <2>2, <3>1
    <3>2. CASE x \in {<<m + 3, <<>>, e>> : e \in F[n]}
      BY <1>1, <2>1, <2>2, <3>2
    <3>3. CASE \E j \in 0..(n - 1) : x \in In(j)
      BY <1>4, <3>3
    <3>. QED  BY <3>1, <3>2, <3>3
  <2>. QED  BY <2>3
<1>7. /\ \A d \in F[0] : <<1, <<>>, d>> \in C
      /\ \A d \in F[n] : <<m + 3, <<>>, d>> \in C
      /\ \A j \in 0..(n - 1) : In(j) \subseteq C
      /\ \A j \in 0..(n - 1) : \A d \in F[j] : <<2, Turn(n, j), d>> \in C
  BY <1>4
<1>. HIDE DEF C
<1>8. ASSUME NEW i, NEW s, NEW d, First(i, s, d)
      PROVE  i \in 1..(m + 2) /\ Open(s, i) /\ d \in Sound(r) /\ Follows(r, w, C, i, s, d)
  <2>1. i = 1 /\ s = <<>> /\ d \in F[0] /\ d \in Sound(r) /\ Open(<<>>, 1)
    BY <1>1, <1>8 DEF Open
  <2>2. <<2, Turn(n, 0), d>> \in C
    BY <1>1, <1>7, <2>1
  <2>3. Turn(n, 0) = <<[start |-> 2, left |-> n]>>
    BY DEF Turn
  <2>4. Append(<<>>, [start |-> 1 + 1, left |-> n]) = <<[start |-> 2, left |-> n]>>
    OBVIOUS
  <2>5. w[1].op = "LP" /\ w[1].n = n
    BY <1>2
  <2>6. <<1 + 1, Append(<<>>, [start |-> 1 + 1, left |-> w[1].n]), d>> \in C
    BY <2>2, <2>3, <2>4, <2>5
  <2>7. Follows(r, w, C, 1, <<>>, d)
    BY <2>5, <2>6 DEF Follows, Loops, Waits
  <2>. QED  BY <1>2, <2>1, <2>7
<1>9. ASSUME NEW j \in 0..(n - 1), NEW k, NEW t, NEW d, <<k, t, d>> \in As[j]
      PROVE  LET i == k + 1
                 s == Turn(n, j) \o Lift(t, 1)
             IN  i \in 1..(m + 2) /\ Open(s, i) /\ d \in Sound(r) /\ Follows(r, w, C, i, s, d)
  <2>. DEFINE s == Turn(n, j) \o Lift(t, 1)
  <2>1. /\ Outlined(r, body, As[j])
        /\ \A e : <<m + 1, <<>>, e>> \in As[j] => e \in F[j + 1]
    BY <1>3 DEF Fit
  <2>2. k \in 1..(m + 1) /\ Open(t, k) /\ d \in Sound(r) /\ (k = m + 1 => t = <<>>)
    BY <1>9, <2>1 DEF Outlined
  <2>7. 1 + 1 = 2 /\ 1 \in Nat /\ k \in Nat \ {0}
    BY <1>2, <2>2, SMTT(20), ZenonT(40)
  <2>3. /\ Open(Turn(n, j), 1 + 1) /\ Turn(n, j) \in Seq(Turns) /\ 1 \in Nat /\ k \in Nat \ {0}
        /\ Len(Turn(n, j)) = 1 /\ Turn(n, j)[1].start = 2 /\ Turn(n, j)[1].left = n - j
        /\ Front(Turn(n, j)) = <<>>
        /\ j < n - 1 => Down(Turn(n, j)) = Turn(n, j + 1)
    BY <2>7, TurnTurns
  <2>4. Open(s, k + 1)
    BY <2>2, <2>3, LiftOpen
  <2>5. CASE k \in 1..m
    <3>1. Follows(r, w, C, k + 1, s, d)
      BY <1>2, <1>7, <1>9, <2>1, <2>3, <2>5, InsideFollows DEF In
    <3>. QED  BY <1>2, <2>2, <2>4, <2>5, <3>1
  <2>6. CASE k \notin 1..m
    <3>1. k = m + 1 /\ t = <<>> /\ k + 1 = m + 2
      BY <1>2, <2>2, <2>6
    <3>2. d \in F[j + 1] /\ s = Turn(n, j)
      BY <1>9, <2>1, <2>3, <3>1, LiftNone
    <3>3. w[m + 2].op = "LPEND"
      BY <1>2
    <3>6. /\ Len(s) = 1 /\ s[1].start = 2 /\ s[1].left = n - j /\ Front(s) = <<>>
          /\ j < n - 1 => Down(s) = Turn(n, j + 1)
      BY <2>3, <3>2, Zenon
    <3>. HIDE DEF s
    <3>4. CASE j < n - 1
      <4>1. j + 1 \in 0..(n - 1) /\ s[Len(s)].left > 1
        <5>1. j + 1 \in 0..(n - 1) /\ n - j > 1
          BY <3>4
        <5>. QED  BY <3>6, <5>1
      <4>2. <<2, Turn(n, j + 1), d>> \in C
        BY <1>7, <3>2, <4>1
      <4>3. Len(s) > 0 /\ <<s[Len(s)].start, Down(s), d>> \in C
        BY <3>4, <3>6, <4>2
      <4>4. Follows(r, w, C, m + 2, s, d)
        BY <3>3, <4>1, <4>3 DEF Follows, Loops, Waits
      <4>. QED  BY <1>2, <2>2, <2>4, <3>1, <4>4 DEF s
    <3>5. CASE ~(j < n - 1)
      <4>1. j + 1 = n /\ ~(s[Len(s)].left > 1)
        BY <3>5, <3>6
      <4>2. <<m + 3, <<>>, d>> \in C /\ (m + 2) + 1 = m + 3
        BY <1>2, <1>7, <3>2, <4>1
      <4>3. Len(s) > 0 /\ <<(m + 2) + 1, Front(s), d>> \in C
        BY <3>6, <4>2
      <4>4. Follows(r, w, C, m + 2, s, d)
        BY <3>3, <4>1, <4>3 DEF Follows, Loops, Waits
      <4>. QED  BY <1>2, <2>2, <2>4, <3>1, <4>4 DEF s
    <3>. QED  BY <3>4, <3>5
  <2>. QED  BY <2>5, <2>6
<1>10. ASSUME NEW i, NEW s, NEW d, <<i, s, d>> \in C
       PROVE  /\ i \in 1..(Len(w) + 1) /\ Open(s, i) /\ d \in Sound(r)
              /\ i = Len(w) + 1 => s = <<>> /\ d \in F[n]
              /\ i \in 1..Len(w) => Follows(r, w, C, i, s, d)
  <2>1. CASE First(i, s, d)
    <3>. HIDE DEF First
    <3>. QED  BY <1>2, <1>8, <2>1
  <2>2. CASE Second(i, s, d)
    <3>1. PICK j \in 0..(n - 1) : \E k, t :
                <<k, t, d>> \in As[j] /\ i = k + 1 /\ s = Turn(n, j) \o Lift(t, 1)
      BY <2>2
    <3>2. i \in 1..(m + 2) /\ Open(s, i) /\ d \in Sound(r) /\ Follows(r, w, C, i, s, d)
      BY <1>9, <3>1
    <3>. QED  BY <1>2, <3>2
  <2>3. CASE Third(i, s, d)
    <3>1. Open(<<>>, m + 3)
      BY DEF Open
    <3>. QED  BY <1>1, <1>2, <2>3, <3>1
  <2>. HIDE DEF First, Second, Third
  <2>. QED  BY <1>5, <1>10, <2>1, <2>2, <2>3
<1>11. Outlined(r, w, C)
  BY <1>6, <1>10 DEF Outlined
<1>12. \A d : <<Len(w) + 1, <<>>, d>> \in C => d \in F[n]
  BY <1>10
<1>. QED  BY <1>2, <1>7, <1>11, <1>12 DEF Leads, w

LEMMA LoopLeads ==
  ASSUME NEW r, NEW n \in 0..256, NEW body, NEW F, Along(r, n, body, F)
  PROVE  Leads(r, Loop(n, body), F[0], F[n])
<1>0. /\ \A j \in 0..n : F[j] \subseteq Sound(r)
      /\ \A j \in 0..(n - 1) : Leads(r, body, F[j], F[j + 1])
  BY DEF Along
<1>. USE <1>0
<1>1. CASE n = 0
  <2>1. F[0] \subseteq Sound(r) /\ Loop(n, body) = <<>>
    BY <1>1 DEF Loop
  <2>2. Leads(r, <<>>, F[0], F[0])
    BY <2>1, NothingLeads
  <2>. QED  BY <1>1, <2>1, <2>2
<1>2. CASE n = 1
  <2>1. Loop(n, body) = body /\ 0 \in 0..(n - 1) /\ 0 + 1 = n
    BY <1>2 DEF Loop
  <2>. QED  BY <2>1
<1>3. CASE n \notin {0, 1}
  <2>1. Loop(n, body) = Rounds(n, body)
    BY <1>3 DEF Loop
  <2>2. n \in 1..256
    BY <1>3
  <2>. QED  BY <2>1, <2>2, RoundsLeads
<1>. QED  BY <1>1, <1>2, <1>3

\* Pieces one after another.
LEMMA FlattenLeads ==
  ASSUME NEW r, NEW n \in Nat, NEW ss \in Seq(Seq(Instructions)), Len(ss) = n,
         NEW F, \A j \in 0..n : F[j] \subseteq Sound(r),
         \A j \in 0..(n - 1) : Leads(r, ss[j + 1], F[j], F[j + 1])
  PROVE  Leads(r, FlattenSeq(ss), F[0], F[n])
<1>1. PICK flat : /\ FlattenSeq(ss) = IF Len(ss) = 0 THEN ss ELSE flat[Len(ss)]
                  /\ \A i \in 1..Len(ss) : flat[i] = IF i = 1 THEN ss[i] ELSE flat[i - 1] \o ss[i]
  BY FlattenParts
<1>2. CASE n = 0
  <2>1. F[0] \subseteq Sound(r) /\ FlattenSeq(ss) = <<>>
    BY <1>1, <1>2
  <2>. QED  BY <1>2, <2>1, NothingLeads
<1>3. CASE n # 0
  <2>. DEFINE T == {k \in Nat : k + 1 <= n => Leads(r, flat[k + 1], F[0], F[k + 1])}
  <2>1. 0 \in T
    <3>1. 0 \in 0..(n - 1) /\ 1 \in 1..Len(ss) /\ 0 + 1 = 1
      BY <1>3
    <3>2. flat[1] = ss[1]
      BY <1>1, <3>1
    <3>3. Leads(r, ss[1], F[0], F[1])
      BY <3>1
    <3>. QED  BY <3>1, <3>2, <3>3
  <2>2. ASSUME NEW k \in Nat, k \in T PROVE k + 1 \in T
    <3>. SUFFICES ASSUME k + 2 <= n PROVE Leads(r, flat[k + 2], F[0], F[k + 2])
      <4>1. (k + 1) + 1 = k + 2 /\ k + 1 \in Nat
        OBVIOUS
      <4>. QED  BY <4>1
    <3>1. Leads(r, flat[k + 1], F[0], F[k + 1])
      BY <2>2
    <3>2. k + 2 \in 1..Len(ss) /\ k + 2 # 1 /\ (k + 2) - 1 = k + 1 /\ k + 1 \in 0..(n - 1)
          /\ (k + 1) + 1 = k + 2
      OBVIOUS
    <3>3. flat[k + 2] = flat[k + 1] \o ss[k + 2]
      BY <1>1, <3>2, Zenon
    <3>4. Leads(r, ss[k + 2], F[k + 1], F[k + 2])
      BY <3>2, Zenon
    <3>. QED  BY <3>1, <3>3, <3>4, JoinLeads
  <2>. HIDE DEF T
  <2>3. \A k \in Nat : k \in T
    BY <2>1, <2>2, Induct
  <2>4. n - 1 \in T /\ (n - 1) + 1 = n /\ n <= n
    BY <1>3, <2>3
  <2>5. Leads(r, flat[n], F[0], F[n])
    <3>1. \A k : k \in T => (k + 1 <= n => Leads(r, flat[k + 1], F[0], F[k + 1]))
      BY DEF T
    <3>. QED  BY <2>4, <3>1
  <2>. QED  BY <1>1, <1>3, <2>5
<1>. QED  BY <1>2, <1>3

\* The same piece n times.
LEMMA TimesLeads ==
  ASSUME NEW r, NEW n \in Nat, NEW body \in Seq(Instructions),
         NEW F, Along(r, n, body, F)
  PROVE  Leads(r, Times(n, body), F[0], F[n])
<1>0. /\ \A j \in 0..n : F[j] \subseteq Sound(r)
      /\ \A j \in 0..(n - 1) : Leads(r, body, F[j], F[j + 1])
  BY DEF Along
<1>. USE <1>0
<1>. DEFINE ss == [i \in 1..n |-> body]
<1>1. ss \in Seq(Seq(Instructions)) /\ Len(ss) = n /\ Times(n, body) = FlattenSeq(ss)
  BY DEF Times
<1>2. \A j \in 0..(n - 1) : ss[j + 1] = body
  OBVIOUS
<1>. HIDE DEF ss
<1>. QED  BY <1>1, <1>2, FlattenLeads

\* A loop that goes through some of the rounds.
LEMMA WindowLeads ==
  ASSUME NEW r, NEW n \in Nat, NEW body, NEW F, Along(r, n, body, F),
         NEW a \in Nat, NEW w \in 0..256, a + w <= n
  PROVE  Leads(r, Loop(w, body), F[a], F[a + w])
<1>. DEFINE K == [j \in 0..w |-> F[a + j]]
<1>1. /\ \A j \in 0..w : a + j \in 0..n
      /\ \A j \in 0..(w - 1) : a + j \in 0..(n - 1) /\ (a + j) + 1 = a + (j + 1)
                             /\ j + 1 \in 0..w /\ j \in 0..w
      /\ a + 0 = a /\ 0 \in 0..w /\ w \in 0..w
  OBVIOUS
<1>2. \A j \in 0..w : K[j] \subseteq Sound(r)
  BY <1>1 DEF Along
<1>3. \A j \in 0..(w - 1) : Leads(r, body, K[j], K[j + 1])
  BY <1>1 DEF Along
<1>4. K[0] = F[a] /\ K[w] = F[a + w]
  BY <1>1
<1>. HIDE DEF K
<1>5. Along(r, w, body, K)
  BY <1>2, <1>3 DEF Along
<1>6. Leads(r, Loop(w, body), K[0], K[w])
  BY <1>5, LoopLeads
<1>. QED  BY <1>4, <1>6

\* n rounds are loops of 256 rounds and a loop of the rest.
LEMMA SplitLeads ==
  ASSUME NEW r, NEW n \in Nat, NEW body \in Seq(Instructions),
         NEW F, Along(r, n, body, F)
  PROVE  /\ n \div 256 \in Nat /\ Loop(256, body) \in Seq(Instructions)
         /\ \E G : /\ G[0] = F[0] /\ Along(r, n \div 256, Loop(256, body), G)
                   /\ Leads(r, Loop(n % 256, body), G[n \div 256], F[n])
<1>. DEFINE q == n \div 256
            l == n % 256
            G == [k \in 0..q |-> F[256 * k]]
<1>1. q \in Nat /\ l \in 0..255 /\ n = 256 * q + l /\ \A k \in 0..q : 256 * k \in 0..n
  OBVIOUS
<1>. HIDE DEF q, l
<1>0. \A a, b \in Nat : \A w \in 0..256 : b = a + w /\ b <= n => Leads(r, Loop(w, body), F[a], F[b])
  <2>. TAKE a, b \in Nat
  <2>. TAKE w \in 0..256
  <2>. HAVE b = a + w /\ b <= n
  <2>1. Leads(r, Loop(w, body), F[a], F[a + w])
    BY WindowLeads
  <2>. QED  BY <2>1
<1>2. ASSUME NEW k \in 0..(q - 1) PROVE Leads(r, Loop(256, body), G[k], G[k + 1])
  <2>1. 256 * k \in Nat /\ 256 * k + 256 <= n /\ 256 * k + 256 = 256 * (k + 1) /\ 256 \in 0..256
        /\ k \in 0..q /\ k + 1 \in 0..q
    BY <1>1
  <2>. DEFINE a == 256 * k
              b == 256 * (k + 1)
  <2>3. G[k] = F[a] /\ G[k + 1] = F[b]
    BY <2>1
  <2>4. a \in Nat /\ b \in Nat /\ b = a + 256 /\ b <= n
    BY <2>1
  <2>. HIDE DEF a, b
  <2>2. Leads(r, Loop(256, body), F[a], F[b])
    BY <1>0, <2>1, <2>4
  <2>. HIDE DEF G
  <2>. QED  BY <2>2, <2>3
<1>3. \A k \in 0..q : G[k] \subseteq Sound(r)
  BY <1>1 DEF Along
<1>4. Leads(r, Loop(l, body), G[q], F[n])
  <2>1. 256 * q \in Nat /\ 256 * q + l <= n /\ 256 * q + l = n /\ l \in 0..256 /\ q \in 0..q
    BY <1>1
  <2>. DEFINE a == 256 * q
  <2>3. G[q] = F[a] /\ a \in Nat /\ n = a + l
    BY <2>1
  <2>. HIDE DEF a
  <2>2. Leads(r, Loop(l, body), F[a], F[n])
    BY <1>0, <2>1, <2>3, ZenonT(30)
  <2>. HIDE DEF G
  <2>. QED  BY <2>1, <2>2, <2>3
<1>5. G[0] = F[0]
  BY <1>1
<1>. HIDE DEF G
<1>6. Loop(256, body) \in Seq(Instructions)
  <2>1. 256 \in Int
    OBVIOUS
  <2>2. Rounds(256, body) \in Seq(Instructions)
    BY <2>1, RoundsPositions, ZenonT(30)
  <2>. QED  BY <2>2 DEF Loop
<1>7. Along(r, q, Loop(256, body), G)
  BY <1>2, <1>3 DEF Along
<1>. QED  BY <1>1, <1>4, <1>5, <1>6, <1>7 DEF q, l

\* A long row of loops, and such a row in a loop.
LEMMA RepeatLeads ==
  ASSUME NEW r, NEW n \in Nat, NEW body \in Seq(Instructions),
         NEW F, Along(r, n, body, F)
  PROVE  Leads(r, Repeat(n, body), F[0], F[n])
<1>. DEFINE q == n \div 256
            l == n % 256
<1>1. q \in Nat /\ Loop(256, body) \in Seq(Instructions)
  BY SplitLeads
<1>2. PICK G : /\ G[0] = F[0] /\ Along(r, q, Loop(256, body), G)
               /\ Leads(r, Loop(l, body), G[q], F[n])
  BY SplitLeads
<1>. HIDE DEF q, l
<1>3. Leads(r, Times(q, Loop(256, body)), F[0], G[q])
  BY <1>1, <1>2, TimesLeads
<1>. QED  BY <1>2, <1>3, JoinLeads DEF Repeat, q, l

LEMMA NestedLeads ==
  ASSUME NEW r, NEW n \in Nat, NEW body \in Seq(Instructions),
         NEW F, Along(r, n, body, F)
  PROVE  Leads(r, Nested(n, body), F[0], F[n])
<1>. DEFINE q == n \div 256
            l == n % 256
<1>1. q \in Nat /\ Loop(256, body) \in Seq(Instructions)
  BY SplitLeads
<1>2. PICK G : /\ G[0] = F[0] /\ Along(r, q, Loop(256, body), G)
               /\ Leads(r, Loop(l, body), G[q], F[n])
  BY SplitLeads
<1>. HIDE DEF q, l
<1>3. Leads(r, Repeat(q, Loop(256, body)), F[0], G[q])
  BY <1>1, <1>2, RepeatLeads
<1>. QED  BY <1>2, <1>3, JoinLeads DEF Nested, q, l

-----------------------------------------------------------------------------
(* What single instructions do to the data.                                *)

\* k bytes are stored and t are taken, a read commands are given, at least m bytes or
\* words of what the peripheral granted are not used; the channel reads at S, writes at
\* D and accesses as one of C says.
From(r) == r.op \in {"r2m", "p2m"}
State(r, k, t, a, m, S, D, C) ==
  {d \in Sound(r) :
     /\ d.done = k /\ Run(d.fifo, k) /\ k + Len(d.fifo) = t
     /\ From(r) => d.got = t
     /\ d.asked = a /\ ~d.signalled
     /\ m <= d.room \/ Exempt(r)
     /\ d.sar \in S /\ d.dar \in D /\ d.ccr \in C}

LEMMA StateSound ==
  ASSUME NEW r, NEW k, NEW t, NEW a, NEW m, NEW S, NEW D, NEW C
  PROVE  State(r, k, t, a, m, S, D, C) \in SUBSET Sound(r)
BY DEF State

LEMMA BodyRows ==
  /\ Op("LD") \in Seq(Instructions) /\ Op("ST") \in Seq(Instructions)
  /\ Op("STZ") \in Seq(Instructions) /\ LdSt \in Seq(Instructions)
  /\ \A dir \in {"tx", "rx"}, burst \in BOOLEAN : Wfp(dir, burst) \in Seq(Instructions)
  /\ \A p, q \in Seq(Instructions) : p \o q \in Seq(Instructions)
  /\ \A n \in Int, p \in Seq(Instructions) : Times(n, p) \in Seq(Instructions)
<1>1. \A p, q \in Seq(Instructions) : p \o q \in Seq(Instructions)
  <2>. HIDE DEF Instructions
  <2>. QED  OBVIOUS
<1>2. Op("LD") \in Seq(Instructions) /\ Op("ST") \in Seq(Instructions) /\ Op("STZ") \in Seq(Instructions)
  <2>1. \A i \in Instructions : <<i>> \in Seq(Instructions)
    OBVIOUS
  <2>2. [op |-> "LD"] \in Instructions /\ [op |-> "ST"] \in Instructions /\ [op |-> "STZ"] \in Instructions
    BY DEF Instructions, Copies, Clears
  <2>. HIDE DEF Instructions
  <2>. QED  BY <2>1, <2>2 DEF Op
<1>3. \A dir \in {"tx", "rx"}, burst \in BOOLEAN : Wfp(dir, burst) \in Seq(Instructions)
  <2>1. \A i \in Instructions : <<i>> \in Seq(Instructions)
    OBVIOUS
  <2>2. \A dir \in {"tx", "rx"}, burst \in BOOLEAN :
          [op |-> "WFP", dir |-> dir, burst |-> burst] \in Instructions
    BY DEF Instructions, Others
  <2>. HIDE DEF Instructions
  <2>. QED  BY <2>1, <2>2 DEF Wfp
<1>4. \A n \in Int, p \in Seq(Instructions) : Times(n, p) \in Seq(Instructions)
  <2>. DEFINE T == Seq(Instructions)
  <2>1. T \in SUBSET Seq(Instructions) /\ <<>> \in T /\ \A p, q \in T : p \o q \in T
    BY <1>1
  <2>. HIDE DEF T
  <2>2. \A n \in Int, p \in T : Times(n, p) \in T
    BY <2>1, TimesClosed
  <2>. QED  BY <2>2 DEF T
<1>. QED  BY <1>1, <1>2, <1>3, <1>4 DEF LdSt

LEMMA SarLeads ==
  ASSUME NEW r, NEW k, NEW t, NEW a, NEW m, NEW S, NEW D, NEW C, NEW v \in -100..AddrSpace
  PROVE  Leads(r, Mov("SAR", v), State(r, k, t, a, m, S, D, C), State(r, k, t, a, m, {v}, D, C))
<1>. DEFINE c == [op |-> "SAR", at |-> v]
<1>1. c \in Instructions /\ c.op = "SAR" /\ c.at = v
  BY DEF Instructions, Moves
<1>2. Mov("SAR", v) = <<c>>
  BY DEF Mov
<1>. HIDE DEF c
<1>3. ASSUME NEW d \in State(r, k, t, a, m, S, D, C)
      PROVE  Result(r, c, d) \in State(r, k, t, a, m, {v}, D, C)
  <2>. DEFINE e == [d EXCEPT !.sar = v]
  <2>1. d \in Raw
    BY DEF State, Sound
  <2>2. /\ e \in Raw /\ e.sar = v /\ e.dar = d.dar /\ e.ccr = d.ccr /\ e.fifo = d.fifo
        /\ e.got = d.got /\ e.done = d.done /\ e.landed = d.landed /\ e.asked = d.asked
        /\ e.room = d.room /\ e.bus = d.bus /\ e.exact = d.exact /\ e.signalled = d.signalled
    BY <2>1, SMTT(20), ZenonT(40) DEF Raw
  <2>3. Result(r, c, d) = e
    BY <1>1 DEF Result
  <2>. HIDE DEF e
  <2>. QED  BY <2>2, <2>3, ZenonT(40), SMTT(20) DEF State, Sound
<1>. QED  BY <1>1, <1>2, <1>3, StepLeads, StateSound DEF Loops, Waits

LEMMA DarLeads ==
  ASSUME NEW r, NEW k, NEW t, NEW a, NEW m, NEW S, NEW D, NEW C, NEW v \in -100..AddrSpace
  PROVE  Leads(r, Mov("DAR", v), State(r, k, t, a, m, S, D, C), State(r, k, t, a, m, S, {v}, C))
<1>. DEFINE c == [op |-> "DAR", at |-> v]
<1>1. c \in Instructions /\ c.op = "DAR" /\ c.at = v
  BY DEF Instructions, Moves
<1>2. Mov("DAR", v) = <<c>>
  BY DEF Mov
<1>. HIDE DEF c
<1>3. ASSUME NEW d \in State(r, k, t, a, m, S, D, C)
      PROVE  Result(r, c, d) \in State(r, k, t, a, m, S, {v}, C)
  <2>. DEFINE e == [d EXCEPT !.dar = v]
  <2>1. d \in Raw
    BY DEF State, Sound
  <2>2. /\ e \in Raw /\ e.sar = d.sar /\ e.dar = v /\ e.ccr = d.ccr /\ e.fifo = d.fifo
        /\ e.got = d.got /\ e.done = d.done /\ e.landed = d.landed /\ e.asked = d.asked
        /\ e.room = d.room /\ e.bus = d.bus /\ e.exact = d.exact /\ e.signalled = d.signalled
    BY <2>1, SMTT(20), ZenonT(40) DEF Raw
  <2>3. Result(r, c, d) = e
    BY <1>1 DEF Result
  <2>. HIDE DEF e
  <2>. QED  BY <2>2, <2>3, ZenonT(40), SMTT(20) DEF State, Sound
<1>. QED  BY <1>1, <1>2, <1>3, StepLeads, StateSound DEF Loops, Waits

\* The access an instruction sets.
Shape(ss, sb, si, ds, db, di) ==
  [op |-> "CCR", ss |-> ss, sb |-> sb, si |-> si, ds |-> ds, db |-> db, di |-> di]

LEMMA CcrLeads ==
  ASSUME NEW r, NEW k, NEW t, NEW a, NEW m, NEW S, NEW D, NEW C,
         NEW ss, NEW sb, NEW si, NEW ds, NEW db, NEW di, Shape(ss, sb, si, ds, db, di) \in Ccrs
  PROVE  Leads(r, Ccr(ss, sb, si, ds, db, di), State(r, k, t, a, m, S, D, C),
               State(r, k, t, a, m, S, D, {Shape(ss, sb, si, ds, db, di)}))
<1>. DEFINE c == Shape(ss, sb, si, ds, db, di)
<1>1. c \in Ccrs /\ c \in Instructions /\ c.op = "CCR"
  BY DEF Instructions, Shape
<1>2. Ccr(ss, sb, si, ds, db, di) = <<c>>
  BY DEF Ccr, Shape
<1>. HIDE DEF c
<1>3. ASSUME NEW d \in State(r, k, t, a, m, S, D, C)
      PROVE  Result(r, c, d) \in State(r, k, t, a, m, S, D, {c})
  <2>. DEFINE e == [d EXCEPT !.ccr = c]
  <2>1. d \in Raw
    BY DEF State, Sound
  <2>2. /\ e \in Raw /\ e.sar = d.sar /\ e.dar = d.dar /\ e.ccr = c /\ e.fifo = d.fifo
        /\ e.got = d.got /\ e.done = d.done /\ e.landed = d.landed /\ e.asked = d.asked
        /\ e.room = d.room /\ e.bus = d.bus /\ e.exact = d.exact /\ e.signalled = d.signalled
    BY <1>1, <2>1 DEF Raw
  <2>3. Result(r, c, d) = e
    BY <1>1 DEF Result
  <2>. HIDE DEF e
  <2>. QED  BY <2>2, <2>3, SMTT(20), ZenonT(30) DEF State, Sound
<1>4. Leads(r, <<c>>, State(r, k, t, a, m, S, D, C), State(r, k, t, a, m, S, D, {c}))
  BY <1>1, <1>3, StepLeads, StateSound DEF Loops, Waits
<1>. QED  BY <1>2, <1>4 DEF c

LEMMA WfpLeads ==
  ASSUME NEW r, NEW k, NEW t, NEW a, NEW m, NEW S, NEW D, NEW C,
         NEW dir \in {"tx", "rx"}, NEW burst \in BOOLEAN,
         NEW g \in Nat, g <= Granted(r, dir, burst), Granted(r, dir, burst) \in Nat
  PROVE  Leads(r, Wfp(dir, burst), State(r, k, t, a, m, S, D, C), State(r, k, t, a, g, S, D, C))
<1>. DEFINE c == [op |-> "WFP", dir |-> dir, burst |-> burst]
            f == Granted(r, dir, burst)
<1>1. c \in Instructions /\ c.op = "WFP" /\ c.dir = dir /\ c.burst = burst
  BY DEF Instructions, Others
<1>2. Wfp(dir, burst) = <<c>>
  BY DEF Wfp
<1>. HIDE DEF c
<1>3. ASSUME NEW d \in State(r, k, t, a, m, S, D, C)
      PROVE  Result(r, c, d) \in State(r, k, t, a, g, S, D, C)
  <2>. DEFINE e == [d EXCEPT !.room = f]
  <2>0. f \in Nat /\ f \in Int /\ g <= f
    OBVIOUS
  <2>3. Result(r, c, d) = e
    BY <1>1 DEF Result
  <2>. HIDE DEF f
  <2>1. d \in Raw
    BY DEF State, Sound
  <2>2. /\ e \in Raw /\ e.sar = d.sar /\ e.dar = d.dar /\ e.ccr = d.ccr /\ e.fifo = d.fifo
        /\ e.got = d.got /\ e.done = d.done /\ e.landed = d.landed /\ e.asked = d.asked
        /\ e.room = f /\ e.bus = d.bus /\ e.exact = d.exact /\ e.signalled = d.signalled
    BY <2>0, <2>1 DEF Raw
  <2>. HIDE DEF e
  <2>4. ~(e.room < 0) /\ g <= e.room
    BY <2>0, <2>2
  <2>5. e \in Sound(r)
    BY <2>2, <2>4 DEF State, Sound
  <2>. QED  BY <2>2, <2>3, <2>4, <2>5 DEF State
<1>. QED  BY <1>1, <1>2, <1>3, StepLeads, StateSound DEF Loops, Waits

\* An access at v as c says is one of l bytes.
LoadIs(c, v, l) == l = c.ss * c.sb - (IF c.si THEN v % c.ss ELSE 0)
StoreIs(c, v, l) == l = c.ds * c.db - (IF c.di THEN v % c.ds ELSE 0)

Bytes(t, l) == [j \in 1..l |-> t + j - 1]

LEMMA RunAppend ==
  ASSUME NEW k \in Nat, NEW s, Run(s, k), NEW t \in Nat, k + Len(s) = t, NEW l \in Nat
  PROVE  /\ Run(s \o Bytes(t, l), k)
         /\ k + Len(s \o Bytes(t, l)) = t + l
         /\ s \o Bytes(t, l) \in Seq(Int)
<1>. DEFINE new == Bytes(t, l)
            f == s \o new
<1>1. Len(s) \in Nat
  BY DEF Run
<1>2. Run(new, t) /\ Len(new) = l
  BY DEF Run, Bytes
<1>. HIDE DEF new
<1>3. Run(f, k) /\ Len(f) = Len(s) + Len(new)
  BY <1>2, RunGrows
<1>4. f \in Seq(Int)
  BY <1>3 DEF Run
<1>. HIDE DEF f
<1>5. k + Len(f) = t + l
  BY <1>1, <1>2, <1>3
<1>. QED  BY <1>3, <1>4, <1>5 DEF f, new

\* Reading memory.
LEMMA LoadLeads ==
  ASSUME NEW r, NEW k \in Nat, NEW t \in Nat, NEW a, NEW m, NEW D, NEW c \in Ccrs, c.si,
         ~From(r), r.src \in Nat, NEW v \in Nat, v = r.src + t,
         NEW l \in Nat, LoadIs(c, v, l), v + l <= AddrSpace, NEW t2, t2 = t + l, NEW v2, v2 = v + l
  PROVE  Leads(r, Op("LD"), State(r, k, t, a, m, {v}, D, {c}), State(r, k, t2, a, m, {v2}, D, {c}))
<1>. DEFINE i == [op |-> "LD"]
<1>1. i \in Instructions /\ i.op = "LD" /\ Op("LD") = <<i>>
  BY DEF Instructions, Copies, Op
<1>. HIDE DEF i
<1>2. v # Register /\ ~(v < 0) /\ v + l \in -100..AddrSpace
  BY DEF Register
<1>3. ASSUME NEW d \in State(r, k, t, a, m, {v}, D, {c})
      PROVE  Result(r, i, d) \in State(r, k, t + l, a, m, {v + l}, D, {c})
  <2>. DEFINE new == Bytes(t, l)
              f == d.fifo \o new
              e == [d EXCEPT !.fifo = f, !.sar = v + l]
  <2>1. d \in Raw /\ d.sar = v /\ d.ccr = c /\ Run(d.fifo, k) /\ k + Len(d.fifo) = t
    BY DEF State, Sound
  <2>2. LoadOf(d) = l
    BY <2>1 DEF LoadOf, LoadIs
  <2>3. Loaded(r, d) = new
    <3>1. Loaded(r, d) = [j \in 1..l |-> v - r.src + j - 1]
      BY <1>2, <2>1, <2>2 DEF Loaded
    <3>2. \A j \in 1..l : v - r.src + j - 1 = t + j - 1
      OBVIOUS
    <3>. QED  BY <3>1, <3>2 DEF Bytes
  <2>5. Run(f, k) /\ k + Len(f) = t + l /\ f \in Seq(Int)
    <3>. DEFINE s == d.fifo
    <3>1. Run(s, k) /\ k + Len(s) = t
      BY <2>1
    <3>. HIDE DEF s
    <3>2. Run(s \o Bytes(t, l), k) /\ k + Len(s \o Bytes(t, l)) = t + l
          /\ s \o Bytes(t, l) \in Seq(Int)
      BY <3>1, RunAppend
    <3>. QED  BY <3>2 DEF s
  <2>6. Result(r, i, d) = [d EXCEPT !.fifo = f, !.sar = v + l, !.got = d.got, !.room = d.room]
    BY <1>1, <1>2, <2>1, <2>2, <2>3 DEF Result
  <2>. HIDE DEF f
  <2>7. Result(r, i, d) = e
    BY <2>1, <2>6 DEF Raw
  <2>8. /\ e \in Raw /\ e.sar = v + l /\ e.dar = d.dar /\ e.ccr = d.ccr /\ e.fifo = f
        /\ e.got = d.got /\ e.done = d.done /\ e.landed = d.landed /\ e.asked = d.asked
        /\ e.room = d.room /\ e.bus = d.bus /\ e.exact = d.exact /\ e.signalled = d.signalled
    <3>1. v + l \in Int
      OBVIOUS
    <3>. QED  BY <2>1, <2>5, <3>1 DEF Raw
  <2>. HIDE DEF e
  <2>9. e \in Sound(r)
    BY <1>2, <2>8 DEF State, Sound
  <2>. QED  BY <2>1, <2>5, <2>7, <2>8, <2>9 DEF State
<1>4. Leads(r, Op("LD"), State(r, k, t, a, m, {v}, D, {c}),
               State(r, k, t + l, a, m, {v + l}, D, {c}))
  BY <1>1, <1>3, StepLeads, StateSound DEF Loops, Waits
<1>. QED  BY <1>4

\* Reading a device.
LEMMA TakeLeads ==
  ASSUME NEW r, NEW k \in Nat, NEW t \in Nat, NEW a, NEW m \in Nat, NEW D, NEW c \in Ccrs, ~c.si,
         From(r), NEW l \in Nat, LoadIs(c, Register, l), NEW x \in Nat, x + UsedBy(r, l) <= m \/ Exempt(r),
         UsedBy(r, l) \in Nat, NEW t2, t2 = t + l
  PROVE  Leads(r, Op("LD"), State(r, k, t, a, m, {Register}, D, {c}),
               State(r, k, t2, a, x, {Register}, D, {c}))
<1>. DEFINE i == [op |-> "LD"]
<1>1. i \in Instructions /\ i.op = "LD" /\ Op("LD") = <<i>>
  BY DEF Instructions, Copies, Op
<1>. HIDE DEF i
<1>. DEFINE u == UsedBy(r, l)
<1>2. u \in Nat /\ (x + u <= m \/ Exempt(r))
  OBVIOUS
<1>3. ASSUME NEW d \in State(r, k, t, a, m, {Register}, D, {c})
      PROVE  Result(r, i, d) \in State(r, k, t + l, a, x, {Register}, D, {c})
  <2>. DEFINE new == Bytes(t, l)
              f == d.fifo \o new
              e == [d EXCEPT !.fifo = f, !.got = t + l, !.room = d.room - u]
  <2>1. d \in Raw /\ d.sar = Register /\ d.ccr = c /\ Run(d.fifo, k) /\ k + Len(d.fifo) = t /\ d.got = t
    BY DEF State, Sound
  <2>2. LoadOf(d) = l
    BY <2>1 DEF LoadOf, LoadIs
  <2>3. Loaded(r, d) = new
    BY <2>1, <2>2 DEF Loaded, Bytes
  <2>5. Run(f, k) /\ k + Len(f) = t + l /\ f \in Seq(Int)
    <3>. DEFINE s == d.fifo
    <3>1. Run(s, k) /\ k + Len(s) = t
      BY <2>1
    <3>. HIDE DEF s
    <3>2. Run(s \o Bytes(t, l), k) /\ k + Len(s \o Bytes(t, l)) = t + l
          /\ s \o Bytes(t, l) \in Seq(Int)
      BY <3>1, RunAppend
    <3>. QED  BY <3>2 DEF s
  <2>6. Result(r, i, d) = [d EXCEPT !.fifo = f, !.sar = d.sar, !.got = t + l, !.room = d.room - u]
    BY <1>1, <2>1, <2>2, <2>3 DEF Result
  <2>. HIDE DEF f, u
  <2>7. Result(r, i, d) = e
    BY <2>1, <2>6 DEF Raw
  <2>8. /\ e \in Raw /\ e.sar = d.sar /\ e.dar = d.dar /\ e.ccr = d.ccr /\ e.fifo = f
        /\ e.got = t + l /\ e.done = d.done /\ e.landed = d.landed /\ e.asked = d.asked
        /\ e.room = d.room - u /\ e.bus = d.bus /\ e.exact = d.exact /\ e.signalled = d.signalled
    <3>1. d.room - u \in Int /\ t + l \in Int
      BY <1>2, <2>1 DEF Raw
    <3>. QED  BY <2>1, <2>5, <3>1 DEF Raw
  <2>. HIDE DEF e
  <2>9. (e.room < 0 => Exempt(r)) /\ (x <= e.room \/ Exempt(r))
    <3>1. d.room \in Int /\ (m <= d.room \/ Exempt(r))
      BY <2>1 DEF State, Raw
    <3>. QED  BY <1>2, <2>8, <3>1
  <2>10. e.asked - e.got <= I2cFifo
    <3>1. d.asked - t <= I2cFifo /\ d.asked \in Nat
      BY <2>1 DEF State, Sound
    <3>2. d.asked - (t + l) <= d.asked - t
      BY <3>1
    <3>3. d.asked - (t + l) \in Int /\ d.asked - t \in Int
      BY <3>1
    <3>4. d.asked - (t + l) <= I2cFifo
      BY <3>1, <3>2, <3>3, I2cFifoAssumption
    <3>. QED  BY <2>8, <3>4
  <2>11. e \in Sound(r)
    <3>1. t + l \in Nat /\ d \in Sound(r)
      BY DEF State
    <3>. QED  BY <2>8, <2>9, <2>10, <3>1 DEF Sound
  <2>. QED  BY <2>1, <2>5, <2>7, <2>8, <2>9, <2>11 DEF State
<1>4. Leads(r, Op("LD"), State(r, k, t, a, m, {Register}, D, {c}),
               State(r, k, t + l, a, x, {Register}, D, {c}))
  BY <1>1, <1>3, StepLeads, StateSound DEF Loops, Waits
<1>. QED  BY <1>4

Cut(s, l) == SubSeq(s, l + 1, Len(s))

LEMMA RunCut ==
  ASSUME NEW k \in Nat, NEW s, Run(s, k), NEW l \in Nat, l <= Len(s)
  PROVE  Run(Cut(s, l), k + l) /\ Len(Cut(s, l)) = Len(s) - l /\ Cut(s, l) \in Seq(Int)
<1>1. Len(s) \in Nat /\ l <= Len(s) /\ \A i \in 1..Len(s) : s[i] = k + i - 1
  BY DEF Run
<1>2. Run(Cut(s, l), k + l) /\ Len(Cut(s, l)) = Len(s) - l
  BY <1>1, RunShrinks DEF Cut
<1>3. Cut(s, l) \in Seq(Int)
  BY <1>2 DEF Run
<1>. QED  BY <1>2, <1>3

\* e are the data after l bytes of d were stored, with the address at afterwards and x of
\* what the peripheral granted used.
Gave(r, d, e, l, at, x) ==
  /\ e \in Sound(r) /\ e.sar = d.sar /\ e.dar = at /\ e.ccr = d.ccr
  /\ Run(e.fifo, e.done) /\ e.done + Len(e.fifo) = d.done + Len(d.fifo)
  /\ e.got = d.got /\ e.done = d.done + l /\ e.asked = d.asked
  /\ e.room = d.room - x /\ e.signalled = d.signalled

LEMMA StoreResult ==
  ASSUME NEW r, r.dst \in Nat, NEW d \in Sound(r), NEW l \in Nat, StoreOf(d) = l, d.ccr.di,
         d.dar \in Nat, d.dar = r.dst + d.done, d.dar + l <= AddrSpace,
         Run(d.fifo, d.done), l <= Len(d.fifo), NEW i, i.op = "ST"
  PROVE  Gave(r, d, Result(r, i, d), l, d.dar + l, 0)
<1>. DEFINE s == d.fifo
            f == Cut(s, l)
            y == Stored(r, d)
            e == Result(r, i, d)
            k == d.done
            v == d.dar + l
<1>1. /\ d \in Raw /\ d.exact /\ k \in Nat /\ v \in Int /\ v \in -100..AddrSpace /\ s \in Seq(Int)
      /\ d.dar # Register /\ d.dar - r.dst = k
  <2>1. d \in Raw /\ d.exact
    BY DEF Sound
  <2>2. k \in Nat
    BY DEF Sound
  <2>3. s \in Seq(Int)
    BY <2>1 DEF Raw
  <2>4. v \in Int /\ v \in -100..AddrSpace /\ d.dar # Register
    BY AddrSpaceAssumption DEF Register
  <2>5. d.dar - r.dst = k
    BY <2>2
  <2>. QED  BY <2>1, <2>2, <2>3, <2>4, <2>5
<1>2. Run(f, k + l) /\ Len(f) = Len(s) - l /\ f \in Seq(Int)
  <2>1. Run(s, k) /\ l <= Len(s) /\ k \in Nat
    BY <1>1
  <2>. HIDE DEF s, k
  <2>. QED  BY <2>1, RunCut
<1>9. \A j \in 1..l : s[j] = k + j - 1
  <2>1. \A j \in 1..l : j \in 1..Len(s)
    BY <1>1
  <2>. QED  BY <2>1 DEF Run
<1>3. y = [d EXCEPT !.fifo = f, !.dar = v, !.room = d.room]
  BY <1>1 DEF Stored, Cut
<1>. HIDE DEF f, y, v
<1>4. /\ y \in Raw /\ y.sar = d.sar /\ y.dar = v /\ y.ccr = d.ccr /\ y.fifo = f
      /\ y.got = d.got /\ y.done = k /\ y.landed = d.landed /\ y.asked = d.asked
      /\ y.room = d.room /\ y.bus = d.bus /\ y.exact = d.exact /\ y.signalled = d.signalled
  BY <1>1, <1>2, <1>3 DEF Raw
<1>5. e = [y EXCEPT !.done = k + l, !.exact = d.exact]
  <2>1. (/\ y.exact
         /\ d.dar # Register => d.dar - r.dst = d.done
         /\ \A j \in 1..StoreOf(d) : d.fifo[j] = d.done + j - 1) = d.exact
    BY <1>1, <1>4, <1>9 DEF Raw
  <2>2. ~(r.per.kind = "i2c" /\ d.dar = Register)
    BY <1>1
  <2>. QED  BY <1>4, <2>1, <2>2 DEF Result, y
<1>. HIDE DEF e
<1>6. /\ e \in Raw /\ e.sar = d.sar /\ e.dar = v /\ e.ccr = d.ccr /\ e.fifo = f
      /\ e.got = d.got /\ e.done = k + l /\ e.landed = d.landed /\ e.asked = d.asked
      /\ e.room = d.room /\ e.bus = d.bus /\ e.exact = d.exact /\ e.signalled = d.signalled
  <2>1. k + l \in Int
    BY <1>1
  <2>. QED  BY <1>4, <1>5, <2>1 DEF Raw
<1>7. e \in Sound(r)
  <2>1. k + l \in Nat
    BY <1>1
  <2>. QED  BY <1>1, <1>6, <2>1, SMTT(20), ZenonT(40) DEF Sound
<1>8. e.done + Len(e.fifo) = k + Len(s)
  <2>1. Len(s) \in Nat /\ k + l + (Len(s) - l) = k + Len(s)
    BY <1>1, SMTT(20), ZenonT(40)
  <2>. QED  BY <1>2, <1>6, <2>1
<1>10. d.room - 0 = d.room
  BY <1>1 DEF Raw
<1>. QED  BY <1>2, <1>6, <1>7, <1>8, <1>10 DEF e, v, Gave

\* Writing memory.
LEMMA StoreLeads ==
  ASSUME NEW r, NEW k \in Nat, NEW t \in Nat, NEW a, NEW m, NEW S, NEW c \in Ccrs, c.di,
         r.dst \in Nat, NEW v \in Nat, v = r.dst + k,
         NEW l \in Nat, StoreIs(c, v, l), v + l <= AddrSpace, k + l <= t, NEW k2, k2 = k + l, NEW v2, v2 = v + l
  PROVE  Leads(r, Op("ST"), State(r, k, t, a, m, S, {v}, {c}), State(r, k2, t, a, m, S, {v2}, {c}))
<1>. DEFINE i == [op |-> "ST"]
<1>1. i \in Instructions /\ i.op = "ST" /\ Op("ST") = <<i>>
  BY DEF Instructions, Copies, Op
<1>. HIDE DEF i
<1>2. ASSUME NEW d \in State(r, k, t, a, m, S, {v}, {c})
      PROVE  /\ StoreOf(d) <= Len(d.fifo)
             /\ Result(r, i, d) \in State(r, k + l, t, a, m, S, {v + l}, {c})
  <2>. DEFINE e == Result(r, i, d)
  <2>1. /\ d \in Sound(r) /\ d.dar = v /\ d.ccr = c /\ Run(d.fifo, d.done) /\ k + Len(d.fifo) = t
        /\ d.done = k /\ d \in Raw
    BY DEF State, Sound
  <2>2. StoreOf(d) = l
    BY <2>1 DEF StoreOf, StoreIs
  <2>3. l <= Len(d.fifo)
    BY <2>1 DEF Raw
  <2>5. /\ d.ccr.di /\ d.dar \in Nat /\ d.dar = r.dst + d.done /\ d.dar + l <= AddrSpace
    BY <2>1
  <2>4. Gave(r, d, e, l, d.dar + l, 0)
    BY <1>1, <2>1, <2>2, <2>3, <2>5, StoreResult
  <2>. HIDE DEF e
  <2>6. d.room - 0 = d.room
    BY <2>1 DEF Raw
  <2>. QED  BY <2>1, <2>2, <2>3, <2>4, <2>6 DEF State, Gave, e
<1>3. Leads(r, Op("ST"), State(r, k, t, a, m, S, {v}, {c}),
               State(r, k + l, t, a, m, S, {v + l}, {c}))
  BY <1>1, <1>2, StepLeads, StateSound DEF Loops, Waits
<1>. QED  BY <1>3

LEMMA GiveResult ==
  ASSUME NEW r, r.per.kind # "i2c", NEW d \in Sound(r), NEW l \in Nat, StoreOf(d) = l, ~d.ccr.di,
         d.dar = Register, Run(d.fifo, d.done), l <= Len(d.fifo), NEW i, i.op = "ST",
         UsedBy(r, l) \in Nat, UsedBy(r, l) <= d.room \/ Exempt(r)
  PROVE  Gave(r, d, Result(r, i, d), l, Register, UsedBy(r, l))
<1>. DEFINE s == d.fifo
            f == Cut(s, l)
            y == Stored(r, d)
            e == Result(r, i, d)
            k == d.done
            u == UsedBy(r, l)
<1>1. d \in Raw /\ d.exact /\ k \in Nat /\ s \in Seq(Int) /\ d.room \in Int /\ d.room - u \in Int
  <2>1. d \in Raw /\ d.exact
    BY DEF Sound
  <2>2. k \in Nat
    BY DEF Sound
  <2>. QED  BY <2>1, <2>2 DEF Raw
<1>2. Run(f, k + l) /\ Len(f) = Len(s) - l /\ f \in Seq(Int)
  <2>1. Run(s, k) /\ l <= Len(s) /\ k \in Nat
    BY <1>1
  <2>. HIDE DEF s, k
  <2>. QED  BY <2>1, RunCut
<1>9. \A j \in 1..l : s[j] = k + j - 1
  <2>1. \A j \in 1..l : j \in 1..Len(s)
    BY <1>1
  <2>. QED  BY <2>1 DEF Run
<1>3. y = [d EXCEPT !.fifo = f, !.dar = d.dar, !.room = d.room - u]
  BY <1>1 DEF Stored, Cut
<1>10. (d.room - u < 0 => Exempt(r)) /\ u \in Nat
  BY <1>1
<1>. HIDE DEF f, y, u
<1>4. /\ y \in Raw /\ y.sar = d.sar /\ y.dar = d.dar /\ y.ccr = d.ccr /\ y.fifo = f
      /\ y.got = d.got /\ y.done = k /\ y.landed = d.landed /\ y.asked = d.asked
      /\ y.room = d.room - u /\ y.bus = d.bus /\ y.exact = d.exact /\ y.signalled = d.signalled
  BY <1>1, <1>2, <1>3 DEF Raw
<1>5. e = [y EXCEPT !.done = k + l, !.exact = d.exact]
  <2>1. (/\ y.exact
         /\ d.dar # Register => d.dar - r.dst = d.done
         /\ \A j \in 1..StoreOf(d) : d.fifo[j] = d.done + j - 1) = d.exact
    BY <1>1, <1>4, <1>9 DEF Raw
  <2>2. ~(r.per.kind = "i2c" /\ d.dar = Register)
    OBVIOUS
  <2>. QED  BY <1>4, <2>1, <2>2 DEF Result, y
<1>. HIDE DEF e
<1>6. /\ e \in Raw /\ e.sar = d.sar /\ e.dar = d.dar /\ e.ccr = d.ccr /\ e.fifo = f
      /\ e.got = d.got /\ e.done = k + l /\ e.landed = d.landed /\ e.asked = d.asked
      /\ e.room = d.room - u /\ e.bus = d.bus /\ e.exact = d.exact /\ e.signalled = d.signalled
  <2>1. k + l \in Int
    BY <1>1
  <2>. QED  BY <1>4, <1>5, <2>1 DEF Raw
<1>7. e \in Sound(r)
  <2>1. k + l \in Nat
    BY <1>1
  <2>. QED  BY <1>1, <1>6, <1>10, <2>1, ZenonT(30) DEF Sound
<1>8. e.done + Len(e.fifo) = k + Len(s)
  <2>1. Len(s) \in Nat /\ k + l + (Len(s) - l) = k + Len(s)
    BY <1>1
  <2>. QED  BY <1>2, <1>6, <2>1
<1>. QED  BY <1>2, <1>6, <1>7, <1>8 DEF e, u, Gave

\* Writing a device that is no I2C.
LEMMA GiveLeads ==
  ASSUME NEW r, r.per.kind # "i2c", NEW k \in Nat, NEW t \in Nat, NEW a, NEW m \in Nat, NEW S,
         NEW c \in Ccrs, ~c.di, NEW l \in Nat, StoreIs(c, Register, l), k + l <= t,
         UsedBy(r, l) \in Nat, NEW x \in Nat, x + UsedBy(r, l) <= m \/ Exempt(r), NEW k2, k2 = k + l
  PROVE  Leads(r, Op("ST"), State(r, k, t, a, m, S, {Register}, {c}),
               State(r, k2, t, a, x, S, {Register}, {c}))
<1>. DEFINE i == [op |-> "ST"]
            u == UsedBy(r, l)
<1>1. i \in Instructions /\ i.op = "ST" /\ Op("ST") = <<i>>
  BY DEF Instructions, Copies, Op
<1>. HIDE DEF i
<1>2. ASSUME NEW d \in State(r, k, t, a, m, S, {Register}, {c})
      PROVE  /\ StoreOf(d) <= Len(d.fifo)
             /\ Result(r, i, d) \in State(r, k + l, t, a, x, S, {Register}, {c})
  <2>. DEFINE e == Result(r, i, d)
  <2>1. /\ d \in Sound(r) /\ d.dar = Register /\ d.ccr = c /\ Run(d.fifo, d.done)
        /\ k + Len(d.fifo) = t /\ d.done = k /\ d \in Raw /\ d.room \in Int
        /\ (m <= d.room \/ Exempt(r))
    BY DEF State, Sound, Raw
  <2>2. StoreOf(d) = l
    BY <2>1 DEF StoreOf, StoreIs
  <2>3. l <= Len(d.fifo)
    BY <2>1 DEF Raw
  <2>5. ~d.ccr.di /\ u \in Nat /\ (u <= d.room \/ Exempt(r)) /\ (x <= d.room - u \/ Exempt(r))
    <3>1. x + u <= m \/ Exempt(r)
      OBVIOUS
    <3>2. u \in Nat
      OBVIOUS
    <3>. HIDE DEF u
    <3>. QED  BY <2>1, <3>1, <3>2
  <2>4. Gave(r, d, e, l, Register, u)
    BY <1>1, <2>1, <2>2, <2>3, <2>5, GiveResult
  <2>. HIDE DEF e, u
  <2>. QED  BY <2>1, <2>2, <2>3, <2>4, <2>5 DEF State, Gave, e
<1>3. Leads(r, Op("ST"), State(r, k, t, a, m, S, {Register}, {c}),
               State(r, k + l, t, a, x, S, {Register}, {c}))
  BY <1>1, <1>2, StepLeads, StateSound DEF Loops, Waits
<1>. QED  BY <1>3

\* Clearing memory.
LEMMA ClearLeads ==
  ASSUME NEW r, NEW k \in Nat, NEW a, NEW m, NEW S, NEW c \in Ccrs, c.di,
         ~From(r), r.dst \in Nat, NEW v \in Nat, v = r.dst + k,
         NEW l \in Nat, StoreIs(c, v, l), v + l <= AddrSpace, NEW k2, k2 = k + l, NEW v2, v2 = v + l
  PROVE  Leads(r, Op("STZ"), State(r, k, k, a, m, S, {v}, {c}), State(r, k2, k2, a, m, S, {v2}, {c}))
<1>. DEFINE i == [op |-> "STZ"]
<1>1. i \in Instructions /\ i.op = "STZ" /\ Op("STZ") = <<i>>
  BY DEF Instructions, Clears, Op
<1>. HIDE DEF i
<1>2. ASSUME NEW d \in State(r, k, k, a, m, S, {v}, {c})
      PROVE  Result(r, i, d) \in State(r, k + l, k + l, a, m, S, {v + l}, {c})
  <2>. DEFINE e == Result(r, i, d)
              w == v + l
              n == k + l
  <2>1. /\ d \in Sound(r) /\ d.dar = v /\ d.ccr = c /\ Run(d.fifo, k)
        /\ k + Len(d.fifo) = k /\ d.done = k /\ d \in Raw /\ d.exact
    BY DEF State, Sound
  <2>2. StoreOf(d) = l
    BY <2>1 DEF StoreOf, StoreIs
  <2>3. d.fifo = <<>>
    <3>1. d.fifo \in Seq(Int)
      BY <2>1 DEF Raw
    <3>. QED  BY <2>1, <3>1
  <2>4. v - r.dst = k /\ n \in Nat /\ n \in Int /\ w \in -100..AddrSpace /\ w \in Int
    OBVIOUS
  <2>5. e = [d EXCEPT !.done = n, !.exact = d.exact, !.dar = w]
    <3>1. (d.exact /\ d.dar - r.dst = d.done) = d.exact
      BY <2>1, <2>4 DEF Raw
    <3>. QED  BY <1>1, <2>1, <2>2, <3>1 DEF Result
  <2>. HIDE DEF e, w, n
  <2>6. /\ e \in Raw /\ e.sar = d.sar /\ e.dar = w /\ e.ccr = d.ccr /\ e.fifo = d.fifo
        /\ e.got = d.got /\ e.done = n /\ e.landed = d.landed /\ e.asked = d.asked
        /\ e.room = d.room /\ e.bus = d.bus /\ e.exact = d.exact /\ e.signalled = d.signalled
    BY <2>1, <2>4, <2>5 DEF Raw
  <2>7. e \in Sound(r)
    BY <2>1, <2>4, <2>6, SMTT(20), ZenonT(40) DEF Sound
  <2>8. Run(<<>>, n) /\ n + Len(<<>>) = n
    BY <2>4 DEF Run
  <2>9. e \in State(r, n, n, a, m, S, {w}, {c})
    BY <2>1, <2>3, <2>6, <2>7, <2>8 DEF State
  <2>. QED  BY <2>9 DEF e, w, n
<1>3. Leads(r, Op("STZ"), State(r, k, k, a, m, S, {v}, {c}),
               State(r, k + l, k + l, a, m, S, {v + l}, {c}))
  BY <1>1, <1>2, StepLeads, StateSound DEF Loops, Waits
<1>. QED  BY <1>3

-----------------------------------------------------------------------------
(* What is written to the I2C.                                             *)

\* A transfer of a master says the right thing with byte or command k.
Frames1(r, k, restart, stop) ==
  Master(r) => (restart <=> r.per.restart /\ k = 0) /\ (stop <=> r.per.stop /\ k = r.n - 1)

LEMMA SendResult ==
  ASSUME NEW r, r.per.kind = "i2c", r.op = "m2p", NEW d \in Sound(r), StoreOf(d) = 1, ~d.ccr.di,
         d.dar = Register, Run(d.fifo, d.done), 1 <= Len(d.fifo), NEW i, i.op = "ST",
         1 <= d.room, Frames1(r, d.done, FALSE, FALSE)
  PROVE  Gave(r, d, Result(r, i, d), 1, Register, 1)
<1>. DEFINE s == d.fifo
            f == Cut(s, 1)
            y == Stored(r, d)
            e == Result(r, i, d)
            k == d.done
            b == [at |-> k, restart |-> FALSE, stop |-> FALSE]
<1>1. d \in Raw /\ d.exact /\ k \in Nat /\ s \in Seq(Int) /\ d.room \in Int /\ d.room - 1 \in Int
  <2>1. d \in Raw /\ d.exact
    BY DEF Sound
  <2>2. k \in Nat
    BY DEF Sound
  <2>. QED  BY <2>1, <2>2 DEF Raw
<1>2. Run(f, k + 1) /\ Len(f) = Len(s) - 1 /\ f \in Seq(Int)
  <2>1. Run(s, k) /\ 1 <= Len(s) /\ k \in Nat /\ 1 \in Nat
    BY <1>1
  <2>. HIDE DEF s, k
  <2>. QED  BY <2>1, RunCut
<1>3. s[1] = k
  <2>1. 1 \in 1..Len(s)
    BY <1>1
  <2>2. s[1] = k + 1 - 1
    BY <2>1 DEF Run
  <2>. QED  BY <1>1, <2>2
<1>4. UsedBy(r, 1) = 1
  BY DEF UsedBy
<1>5. y = [d EXCEPT !.fifo = f, !.dar = d.dar, !.room = d.room - 1]
  BY <1>1, <1>4 DEF Stored, Cut
<1>6. ~Restarts(r, s[1]) /\ ~Stops(r, s[1]) /\ Byte(r, s[1]) = k
  BY <1>1, <1>3 DEF Restarts, Stops, Byte, Scratch
<1>7. b \in [at : Int, restart : BOOLEAN, stop : BOOLEAN] /\ b.at = k /\ ~b.restart /\ ~b.stop
  BY <1>1
<1>. HIDE DEF f, y
<1>8. /\ y \in Raw /\ y.sar = d.sar /\ y.dar = d.dar /\ y.ccr = d.ccr /\ y.fifo = f
      /\ y.got = d.got /\ y.done = k /\ y.landed = d.landed /\ y.asked = d.asked
      /\ y.room = d.room - 1 /\ y.bus = d.bus /\ y.exact = d.exact /\ y.signalled = d.signalled
  BY <1>1, <1>2, <1>5 DEF Raw
<1>9. e = [y EXCEPT !.bus = b, !.done = k + 1, !.exact = d.exact]
  <2>1. (y.exact /\ Byte(r, s[1]) = d.done) = d.exact
    BY <1>1, <1>6, <1>8 DEF Raw
  <2>2. [at |-> d.done, restart |-> Restarts(r, s[1]), stop |-> Stops(r, s[1])] = b
    <3>1. Restarts(r, s[1]) = FALSE /\ Stops(r, s[1]) = FALSE
      BY <1>6 DEF Restarts, Stops
    <3>. QED  BY <3>1
  <2>3. r.op # "p2m"
    OBVIOUS
  <2>. HIDE DEF b
  <2>. QED  BY <1>8, <2>1, <2>2, <2>3 DEF Result, y
<1>. HIDE DEF e, b
<1>10. /\ e \in Raw /\ e.sar = d.sar /\ e.dar = d.dar /\ e.ccr = d.ccr /\ e.fifo = f
       /\ e.got = d.got /\ e.done = k + 1 /\ e.landed = d.landed /\ e.asked = d.asked
       /\ e.room = d.room - 1 /\ e.bus = b /\ e.exact = d.exact /\ e.signalled = d.signalled
  <2>1. k + 1 \in Int
    BY <1>1
  <2>. QED  BY <1>7, <1>8, <1>9, <2>1 DEF Raw
<1>11. e \in Sound(r)
  <2>1. k + 1 \in Nat /\ ~(d.room - 1 < 0)
    BY <1>1
  <2>2. Master(r) => (b.restart <=> r.per.restart /\ b.at = 0) /\ (b.stop <=> r.per.stop /\ b.at = r.n - 1)
    BY <1>7 DEF Frames1
  <2>. QED  BY <1>1, <1>10, <2>1, <2>2 DEF Sound
<1>12. e.done + Len(e.fifo) = k + Len(s)
  <2>1. Len(s) \in Nat /\ k + 1 + (Len(s) - 1) = k + Len(s)
    BY <1>1
  <2>. QED  BY <1>2, <1>10, <2>1
<1>. QED  BY <1>2, <1>10, <1>11, <1>12 DEF e, Gave

\* A byte of the data.
LEMMA SendLeads ==
  ASSUME NEW r, r.per.kind = "i2c", r.op = "m2p",
         NEW k \in Nat, NEW t \in Nat, NEW a, NEW m \in Nat, NEW S,
         NEW c \in Ccrs, ~c.di, StoreIs(c, Register, 1), k + 1 <= t,
         NEW x \in Nat, x + 1 <= m, Frames1(r, k, FALSE, FALSE), NEW k2, k2 = k + 1
  PROVE  Leads(r, Op("ST"), State(r, k, t, a, m, S, {Register}, {c}),
               State(r, k2, t, a, x, S, {Register}, {c}))
<1>. DEFINE i == [op |-> "ST"]
<1>1. i \in Instructions /\ i.op = "ST" /\ Op("ST") = <<i>> /\ ~Exempt(r)
  BY DEF Instructions, Copies, Op, Exempt
<1>. HIDE DEF i
<1>2. ASSUME NEW d \in State(r, k, t, a, m, S, {Register}, {c})
      PROVE  /\ StoreOf(d) <= Len(d.fifo)
             /\ Result(r, i, d) \in State(r, k + 1, t, a, x, S, {Register}, {c})
  <2>. DEFINE e == Result(r, i, d)
  <2>1. /\ d \in Sound(r) /\ d.dar = Register /\ d.ccr = c /\ Run(d.fifo, d.done)
        /\ k + Len(d.fifo) = t /\ d.done = k /\ d \in Raw /\ d.room \in Int
        /\ m <= d.room
    BY <1>1 DEF State, Sound, Raw
  <2>2. StoreOf(d) = 1
    BY <2>1 DEF StoreOf, StoreIs
  <2>3. 1 <= Len(d.fifo)
    BY <2>1 DEF Raw
  <2>5. ~d.ccr.di /\ 1 <= d.room /\ x <= d.room - 1 /\ Frames1(r, d.done, FALSE, FALSE)
    <3>1. ~d.ccr.di /\ d.done = k
      BY <2>1
    <3>2. Frames1(r, d.done, FALSE, FALSE)
      BY <3>1
    <3>. DEFINE y == d.room
    <3>3. y \in Int /\ m <= y
      BY <2>1
    <3>. HIDE DEF y
    <3>4. 1 <= y /\ x <= y - 1
      BY <3>3
    <3>. QED  BY <3>1, <3>2, <3>4 DEF y
  <2>4. Gave(r, d, e, 1, Register, 1)
    BY <1>1, <2>1, <2>2, <2>3, <2>5, SendResult
  <2>. HIDE DEF e
  <2>. QED  BY <2>1, <2>2, <2>3, <2>4, <2>5 DEF State, Gave, e
<1>3. Leads(r, Op("ST"), State(r, k, t, a, m, S, {Register}, {c}),
               State(r, k + 1, t, a, x, S, {Register}, {c}))
  BY <1>1, <1>2, StepLeads, StateSound DEF Loops, Waits
<1>. QED  BY <1>3

-----------------------------------------------------------------------------
(* Copies.                                                                 *)

\* t bytes of the source are read and k bytes of the destination written.
Moved(r, k, t, C) == State(r, k, t, 0, 0, {r.src + t}, {r.dst + k}, C)
Even(b, l) == Shape(b, l, TRUE, b, l, TRUE)

\* A request between places in memory.
Places(r) == ~From(r) /\ r.src \in Nat /\ r.dst \in Nat

LEMMA AnyShape ==
  ASSUME NEW r, NEW k, NEW t, NEW a, NEW m, NEW S, NEW D, NEW C
  PROVE  State(r, k, t, a, m, S, D, C) \subseteq State(r, k, t, a, m, S, D, Ccrs)
<1>1. \A d \in Sound(r) : d.ccr \in Ccrs
  BY DEF Sound, Raw
<1>. QED  BY <1>1 DEF State

\* An access of n beats of b bytes is one of l bytes that is cut by x bytes where it is stored.
Passes(r, k, t, b, n, l, x) ==
  /\ Places(r) /\ b \in {1, 2, 4, 8} /\ n \in 1..16 /\ l \in Nat /\ l = b * n
  /\ k \in Nat /\ t \in Nat /\ k <= t /\ x \in Nat /\ x = (r.dst + k) % b /\ x <= l
  /\ (r.src + t) % b = 0 /\ r.src + t + l <= AddrSpace /\ r.dst + k + (l - x) <= AddrSpace

LEMMA PassLeads ==
  ASSUME NEW r, NEW b, NEW n, NEW l, NEW k, NEW t, NEW x, Passes(r, k, t, b, n, l, x)
  PROVE  Leads(r, LdSt, Moved(r, k, t, {Even(b, n)}), Moved(r, k + (l - x), t + l, {Even(b, n)}))
<1>. DEFINE c == Even(b, n)
            v == r.src + t
            w == r.dst + k
            y == l - x
            t2 == t + l
            k2 == k + y
            v2 == r.src + t2
            w2 == r.dst + k2
<1>1. /\ c \in Ccrs /\ c.si /\ c.di
      /\ v \in Nat /\ w \in Nat /\ y \in Nat /\ t2 \in Nat /\ k2 \in Nat
      /\ v2 = v + l /\ w2 = w + y /\ k2 <= t2 /\ k \in Nat /\ t \in Nat /\ l \in Nat
      /\ v2 <= AddrSpace /\ w2 <= AddrSpace
  <2>1. c \in Ccrs /\ c.si /\ c.di
    BY DEF Passes, Even, Shape, Ccrs
  <2>2. /\ r.src \in Nat /\ r.dst \in Nat /\ l \in Nat /\ k \in Nat /\ t \in Nat /\ k <= t
        /\ x \in Nat /\ x <= l /\ r.src + t + l <= AddrSpace /\ r.dst + k + (l - x) <= AddrSpace
    BY DEF Passes, Places
  <2>. QED  BY <2>1, <2>2
<1>2. c.ss = b /\ c.sb = n /\ c.ds = b /\ c.db = n
  BY DEF Even, Shape
<1>3. LoadIs(c, v, l)
  <2>1. b * n \in Int /\ v % b = 0 /\ l = b * n
    BY DEF Passes
  <2>2. l = b * n - (v % b)
    BY <2>1
  <2>. QED  BY <1>1, <1>2, <2>2 DEF LoadIs
<1>4. StoreIs(c, w, y)
  <2>1. y = b * n - (w % b)
    BY DEF Passes
  <2>. QED  BY <1>1, <1>2, <2>1 DEF StoreIs
<1>5. v = r.src + t /\ w = r.dst + k /\ t2 = t + l /\ k2 = k + y /\ v2 = r.src + t2 /\ w2 = r.dst + k2
      /\ ~From(r) /\ r.src \in Nat /\ r.dst \in Nat
  BY DEF Passes, Places
<1>. HIDE DEF c, v, w, y, t2, k2, v2, w2
<1>6. Leads(r, Op("LD"), State(r, k, t, 0, 0, {v}, {w}, {c}), State(r, k, t2, 0, 0, {v2}, {w}, {c}))
  BY <1>1, <1>3, <1>5, LoadLeads, ZenonT(30)
<1>7. Leads(r, Op("ST"), State(r, k, t2, 0, 0, {v2}, {w}, {c}), State(r, k2, t2, 0, 0, {v2}, {w2}, {c}))
  BY <1>1, <1>4, <1>5, StoreLeads, ZenonT(40), SMTT(20)
<1>8. Leads(r, LdSt, State(r, k, t, 0, 0, {v}, {w}, {c}), State(r, k2, t2, 0, 0, {v2}, {w2}, {c}))
  BY <1>6, <1>7, JoinLeads DEF LdSt
<1>. QED  BY <1>8 DEF c, v, w, y, t2, k2, v2, w2, Moved

LEMMA CopyLeads ==
  ASSUME NEW r, NEW b, NEW n, NEW l, NEW k, NEW t, NEW x, Passes(r, k, t, b, n, l, x)
  PROVE  Leads(r, Copy(b, n), Moved(r, k, t, Ccrs), Moved(r, k + (l - x), t + l, Ccrs))
<1>1. Leads(r, LdSt, Moved(r, k, t, {Even(b, n)}), Moved(r, k + (l - x), t + l, {Even(b, n)}))
  BY PassLeads
<1>2. Leads(r, Ccr(b, n, TRUE, b, n, TRUE), Moved(r, k, t, Ccrs), Moved(r, k, t, {Even(b, n)}))
  <2>1. Shape(b, n, TRUE, b, n, TRUE) \in Ccrs
    BY DEF Passes, Shape, Ccrs
  <2>. QED  BY <2>1, CcrLeads DEF Moved, Even
<1>3. Leads(r, Copy(b, n), Moved(r, k, t, Ccrs), Moved(r, k + (l - x), t + l, {Even(b, n)}))
  BY <1>1, <1>2, JoinLeads DEF Copy
<1>4. Moved(r, k + (l - x), t + l, {Even(b, n)}) \subseteq Moved(r, k + (l - x), t + l, Ccrs)
  BY AnyShape DEF Moved
<1>. QED  BY <1>3, <1>4, LeadsWeaker

\* After t bytes the source is at a multiple of 8.  What is stored of the next l bytes is
\* behind by the x bytes the destination is off.
Behind(t, l, x) == IF l = 0 THEN t ELSE t + (l - x)
Offset(r, t, x) == /\ Places(r) /\ t \in Nat /\ (r.src + t) % 8 = 0 /\ x \in 0..7 /\ x = (r.dst + t) % 8
Ahead(r, t, l) == l \in Nat /\ r.src + t + l <= AddrSpace /\ r.dst + t + l <= AddrSpace
Off(l, x) == IF l = 0 THEN x ELSE 0

LEMMA NextAligned ==
  ASSUME NEW a \in Nat, a % 8 = 0, NEW b \in Nat, NEW x \in 0..7, x = b % 8,
         NEW l \in Nat, l % 8 = 0, NEW n \in Nat
  PROVE  (a + l) % 8 = 0 /\ (l # 0 => l >= 8 /\ (b + (l - x)) % 8 = 0) /\ (l + 8 * n) % 8 = 0
<1>1. l # 0 => (b + (l - x)) % 8 = 0
  <2>1. \A y \in 0..7 : y = b % 8 => (b + (l - y)) % 8 = 0
    OBVIOUS
  <2>. QED  BY <2>1
<1>2. (a + l) % 8 = 0
  OBVIOUS
<1>3. (l + 8 * n) % 8 = 0 /\ (l # 0 => l >= 8)
  OBVIOUS
<1>. QED  BY <1>1, <1>2, <1>3

LEMMA NextPass ==
  ASSUME NEW r, NEW t, NEW x, Offset(r, t, x), NEW l \in Nat, l % 8 = 0, NEW n \in 1..16,
         NEW p \in Nat, p = 8 * n, NEW l2 \in Nat, l2 = l + p, Ahead(r, t, l2)
  PROVE  /\ Passes(r, Behind(t, l, x), t + l, 8, n, p, Off(l, x))
         /\ Behind(t, l, x) + (p - Off(l, x)) = Behind(t, l2, x)
         /\ (t + l) + p = t + l2
         /\ l2 % 8 = 0
<1>. DEFINE u == r.src
            w == r.dst
            k == Behind(t, l, x)
            y == Off(l, x)
<1>1. Places(r) /\ u \in Nat /\ w \in Nat /\ t \in Nat
  BY DEF Offset, Places
<1>2. (u + t) % 8 = 0 /\ x \in 0..7 /\ x = (w + t) % 8
  BY DEF Offset
<1>3. u + t + l2 <= AddrSpace /\ w + t + l2 <= AddrSpace
  BY DEF Ahead
<1>4. p >= 8
  OBVIOUS
<1>5. (u + (t + l)) % 8 = 0 /\ (l # 0 => l >= 8 /\ (w + (t + (l - x))) % 8 = 0) /\ l2 % 8 = 0
  <2>. HIDE DEF u, w
  <2>. DEFINE a == u + t
              b == w + t
  <2>1. a \in Nat /\ b \in Nat /\ a % 8 = 0 /\ x = b % 8 /\ n \in Nat
    BY <1>1, <1>2
  <2>2. u + (t + l) = a + l /\ w + (t + (l - x)) = b + (l - x)
    BY <1>1, <1>2
  <2>. HIDE DEF a, b
  <2>3. (a + l) % 8 = 0 /\ (l # 0 => l >= 8 /\ (b + (l - x)) % 8 = 0) /\ (l + 8 * n) % 8 = 0
    BY <1>2, <2>1, NextAligned
  <2>. QED  BY <2>2, <2>3
<1>6. k \in Nat /\ k <= t + l /\ y \in Nat /\ y <= p /\ k + (p - y) = Behind(t, l2, x)
      /\ Behind(t, l2, x) <= t + l2 /\ Behind(t, l2, x) \in Nat
  <2>1. CASE l = 0
    BY <1>1, <1>2, <1>4, <2>1 DEF Behind, Off
  <2>2. CASE l # 0
    <3>1. k = t + (l - x) /\ y = 0 /\ l2 # 0 /\ Behind(t, l2, x) = t + (l2 - x)
      BY <1>4, <2>2 DEF Behind, Off
    <3>2. l >= 8
      BY <1>5, <2>2
    <3>. HIDE DEF k, y
    <3>. QED  BY <1>1, <1>2, <1>4, <3>1, <3>2
  <2>. QED  BY <2>1, <2>2
<1>7. y = (w + k) % 8
  <2>1. CASE l = 0
    BY <1>2, <2>1 DEF Behind, Off
  <2>2. CASE l # 0
    <3>1. y = 0 /\ k = t + (l - x)
      BY <2>2 DEF Behind, Off
    <3>. HIDE DEF y, k, w
    <3>. QED  BY <1>5, <2>2, <3>1
  <2>. QED  BY <2>1, <2>2
<1>. HIDE DEF k, y, u, w
<1>8. (t + l) + p = t + l2 /\ t + l \in Nat
  BY <1>1
<1>9. u + (t + l) + p <= AddrSpace
  <2>1. u + (t + l) + p = u + t + l2
    BY <1>1
  <2>. QED  BY <1>3, <2>1
<1>10. w + k + (p - y) <= AddrSpace
  <2>. DEFINE h == Behind(t, l2, x)
  <2>1. w + k + (p - y) = w + (k + (p - y)) /\ w + (t + l2) = w + t + l2
    BY <1>1, <1>6
  <2>2. k + (p - y) = h /\ h \in Nat /\ h <= t + l2
    BY <1>6
  <2>. HIDE DEF h
  <2>3. w + h <= w + (t + l2) /\ w + (t + l2) \in Nat /\ w + h \in Nat
    BY <1>1, <2>2
  <2>. QED  BY <1>3, <2>1, <2>2, <2>3, AddrSpaceAssumption
<1>11. Passes(r, k, t + l, 8, n, p, y)
  <2>1. 8 \in {1, 2, 4, 8} /\ p = 8 * n /\ n \in 1..16
    OBVIOUS
  <2>. QED  BY <1>1, <1>5, <1>6, <1>7, <1>8, <1>9, <1>10, <2>1 DEF Passes, u, w
<1>. QED  BY <1>5, <1>6, <1>8, <1>11 DEF k, y

Lagging(r, t, l, x, C) == Moved(r, Behind(t, l, x), t + l, C)

LEMMA BurstsLead ==
  ASSUME NEW r, NEW t, NEW x, Offset(r, t, x), NEW q \in Nat, Ahead(r, t, 128 * q)
  PROVE  Leads(r, Repeat(q, LdSt), Lagging(r, t, 0, x, {Even(8, 16)}),
               Lagging(r, t, 128 * q, x, {Even(8, 16)}))
<1>. DEFINE F == [j \in 0..q |-> Lagging(r, t, 128 * j, x, {Even(8, 16)})]
<1>1. ASSUME NEW j \in 0..(q - 1) PROVE Leads(r, LdSt, F[j], F[j + 1])
  <2>. DEFINE l == 128 * j
              l2 == 128 * (j + 1)
              k == Behind(t, l, x)
              y == Off(l, x)
  <2>1. l \in Nat /\ l2 \in Nat /\ l % 8 = 0 /\ l2 = l + 128 /\ 16 \in 1..16 /\ 128 \in Nat
        /\ 128 = 8 * 16
    OBVIOUS
  <2>2. Ahead(r, t, l2)
    <3>1. t \in Nat /\ r.src \in Nat /\ r.dst \in Nat /\ l2 <= 128 * q
      BY DEF Offset, Places
    <3>2. r.src + t + 128 * q <= AddrSpace /\ r.dst + t + 128 * q <= AddrSpace
      BY DEF Ahead
    <3>. HIDE DEF l2
    <3>. QED  BY <2>1, <3>1, <3>2, AddrSpaceAssumption DEF Ahead
  <2>3. F[j] = Lagging(r, t, l, x, {Even(8, 16)}) /\ F[j + 1] = Lagging(r, t, l2, x, {Even(8, 16)})
    OBVIOUS
  <2>. HIDE DEF l, l2, F
  <2>4. /\ Passes(r, k, t + l, 8, 16, 128, y)
        /\ k + (128 - y) = Behind(t, l2, x) /\ (t + l) + 128 = t + l2
    BY <2>1, <2>2, NextPass
  <2>. HIDE DEF k, y
  <2>5. Leads(r, LdSt, Moved(r, k, t + l, {Even(8, 16)}),
                Moved(r, k + (128 - y), (t + l) + 128, {Even(8, 16)}))
    BY <2>4, PassLeads
  <2>6. Moved(r, k, t + l, {Even(8, 16)}) = Lagging(r, t, l, x, {Even(8, 16)})
    BY DEF k, Lagging
  <2>7. Leads(r, LdSt, Moved(r, k, t + l, {Even(8, 16)}), Lagging(r, t, l2, x, {Even(8, 16)}))
    BY <2>4, <2>5 DEF Lagging
  <2>. QED  BY <2>3, <2>6, <2>7
<1>2. \A j \in 0..q : F[j] \subseteq Sound(r)
  BY StateSound DEF Lagging, Moved
<1>3. F[0] = Lagging(r, t, 0, x, {Even(8, 16)}) /\ F[q] = Lagging(r, t, 128 * q, x, {Even(8, 16)})
  OBVIOUS
<1>. HIDE DEF F
<1>4. Along(r, q, LdSt, F)
  BY <1>1, <1>2 DEF Along
<1>5. LdSt \in Seq(Instructions)
  BY BodyRows
<1>. QED  BY <1>3, <1>4, <1>5, RepeatLeads

LEMMA LagStart ==
  ASSUME NEW r, NEW t \in Nat, NEW x, NEW C
  PROVE  Lagging(r, t, 0, x, C) = Moved(r, t, t, C)
<1>1. t + 0 = t
  OBVIOUS
<1>. QED  BY <1>1 DEF Lagging, Behind

LEMMA FullBurstsLead ==
  ASSUME NEW r, NEW t, NEW x, Offset(r, t, x), NEW n \in Nat, NEW q, q = n \div 16,
         Ahead(r, t, 128 * q)
  PROVE  Leads(r, FullBursts(n), Moved(r, t, t, Ccrs), Lagging(r, t, 128 * q, x, Ccrs))
<1>1. t \in Nat /\ q \in Nat
  BY DEF Offset
<1>2. CASE q = 0
  <2>1. Leads(r, <<>>, Moved(r, t, t, Ccrs), Moved(r, t, t, Ccrs))
    BY NothingLeads, StateSound DEF Moved
  <2>2. 128 * q = 0
    BY <1>2
  <2>. QED  BY <1>1, <1>2, <2>1, <2>2, LagStart, ZenonT(40), SMTT(20) DEF FullBursts
<1>3. CASE q # 0
  <2>. DEFINE l == 128 * q
              b == 8
              n1 == 16
  <2>1. Leads(r, Repeat(q, LdSt), Moved(r, t, t, {Even(8, 16)}), Lagging(r, t, l, x, {Even(8, 16)}))
    BY <1>1, BurstsLead, LagStart
  <2>2. Leads(r, Ccr(b, n1, TRUE, b, n1, TRUE), Moved(r, t, t, Ccrs), Moved(r, t, t, {Even(b, n1)}))
    <3>1. Shape(b, n1, TRUE, b, n1, TRUE) \in Ccrs
      BY DEF Shape, Ccrs
    <3>. HIDE DEF b, n1
    <3>. QED  BY <3>1, CcrLeads DEF Moved, Even
  <2>. HIDE DEF l
  <2>3. Leads(r, FullBursts(n), Moved(r, t, t, Ccrs), Lagging(r, t, l, x, {Even(8, 16)}))
    BY <1>3, <2>1, <2>2, JoinLeads DEF FullBursts
  <2>4. Lagging(r, t, l, x, {Even(8, 16)}) \subseteq Lagging(r, t, l, x, Ccrs)
    BY AnyShape DEF Moved, Lagging
  <2>5. Leads(r, FullBursts(n), Moved(r, t, t, Ccrs), Lagging(r, t, l, x, Ccrs))
    BY <2>3, <2>4, LeadsWeaker
  <2>. QED  BY <2>5 DEF l
<1>. QED  BY <1>2, <1>3

LEMMA RestBurstLeads ==
  ASSUME NEW r, NEW t, NEW x, Offset(r, t, x), NEW n \in Nat, NEW q, q = n \div 16,
         Ahead(r, t, 8 * n)
  PROVE  Leads(r, RestBurst(n), Lagging(r, t, 128 * q, x, Ccrs), Lagging(r, t, 8 * n, x, Ccrs))
<1>. DEFINE w == n % 16
            l == 128 * q
            p == 8 * w
            l2 == 8 * n
            k == Behind(t, l, x)
            y == Off(l, x)
<1>1. /\ t \in Nat /\ q \in Nat /\ w \in 0..15 /\ l \in Nat /\ l2 \in Nat /\ p \in Nat /\ p = 8 * w
      /\ l2 = l + p /\ l % 8 = 0
  BY DEF Offset
<1>2. Ahead(r, t, l2)
  OBVIOUS
<1>. HIDE DEF l, l2, p
<1>3. CASE w = 0
  <2>1. l = l2 /\ RestBurst(n) = <<>>
    BY <1>1, <1>3 DEF RestBurst
  <2>2. Leads(r, <<>>, Lagging(r, t, l, x, Ccrs), Lagging(r, t, l, x, Ccrs))
    BY NothingLeads, StateSound DEF Moved, Lagging
  <2>. QED  BY <2>1, <2>2 DEF l, l2
<1>4. CASE w # 0
  <2>0. RestBurst(n) = Copy(8, w) /\ w \in 1..16
    BY <1>1, <1>4 DEF RestBurst
  <2>. HIDE DEF w
  <2>1. Passes(r, k, t + l, 8, w, p, y) /\ k + (p - y) = Behind(t, l2, x) /\ (t + l) + p = t + l2
    BY <1>1, <1>2, <2>0, NextPass
  <2>. HIDE DEF k, y
  <2>2. Leads(r, Copy(8, w), Moved(r, k, t + l, Ccrs), Moved(r, k + (p - y), (t + l) + p, Ccrs))
    BY <2>1, CopyLeads
  <2>3. Moved(r, k, t + l, Ccrs) = Lagging(r, t, l, x, Ccrs)
    BY DEF k, Lagging
  <2>4. Leads(r, Copy(8, w), Moved(r, k, t + l, Ccrs), Lagging(r, t, l2, x, Ccrs))
    BY <2>1, <2>2 DEF Lagging
  <2>. QED  BY <2>0, <2>3, <2>4 DEF l, l2
<1>. QED  BY <1>3, <1>4

\* The bytes an unaligned destination left behind are stored.
LEMMA CorrectionLeads ==
  ASSUME NEW r, NEW t, NEW x, Offset(r, t, x), NEW n \in Nat, Ahead(r, t, 8 * n),
         n # 0 => t = AlignCount(r.src, r.n) /\ t = IF r.src % 8 = 0 THEN 0 ELSE 8 - (r.src % 8)
  PROVE  Leads(r, Correction(r.dst, r.src, n), Lagging(r, t, 8 * n, x, Ccrs),
               Moved(r, t + 8 * n, t + 8 * n, Ccrs))
<1>. DEFINE l == 8 * n
            y == x
            u == r.src
            w == r.dst
<1>1. t \in Nat /\ l \in Nat /\ x \in 0..7 /\ u \in Nat /\ w \in Nat /\ Places(r) /\ ~From(r)
  BY DEF Offset, Places
<1>2. CASE n = 0
  <2>1. l = 0 /\ Correction(r.dst, r.src, n) = <<>> /\ t + l = t
    BY <1>1, <1>2 DEF Correction
  <2>2. Leads(r, <<>>, Moved(r, t, t, Ccrs), Moved(r, t, t, Ccrs))
    BY NothingLeads, StateSound DEF Moved
  <2>3. Lagging(r, t, l, x, Ccrs) = Moved(r, t, t, Ccrs)
    BY <1>1, <2>1, LagStart
  <2>. HIDE DEF l
  <2>4. Leads(r, Correction(r.dst, r.src, n), Lagging(r, t, l, x, Ccrs), Moved(r, t + l, t + l, Ccrs))
    BY <2>1, <2>2, <2>3
  <2>. QED  BY <2>4 DEF l
<1>3. CASE n # 0
  <2>1. t = IF u % 8 = 0 THEN 0 ELSE 8 - (u % 8)
    BY <1>3
  <2>2. x = (w + t) % 8 /\ l >= 8
    BY <1>3 DEF Offset
  <2>3. x = CorrectCount(w, u) /\ (u % 8 # w % 8 <=> x # 0)
    <3>. HIDE DEF u, w
    <3>1. \A v \in 0..7 : v = u % 8 => (t = IF v = 0 THEN 0 ELSE 8 - v)
      BY <2>1
    <3>2. x = (w + (8 - (u % 8))) % 8
      BY <1>1, <2>1, <2>2
    <3>3. (u % 8 # w % 8 <=> x # 0)
      BY <1>1, <3>2
    <3>. QED  BY <3>2, <3>3 DEF CorrectCount
  <2>. DEFINE k == t + (l - x)
              t2 == t + l
  <2>4. Lagging(r, t, l, x, Ccrs) = Moved(r, k, t2, Ccrs) /\ k \in Nat /\ t2 \in Nat /\ t2 = k + x
        /\ k + x <= t2
    BY <1>1, <2>2 DEF Lagging, Behind
  <2>. HIDE DEF k, t2
  <2>5. CASE x = 0
    <3>1. Correction(r.dst, r.src, n) = <<>> /\ k = t2
      BY <2>3, <2>4, <2>5 DEF Correction
    <3>2. Leads(r, <<>>, Moved(r, k, t2, Ccrs), Moved(r, k, t2, Ccrs))
      BY NothingLeads, StateSound DEF Moved
    <3>3. Leads(r, Correction(r.dst, r.src, n), Lagging(r, t, l, x, Ccrs), Moved(r, t2, t2, Ccrs))
      BY <2>4, <3>1, <3>2
    <3>. QED  BY <3>3 DEF t2, l
  <2>6. CASE x # 0
    <3>. DEFINE b == 1
                c == Even(b, x)
                v == w + k
                v2 == w + t2
                s == u + t2
    <3>1. Correction(r.dst, r.src, n) = Ccr(b, x, TRUE, b, x, TRUE) \o Op("ST")
      BY <1>3, <2>3, <2>6 DEF Correction
    <3>2. Shape(b, x, TRUE, b, x, TRUE) \in Ccrs
      BY <1>1, <2>6 DEF Shape, Ccrs
    <3>3. c \in Ccrs /\ c.di /\ StoreIs(c, v, x)
      <4>1. c \in Ccrs /\ c.di /\ c.ds = 1 /\ c.db = x
        BY <3>2 DEF Even, Shape, Ccrs
      <4>2. v % 1 = 0 /\ 1 * x - 0 = x
        BY <1>1, <2>4
      <4>. HIDE DEF c, v
      <4>. QED  BY <4>1, <4>2 DEF StoreIs
    <3>4. v \in Nat /\ v2 = v + x /\ v2 <= AddrSpace /\ x \in Nat
      <4>1. v \in Nat /\ v2 = v + x /\ v2 = w + t + l /\ x \in Nat
        BY <1>1, <2>4 DEF t2
      <4>2. w + t + l <= AddrSpace
        BY DEF Ahead
      <4>. QED  BY <4>1, <4>2
    <3>5. v = r.dst + k /\ r.dst \in Nat
      BY <1>1
    <3>6. Leads(r, Ccr(b, x, TRUE, b, x, TRUE), Moved(r, k, t2, Ccrs), State(r, k, t2, 0, 0, {s}, {v}, {c}))
      <4>. HIDE DEF b
      <4>. QED  BY <3>2, CcrLeads DEF Moved, Even
    <3>. HIDE DEF c, v, v2, s, b
    <3>7. Leads(r, Op("ST"), State(r, k, t2, 0, 0, {s}, {v}, {c}), State(r, t2, t2, 0, 0, {s}, {v2}, {c}))
      BY <2>4, <3>3, <3>4, <3>5, StoreLeads
    <3>8. Leads(r, Correction(r.dst, r.src, n), Moved(r, k, t2, Ccrs), State(r, t2, t2, 0, 0, {s}, {v2}, {c}))
      BY <3>1, <3>6, <3>7, JoinLeads
    <3>9. State(r, t2, t2, 0, 0, {s}, {v2}, {c}) \subseteq State(r, t2, t2, 0, 0, {s}, {v2}, Ccrs)
      BY AnyShape
    <3>10. State(r, t2, t2, 0, 0, {s}, {v2}, Ccrs) = Moved(r, t2, t2, Ccrs)
      BY DEF Moved, s, v2
    <3>11. Leads(r, Correction(r.dst, r.src, n), Moved(r, k, t2, Ccrs), Moved(r, t2, t2, Ccrs))
      BY <3>8, <3>9, <3>10, LeadsWeaker
    <3>. QED  BY <2>4, <3>11 DEF t2, l
  <2>. QED  BY <2>5, <2>6
<1>. QED  BY <1>2, <1>3

LEMMA AheadLess ==
  ASSUME NEW r, Places(r), NEW n \in Nat, Ahead(r, 0, n), NEW t \in Nat, NEW l \in Nat, t + l <= n
  PROVE  Ahead(r, t, l)
<1>. DEFINE u == r.src
            w == r.dst
<1>1. u \in Nat /\ w \in Nat /\ u + 0 + n <= AddrSpace /\ w + 0 + n <= AddrSpace /\ AddrSpace \in Nat
  BY AddrSpaceAssumption DEF Places, Ahead
<1>. HIDE DEF u, w
<1>2. u + t + l <= AddrSpace /\ w + t + l <= AddrSpace
  BY <1>1
<1>. QED  BY <1>2 DEF Ahead, u, w

LEMMA BytesLead ==
  ASSUME NEW r, Places(r), NEW t \in Nat, NEW n \in 1..16, Ahead(r, t, n)
  PROVE  Leads(r, Copy(1, n), Moved(r, t, t, Ccrs), Moved(r, t + n, t + n, Ccrs))
<1>1. Passes(r, t, t, 1, n, n, 0)
  <2>1. r.src \in Nat /\ r.dst \in Nat
    BY DEF Places
  <2>2. \A v \in Nat : v % 1 = 0
    OBVIOUS
  <2>3. (r.src + t) % 1 = 0 /\ (r.dst + t) % 1 = 0
    BY <2>1, <2>2
  <2>4. n = 1 * n /\ n - 0 = n /\ n \in Nat /\ 0 <= n
    OBVIOUS
  <2>. QED  BY <2>1, <2>3, <2>4 DEF Passes, Ahead
<1>2. Leads(r, Copy(1, n), Moved(r, t, t, Ccrs), Moved(r, t + (n - 0), t + n, Ccrs))
  BY <1>1, CopyLeads
<1>3. n - 0 = n
  OBVIOUS
<1>. QED  BY <1>2, <1>3

\* What a request has done before it begins.
Fresh(r) == State(r, 0, 0, 0, 0, {0}, {0}, Ccrs)

\* A copy reads and writes all of its bytes.
LEMMA CopySegmentLeads ==
  ASSUME NEW r, Places(r), NEW n \in Nat \ {0}, r.n = n, Ahead(r, 0, n)
  PROVE  Leads(r, CopySegment(r.dst, r.src, n), Fresh(r), Moved(r, n, n, Ccrs))
<1>. DEFINE u == r.src
            w == r.dst
            t == AlignCount(u, n)
            q == BurstCount(u, n)
            p == PostCount(u, n)
            x == (w + t) % 8
            m == q \div 16
            t2 == t + 8 * q
<1>1. u \in Nat /\ w \in Nat /\ u + n <= AddrSpace /\ w + n <= AddrSpace
  BY DEF Places, Ahead
<1>2. /\ t \in 0..7 /\ t <= n /\ q \in Nat /\ p \in 0..7 /\ t + 8 * q + p = n /\ m \in Nat /\ 128 * m <= 8 * q
      /\ (u % 8 = 0 <=> t = 0)
      /\ q # 0 => t = IF u % 8 = 0 THEN 0 ELSE 8 - (u % 8)
      /\ q # 0 => (u + t) % 8 = 0
  <2>. HIDE DEF u, w
  <2>1. t \in 0..7 /\ t <= n /\ (u % 8 = 0 <=> t = 0)
    BY <1>1 DEF AlignCount, Least
  <2>2. q = (n - t) \div 8 /\ p = (n - t) % 8
    BY DEF BurstCount, PostCount
  <2>3. q # 0 => t = IF u % 8 = 0 THEN 0 ELSE 8 - (u % 8)
    <3>1. CASE u % 8 = 0
      BY <2>1, <3>1
    <3>2. CASE u % 8 # 0 /\ 8 - (u % 8) < n
      BY <3>2 DEF AlignCount, Least
    <3>3. CASE u % 8 # 0 /\ ~(8 - (u % 8) < n)
      <4>1. t = n
        BY <3>3 DEF AlignCount, Least
      <4>. HIDE DEF t, q
      <4>2. q = 0
        BY <2>2, <4>1
      <4>. QED  BY <4>2
    <3>. QED  BY <3>1, <3>2, <3>3
  <2>. HIDE DEF t, q, p
  <2>4. q \in Nat /\ p \in 0..7 /\ t + 8 * q + p = n /\ m \in Nat /\ 128 * m <= 8 * q
    BY <2>1, <2>2
  <2>5. q # 0 => (u + t) % 8 = 0
    BY <1>1, <2>3
  <2>. QED  BY <2>1, <2>3, <2>4, <2>5
<1>3. Fresh(r) = State(r, 0, 0, 0, 0, {0}, {0}, Ccrs)
  BY DEF Fresh
<1>4. Leads(r, Mov("SAR", u) \o Mov("DAR", w), Fresh(r), Moved(r, 0, 0, Ccrs))
  <2>1. u \in -100..AddrSpace /\ w \in -100..AddrSpace /\ r.src + 0 = u /\ r.dst + 0 = w
    BY <1>1, AddrSpaceAssumption
  <2>. HIDE DEF u, w
  <2>2. Leads(r, Mov("SAR", u), State(r, 0, 0, 0, 0, {0}, {0}, Ccrs), State(r, 0, 0, 0, 0, {u}, {0}, Ccrs))
    BY <2>1, SarLeads
  <2>3. Leads(r, Mov("DAR", w), State(r, 0, 0, 0, 0, {u}, {0}, Ccrs), State(r, 0, 0, 0, 0, {u}, {w}, Ccrs))
    BY <2>1, DarLeads
  <2>. QED  BY <1>3, <2>1, <2>2, <2>3, JoinLeads DEF Moved
<1>5. Leads(r, AlignPart(u, n), Moved(r, 0, 0, Ccrs), Moved(r, t, t, Ccrs))
  <2>1. CASE u % 8 = 0
    <3>1. t = 0 /\ AlignPart(u, n) = <<>>
      BY <2>1 DEF AlignCount, AlignPart
    <3>2. Leads(r, <<>>, Moved(r, 0, 0, Ccrs), Moved(r, 0, 0, Ccrs))
      BY NothingLeads, StateSound DEF Moved
    <3>. HIDE DEF t
    <3>. QED  BY <3>1, <3>2
  <2>2. CASE u % 8 # 0
    <3>1. AlignPart(u, n) = Copy(1, t)
      BY <2>2 DEF AlignPart
    <3>. HIDE DEF t, u, w
    <3>2. Ahead(r, 0, t) /\ t \in 1..16 /\ 0 + t = t
      <4>0. t # 0 /\ t \in 0..7 /\ t <= n
        BY <1>2, <2>2, Zenon
      <4>1. t \in Nat /\ 0 + t <= n /\ t \in 1..16 /\ 0 + t = t
        BY <4>0
      <4>. QED  BY <4>1, AheadLess
    <3>3. Leads(r, Copy(1, t), Moved(r, 0, 0, Ccrs), Moved(r, 0 + t, 0 + t, Ccrs))
      BY <3>2, BytesLead
    <3>. QED  BY <3>1, <3>2, <3>3
  <2>. QED  BY <2>1, <2>2
<1>6. Leads(r, FullBursts(q) \o RestBurst(q) \o Correction(w, u, q), Moved(r, t, t, Ccrs),
            Moved(r, t2, t2, Ccrs))
  <2>1. CASE q = 0
    <3>1. FullBursts(0) = <<>> /\ RestBurst(0) = <<>> /\ Correction(w, u, 0) = <<>>
      BY DEF FullBursts, RestBurst, Correction
    <3>2. FullBursts(q) \o RestBurst(q) \o Correction(w, u, q) = <<>>
      BY <2>1, <3>1
    <3>3. t2 = t
      BY <1>2, <2>1
    <3>. HIDE DEF t, t2, q
    <3>4. Leads(r, <<>>, Moved(r, t, t, Ccrs), Moved(r, t, t, Ccrs))
      BY NothingLeads, StateSound DEF Moved
    <3>. QED  BY <3>2, <3>3, <3>4
  <2>2. CASE q # 0
    <3>. HIDE DEF t, q
    <3>1. Offset(r, t, x)
      <4>1. (u + t) % 8 = 0 /\ t \in Nat
        BY <1>2, <2>2
      <4>2. x \in 0..7
        <5>. HIDE DEF w
        <5>1. w + t \in Nat
          BY <1>1, <4>1
        <5>. QED  BY <5>1
      <4>. QED  BY <4>1, <4>2 DEF Offset
    <3>2. Ahead(r, t, 128 * m) /\ Ahead(r, t, 8 * q)
      <4>1. t \in Nat /\ 8 * q \in Nat /\ 128 * m \in Nat /\ t + 8 * q <= n /\ t + 128 * m <= n
        BY <1>2
      <4>. QED  BY <4>1, AheadLess
    <3>3. m = q \div 16 /\ q \in Nat
      BY <1>2
    <3>4. q # 0 => t = AlignCount(r.src, r.n) /\ t = IF r.src % 8 = 0 THEN 0 ELSE 8 - (r.src % 8)
      BY <1>2 DEF t
    <3>. HIDE DEF x, m, u, w
    <3>5. Leads(r, FullBursts(q), Moved(r, t, t, Ccrs), Lagging(r, t, 128 * m, x, Ccrs))
      BY <3>1, <3>2, <3>3, FullBurstsLead
    <3>6. Leads(r, RestBurst(q), Lagging(r, t, 128 * m, x, Ccrs), Lagging(r, t, 8 * q, x, Ccrs))
      BY <3>1, <3>2, <3>3, RestBurstLeads
    <3>7. Leads(r, Correction(w, u, q), Lagging(r, t, 8 * q, x, Ccrs), Moved(r, t2, t2, Ccrs))
      BY <3>1, <3>2, <3>3, <3>4, CorrectionLeads DEF u, w
    <3>8. Leads(r, FullBursts(q) \o RestBurst(q), Moved(r, t, t, Ccrs), Lagging(r, t, 8 * q, x, Ccrs))
      BY <3>5, <3>6, JoinLeads
    <3>. QED  BY <3>7, <3>8, JoinLeads
  <2>. QED  BY <2>1, <2>2
<1>7. Leads(r, PostPart(p), Moved(r, t2, t2, Ccrs), Moved(r, n, n, Ccrs))
  <2>0. t2 + p = n /\ t2 \in Nat
    BY <1>2
  <2>. HIDE DEF t2, p
  <2>1. CASE p = 0
    <3>1. t2 = n /\ PostPart(p) = <<>>
      BY <2>0, <2>1 DEF PostPart
    <3>2. Leads(r, <<>>, Moved(r, n, n, Ccrs), Moved(r, n, n, Ccrs))
      BY NothingLeads, StateSound DEF Moved
    <3>. QED  BY <3>1, <3>2
  <2>2. CASE p # 0
    <3>1. PostPart(p) = Copy(1, p)
      BY <2>2 DEF PostPart
    <3>2. Ahead(r, t2, p) /\ p \in 1..16
      <4>1. p \in Nat /\ p \in 1..16 /\ t2 + p <= n
        BY <1>2, <2>0, <2>2
      <4>. QED  BY <2>0, <4>1, AheadLess
    <3>3. Leads(r, Copy(1, p), Moved(r, t2, t2, Ccrs), Moved(r, t2 + p, t2 + p, Ccrs))
      BY <2>0, <3>2, BytesLead
    <3>. QED  BY <2>0, <3>1, <3>3
  <2>. QED  BY <2>1, <2>2
<1>8. CopySegment(w, u, n) = (((Mov("SAR", u) \o Mov("DAR", w)) \o AlignPart(u, n))
         \o (FullBursts(q) \o RestBurst(q) \o Correction(w, u, q))) \o PostPart(p)
  <2>1. /\ AlignPart(u, n) \in Seq(Instructions) /\ PostPart(p) \in Seq(Instructions)
        /\ Mov("SAR", u) \o Mov("DAR", w) \in Seq(Instructions)
    BY <1>4, <1>5, <1>7 DEF Leads
  <2>. QED  BY <2>1, SMTT(20), ZenonT(40) DEF CopySegment
<1>. HIDE DEF t, q, p, x, m, t2, u, w
<1>9. Leads(r, (Mov("SAR", u) \o Mov("DAR", w)) \o AlignPart(u, n), Fresh(r), Moved(r, t, t, Ccrs))
  BY <1>4, <1>5, JoinLeads
<1>10. Leads(r, ((Mov("SAR", u) \o Mov("DAR", w)) \o AlignPart(u, n))
         \o (FullBursts(q) \o RestBurst(q) \o Correction(w, u, q)), Fresh(r), Moved(r, t2, t2, Ccrs))
  BY <1>6, <1>9, JoinLeads
<1>11. Leads(r, CopySegment(w, u, n), Fresh(r), Moved(r, n, n, Ccrs))
  BY <1>7, <1>8, <1>10, JoinLeads
<1>. QED  BY <1>11 DEF u, w

-----------------------------------------------------------------------------
(* Zeroes.                                                                 *)

Wiped(r, k, C) == State(r, k, k, 0, 0, {0}, {r.dst + k}, C)
Blanks(b, n) == Shape(1, 1, TRUE, b, n, TRUE)

\* k bytes are cleared and l more fit into the memory; an access of n beats of b bytes.
Leaves(r, k, l) == ~From(r) /\ r.dst \in Nat /\ k \in Nat /\ l \in Nat /\ r.dst + k + l <= AddrSpace
Wipes(r, k, b, n, l) ==
  Leaves(r, k, l) /\ b \in {1, 2, 4, 8} /\ n \in 1..16 /\ l = b * n /\ (r.dst + k) % b = 0

LEMMA LeavesLess ==
  ASSUME NEW r, NEW n, Leaves(r, 0, n), NEW k \in Nat, NEW l \in Nat, k + l <= n
  PROVE  Leaves(r, k, l)
<1>. DEFINE w == r.dst
<1>1. w \in Nat /\ n \in Nat /\ w + 0 + n <= AddrSpace /\ AddrSpace \in Nat
  BY AddrSpaceAssumption DEF Leaves
<1>. HIDE DEF w
<1>2. w + k + l <= AddrSpace
  BY <1>1
<1>. QED  BY <1>2 DEF Leaves, w

LEMMA WipeLeads ==
  ASSUME NEW r, NEW b, NEW n, NEW k, NEW l, Wipes(r, k, b, n, l)
  PROVE  Leads(r, Op("STZ"), Wiped(r, k, {Blanks(b, n)}), Wiped(r, k + l, {Blanks(b, n)}))
<1>. DEFINE c == Blanks(b, n)
            v == r.dst + k
            k2 == k + l
            v2 == r.dst + k2
<1>1. c \in Ccrs /\ c.di /\ c.ds = b /\ c.db = n
  BY DEF Wipes, Blanks, Shape, Ccrs
<1>2. ~From(r) /\ r.dst \in Nat /\ k \in Nat /\ l \in Nat /\ v \in Nat /\ v2 = v + l /\ v + l <= AddrSpace
  BY DEF Wipes, Leaves
<1>3. StoreIs(c, v, l)
  <2>1. l = b * n - (v % b)
    BY DEF Wipes
  <2>. QED  BY <1>1, <2>1 DEF StoreIs
<1>4. v = r.dst + k /\ k2 = k + l
  OBVIOUS
<1>. HIDE DEF c, v, k2, v2
<1>5. Leads(r, Op("STZ"), State(r, k, k, 0, 0, {0}, {v}, {c}), State(r, k2, k2, 0, 0, {0}, {v2}, {c}))
  BY <1>1, <1>2, <1>3, <1>4, ClearLeads
<1>. QED  BY <1>5 DEF c, v, k2, v2, Wiped

LEMMA BlanksSet ==
  ASSUME NEW r, NEW k, NEW b \in {1, 2, 4, 8}, NEW n \in 1..16
  PROVE  Leads(r, Ccr(1, 1, TRUE, b, n, TRUE), Wiped(r, k, Ccrs), Wiped(r, k, {Blanks(b, n)}))
<1>1. Shape(1, 1, TRUE, b, n, TRUE) \in Ccrs
  BY DEF Shape, Ccrs
<1>. QED  BY <1>1, CcrLeads DEF Wiped, Blanks

LEMMA ZeroesLead ==
  ASSUME NEW r, NEW b, NEW n, NEW k, NEW l, Wipes(r, k, b, n, l)
  PROVE  Leads(r, Zeroes(b, n), Wiped(r, k, Ccrs), Wiped(r, k + l, Ccrs))
<1>1. Leads(r, Op("STZ"), Wiped(r, k, {Blanks(b, n)}), Wiped(r, k + l, {Blanks(b, n)}))
  BY WipeLeads
<1>2. Leads(r, Ccr(1, 1, TRUE, b, n, TRUE), Wiped(r, k, Ccrs), Wiped(r, k, {Blanks(b, n)}))
  <2>1. b \in {1, 2, 4, 8} /\ n \in 1..16
    BY DEF Wipes
  <2>. QED  BY <2>1, BlanksSet
<1>3. Leads(r, Zeroes(b, n), Wiped(r, k, Ccrs), Wiped(r, k + l, {Blanks(b, n)}))
  BY <1>1, <1>2, JoinLeads DEF Zeroes
<1>4. Wiped(r, k + l, {Blanks(b, n)}) \subseteq Wiped(r, k + l, Ccrs)
  BY AnyShape DEF Wiped
<1>. QED  BY <1>3, <1>4, LeadsWeaker

LEMMA ZeroStart ==
  ASSUME NEW r, NEW k, NEW C
  PROVE  Leads(r, <<>>, Wiped(r, k, C), Wiped(r, k, C))
BY NothingLeads, StateSound DEF Wiped

LEMMA FullZeroesLead ==
  ASSUME NEW r, NEW k \in Nat, (r.dst + k) % 8 = 0, NEW q \in Nat, Leaves(r, k, 128 * q)
  PROVE  Leads(r, Nested(q, Op("STZ")), Wiped(r, k, {Blanks(8, 16)}),
               Wiped(r, k + 128 * q, {Blanks(8, 16)}))
<1>. DEFINE F == [j \in 0..q |-> Wiped(r, k + 128 * j, {Blanks(8, 16)})]
            w == r.dst
<1>0. w \in Nat /\ w + k + 128 * q <= AddrSpace /\ ~From(r) /\ AddrSpace \in Nat /\ (w + k) % 8 = 0
  BY AddrSpaceAssumption DEF Leaves
<1>. HIDE DEF w
<1>1. ASSUME NEW j \in 0..(q - 1) PROVE Leads(r, Op("STZ"), F[j], F[j + 1])
  <2>. DEFINE k1 == k + 128 * j
              k2 == k + 128 * (j + 1)
  <2>1. k1 \in Nat /\ k1 + 128 = k2 /\ w + k1 + 128 <= AddrSpace
    <3>1. k1 \in Nat /\ k1 + 128 = k2 /\ 128 * j + 128 <= 128 * q
      OBVIOUS
    <3>2. w + k1 + 128 = (w + k) + (128 * j + 128) /\ w + k + 128 * q = (w + k) + 128 * q
      BY <1>0
    <3>. HIDE DEF k1, k2
    <3>. QED  BY <1>0, <3>1, <3>2
  <2>2. (w + k1) % 8 = 0
    BY <1>0
  <2>3. F[j] = Wiped(r, k1, {Blanks(8, 16)}) /\ F[j + 1] = Wiped(r, k2, {Blanks(8, 16)})
    OBVIOUS
  <2>. HIDE DEF k1, k2, F
  <2>4. Wipes(r, k1, 8, 16, 128)
    BY <1>0, <2>1, <2>2 DEF Wipes, Leaves, w
  <2>5. Leads(r, Op("STZ"), Wiped(r, k1, {Blanks(8, 16)}), Wiped(r, k1 + 128, {Blanks(8, 16)}))
    BY <2>4, WipeLeads
  <2>. QED  BY <2>1, <2>3, <2>5
<1>2. \A j \in 0..q : F[j] \subseteq Sound(r)
  BY StateSound DEF Wiped
<1>3. F[0] = Wiped(r, k, {Blanks(8, 16)}) /\ F[q] = Wiped(r, k + 128 * q, {Blanks(8, 16)})
  <2>1. k + 128 * 0 = k
    OBVIOUS
  <2>. QED  BY <2>1
<1>. HIDE DEF F
<1>4. Along(r, q, Op("STZ"), F)
  BY <1>1, <1>2 DEF Along
<1>. QED  BY <1>3, <1>4, BodyRows, NestedLeads

LEMMA ZeroBurstsLead ==
  ASSUME NEW r, NEW k \in Nat, NEW n \in Nat, n # 0 => (r.dst + k) % 8 = 0, Leaves(r, k, 8 * n)
  PROVE  Leads(r, ZeroBursts(n), Wiped(r, k, Ccrs), Wiped(r, k + 8 * n, Ccrs))
<1>. DEFINE q == n \div 16
            m == n % 16
            p == 8 * m
            w == r.dst
            k1 == k + 128 * q
            k2 == k + 8 * n
            Full == IF n \div 16 = 0 THEN <<>> ELSE Ccr(1, 1, TRUE, 8, 16, TRUE) \o Nested(n \div 16, Op("STZ"))
            Rest == IF n % 16 = 0 THEN <<>> ELSE Zeroes(8, n % 16)
<1>0. w \in Nat /\ w + k + 8 * n <= AddrSpace /\ ~From(r) /\ AddrSpace \in Nat
  BY AddrSpaceAssumption DEF Leaves
<1>1. q \in Nat /\ m \in 0..15 /\ p = 8 * m /\ p \in Nat /\ k1 \in Nat /\ k2 = k1 + p /\ 128 * q <= 8 * n
  OBVIOUS
<1>2. (q # 0 => (w + k) % 8 = 0) /\ (m # 0 => (w + k1) % 8 = 0)
  <2>1. n # 0 => (w + k) % 8 = 0
    OBVIOUS
  <2>2. (q # 0 => n # 0) /\ (m # 0 => n # 0)
    BY <1>1
  <2>3. w + k1 = (w + k) + 128 * q /\ w + k \in Nat
    BY <1>0, <1>1
  <2>. HIDE DEF k1, q, m, w
  <2>4. \A a \in Nat : a % 8 = 0 => (a + 128 * q) % 8 = 0
    BY <1>1
  <2>. QED  BY <2>1, <2>2, <2>3, <2>4
<1>. HIDE DEF w
<1>3. Leads(r, Full, Wiped(r, k, Ccrs), Wiped(r, k1, Ccrs))
  <2>1. CASE q = 0
    <3>1. Full = <<>> /\ k1 = k
      BY <2>1
    <3>. HIDE DEF Full, k1
    <3>. QED  BY <3>1, ZeroStart
  <2>2. CASE q # 0
    <3>1. Full = Ccr(1, 1, TRUE, 8, 16, TRUE) \o Nested(q, Op("STZ"))
      BY <2>2
    <3>2. Leads(r, Ccr(1, 1, TRUE, 8, 16, TRUE), Wiped(r, k, Ccrs), Wiped(r, k, {Blanks(8, 16)}))
      <4>1. 8 \in {1, 2, 4, 8} /\ 16 \in 1..16
        OBVIOUS
      <4>. QED  BY <4>1, BlanksSet
    <3>3. Leaves(r, k, 128 * q) /\ (r.dst + k) % 8 = 0
      <4>1. w + k + 128 * q <= AddrSpace /\ 128 * q \in Nat
        BY <1>0, <1>1
      <4>. QED  BY <1>0, <1>2, <2>2, <4>1 DEF Leaves, w
    <3>. HIDE DEF Full, q
    <3>4. Leads(r, Nested(q, Op("STZ")), Wiped(r, k, {Blanks(8, 16)}), Wiped(r, k1, {Blanks(8, 16)}))
      BY <1>1, <3>3, FullZeroesLead
    <3>5. Leads(r, Full, Wiped(r, k, Ccrs), Wiped(r, k1, {Blanks(8, 16)}))
      BY <3>1, <3>2, <3>4, JoinLeads
    <3>6. Wiped(r, k1, {Blanks(8, 16)}) \subseteq Wiped(r, k1, Ccrs)
      BY AnyShape DEF Wiped
    <3>. QED  BY <3>5, <3>6, LeadsWeaker
  <2>. QED  BY <2>1, <2>2
<1>4. Leads(r, Rest, Wiped(r, k1, Ccrs), Wiped(r, k2, Ccrs))
  <2>1. CASE m = 0
    <3>1. Rest = <<>> /\ k1 = k2
      BY <1>1, <2>1
    <3>. HIDE DEF Rest, k1, k2
    <3>. QED  BY <3>1, ZeroStart
  <2>2. CASE m # 0
    <3>1. Rest = Zeroes(8, m)
      BY <2>2
    <3>2. Wipes(r, k1, 8, m, p)
      <4>1. w + k1 + p <= AddrSpace
        <5>1. w + k1 + p = w + k + 8 * n
          BY <1>0, <1>1
        <5>. QED  BY <1>0, <5>1
      <4>2. (w + k1) % 8 = 0
        BY <1>2, <2>2
      <4>. HIDE DEF k1, p, m
      <4>. QED  BY <1>0, <1>1, <2>2, <4>1, <4>2 DEF Wipes, Leaves, w
    <3>. HIDE DEF Rest, k1, k2, p, m
    <3>3. Leads(r, Zeroes(8, m), Wiped(r, k1, Ccrs), Wiped(r, k1 + p, Ccrs))
      BY <3>2, ZeroesLead
    <3>. QED  BY <1>1, <3>1, <3>3
  <2>. QED  BY <2>1, <2>2
<1>5. ZeroBursts(n) = Full \o Rest
  BY DEF ZeroBursts
<1>. HIDE DEF Full, Rest
<1>. QED  BY <1>3, <1>4, <1>5, JoinLeads

\* All bytes are cleared.
LEMMA ZeroSegmentLeads ==
  ASSUME NEW r, NEW n \in Nat \ {0}, r.n = n, Leaves(r, 0, n)
  PROVE  Leads(r, ZeroSegment(r.dst, n), Fresh(r), Wiped(r, n, Ccrs))
<1>. DEFINE w == r.dst
            t == AlignCount(w, n)
            q == BurstCount(w, n)
            p == PostCount(w, n)
            t2 == t + 8 * q
            First == IF w % 8 = 0 THEN <<>> ELSE Zeroes(1, t)
            Last1 == IF p = 0 THEN <<>> ELSE Zeroes(1, p)
<1>1. w \in Nat /\ w + 0 + n <= AddrSpace
  BY DEF Leaves
<1>2. /\ t \in 0..7 /\ t <= n /\ q \in Nat /\ p \in 0..7 /\ t2 + p = n /\ t2 \in Nat
      /\ (w % 8 = 0 <=> t = 0)
  <2>. HIDE DEF w
  <2>1. t \in 0..7 /\ t <= n /\ (w % 8 = 0 <=> t = 0)
    BY <1>1 DEF AlignCount, Least
  <2>2. q = (n - t) \div 8 /\ p = (n - t) % 8
    BY DEF BurstCount, PostCount
  <2>. HIDE DEF t, q, p
  <2>3. q \in Nat /\ p \in 0..7 /\ t + 8 * q + p = n
    BY <2>1, <2>2
  <2>. QED  BY <2>1, <2>3
<1>3. q # 0 => (w + t) % 8 = 0
  <2>. HIDE DEF w
  <2>1. CASE w % 8 = 0
    BY <1>1, <1>2, <2>1
  <2>2. CASE w % 8 # 0 /\ 8 - (w % 8) < n
    <3>1. t = 8 - (w % 8)
      BY <2>2 DEF AlignCount, Least
    <3>. HIDE DEF t
    <3>. QED  BY <1>1, <3>1
  <2>3. CASE w % 8 # 0 /\ ~(8 - (w % 8) < n)
    <3>1. t = n /\ q = (n - t) \div 8
      BY <2>3 DEF AlignCount, Least, BurstCount
    <3>. HIDE DEF t, q
    <3>2. q = 0
      BY <3>1
    <3>. QED  BY <3>2
  <2>. QED  BY <2>1, <2>2, <2>3
<1>4. Leads(r, Mov("DAR", w), Fresh(r), Wiped(r, 0, Ccrs))
  <2>1. w \in -100..AddrSpace /\ r.dst + 0 = w
    BY <1>1, AddrSpaceAssumption
  <2>. HIDE DEF w
  <2>2. Leads(r, Mov("DAR", w), State(r, 0, 0, 0, 0, {0}, {0}, Ccrs), State(r, 0, 0, 0, 0, {0}, {w}, Ccrs))
    BY <2>1, DarLeads
  <2>. QED  BY <2>1, <2>2 DEF Wiped, Fresh
<1>. HIDE DEF t, q, p
<1>10. \A k \in Nat, l \in 1..16 : k + l <= n => Leads(r, Zeroes(1, l), Wiped(r, k, Ccrs), Wiped(r, k + l, Ccrs))
  <2>. TAKE k \in Nat, l \in 1..16
  <2>. HAVE k + l <= n
  <2>1. Leaves(r, k, l)
    <3>1. l \in Nat
      OBVIOUS
    <3>. QED  BY <3>1, LeavesLess
  <2>2. (w + k) % 1 = 0 /\ l = 1 * l
    BY <1>1
  <2>3. Wipes(r, k, 1, l, l)
    BY <2>1, <2>2 DEF Wipes, w
  <2>. QED  BY <2>3, ZeroesLead
<1>5. Leads(r, First, Wiped(r, 0, Ccrs), Wiped(r, t, Ccrs))
  <2>1. CASE w % 8 = 0
    <3>1. First = <<>> /\ t = 0
      BY <1>2, <2>1
    <3>. HIDE DEF First
    <3>. QED  BY <3>1, ZeroStart
  <2>2. CASE w % 8 # 0
    <3>1. First = Zeroes(1, t)
      BY <2>2
    <3>2. t # 0 /\ t \in 0..7 /\ t <= n
      BY <1>2, <2>2, Zenon
    <3>3. t \in 1..16 /\ 0 + t <= n /\ 0 + t = t /\ 0 \in Nat
      BY <3>2
    <3>4. Leads(r, Zeroes(1, t), Wiped(r, 0, Ccrs), Wiped(r, 0 + t, Ccrs))
      BY <1>10, <3>3
    <3>. QED  BY <3>1, <3>3, <3>4
  <2>. QED  BY <2>1, <2>2
<1>6. Leads(r, ZeroBursts(q), Wiped(r, t, Ccrs), Wiped(r, t2, Ccrs))
  <2>1. Leaves(r, t, 8 * q)
    <3>1. t \in Nat /\ 8 * q \in Nat /\ t + 8 * q <= n
      BY <1>2
    <3>. QED  BY <3>1, LeavesLess
  <2>. QED  BY <1>2, <1>3, <2>1, ZeroBurstsLead
<1>7. Leads(r, Last1, Wiped(r, t2, Ccrs), Wiped(r, n, Ccrs))
  <2>. HIDE DEF t2
  <2>1. CASE p = 0
    <3>1. Last1 = <<>> /\ t2 = n
      BY <1>2, <2>1
    <3>. HIDE DEF Last1
    <3>. QED  BY <3>1, ZeroStart
  <2>2. CASE p # 0
    <3>1. Last1 = Zeroes(1, p) /\ p \in 1..16 /\ t2 + p = n /\ t2 \in Nat /\ t2 + p <= n
      BY <1>2, <2>2
    <3>2. Leads(r, Zeroes(1, p), Wiped(r, t2, Ccrs), Wiped(r, t2 + p, Ccrs))
      BY <1>10, <3>1
    <3>. QED  BY <3>1, <3>2
  <2>. QED  BY <2>1, <2>2
<1>8. ZeroSegment(w, n) = Mov("DAR", w) \o First \o ZeroBursts(q) \o Last1
  BY DEF ZeroSegment, t, q, p
<1>. HIDE DEF First, Last1, t2, w
<1>11. Leads(r, Mov("DAR", w) \o First, Fresh(r), Wiped(r, t, Ccrs))
  BY <1>4, <1>5, JoinLeads
<1>12. Leads(r, Mov("DAR", w) \o First \o ZeroBursts(q), Fresh(r), Wiped(r, t2, Ccrs))
  BY <1>6, <1>11, JoinLeads
<1>13. Leads(r, ZeroSegment(w, n), Fresh(r), Wiped(r, n, Ccrs))
  BY <1>7, <1>8, <1>12, JoinLeads
<1>. QED  BY <1>13 DEF w

-----------------------------------------------------------------------------
(* Transfers between memory and a device.                                  *)

\* Between two accesses k bytes are moved; a read commands are given.
Here(r) == IF From(r) THEN r.dst ELSE r.src
Going(r, k, a, C) ==
  State(r, k, k, a, 0, IF From(r) THEN {Register} ELSE {r.src + k},
                       IF From(r) THEN {r.dst + k} ELSE {Register}, C)
\* k bytes are moved and l more fit into the memory.
Spare(r, k, l) == Here(r) \in Nat /\ k \in Nat /\ l \in Nat /\ Here(r) + k + l <= AddrSpace

LEMMA SpareLess ==
  ASSUME NEW r, NEW k0 \in Nat, NEW n, Spare(r, k0, n), NEW k \in Nat, NEW l \in Nat, k + l <= k0 + n
  PROVE  Spare(r, k, l)
<1>. DEFINE w == Here(r)
<1>1. w \in Nat /\ n \in Nat /\ w + k0 + n <= AddrSpace /\ AddrSpace \in Nat
  BY AddrSpaceAssumption DEF Spare
<1>. HIDE DEF w
<1>2. w + k + l <= AddrSpace
  BY <1>1
<1>. QED  BY <1>1, <1>2 DEF Spare, w

LEMMA GoingStays ==
  ASSUME NEW r, NEW k, NEW a, NEW C
  PROVE  /\ Leads(r, <<>>, Going(r, k, a, C), Going(r, k, a, C))
         /\ Going(r, k, a, C) \subseteq Going(r, k, a, Ccrs)
         /\ Going(r, k, a, C) \subseteq Sound(r)
BY NothingLeads, StateSound, AnyShape DEF Going

LEMMA GoingSet ==
  ASSUME NEW r, NEW k, NEW a, NEW ss, NEW sb, NEW si, NEW ds, NEW db, NEW di,
         Shape(ss, sb, si, ds, db, di) \in Ccrs
  PROVE  Leads(r, Ccr(ss, sb, si, ds, db, di), Going(r, k, a, Ccrs),
               Going(r, k, a, {Shape(ss, sb, si, ds, db, di)}))
<1>. DEFINE S == IF From(r) THEN {Register} ELSE {r.src + k}
            D == IF From(r) THEN {r.dst + k} ELSE {Register}
<1>. HIDE DEF S, D
<1>1. Leads(r, Ccr(ss, sb, si, ds, db, di), State(r, k, k, a, 0, S, D, Ccrs),
            State(r, k, k, a, 0, S, D, {Shape(ss, sb, si, ds, db, di)}))
  BY CcrLeads
<1>. QED  BY <1>1 DEF S, D, Going

\* Rounds of l bytes each.
Steady(r, body, a, c, k, l, q) ==
  /\ body \in Seq(Instructions) /\ k \in Nat /\ l \in Nat /\ q \in Nat
  /\ \A j \in 0..(q - 1) :
       Leads(r, body, Going(r, k + l * j, a, {c}), Going(r, k + l * j + l, a, {c}))

LEMMA SteadyLeads ==
  ASSUME NEW r, NEW body, NEW a, NEW c, NEW k, NEW l, NEW q, Steady(r, body, a, c, k, l, q)
  PROVE  /\ Leads(r, Repeat(q, body), Going(r, k, a, {c}), Going(r, k + l * q, a, {c}))
         /\ Leads(r, Nested(q, body), Going(r, k, a, {c}), Going(r, k + l * q, a, {c}))
<1>. DEFINE F == [j \in 0..q |-> Going(r, k + l * j, a, {c})]
<1>1. k \in Nat /\ l \in Nat /\ q \in Nat /\ body \in Seq(Instructions)
  BY DEF Steady
<1>2. \A j \in 0..q : F[j] \subseteq Sound(r)
  BY GoingStays
<1>3. ASSUME NEW j \in 0..(q - 1) PROVE Leads(r, body, F[j], F[j + 1])
  <2>1. F[j] = Going(r, k + l * j, a, {c})
    BY <1>1
  <2>2. l * (j + 1) = l * j + l
    BY <1>1
  <2>3. k + l * (j + 1) = k + l * j + l
    <3>1. l * j \in Nat
      BY <1>1
    <3>. QED  BY <1>1, <2>2, <3>1
  <2>4. F[j + 1] = Going(r, k + l * (j + 1), a, {c})
    BY <1>1
  <2>5. F[j + 1] = Going(r, k + l * j + l, a, {c})
    BY <2>3, <2>4
  <2>. HIDE DEF F
  <2>. QED  BY <2>1, <2>5 DEF Steady
<1>4. F[0] = Going(r, k, a, {c}) /\ F[q] = Going(r, k + l * q, a, {c})
  <2>1. k + l * 0 = k
    BY <1>1
  <2>. QED  BY <1>1, <2>1
<1>. HIDE DEF F
<1>5. Along(r, q, body, F)
  BY <1>2, <1>3 DEF Along
<1>6. Leads(r, Repeat(q, body), F[0], F[q])
  BY <1>1, <1>5, RepeatLeads
<1>7. Leads(r, Nested(q, body), F[0], F[q])
  BY <1>1, <1>5, NestedLeads
<1>. QED  BY <1>4, <1>6, <1>7

\* One of the rounds.
LEMMA Multiples ==
  ASSUME NEW l \in Nat, NEW q \in Nat, NEW j \in 0..(q - 1)
  PROVE  l * j \in Nat /\ l * j + l <= l * q /\ l * q \in Nat
<1>1. l * j \in Nat /\ l * q \in Nat /\ l * (j + 1) = l * j + l
  OBVIOUS
<1>2. l * (q - (j + 1)) >= 0 /\ l * (q - (j + 1)) = l * q - l * (j + 1)
  OBVIOUS
<1>. QED  BY <1>1, <1>2

-----------------------------------------------------------------------------
(* Registers.                                                              *)

Wide(r, w, b) == Shape(w, b, ~From(r), w, b, From(r))
Accesses(r, k, w, b, l) ==
  /\ r.per.kind = "none" /\ Spare(r, k, l) /\ w \in {1, 2, 4, 8} /\ b \in 1..16 /\ l = w * b
  /\ (Here(r) + k) % w = 0

LEMMA AccessLeads ==
  ASSUME NEW r, NEW k, NEW w, NEW b, NEW l, Accesses(r, k, w, b, l)
  PROVE  Leads(r, LdSt, Going(r, k, 0, {Wide(r, w, b)}), Going(r, k + l, 0, {Wide(r, w, b)}))
<1>. DEFINE c == Wide(r, w, b)
            v == Here(r) + k
            k2 == k + l
            v2 == Here(r) + k2
<1>1. c \in Ccrs /\ c.ss = w /\ c.sb = b /\ c.ds = w /\ c.db = b /\ (c.si <=> ~From(r)) /\ (c.di <=> From(r))
  <2>1. From(r) \in BOOLEAN /\ (~From(r)) \in BOOLEAN
    BY DEF From
  <2>2. w \in {1, 2, 4, 8} /\ b \in 1..16
    BY DEF Accesses
  <2>. QED  BY <2>1, <2>2 DEF Wide, Shape, Ccrs
<1>2. /\ Here(r) \in Nat /\ k \in Nat /\ l \in Nat /\ v \in Nat /\ k2 \in Nat /\ v2 = v + l
      /\ v + l <= AddrSpace /\ k + l <= k2 /\ l = w * b
  BY DEF Accesses, Spare
<1>3. UsedBy(r, l) = 0 /\ r.per.kind # "i2c"
  BY DEF Accesses, UsedBy
<1>4. w * b - (v % w) = l /\ w * b - 0 = l
  BY <1>2 DEF Accesses
<1>5. v = Here(r) + k /\ k2 = k + l /\ 0 + 0 <= 0 /\ 0 \in Nat
  OBVIOUS
<1>6. CASE From(r)
  <2>1. LoadIs(c, Register, l) /\ StoreIs(c, v, l) /\ ~c.si /\ c.di /\ Here(r) = r.dst
        /\ v = r.dst + k /\ r.dst \in Nat
    BY <1>1, <1>2, <1>4, <1>6 DEF LoadIs, StoreIs, Here
  <2>. HIDE DEF c, v, k2, v2
  <2>. DEFINE Z == 0
  <2>4. Z \in Nat /\ Z + UsedBy(r, l) <= Z /\ UsedBy(r, l) \in Nat
    BY <1>3, <1>5
  <2>. HIDE DEF Z
  <2>2. Leads(r, Op("LD"), State(r, k, k, 0, Z, {Register}, {v}, {c}), State(r, k, k2, 0, Z, {Register}, {v}, {c}))
    BY <1>1, <1>2, <1>5, <1>6, <2>1, <2>4, TakeLeads
  <2>3. Leads(r, Op("ST"), State(r, k, k2, 0, Z, {Register}, {v}, {c}), State(r, k2, k2, 0, Z, {Register}, {v2}, {c}))
    BY <1>1, <1>2, <1>5, <1>6, <2>1, StoreLeads, ZenonT(40), SMTT(20)
  <2>5. Leads(r, LdSt, State(r, k, k, 0, Z, {Register}, {v}, {c}), State(r, k2, k2, 0, Z, {Register}, {v2}, {c}))
    BY <2>2, <2>3, JoinLeads DEF LdSt
  <2>. QED  BY <1>6, <2>1, <2>5 DEF Z, c, v, v2, k2, Going
<1>7. CASE ~From(r)
  <2>1. LoadIs(c, v, l) /\ StoreIs(c, Register, l) /\ c.si /\ ~c.di /\ Here(r) = r.src
        /\ v = r.src + k /\ r.src \in Nat
    BY <1>1, <1>2, <1>4, <1>7 DEF LoadIs, StoreIs, Here
  <2>. HIDE DEF c, v, k2, v2
  <2>. DEFINE Z == 0
  <2>4. Z \in Nat /\ Z + UsedBy(r, l) <= Z /\ UsedBy(r, l) \in Nat
    BY <1>3, <1>5
  <2>. HIDE DEF Z
  <2>2. Leads(r, Op("LD"), State(r, k, k, 0, Z, {v}, {Register}, {c}), State(r, k, k2, 0, Z, {v2}, {Register}, {c}))
    BY <1>1, <1>2, <1>5, <1>7, <2>1, LoadLeads
  <2>3. Leads(r, Op("ST"), State(r, k, k2, 0, Z, {v2}, {Register}, {c}), State(r, k2, k2, 0, Z, {v2}, {Register}, {c}))
    BY <1>1, <1>2, <1>3, <1>5, <2>1, <2>4, GiveLeads
  <2>5. Leads(r, LdSt, State(r, k, k, 0, Z, {v}, {Register}, {c}), State(r, k2, k2, 0, Z, {v2}, {Register}, {c}))
    BY <2>2, <2>3, JoinLeads DEF LdSt
  <2>. QED  BY <1>7, <2>1, <2>5 DEF Z, c, v, v2, k2, Going
<1>. QED  BY <1>6, <1>7

LEMMA Aligned ==
  ASSUME NEW w \in {1, 2, 4, 8}, NEW a \in Nat, a % w = 0, NEW n \in Nat
  PROVE  (a + 16 * w * n) % w = 0 /\ 16 * w * n \in Nat /\ w * n \in Nat
         /\ 16 * w * (n \div 16) + w * (n % 16) = w * n
         /\ w * (n % 16) \in Nat /\ w * 16 = 16 * w
<1>1. CASE w = 1
  BY <1>1
<1>2. CASE w = 2
  BY <1>2
<1>3. CASE w = 4
  BY <1>3
<1>4. CASE w = 8
  BY <1>4
<1>. QED  BY <1>1, <1>2, <1>3, <1>4

FullAccess(w, n, si, di) ==
  IF n \div 16 = 0 THEN <<>> ELSE Ccr(w, 16, si, w, 16, di) \o Nested(n \div 16, LdSt)
RestAccess(w, n, si, di) ==
  IF n % 16 = 0 THEN <<>> ELSE Ccr(w, n % 16, si, w, n % 16, di) \o LdSt

LEMMA AccessingLeads ==
  ASSUME NEW r, r.per.kind = "none", NEW w \in {1, 2, 4, 8}, NEW n \in Nat, Spare(r, 0, w * n),
         Here(r) % w = 0, NEW si, si = ~From(r), NEW di, di = From(r)
  PROVE  \E k : /\ Leads(r, FullAccess(w, n, si, di), Going(r, 0, 0, Ccrs), Going(r, k, 0, Ccrs))
               /\ Leads(r, RestAccess(w, n, si, di), Going(r, k, 0, Ccrs), Going(r, w * n, 0, Ccrs))
<1>. DEFINE u == Here(r)
            q == n \div 16
            m == n % 16
            l == 16 * w
            p == w * m
            t == w * n
            k == l * q
            Full == FullAccess(w, n, si, di)
            Rest == RestAccess(w, n, si, di)
<1>0. u \in Nat /\ t \in Nat /\ u % w = 0
  BY DEF Spare
<1>1. q \in Nat /\ m \in 0..15 /\ l \in Nat
  OBVIOUS
<1>2. \A j \in Nat : (u + l * j) % w = 0 /\ l * j \in Nat
  BY <1>0, Aligned
<1>3. k + p = t /\ p \in Nat /\ p = w * m /\ k \in Nat /\ w * 16 = l
  BY <1>0, Aligned
<1>4. \A b \in 1..16 : Shape(w, b, ~From(r), w, b, From(r)) \in Ccrs
  <2>1. From(r) \in BOOLEAN /\ (~From(r)) \in BOOLEAN
    BY DEF From
  <2>. QED  BY <2>1 DEF Shape, Ccrs
<1>5. Leads(r, Full, Going(r, 0, 0, Ccrs), Going(r, k, 0, Ccrs))
  <2>1. CASE q = 0
    <3>1. Full = <<>> /\ k = 0
      BY <1>1, <2>1 DEF FullAccess
    <3>. HIDE DEF Full, k
    <3>. QED  BY <3>1, GoingStays
  <2>2. CASE q # 0
    <3>1. Full = Ccr(w, 16, ~From(r), w, 16, From(r)) \o Nested(q, LdSt)
      BY <2>2 DEF FullAccess
    <3>2. 16 \in 1..16
      OBVIOUS
    <3>3. Leads(r, Ccr(w, 16, ~From(r), w, 16, From(r)), Going(r, 0, 0, Ccrs), Going(r, 0, 0, {Wide(r, w, 16)}))
      BY <1>4, <3>2, GoingSet DEF Wide
    <3>4. ASSUME NEW j \in 0..(q - 1)
          PROVE  Leads(r, LdSt, Going(r, 0 + l * j, 0, {Wide(r, w, 16)}), Going(r, 0 + l * j + l, 0, {Wide(r, w, 16)}))
      <4>. DEFINE k1 == 0 + l * j
      <4>1. k1 = l * j /\ k1 \in Nat /\ k1 + l <= k /\ j \in Nat
        <5>. HIDE DEF l, q
        <5>1. l * j \in Nat /\ l * j + l <= l * q
          BY <1>1, Multiples
        <5>. QED  BY <5>1
      <4>2. (u + k1) % w = 0
        <5>. HIDE DEF k1, l
        <5>. QED  BY <1>2, <4>1
      <4>. HIDE DEF k1, l, k, p, t, u
      <4>3. Spare(r, k1, l)
        <5>1. Spare(r, 0, t) /\ 0 \in Nat /\ k1 + l <= 0 + t
          BY <1>0, <1>1, <1>3, <4>1 DEF t
        <5>. QED  BY <1>1, <4>1, <5>1, SpareLess
      <4>4. Accesses(r, k1, w, 16, l)
        BY <1>3, <3>2, <4>2, <4>3 DEF Accesses, u
      <4>5. Leads(r, LdSt, Going(r, k1, 0, {Wide(r, w, 16)}), Going(r, k1 + l, 0, {Wide(r, w, 16)}))
        BY <4>4, AccessLeads
      <4>. QED  BY <4>5 DEF k1
    <3>5. Steady(r, LdSt, 0, Wide(r, w, 16), 0, l, q)
      BY <1>1, <3>4, BodyRows DEF Steady
    <3>. HIDE DEF l, q
    <3>6. Leads(r, Nested(q, LdSt), Going(r, 0, 0, {Wide(r, w, 16)}), Going(r, 0 + l * q, 0, {Wide(r, w, 16)}))
      BY <3>5, SteadyLeads
    <3>7. 0 + l * q = k
      BY <1>3
    <3>. HIDE DEF Full, k
    <3>8. Leads(r, Full, Going(r, 0, 0, Ccrs), Going(r, k, 0, {Wide(r, w, 16)}))
      BY <3>1, <3>3, <3>6, <3>7, JoinLeads
    <3>. QED  BY <3>8, GoingStays, LeadsWeaker
  <2>. QED  BY <2>1, <2>2
<1>6. Leads(r, Rest, Going(r, k, 0, Ccrs), Going(r, t, 0, Ccrs))
  <2>1. CASE m = 0
    <3>1. p = 0
      BY <2>1
    <3>. HIDE DEF p, t, k
    <3>2. Rest = <<>> /\ k = t
      BY <1>3, <2>1, <3>1 DEF RestAccess
    <3>. HIDE DEF Rest
    <3>. QED  BY <3>2, GoingStays
  <2>2. CASE m # 0
    <3>1. Rest = Ccr(w, m, ~From(r), w, m, From(r)) \o LdSt /\ m \in 1..16
      BY <1>1, <2>2 DEF RestAccess
    <3>2. Leads(r, Ccr(w, m, ~From(r), w, m, From(r)), Going(r, k, 0, Ccrs), Going(r, k, 0, {Wide(r, w, m)}))
      <4>1. Shape(w, m, ~From(r), w, m, From(r)) \in Ccrs
        BY <1>4, <3>1
      <4>. HIDE DEF m, k
      <4>. QED  BY <4>1, GoingSet DEF Wide
    <3>3. (u + k) % w = 0
      BY <1>1, <1>2
    <3>. HIDE DEF k, p, t, m, u
    <3>4. Spare(r, k, p)
      <4>1. Spare(r, 0, t) /\ 0 \in Nat /\ k + p <= 0 + t
        BY <1>3 DEF t
      <4>. QED  BY <1>3, <4>1, SpareLess
    <3>5. Accesses(r, k, w, m, p)
      BY <1>3, <3>1, <3>3, <3>4 DEF Accesses, u
    <3>6. Leads(r, LdSt, Going(r, k, 0, {Wide(r, w, m)}), Going(r, k + p, 0, {Wide(r, w, m)}))
      BY <3>5, AccessLeads
    <3>. HIDE DEF Rest
    <3>7. Leads(r, Rest, Going(r, k, 0, Ccrs), Going(r, t, 0, {Wide(r, w, m)}))
      BY <1>3, <3>1, <3>2, <3>6, JoinLeads
    <3>. QED  BY <3>7, GoingStays, LeadsWeaker
  <2>. QED  BY <2>1, <2>2
<1>. HIDE DEF Full, Rest
<1>. QED  BY <1>5, <1>6 DEF Full, Rest

\* The address of the memory and that of the device are set first.
LEMMA StartLeads ==
  ASSUME NEW r, Here(r) \in 0..AddrSpace
  PROVE  /\ From(r) => Leads(r, Mov("SAR", Register), Fresh(r), State(r, 0, 0, 0, 0, {Register}, {0}, Ccrs))
         /\ From(r) => Leads(r, Mov("DAR", r.dst), State(r, 0, 0, 0, 0, {Register}, {0}, Ccrs), Going(r, 0, 0, Ccrs))
         /\ ~From(r) => Leads(r, Mov("DAR", Register), Fresh(r), State(r, 0, 0, 0, 0, {0}, {Register}, Ccrs))
         /\ ~From(r) => Leads(r, Mov("SAR", r.src), State(r, 0, 0, 0, 0, {0}, {Register}, Ccrs), Going(r, 0, 0, Ccrs))
<1>1. Register \in -100..AddrSpace
  BY AddrSpaceAssumption DEF Register
<1>. DEFINE u == Here(r)
            Z == {0}
            R == {Register}
            g == Register
<1>2. u \in -100..AddrSpace /\ (From(r) => r.dst = u /\ {r.dst + 0} = {u}) /\ (~From(r) => r.src = u /\ {r.src + 0} = {u})
  BY AddrSpaceAssumption DEF Here
<1>3. g \in -100..AddrSpace /\ R = {g}
  BY <1>1
<1>. HIDE DEF u, Z, R, g
<1>4. Leads(r, Mov("SAR", g), State(r, 0, 0, 0, 0, Z, Z, Ccrs), State(r, 0, 0, 0, 0, {g}, Z, Ccrs))
  BY <1>3, SarLeads
<1>5. Leads(r, Mov("DAR", g), State(r, 0, 0, 0, 0, Z, Z, Ccrs), State(r, 0, 0, 0, 0, Z, {g}, Ccrs))
  BY <1>3, DarLeads
<1>6. Leads(r, Mov("DAR", u), State(r, 0, 0, 0, 0, R, Z, Ccrs), State(r, 0, 0, 0, 0, R, {u}, Ccrs))
  BY <1>2, DarLeads
<1>7. Leads(r, Mov("SAR", u), State(r, 0, 0, 0, 0, Z, R, Ccrs), State(r, 0, 0, 0, 0, {u}, R, Ccrs))
  BY <1>2, SarLeads
<1>8. From(r) => Going(r, 0, 0, Ccrs) = State(r, 0, 0, 0, 0, R, {u}, Ccrs)
  BY <1>2 DEF Going, R
<1>9. ~From(r) => Going(r, 0, 0, Ccrs) = State(r, 0, 0, 0, 0, {u}, R, Ccrs)
  BY <1>2 DEF Going, R
<1>. QED  BY <1>2, <1>4, <1>5, <1>6, <1>7, <1>8, <1>9 DEF Z, R, g, Fresh

\* A register transfer moves as many whole accesses as its count of bytes, as it wraps in
\* 32 bits, says.
Counted(r) == r.width * (Size(r) \div r.width)
Registers(r) ==
  /\ r.per.kind = "none" /\ r.width \in {1, 2, 4, 8} /\ Size(r) \in Nat
  /\ Size(r) # 0 => Spare(r, 0, Size(r))
  /\ Here(r) % r.width = 0 /\ Here(r) \in 0..AddrSpace

LEMMA RegisterParts ==
  ASSUME NEW r, Registers(r), Size(r) # 0, NEW si, si = ~From(r), NEW di, di = From(r), NEW n,
         n = Size(r) \div r.width
  PROVE  \E k : /\ Leads(r, FullAccess(r.width, n, si, di), Going(r, 0, 0, Ccrs), Going(r, k, 0, Ccrs))
                /\ Leads(r, RestAccess(r.width, n, si, di), Going(r, k, 0, Ccrs), Going(r, Counted(r), 0, Ccrs))
<1>. DEFINE w == r.width
            z == Size(r)
<1>0. w \in {1, 2, 4, 8} /\ z \in Nat /\ Spare(r, 0, z) /\ Here(r) % w = 0
  BY DEF Registers
<1>1. n \in Nat /\ w * n <= z /\ w * n \in Nat
  <2>0. n = z \div w
    OBVIOUS
  <2>. HIDE DEF z, w
  <2>1. CASE w = 1
    BY <1>0, <2>0, <2>1
  <2>2. CASE w = 2
    BY <1>0, <2>0, <2>2
  <2>3. CASE w = 4
    BY <1>0, <2>0, <2>3
  <2>4. CASE w = 8
    BY <1>0, <2>0, <2>4
  <2>. QED  BY <1>0, <2>1, <2>2, <2>3, <2>4
<1>2. r.per.kind = "none"
  BY DEF Registers
<1>. HIDE DEF w, z
<1>3. Spare(r, 0, w * n)
  <2>. DEFINE y == w * n
  <2>1. y \in Nat /\ 0 \in Nat /\ 0 + y <= 0 + z
    BY <1>0, <1>1
  <2>. HIDE DEF y
  <2>2. Spare(r, 0, y)
    BY <1>0, <2>1, SpareLess
  <2>. QED  BY <2>2 DEF y
<1>4. \E k : /\ Leads(r, FullAccess(w, n, si, di), Going(r, 0, 0, Ccrs), Going(r, k, 0, Ccrs))
             /\ Leads(r, RestAccess(w, n, si, di), Going(r, k, 0, Ccrs), Going(r, w * n, 0, Ccrs))
  BY <1>0, <1>1, <1>2, <1>3, AccessingLeads
<1>. QED  BY <1>1, <1>4 DEF w, z, Counted

Idle(r) == IF From(r) THEN State(r, 0, 0, 0, 0, {Register}, {0}, Ccrs)
           ELSE State(r, 0, 0, 0, 0, {0}, {Register}, Ccrs)

LEMMA ToRegisterLeads ==
  ASSUME NEW r, Registers(r), ~From(r)
  PROVE  Leads(r, ToRegister(r), Fresh(r), IF Size(r) = 0 THEN Idle(r) ELSE Going(r, Counted(r), 0, Ccrs))
<1>. DEFINE Z == State(r, 0, 0, 0, 0, {0}, {Register}, Ccrs)
            A == Mov("DAR", Register)
            B == Mov("SAR", r.src)
            n == Size(r) \div r.width
            C == FullAccess(r.width, n, TRUE, FALSE)
            D == RestAccess(r.width, n, TRUE, FALSE)
<1>1. Leads(r, A, Fresh(r), Z) /\ Leads(r, B, Z, Going(r, 0, 0, Ccrs)) /\ Idle(r) = Z
  BY StartLeads DEF Registers, Idle
<1>2. CASE Size(r) = 0
  <2>1. ToRegister(r) = A \o <<>> /\ Z \in SUBSET Sound(r)
    BY <1>2, StateSound DEF ToRegister
  <2>2. Leads(r, <<>>, Z, Z)
    BY <2>1, NothingLeads
  <2>. HIDE DEF A, B, Z
  <2>. QED  BY <1>1, <1>2, <2>1, <2>2, JoinLeads
<1>3. CASE Size(r) # 0
  <2>0. TRUE = ~From(r) /\ FALSE = From(r)
    BY DEF From
  <2>1. PICK k : Leads(r, C, Going(r, 0, 0, Ccrs), Going(r, k, 0, Ccrs))
              /\ Leads(r, D, Going(r, k, 0, Ccrs), Going(r, Counted(r), 0, Ccrs))
    BY <1>3, <2>0, RegisterParts
  <2>2. ToRegister(r) = A \o (B \o C \o D)
    BY <1>3 DEF ToRegister, ToRegisterSegment, FullAccess, RestAccess
  <2>. HIDE DEF A, B, C, D, Z, n
  <2>3. Leads(r, B \o C, Z, Going(r, k, 0, Ccrs))
    BY <1>1, <2>1, JoinLeads
  <2>4. Leads(r, B \o C \o D, Z, Going(r, Counted(r), 0, Ccrs))
    BY <2>1, <2>3, JoinLeads
  <2>5. Leads(r, A \o (B \o C \o D), Fresh(r), Going(r, Counted(r), 0, Ccrs))
    BY <1>1, <2>4, JoinLeads
  <2>. QED  BY <1>3, <2>2, <2>5
<1>. QED  BY <1>2, <1>3

LEMMA FromRegisterLeads ==
  ASSUME NEW r, Registers(r), From(r)
  PROVE  Leads(r, FromRegister(r), Fresh(r), IF Size(r) = 0 THEN Idle(r) ELSE Going(r, Counted(r), 0, Ccrs))
<1>. DEFINE Z == State(r, 0, 0, 0, 0, {Register}, {0}, Ccrs)
            A == Mov("SAR", Register)
            B == Mov("DAR", r.dst)
            n == Size(r) \div r.width
            C == FullAccess(r.width, n, FALSE, TRUE)
            D == RestAccess(r.width, n, FALSE, TRUE)
<1>1. Leads(r, A, Fresh(r), Z) /\ Leads(r, B, Z, Going(r, 0, 0, Ccrs)) /\ Idle(r) = Z
  BY StartLeads DEF Registers, Idle
<1>2. CASE Size(r) = 0
  <2>1. FromRegister(r) = A \o <<>> /\ Z \in SUBSET Sound(r)
    BY <1>2, StateSound DEF FromRegister
  <2>2. Leads(r, <<>>, Z, Z)
    BY <2>1, NothingLeads
  <2>. HIDE DEF A, B, Z
  <2>. QED  BY <1>1, <1>2, <2>1, <2>2, JoinLeads
<1>3. CASE Size(r) # 0
  <2>0. FALSE = ~From(r) /\ TRUE = From(r)
    BY DEF From
  <2>1. PICK k : Leads(r, C, Going(r, 0, 0, Ccrs), Going(r, k, 0, Ccrs))
              /\ Leads(r, D, Going(r, k, 0, Ccrs), Going(r, Counted(r), 0, Ccrs))
    BY <1>3, <2>0, RegisterParts
  <2>2. FromRegister(r) = A \o (B \o C \o D)
    BY <1>3 DEF FromRegister, FromRegisterSegment, FullAccess, RestAccess
  <2>. HIDE DEF A, B, C, D, Z, n
  <2>3. Leads(r, B \o C, Z, Going(r, k, 0, Ccrs))
    BY <1>1, <2>1, JoinLeads
  <2>4. Leads(r, B \o C \o D, Z, Going(r, Counted(r), 0, Ccrs))
    BY <2>1, <2>3, JoinLeads
  <2>5. Leads(r, A \o (B \o C \o D), Fresh(r), Going(r, Counted(r), 0, Ccrs))
    BY <1>1, <2>4, JoinLeads
  <2>. QED  BY <1>3, <2>2, <2>5
<1>. QED  BY <1>2, <1>3

-----------------------------------------------------------------------------
(* Peripherals: bursts and single bytes.                                   *)

LEMMA QuotientRest ==
  ASSUME NEW n \in Int, NEW b \in Int, b > 0
  PROVE  n = (n \div b) * b + (n % b)
BY SMTT(30)

LEMMA Division ==
  ASSUME NEW n \in Nat, NEW b \in Nat \ {0}
  PROVE  n \div b \in Nat /\ n % b \in 0..(b - 1) /\ b * (n \div b) + (n % b) = n /\ b * (n \div b) \in Nat
<1>. DEFINE q == n \div b
            m == n % b
<1>1. q \in Nat /\ m \in 0..(b - 1)
  OBVIOUS
<1>2. n = q * b + m
  BY QuotientRest
<1>. HIDE DEF q, m
<1>3. b * q \in Nat /\ b * q = q * b
  BY <1>1
<1>4. b * q + m = n
  BY <1>1, <1>2, <1>3
<1>5. q \in Nat /\ m \in 0..(b - 1) /\ b * q + m = n /\ b * q \in Nat
  BY <1>1, <1>3, <1>4
<1>. QED  BY <1>5 DEF q, m

\* What sets the access c at any time, and rounds of l bytes that move the bytes from k to n.
Sets(r, p, a, c) == \A k \in Nat : Leads(r, p, Going(r, k, a, Ccrs), Going(r, k, a, {c}))
Moves1(r, body, a, c, l, k, n) ==
  \A j \in Nat : k <= j /\ j + l <= n => Leads(r, body, Going(r, j, a, {c}), Going(r, j + l, a, {c}))

LEMMA RowLeads ==
  ASSUME NEW r, NEW p, NEW a, NEW c, Sets(r, p, a, c), NEW body \in Seq(Instructions),
         NEW l \in Nat, NEW k \in Nat, NEW q \in Nat, NEW n \in Nat, k + l * q <= n,
         Moves1(r, body, a, c, l, k, n)
  PROVE  /\ Leads(r, p \o Repeat(q, body), Going(r, k, a, Ccrs), Going(r, k + l * q, a, Ccrs))
         /\ Leads(r, p \o Nested(q, body), Going(r, k, a, Ccrs), Going(r, k + l * q, a, Ccrs))
<1>1. ASSUME NEW j \in 0..(q - 1)
      PROVE  Leads(r, body, Going(r, k + l * j, a, {c}), Going(r, k + l * j + l, a, {c}))
  <2>. DEFINE k1 == k + l * j
  <2>1. k1 \in Nat /\ k <= k1 /\ k1 + l <= n
    <3>1. l * j \in Nat /\ l * j + l <= l * q /\ l * q \in Nat
      BY Multiples
    <3>. QED  BY <3>1
  <2>. HIDE DEF k1
  <2>2. Leads(r, body, Going(r, k1, a, {c}), Going(r, k1 + l, a, {c}))
    BY <2>1 DEF Moves1
  <2>. QED  BY <2>2 DEF k1
<1>2. Steady(r, body, a, c, k, l, q)
  BY <1>1 DEF Steady
<1>3. Leads(r, p, Going(r, k, a, Ccrs), Going(r, k, a, {c}))
  BY DEF Sets
<1>. DEFINE n1 == k + l * q
<1>4. /\ Leads(r, Repeat(q, body), Going(r, k, a, {c}), Going(r, n1, a, {c}))
      /\ Leads(r, Nested(q, body), Going(r, k, a, {c}), Going(r, n1, a, {c}))
  BY <1>2, SteadyLeads
<1>. HIDE DEF n1
<1>5. /\ Leads(r, p \o Repeat(q, body), Going(r, k, a, Ccrs), Going(r, n1, a, {c}))
      /\ Leads(r, p \o Nested(q, body), Going(r, k, a, Ccrs), Going(r, n1, a, {c}))
  BY <1>3, <1>4, JoinLeads
<1>6. /\ Leads(r, p \o Repeat(q, body), Going(r, k, a, Ccrs), Going(r, n1, a, Ccrs))
      /\ Leads(r, p \o Nested(q, body), Going(r, k, a, Ccrs), Going(r, n1, a, Ccrs))
  <2>1. Going(r, n1, a, {c}) \subseteq Going(r, n1, a, Ccrs)
    BY GoingStays
  <2>. QED  BY <1>5, <2>1, LeadsWeaker
<1>. QED  BY <1>6 DEF n1

\* Bursts and then single bytes move all the bytes from k to n.
LEMMA PiecesLead ==
  ASSUME NEW r, NEW a, NEW k \in Nat, NEW size \in Nat, NEW n, n = k + size, NEW bs \in Nat,
         NEW p1, NEW c1, bs # 0 => Sets(r, p1, a, c1), NEW b1 \in Seq(Instructions),
         bs # 0 => Moves1(r, b1, a, c1, bs, k, n),
         NEW p2, NEW c2, Sets(r, p2, a, c2), NEW b2 \in Seq(Instructions),
         Moves1(r, b2, a, c2, 1, k, n)
  PROVE  \E h : /\ Leads(r, Bursts(size, bs, p1, b1), Going(r, k, a, Ccrs), Going(r, h, a, Ccrs))
                /\ Leads(r, Singles(size, bs, p2, b2), Going(r, h, a, Ccrs), Going(r, n, a, Ccrs))
<1>. DEFINE q == size \div bs
            t == IF bs = 0 THEN 0 ELSE bs * q
            left == IF bs = 0 THEN size ELSE size % bs
            h == k + t
<1>1. t \in Nat /\ left \in Nat /\ t + left = size /\ (bs # 0 => q \in Nat) /\ (bs # 0 /\ size < bs => t = 0)
  <2>1. CASE bs = 0
    BY <2>1
  <2>2. CASE bs # 0
    <3>1. q \in Nat /\ size % bs \in 0..(bs - 1) /\ bs * q + (size % bs) = size /\ bs * q \in Nat
      BY <2>2, Division
    <3>2. size < bs => q = 0
      <4>1. q # 0 => bs * q >= bs
        BY <2>2, <3>1
      <4>. QED  BY <2>2, <3>1, <4>1
    <3>. QED  BY <2>2, <3>1, <3>2
  <2>. QED  BY <2>1, <2>2
<1>2. Leads(r, Bursts(size, bs, p1, b1), Going(r, k, a, Ccrs), Going(r, h, a, Ccrs))
  <2>1. CASE bs = 0 \/ size < bs
    <3>1. t = 0
      BY <1>1, <2>1
    <3>. HIDE DEF t
    <3>2. h = k /\ Bursts(size, bs, p1, b1) = <<>>
      BY <2>1, <3>1 DEF Bursts
    <3>. HIDE DEF h
    <3>. QED  BY <3>2, GoingStays
  <2>2. CASE ~(bs = 0 \/ size < bs)
    <3>1. Bursts(size, bs, p1, b1) = p1 \o Repeat(q, b1) /\ t = bs * q
      BY <2>2 DEF Bursts
    <3>2. q \in Nat /\ k + bs * q <= n /\ n \in Nat
      BY <1>1, <2>2, <3>1
    <3>. HIDE DEF q
    <3>3. Leads(r, p1 \o Repeat(q, b1), Going(r, k, a, Ccrs), Going(r, k + bs * q, a, Ccrs))
      BY <2>2, <3>2, RowLeads
    <3>. QED  BY <3>1, <3>3
  <2>. QED  BY <2>1, <2>2
<1>3. Leads(r, Singles(size, bs, p2, b2), Going(r, h, a, Ccrs), Going(r, n, a, Ccrs))
  <2>. HIDE DEF t, q
  <2>1. CASE left = 0
    <3>1. h = n /\ Singles(size, bs, p2, b2) = <<>>
      BY <1>1, <2>1 DEF Singles
    <3>. HIDE DEF h
    <3>. QED  BY <3>1, GoingStays
  <2>2. CASE left # 0
    <3>1. Singles(size, bs, p2, b2) = p2 \o Repeat(left, b2)
      BY <2>2 DEF Singles
    <3>2. h \in Nat /\ k <= h /\ h + 1 * left = n /\ h + 1 * left <= n /\ n \in Nat /\ left \in Nat /\ 1 \in Nat
      <4>. HIDE DEF left
      <4>1. 1 * left = left /\ left \in Nat /\ h \in Nat /\ k <= h /\ h + left = n
        BY <1>1
      <4>. HIDE DEF h
      <4>. QED  BY <4>1
    <3>3. Moves1(r, b2, a, c2, 1, h, n)
      <4>1. \A j \in Nat : h <= j => k <= j
        BY <3>2
      <4>. HIDE DEF h
      <4>. QED  BY <4>1 DEF Moves1
    <3>. HIDE DEF h, left
    <3>4. Leads(r, p2 \o Repeat(left, b2), Going(r, h, a, Ccrs), Going(r, h + 1 * left, a, Ccrs))
      BY <3>2, <3>3, RowLeads
    <3>. QED  BY <3>1, <3>2, <3>4
  <2>. QED  BY <2>1, <2>2
<1>. HIDE DEF h
<1>. QED  BY <1>2, <1>3

\* k bytes are stored and t are loaded; m bytes or words of what was granted are not used.
Device(r, k, t, a, m, C) ==
  State(r, k, t, a, m, IF From(r) THEN {Register} ELSE {r.src + t},
                       IF From(r) THEN {r.dst + k} ELSE {Register}, C)

LEMMA DeviceGoing ==
  ASSUME NEW r, NEW k, NEW a, NEW m, NEW C
  PROVE  Device(r, k, k, a, m, C) \subseteq Going(r, k, a, C)
<1>1. \A d \in Sound(r) : 0 <= d.room \/ Exempt(r)
  BY DEF Sound, Raw
<1>. QED  BY <1>1 DEF Device, Going, State

LEMMA GrantLeads ==
  ASSUME NEW r, NEW k, NEW a, NEW C, NEW dir \in {"tx", "rx"}, NEW burst \in BOOLEAN,
         NEW g \in Nat, g <= Granted(r, dir, burst), Granted(r, dir, burst) \in Nat
  PROVE  Leads(r, Wfp(dir, burst), Going(r, k, a, C), Device(r, k, k, a, g, C))
BY WfpLeads DEF Going, Device

\* l bytes loaded, or stored, by the access c.  Only the side of the device uses what
\* was granted.
Loading(r, k, t, c, l) ==
  /\ c \in Ccrs /\ (c.si <=> ~From(r)) /\ k \in Nat /\ t \in Nat /\ l \in Nat
  /\ IF From(r) THEN LoadIs(c, Register, l) ELSE LoadIs(c, r.src + t, l) /\ Spare(r, t, l)
Storing(r, k, t, c, l) ==
  /\ c \in Ccrs /\ (c.di <=> From(r)) /\ k \in Nat /\ t \in Nat /\ l \in Nat /\ k + l <= t
  /\ IF From(r) THEN StoreIs(c, r.dst + k, l) /\ Spare(r, k, l) ELSE StoreIs(c, Register, l)
  /\ ~From(r) /\ r.per.kind = "i2c" => r.op = "m2p" /\ l = 1 /\ Frames1(r, k, FALSE, FALSE)
\* u of m words are used, and x left.
Uses(r, m, x, u) == m \in Nat /\ x \in Nat /\ u \in Nat /\ (x + u <= m \/ Exempt(r))

LEMMA DeviceLoad ==
  ASSUME NEW r, NEW k, NEW t, NEW a, NEW c, NEW l, Loading(r, k, t, c, l), NEW t2, t2 = t + l,
         NEW m, NEW x, IF From(r) THEN Uses(r, m, x, UsedBy(r, l)) ELSE m = x
  PROVE  Leads(r, Op("LD"), Device(r, k, t, a, m, {c}), Device(r, k, t2, a, x, {c}))
<1>1. c \in Ccrs /\ k \in Nat /\ t \in Nat /\ l \in Nat
  BY DEF Loading
<1>2. CASE From(r)
  <2>1. LoadIs(c, Register, l) /\ ~c.si
    BY <1>2 DEF Loading
  <2>2. m \in Nat /\ x \in Nat /\ UsedBy(r, l) \in Nat /\ (x + UsedBy(r, l) <= m \/ Exempt(r))
    BY <1>2 DEF Uses
  <2>. DEFINE D == {r.dst + k}
  <2>. HIDE DEF D
  <2>3. Leads(r, Op("LD"), State(r, k, t, a, m, {Register}, D, {c}), State(r, k, t2, a, x, {Register}, D, {c}))
    BY <1>1, <1>2, <2>1, <2>2, TakeLeads
  <2>. QED  BY <1>2, <2>3 DEF D, Device
<1>3. CASE ~From(r)
  <2>. DEFINE D == {Register}
              v == r.src + t
              v2 == r.src + t2
  <2>1. LoadIs(c, v, l) /\ c.si /\ r.src \in Nat /\ v \in Nat /\ v + l <= AddrSpace /\ v2 = v + l /\ v = r.src + t
    BY <1>1, <1>3 DEF Loading, Spare, Here
  <2>. HIDE DEF D, v, v2
  <2>3. Leads(r, Op("LD"), State(r, k, t, a, m, {v}, D, {c}), State(r, k, t2, a, m, {v2}, D, {c}))
    BY <1>1, <1>3, <2>1, LoadLeads
  <2>. QED  BY <1>3, <2>3 DEF D, v, v2, Device
<1>. QED  BY <1>2, <1>3

LEMMA DeviceStore ==
  ASSUME NEW r, NEW k, NEW t, NEW a, NEW c, NEW l, Storing(r, k, t, c, l), NEW k2, k2 = k + l,
         NEW m, NEW x, IF From(r) THEN m = x ELSE Uses(r, m, x, UsedBy(r, l))
  PROVE  Leads(r, Op("ST"), Device(r, k, t, a, m, {c}), Device(r, k2, t, a, x, {c}))
<1>1. c \in Ccrs /\ k \in Nat /\ t \in Nat /\ l \in Nat /\ k + l <= t
  BY DEF Storing
<1>2. CASE From(r)
  <2>. DEFINE S == {Register}
              v == r.dst + k
              v2 == r.dst + k2
  <2>1. StoreIs(c, v, l) /\ c.di /\ r.dst \in Nat /\ v \in Nat /\ v + l <= AddrSpace /\ v2 = v + l /\ v = r.dst + k
    BY <1>1, <1>2 DEF Storing, Spare, Here
  <2>. HIDE DEF S, v, v2
  <2>3. Leads(r, Op("ST"), State(r, k, t, a, m, S, {v}, {c}), State(r, k2, t, a, m, S, {v2}, {c}))
    BY <1>1, <2>1, StoreLeads
  <2>. QED  BY <1>2, <2>3 DEF S, v, v2, Device
<1>3. CASE ~From(r)
  <2>1. StoreIs(c, Register, l) /\ ~c.di
    BY <1>3 DEF Storing
  <2>2. m \in Nat /\ x \in Nat /\ UsedBy(r, l) \in Nat /\ (x + UsedBy(r, l) <= m \/ Exempt(r))
    BY <1>3 DEF Uses
  <2>. DEFINE S == {r.src + t}
  <2>. HIDE DEF S
  <2>3. CASE r.per.kind # "i2c"
    <3>1. Leads(r, Op("ST"), State(r, k, t, a, m, S, {Register}, {c}), State(r, k2, t, a, x, S, {Register}, {c}))
      BY <1>1, <2>1, <2>2, <2>3, GiveLeads
    <3>. QED  BY <1>3, <3>1 DEF S, Device
  <2>4. CASE r.per.kind = "i2c"
    <3>1. r.op = "m2p" /\ l = 1 /\ Frames1(r, k, FALSE, FALSE) /\ UsedBy(r, l) = 1 /\ ~Exempt(r)
      BY <1>3, <2>4 DEF Storing, UsedBy, Exempt
    <3>2. StoreIs(c, Register, 1) /\ k + 1 <= t /\ x + 1 <= m /\ k2 = k + 1
      BY <1>1, <2>1, <2>2, <3>1
    <3>3. Leads(r, Op("ST"), State(r, k, t, a, m, S, {Register}, {c}), State(r, k2, t, a, x, S, {Register}, {c}))
      BY <1>1, <2>1, <2>2, <2>4, <3>1, <3>2, SendLeads
    <3>. QED  BY <1>3, <3>3 DEF S, Device
  <2>. QED  BY <2>3, <2>4
<1>. QED  BY <1>2, <1>3

\* An access that loads and stores the same bytes.
Paired(r, k, t, c, l) == Loading(r, k, k, c, l) /\ t = k + l /\ Storing(r, k, t, c, l)

LEMMA PairLeads ==
  ASSUME NEW r, NEW k, NEW t, NEW a, NEW c, NEW l, Paired(r, k, t, c, l),
         NEW m, NEW x, Uses(r, m, x, UsedBy(r, l))
  PROVE  Leads(r, LdSt, Device(r, k, k, a, m, {c}), Device(r, t, t, a, x, {c}))
<1>1. Loading(r, k, k, c, l) /\ Storing(r, k, t, c, l) /\ t = k + l
  BY DEF Paired
<1>. DEFINE y == IF From(r) THEN x ELSE m
<1>2. /\ IF From(r) THEN Uses(r, m, y, UsedBy(r, l)) ELSE m = y
      /\ IF From(r) THEN y = x ELSE Uses(r, y, x, UsedBy(r, l))
  OBVIOUS
<1>. HIDE DEF y
<1>3. Leads(r, Op("LD"), Device(r, k, k, a, m, {c}), Device(r, k, t, a, y, {c}))
  BY <1>1, <1>2, DeviceLoad
<1>4. Leads(r, Op("ST"), Device(r, k, t, a, y, {c}), Device(r, t, t, a, x, {c}))
  BY <1>1, <1>2, DeviceStore
<1>. QED  BY <1>3, <1>4, JoinLeads DEF LdSt

\* What the peripheral grants when it is waited for is enough for l bytes.
Enough(r, dir, burst, l) ==
  /\ dir \in {"tx", "rx"} /\ burst \in BOOLEAN /\ Granted(r, dir, burst) \in Nat /\ UsedBy(r, l) \in Nat
  /\ UsedBy(r, l) <= Granted(r, dir, burst) \/ Exempt(r)

LEMMA GrantedPair ==
  ASSUME NEW r, NEW k, NEW t, NEW a, NEW c, NEW l, Paired(r, k, t, c, l),
         NEW dir, NEW burst, Enough(r, dir, burst, l)
  PROVE  Leads(r, Wfp(dir, burst) \o LdSt, Going(r, k, a, {c}), Going(r, t, a, {c}))
<1>. DEFINE g == Granted(r, dir, burst)
            u == UsedBy(r, l)
            x == IF u <= g THEN g - u ELSE 0
<1>1. g \in Nat /\ u \in Nat /\ x \in Nat /\ (x + u <= g \/ Exempt(r)) /\ dir \in {"tx", "rx"} /\ burst \in BOOLEAN
  BY DEF Enough
<1>2. Uses(r, g, x, UsedBy(r, l)) /\ g <= Granted(r, dir, burst) /\ Granted(r, dir, burst) \in Nat
  BY <1>1 DEF Uses
<1>. HIDE DEF g, u, x
<1>3. Leads(r, Wfp(dir, burst), Going(r, k, a, {c}), Device(r, k, k, a, g, {c}))
  BY <1>1, <1>2, GrantLeads
<1>4. Leads(r, LdSt, Device(r, k, k, a, g, {c}), Device(r, t, t, a, x, {c}))
  BY <1>2, PairLeads
<1>5. Leads(r, Wfp(dir, burst) \o LdSt, Going(r, k, a, {c}), Device(r, t, t, a, x, {c}))
  BY <1>3, <1>4, JoinLeads
<1>. QED  BY <1>5, DeviceGoing, LeadsWeaker

\* Beats of as many bytes on the side of the device as in memory.
LEMMA WidePaired ==
  ASSUME NEW r, NEW k, NEW w \in {1, 2, 4, 8}, NEW b \in 1..16, NEW l, l = w * b, Spare(r, k, l),
         NEW t, t = k + l, (Here(r) + k) % w = 0,
         ~From(r) /\ r.per.kind = "i2c" => r.op = "m2p" /\ l = 1 /\ Frames1(r, k, FALSE, FALSE)
  PROVE  Paired(r, k, t, Wide(r, w, b), l)
<1>. DEFINE c == Wide(r, w, b)
            v == Here(r) + k
<1>1. c \in Ccrs /\ c.ss = w /\ c.sb = b /\ c.ds = w /\ c.db = b /\ (c.si <=> ~From(r)) /\ (c.di <=> From(r))
  <2>1. From(r) \in BOOLEAN /\ (~From(r)) \in BOOLEAN
    BY DEF From
  <2>. QED  BY <2>1 DEF Wide, Shape, Ccrs
<1>2. k \in Nat /\ l \in Nat /\ v \in Nat /\ k + l <= t /\ t \in Nat
  BY DEF Spare
<1>3. w * b - (v % w) = l /\ w * b - 0 = l
  BY <1>2
<1>4. From(r) => v = r.dst + k
  BY DEF Here
<1>5. ~From(r) => v = r.src + k
  BY DEF Here
<1>6. Loading(r, k, k, c, l)
  BY <1>1, <1>2, <1>3, <1>5 DEF Loading, LoadIs
<1>7. Storing(r, k, t, c, l)
  BY <1>1, <1>2, <1>3, <1>4 DEF Storing, StoreIs
<1>. QED  BY <1>6, <1>7 DEF Paired

-----------------------------------------------------------------------------
(* 16550 UART (4998-5036, 5436-5474).                                      *)

Towards(r) == IF From(r) THEN "rx" ELSE "tx"
UartSize(r) == UartBurst(r.per, IF From(r) THEN UartRxBurst(r.per) ELSE UartTxBurst(r.per))
OfUart(r) ==
  /\ r.per.kind = "uart" /\ r.per.fifo \in BOOLEAN /\ r.per.depth \in {16 * k : k \in 0..255}
  /\ r.per.fifo => r.per.depth > 0

LEMMA WrapLess ==
  ASSUME NEW x \in Nat
  PROVE  Wrap(x) \in Nat /\ Wrap(x) <= x
<1>. DEFINE q == x \div AddrSpace
            m == x % AddrSpace
<1>1. q \in Nat /\ m \in Nat /\ AddrSpace \in Nat
  BY AddrSpaceAssumption
<1>2. x = q * AddrSpace + m
  BY AddrSpaceAssumption, QuotientRest
<1>. HIDE DEF q, m
<1>3. q * AddrSpace \in Nat
  BY <1>1
<1>4. m <= x
  BY <1>1, <1>2, <1>3
<1>. QED  BY <1>1, <1>4 DEF Wrap, m

\* A burst is a multiple of 16 bytes and never more than the UART asks for.
LEMMA UartGrants ==
  ASSUME NEW r, OfUart(r), UartSize(r) # 0
  PROVE  /\ UartSize(r) \in Nat /\ UartSize(r) \div 16 \in 1..255
         /\ 16 * (UartSize(r) \div 16) = UartSize(r)
         /\ Granted(r, Towards(r), TRUE) \in Nat /\ UartSize(r) <= Granted(r, Towards(r), TRUE)
<1>. DEFINE p == r.per
            d == p.depth
            b == IF From(r) THEN UartRxBurst(p) ELSE UartTxBurst(p)
            g == Granted(r, Towards(r), TRUE)
<1>1. p.fifo /\ b >= 16 /\ UartSize(r) = b - (b % 16)
  BY DEF UartSize, UartBurst
<1>2. d \in Nat /\ d >= 16 /\ d <= 4080
  BY <1>1 DEF OfUart
<1>3. Wrap(d - 2) \in Nat /\ Wrap(d - 2) <= d - 2
  BY <1>2, WrapLess
<1>4. g = IF From(r) THEN RxMark(p) ELSE d - TxMark(p)
  BY DEF Granted, OfUart, Towards, From
<1>5. g \in Nat /\ b \in Nat /\ b <= g /\ b <= 4080
  <2>1. CASE From(r)
    <3>1. b = UartRxBurst(p) /\ g = RxMark(p)
      BY <1>4, <2>1
    <3>. HIDE DEF b, g, p
    <3>. QED  BY <1>2, <1>3, <3>1 DEF UartRxBurst, RxMark
  <2>2. CASE ~From(r)
    <3>1. b = UartTxBurst(p) /\ g = d - TxMark(p)
      BY <1>4, <2>2
    <3>. DEFINE u == Wrap(d - 2)
                x == d \div 4
                y == d \div 2
    <3>2. UartTxBurst(p) = CASE p.trigger = "EMPTY" -> d
                             [] p.trigger = "ALMOST_EMPTY" -> u
                             [] p.trigger = "QUARTER_FULL" -> 3 * x
                             [] OTHER -> y
      BY DEF UartTxBurst
    <3>3. TxMark(p) = CASE p.trigger = "EMPTY" -> 0       [] p.trigger = "ALMOST_EMPTY" -> 2
                        [] p.trigger = "QUARTER_FULL" -> x [] OTHER -> y
      BY DEF TxMark
    <3>4. x \in Nat /\ 4 * x <= d /\ y \in Nat /\ 2 * y <= d
      BY <1>2
    <3>. HIDE DEF b, g, p, d, u, x, y
    <3>5. \/ b = d /\ g = d
          \/ b = u /\ g = d - 2
          \/ b = 3 * x /\ g = d - x
          \/ b = y /\ g = d - y
      BY <1>2, <3>1, <3>2, <3>3
    <3>. QED  BY <1>2, <1>3, <3>4, <3>5 DEF u
  <2>. HIDE DEF b, g
  <2>. QED  BY <2>1, <2>2
<1>. HIDE DEF b, g
<1>. DEFINE z == b - (b % 16)
<1>6. z \in Nat /\ z >= 16 /\ z <= 4080 /\ z % 16 = 0
  BY <1>1, <1>5
<1>7. z <= g
  BY <1>5
<1>8. UartSize(r) = z
  BY <1>1
<1>. HIDE DEF z
<1>9. z \in Nat /\ z \div 16 \in 1..255 /\ 16 * (z \div 16) = z /\ g \in Nat /\ z <= g
  BY <1>5, <1>6, <1>7
<1>. QED  BY <1>8, <1>9, Zenon DEF g

\* Rounds of 16 bytes use up what was granted.
LEMMA UartBurstLeads ==
  ASSUME NEW r, OfUart(r), NEW bs, bs = UartSize(r), bs # 0, NEW k, NEW a, Spare(r, k, bs)
  PROVE  Leads(r, UartBody(Towards(r), bs), Going(r, k, a, {Wide(r, 1, 16)}),
               Going(r, k + bs, a, {Wide(r, 1, 16)}))
<1>. DEFINE n == bs \div 16
            c == Wide(r, 1, 16)
            g == Granted(r, Towards(r), TRUE)
            F == [j \in 0..n |-> Device(r, k + 16 * j, k + 16 * j, a, bs - 16 * j, {c})]
<1>1. bs \in Nat /\ n \in 1..255 /\ 16 * n = bs /\ g \in Nat /\ bs <= g /\ k \in Nat
  BY UartGrants DEF Spare
<1>2. Towards(r) \in {"tx", "rx"} /\ TRUE \in BOOLEAN
  BY DEF Towards
<1>. HIDE DEF n, c
<1>3. Leads(r, Wfp(Towards(r), TRUE), Going(r, k, a, {c}), Device(r, k, k, a, bs, {c}))
  BY <1>1, <1>2, GrantLeads
<1>4. ASSUME NEW j \in 0..(n - 1) PROVE Leads(r, LdSt, F[j], F[j + 1])
  <2>. DEFINE k1 == k + 16 * j
              t1 == k1 + 16
              m1 == bs - 16 * j
              x1 == m1 - 16
  <2>1. /\ k1 \in Nat /\ t1 \in Nat /\ m1 \in Nat /\ x1 \in Nat /\ k1 + 16 <= k + bs /\ x1 + 16 <= m1
        /\ t1 = k + 16 * (j + 1) /\ x1 = bs - 16 * (j + 1) /\ j \in 0..n /\ j + 1 \in 0..n
    BY <1>1
  <2>2. F[j] = Device(r, k1, k1, a, m1, {c}) /\ F[j + 1] = Device(r, t1, t1, a, x1, {c})
    BY <2>1
  <2>3. t1 = k1 + 16
    OBVIOUS
  <2>. HIDE DEF F, k1, t1, m1, x1
  <2>4. Spare(r, k1, 16)
    BY <1>1, <2>1, SpareLess
  <2>5. (Here(r) + k1) % 1 = 0 /\ 1 \in {1, 2, 4, 8} /\ 16 \in 1..16 /\ 16 = 1 * 16
    BY <2>1, <2>4 DEF Spare
  <2>6. Paired(r, k1, t1, c, 16)
    BY <2>1, <2>3, <2>4, <2>5, WidePaired DEF OfUart, c
  <2>7. Uses(r, m1, x1, UsedBy(r, 16))
    BY <2>1 DEF Uses, UsedBy, OfUart
  <2>. QED  BY <2>2, <2>6, <2>7, PairLeads
<1>5. /\ F[0] = Device(r, k, k, a, bs, {c}) /\ F[n] = Device(r, k + bs, k + bs, a, 0, {c})
      /\ \A j \in 0..n : F[j] \subseteq Sound(r)
  <2>1. 0 \in 0..n /\ n \in 0..n /\ k + 16 * 0 = k /\ bs - 16 * 0 = bs /\ k + 16 * n = k + bs /\ bs - 16 * n = 0
    BY <1>1
  <2>. QED  BY <2>1, StateSound, ZenonT(30) DEF Device
<1>. HIDE DEF F
<1>6. Along(r, n, LdSt, F)
  BY <1>4, <1>5 DEF Along
<1>7. Leads(r, Rounds(n, LdSt), F[0], F[n])
  <2>1. n \in 1..256
    BY <1>1
  <2>. QED  BY <1>6, <2>1, RoundsLeads
<1>8. Leads(r, UartBody(Towards(r), bs), Going(r, k, a, {c}), Device(r, k + bs, k + bs, a, 0, {c}))
  BY <1>3, <1>5, <1>7, JoinLeads DEF UartBody, n
<1>. QED  BY <1>8, DeviceGoing, LeadsWeaker DEF c

-----------------------------------------------------------------------------
(* Segments: both addresses are set, then bursts and single accesses.      *)

\* k bytes are moved, and the addresses and the shape of the accesses are any.
Loose(r, k, a) == State(r, k, k, a, 0, Int, Int, Ccrs)

LEMMA LooseSets ==
  ASSUME NEW r
  PROVE  /\ Fresh(r) \subseteq Loose(r, 0, 0)
         /\ \A k, a, C : Going(r, k, a, C) \subseteq Loose(r, k, a)
         /\ \A k, a, S, D, C : State(r, k, k, a, 0, S, D, C) \subseteq Loose(r, k, a)
         /\ \A k, a : Loose(r, k, a) \subseteq Sound(r)
<1>1. \A d \in Sound(r) : d.sar \in Int /\ d.dar \in Int /\ d.ccr \in Ccrs
  BY DEF Sound, Raw
<1>2. \A k, a, S, D, C : State(r, k, k, a, 0, S, D, C) \subseteq Loose(r, k, a)
  BY <1>1 DEF State, Loose
<1>. QED  BY <1>2, StateSound DEF Fresh, Going, Loose

LEMMA SegmentLeads ==
  ASSUME NEW r, NEW k, NEW a, NEW n, NEW at, at = Here(r) + k, at \in 0..AddrSpace, NEW B, NEW S,
         \E h : /\ Leads(r, B, Going(r, k, a, Ccrs), Going(r, h, a, Ccrs))
                /\ Leads(r, S, Going(r, h, a, Ccrs), Going(r, n, a, Ccrs))
  PROVE  /\ ~From(r) => Leads(r, Mov("DAR", Register) \o (Mov("SAR", at) \o B \o S),
                              Loose(r, k, a), Going(r, n, a, Ccrs))
         /\ From(r) => Leads(r, Mov("SAR", Register) \o (Mov("DAR", at) \o B \o S),
                             Loose(r, k, a), Going(r, n, a, Ccrs))
<1>1. Register \in -100..AddrSpace /\ at \in -100..AddrSpace
  BY AddrSpaceAssumption DEF Register
<1>2. PICK h : /\ Leads(r, B, Going(r, k, a, Ccrs), Going(r, h, a, Ccrs))
               /\ Leads(r, S, Going(r, h, a, Ccrs), Going(r, n, a, Ccrs))
  OBVIOUS
<1>. DEFINE R == {Register}
            g == Register
            I == Int
            Z == 0
<1>3. g \in -100..AddrSpace /\ R = {g}
  BY <1>1
<1>. HIDE DEF R, g, I, Z
<1>4. CASE ~From(r)
  <2>1. Leads(r, Mov("DAR", g), State(r, k, k, a, Z, I, I, Ccrs), State(r, k, k, a, Z, I, R, Ccrs))
    BY <1>3, DarLeads
  <2>2. Leads(r, Mov("SAR", at), State(r, k, k, a, Z, I, R, Ccrs), State(r, k, k, a, Z, {at}, R, Ccrs))
    BY <1>1, SarLeads
  <2>3. Going(r, k, a, Ccrs) = State(r, k, k, a, Z, {at}, R, Ccrs)
    BY <1>4 DEF Going, Here, R, Z
  <2>4. Leads(r, Mov("SAR", at) \o B, State(r, k, k, a, Z, I, R, Ccrs), Going(r, h, a, Ccrs))
    BY <1>2, <2>2, <2>3, JoinLeads
  <2>5. Leads(r, Mov("SAR", at) \o B \o S, State(r, k, k, a, Z, I, R, Ccrs), Going(r, n, a, Ccrs))
    BY <1>2, <2>4, JoinLeads
  <2>6. Leads(r, Mov("DAR", g) \o (Mov("SAR", at) \o B \o S), State(r, k, k, a, Z, I, I, Ccrs), Going(r, n, a, Ccrs))
    BY <2>1, <2>5, JoinLeads
  <2>. QED  BY <1>4, <2>6 DEF Loose, I, Z, g
<1>5. CASE From(r)
  <2>1. Leads(r, Mov("SAR", g), State(r, k, k, a, Z, I, I, Ccrs), State(r, k, k, a, Z, R, I, Ccrs))
    BY <1>3, SarLeads
  <2>2. Leads(r, Mov("DAR", at), State(r, k, k, a, Z, R, I, Ccrs), State(r, k, k, a, Z, R, {at}, Ccrs))
    BY <1>1, DarLeads
  <2>3. Going(r, k, a, Ccrs) = State(r, k, k, a, Z, R, {at}, Ccrs)
    BY <1>5 DEF Going, Here, R, Z
  <2>4. Leads(r, Mov("DAR", at) \o B, State(r, k, k, a, Z, R, I, Ccrs), Going(r, h, a, Ccrs))
    BY <1>2, <2>2, <2>3, JoinLeads
  <2>5. Leads(r, Mov("DAR", at) \o B \o S, State(r, k, k, a, Z, R, I, Ccrs), Going(r, n, a, Ccrs))
    BY <1>2, <2>4, JoinLeads
  <2>6. Leads(r, Mov("SAR", g) \o (Mov("DAR", at) \o B \o S), State(r, k, k, a, Z, I, I, Ccrs), Going(r, n, a, Ccrs))
    BY <2>1, <2>5, JoinLeads
  <2>. QED  BY <1>5, <2>6 DEF Loose, I, Z, g
<1>. QED  BY <1>4, <1>5

LEMMA WideSets ==
  ASSUME NEW r, NEW w \in {1, 2, 4, 8}, NEW b \in 1..16, NEW a, NEW si, si = ~From(r), NEW di, di = From(r)
  PROVE  Sets(r, Ccr(w, b, si, w, b, di), a, Wide(r, w, b))
<1>1. Shape(w, b, si, w, b, di) \in Ccrs
  <2>1. From(r) \in BOOLEAN /\ (~From(r)) \in BOOLEAN
    BY DEF From
  <2>. QED  BY <2>1 DEF Shape, Ccrs
<1>2. Wide(r, w, b) = Shape(w, b, si, w, b, di)
  BY DEF Wide
<1>. HIDE DEF Wide
<1>. QED  BY <1>1, <1>2, GoingSet DEF Sets

\* Single bytes.
SingleBytes(r, k, n) ==
  /\ Spare(r, k, n - k) /\ k <= n /\ n \in Nat
  /\ Enough(r, Towards(r), FALSE, 1)
  /\ ~From(r) /\ r.per.kind = "i2c" => r.op = "m2p" /\ \A j \in k..(n - 1) : Frames1(r, j, FALSE, FALSE)

LEMMA SinglesMove ==
  ASSUME NEW r, NEW k, NEW n, SingleBytes(r, k, n), NEW a
  PROVE  Moves1(r, Wfp(Towards(r), FALSE) \o LdSt, a, Wide(r, 1, 1), 1, k, n)
<1>. DEFINE c == Wide(r, 1, 1)
<1>. HIDE DEF c
<1>1. k \in Nat /\ n \in Nat /\ k <= n /\ Here(r) \in Nat /\ Spare(r, k, n - k)
  BY DEF SingleBytes, Spare
<1>. SUFFICES ASSUME NEW j \in Nat, k <= j, j + 1 <= n
              PROVE  Leads(r, Wfp(Towards(r), FALSE) \o LdSt, Going(r, j, a, {c}), Going(r, j + 1, a, {c}))
  BY DEF Moves1, c
<1>. DEFINE t == j + 1
<1>2. t = j + 1
  OBVIOUS
<1>. HIDE DEF t
<1>3. Spare(r, j, 1)
  BY <1>1, SpareLess
<1>4. (Here(r) + j) % 1 = 0 /\ 1 \in {1, 2, 4, 8} /\ 1 \in 1..16 /\ 1 = 1 * 1 /\ j \in k..(n - 1)
  BY <1>1
<1>5. Paired(r, j, t, c, 1)
  BY <1>2, <1>3, <1>4, WidePaired DEF SingleBytes, c
<1>6. Leads(r, Wfp(Towards(r), FALSE) \o LdSt, Going(r, j, a, {c}), Going(r, t, a, {c}))
  BY <1>5, GrantedPair DEF SingleBytes
<1>. QED  BY <1>6 DEF t

\* All the bytes of a transfer, in bursts and singles as the FIFO and its trigger decide.
LEMMA UartPieces ==
  ASSUME NEW r, OfUart(r), NEW n \in Nat, Spare(r, 0, n), NEW si, si = ~From(r), NEW di, di = From(r),
         NEW bs, bs = UartSize(r)
  PROVE  \E h : /\ Leads(r, Bursts(n, bs, Ccr(1, 16, si, 1, 16, di), UartBody(Towards(r), bs)),
                         Going(r, 0, 0, Ccrs), Going(r, h, 0, Ccrs))
                /\ Leads(r, Singles(n, bs, Ccr(1, 1, si, 1, 1, di), Wfp(Towards(r), FALSE) \o LdSt),
                         Going(r, h, 0, Ccrs), Going(r, n, 0, Ccrs))
<1>. DEFINE p1 == Ccr(1, 16, si, 1, 16, di)
            p2 == Ccr(1, 1, si, 1, 1, di)
            c1 == Wide(r, 1, 16)
            c2 == Wide(r, 1, 1)
            b1 == UartBody(Towards(r), bs)
            b2 == Wfp(Towards(r), FALSE) \o LdSt
            Z == 0
<1>1. 1 \in {1, 2, 4, 8} /\ 1 \in 1..16 /\ 16 \in 1..16 /\ Towards(r) \in {"tx", "rx"}
      /\ TRUE \in BOOLEAN /\ FALSE \in BOOLEAN
  BY DEF Towards
<1>2. Sets(r, p1, Z, c1) /\ Sets(r, p2, Z, c2)
  BY <1>1, WideSets
<1>3. bs \in Nat
  <2>1. CASE bs = 0
    BY <2>1
  <2>2. CASE bs # 0
    BY <2>2, UartGrants
  <2>. QED  BY <2>1, <2>2
<1>4. b2 \in Seq(Instructions)
  BY <1>1, BodyRows
<1>5. b1 \in Seq(Instructions)
  <2>1. bs \div 16 \in Int
    BY <1>3
  <2>2. Rounds(bs \div 16, LdSt) \in Seq(Instructions)
    BY <2>1, BodyRows, RoundsPositions
  <2>. QED  BY <1>1, <2>2, BodyRows DEF UartBody
<1>6. bs # 0 => Moves1(r, b1, Z, c1, bs, 0, n)
  <2>. SUFFICES ASSUME bs # 0, NEW j \in Nat, j + bs <= n
                PROVE  Leads(r, b1, Going(r, j, Z, {c1}), Going(r, j + bs, Z, {c1}))
    <3>. HIDE DEF b1, Z, c1
    <3>. QED  BY DEF Moves1
  <2>1. Spare(r, j, bs)
    BY <1>3, SpareLess
  <2>. HIDE DEF Z
  <2>. QED  BY <2>1, UartBurstLeads
<1>7. SingleBytes(r, 0, n)
  <2>1. Enough(r, Towards(r), FALSE, 1)
    BY <1>1 DEF Enough, Granted, UsedBy, OfUart
  <2>2. n - 0 = n /\ 0 <= n
    OBVIOUS
  <2>. QED  BY <2>1, <2>2 DEF SingleBytes, OfUart
<1>8. Moves1(r, b2, Z, c2, 1, 0, n)
  BY <1>7, SinglesMove
<1>. HIDE DEF p1, p2, c1, c2, b1, b2, Z
<1>9. n = 0 + n /\ 0 \in Nat
  OBVIOUS
<1>10. \E h : /\ Leads(r, Bursts(n, bs, p1, b1), Going(r, 0, Z, Ccrs), Going(r, h, Z, Ccrs))
              /\ Leads(r, Singles(n, bs, p2, b2), Going(r, h, Z, Ccrs), Going(r, n, Z, Ccrs))
  BY <1>2, <1>3, <1>4, <1>5, <1>6, <1>8, <1>9, PiecesLead
<1>. QED  BY <1>10 DEF p1, p2, b1, b2, Z

LEMMA UartLeads ==
  ASSUME NEW r, OfUart(r), NEW n \in Nat, Spare(r, 0, n)
  PROVE  /\ ~From(r) => Leads(r, UartSend(r.src, n, r.per), Fresh(r), Going(r, n, 0, Ccrs))
         /\ From(r) => Leads(r, UartReceive(r.dst, n, r.per), Fresh(r), Going(r, n, 0, Ccrs))
<1>1. Here(r) \in 0..AddrSpace /\ Here(r) = Here(r) + 0
  BY AddrSpaceAssumption DEF Spare
<1>2. Fresh(r) \subseteq Loose(r, 0, 0)
  BY LooseSets
<1>. DEFINE bs == UartSize(r)
<1>3. CASE ~From(r)
  <2>. DEFINE B == UartSendBursts(n, bs)
              S == UartSendSingles(n, bs)
  <2>1. \E h : /\ Leads(r, B, Going(r, 0, 0, Ccrs), Going(r, h, 0, Ccrs))
               /\ Leads(r, S, Going(r, h, 0, Ccrs), Going(r, n, 0, Ccrs))
    <3>1. TRUE = ~From(r) /\ FALSE = From(r) /\ Towards(r) = "tx"
      BY <1>3 DEF From, Towards
    <3>. HIDE DEF bs
    <3>2. bs = UartSize(r)
      BY DEF bs
    <3>. QED  BY <3>1, <3>2, UartPieces DEF UartSendBursts, UartSendSingles
  <2>2. UartSend(r.src, n, r.per) = Mov("DAR", Register) \o (Mov("SAR", Here(r)) \o B \o S)
    BY <1>3 DEF UartSend, UartSendRegion, UartSize, Here
  <2>. HIDE DEF B, S
  <2>3. Leads(r, Mov("DAR", Register) \o (Mov("SAR", Here(r)) \o B \o S), Loose(r, 0, 0), Going(r, n, 0, Ccrs))
    BY <1>1, <1>3, <2>1, SegmentLeads
  <2>. QED  BY <1>2, <1>3, <2>2, <2>3, LeadsWeaker
<1>4. CASE From(r)
  <2>. DEFINE B == UartReceiveBursts(n, bs)
              S == UartReceiveSingles(n, bs)
  <2>1. \E h : /\ Leads(r, B, Going(r, 0, 0, Ccrs), Going(r, h, 0, Ccrs))
               /\ Leads(r, S, Going(r, h, 0, Ccrs), Going(r, n, 0, Ccrs))
    <3>1. FALSE = ~From(r) /\ TRUE = From(r) /\ Towards(r) = "rx"
      BY <1>4 DEF From, Towards
    <3>. HIDE DEF bs
    <3>2. bs = UartSize(r)
      BY DEF bs
    <3>. QED  BY <3>1, <3>2, UartPieces DEF UartReceiveBursts, UartReceiveSingles
  <2>2. UartReceive(r.dst, n, r.per) = Mov("SAR", Register) \o (Mov("DAR", Here(r)) \o B \o S)
    BY <1>4 DEF UartReceive, UartReceiveRegion, UartSize, Here
  <2>. HIDE DEF B, S
  <2>3. Leads(r, Mov("SAR", Register) \o (Mov("DAR", Here(r)) \o B \o S), Loose(r, 0, 0), Going(r, n, 0, Ccrs))
    BY <1>1, <1>4, <2>1, SegmentLeads
  <2>. QED  BY <1>2, <1>4, <2>2, <2>3, LeadsWeaker
<1>. QED  BY <1>3, <1>4

-----------------------------------------------------------------------------
(* I2C as a slave, and the bytes of a master between the first and the last *)
(* (2724-2970, 3135-3381).                                                 *)

OfI2c(r) ==
  /\ r.per.kind = "i2c" /\ r.per.level \in 0..255 /\ r.per.master \in BOOLEAN
  /\ r.per.restart \in BOOLEAN /\ r.per.stop \in BOOLEAN
  /\ From(r) <=> r.op = "p2m"
  /\ ~From(r) <=> r.op = "m2p"

\* A burst is never more than the threshold of the FIFO promises.
LEMMA I2cGrants ==
  ASSUME NEW r, OfI2c(r), NEW bs, bs = BurstSize(r.per.level), bs # 0
  PROVE  /\ bs \in 1..16 /\ bs <= Granted(r, Towards(r), TRUE) /\ Granted(r, Towards(r), TRUE) \in Nat
<1>1. Granted(r, Towards(r), TRUE) = Threshold(r.per.level)
  BY DEF Granted, OfI2c
<1>. DEFINE g == Threshold(r.per.level)
<1>2. g \in 0..255
  BY DEF OfI2c, Threshold
<1>3. bs = IF g > 1 THEN (IF g < 16 THEN g ELSE 16) ELSE 0
  BY DEF BurstSize, Least
<1>. HIDE DEF g
<1>4. bs \in 1..16 /\ bs <= g
  BY <1>2, <1>3
<1>5. g \in Nat
  BY <1>2
<1>. QED  BY <1>1, <1>4, <1>5, Zenon DEF g

\* The bytes of a burst, on the side of the I2C one by one.
Narrowed(r, b) == IF From(r) THEN Shape(1, 1, FALSE, 1, b, TRUE) ELSE Shape(1, b, TRUE, 1, 1, FALSE)

LEMMA NarrowedAccess ==
  ASSUME NEW r, NEW b \in 1..16, NEW c, c = Narrowed(r, b), NEW k \in Nat, NEW t \in Nat
  PROVE  /\ From(r) => Loading(r, k, t, c, 1)
         /\ From(r) /\ Spare(r, k, b) /\ k + b <= t => Storing(r, k, t, c, b)
         /\ ~From(r) /\ Spare(r, t, b) => Loading(r, k, t, c, b)
         /\ ~From(r) /\ r.op = "m2p" /\ k + 1 <= t /\ Frames1(r, k, FALSE, FALSE) => Storing(r, k, t, c, 1)
<1>1. CASE From(r)
  <2>1. c \in Ccrs /\ c.ss = 1 /\ c.sb = 1 /\ ~c.si /\ c.ds = 1 /\ c.db = b /\ c.di
    BY <1>1 DEF Narrowed, Shape, Ccrs
  <2>2. Loading(r, k, t, c, 1)
    BY <1>1, <2>1 DEF Loading, LoadIs
  <2>3. ASSUME Spare(r, k, b), k + b <= t PROVE Storing(r, k, t, c, b)
    <3>1. r.dst + k \in Nat
      BY <1>1, <2>3 DEF Spare, Here
    <3>2. 1 * b - ((r.dst + k) % 1) = b
      BY <3>1
    <3>. QED  BY <1>1, <2>1, <2>3, <3>2 DEF Storing, StoreIs
  <2>. QED  BY <1>1, <2>2, <2>3
<1>2. CASE ~From(r)
  <2>1. c \in Ccrs /\ c.ss = 1 /\ c.sb = b /\ c.si /\ c.ds = 1 /\ c.db = 1 /\ ~c.di
    BY <1>2 DEF Narrowed, Shape, Ccrs
  <2>2. ASSUME Spare(r, t, b) PROVE Loading(r, k, t, c, b)
    <3>1. r.src + t \in Nat
      BY <1>2, <2>2 DEF Spare, Here
    <3>2. 1 * b - ((r.src + t) % 1) = b
      BY <3>1
    <3>. QED  BY <1>2, <2>1, <2>2, <3>2 DEF Loading, LoadIs
  <2>3. ASSUME r.op = "m2p", k + 1 <= t, Frames1(r, k, FALSE, FALSE) PROVE Storing(r, k, t, c, 1)
    <3>1. StoreIs(c, Register, 1)
      BY <2>1 DEF StoreIs
    <3>. QED  BY <1>2, <2>1, <2>3, <3>1 DEF Storing
  <2>. QED  BY <1>2, <2>2, <2>3
<1>. QED  BY <1>1, <1>2

LEMMA I2cSendBurst ==
  ASSUME NEW r, OfI2c(r), ~From(r), NEW bs, bs = BurstSize(r.per.level), bs # 0, NEW k, NEW a,
         Spare(r, k, bs), \A j \in k..(k + bs - 1) : Frames1(r, j, FALSE, FALSE)
  PROVE  Leads(r, Wfp("tx", TRUE) \o Op("LD") \o Times(bs, Op("ST")),
               Going(r, k, a, {Narrowed(r, bs)}), Going(r, k + bs, a, {Narrowed(r, bs)}))
<1>. DEFINE c == Narrowed(r, bs)
            t == k + bs
            F == [j \in 0..bs |-> Device(r, k + j, t, a, bs - j, {c})]
<1>1. bs \in 1..16 /\ bs <= Granted(r, "tx", TRUE) /\ Granted(r, "tx", TRUE) \in Nat /\ bs \in Nat
  <2>1. Towards(r) = "tx"
    BY DEF Towards
  <2>2. bs \in 1..16 /\ bs <= Granted(r, "tx", TRUE) /\ Granted(r, "tx", TRUE) \in Nat
    BY <2>1, I2cGrants
  <2>3. \A x \in 1..16 : x \in Nat
    OBVIOUS
  <2>. QED  BY <2>2, <2>3, Zenon
<1>2. k \in Nat /\ t \in Nat /\ t = k + bs
  BY <1>1 DEF Spare
<1>3. c = Narrowed(r, bs)
  OBVIOUS
<1>. HIDE DEF c, t
<1>4. Leads(r, Wfp("tx", TRUE), Going(r, k, a, {c}), Device(r, k, k, a, bs, {c}))
  BY <1>1, GrantLeads
<1>5. Leads(r, Op("LD"), Device(r, k, k, a, bs, {c}), Device(r, k, t, a, bs, {c}))
  <2>1. Loading(r, k, k, c, bs)
    BY <1>1, <1>2, <1>3, NarrowedAccess
  <2>. QED  BY <1>2, <2>1, DeviceLoad
<1>6. ASSUME NEW j \in 0..(bs - 1) PROVE Leads(r, Op("ST"), F[j], F[j + 1])
  <2>. DEFINE k1 == k + j
              k2 == k + (j + 1)
              m1 == bs - j
              x1 == bs - (j + 1)
  <2>1. /\ k1 \in Nat /\ k2 = k1 + 1 /\ k1 + 1 <= t /\ m1 \in Nat /\ x1 \in Nat /\ x1 + 1 <= m1
        /\ j \in 0..bs /\ j + 1 \in 0..bs /\ k1 \in k..(k + bs - 1)
    BY <1>1, <1>2
  <2>2. F[j] = Device(r, k1, t, a, m1, {c}) /\ F[j + 1] = Device(r, k2, t, a, x1, {c})
    BY <2>1
  <2>. HIDE DEF F, k1, k2, m1, x1
  <2>3. r.op = "m2p" /\ r.per.kind = "i2c"
    BY DEF OfI2c
  <2>4. Storing(r, k1, t, c, 1)
    BY <1>1, <1>2, <1>3, <2>1, <2>3, NarrowedAccess
  <2>5. Uses(r, m1, x1, UsedBy(r, 1))
    BY <2>1, <2>3 DEF Uses, UsedBy
  <2>6. k2 = k1 + 1
    BY <2>1
  <2>7. Leads(r, Op("ST"), Device(r, k1, t, a, m1, {c}), Device(r, k2, t, a, x1, {c}))
    BY <2>4, <2>5, <2>6, DeviceStore
  <2>. QED  BY <2>2, <2>7
<1>7. /\ F[0] = Device(r, k, t, a, bs, {c}) /\ F[bs] = Device(r, t, t, a, 0, {c})
      /\ \A j \in 0..bs : F[j] \subseteq Sound(r)
  <2>1. 0 \in 0..bs /\ bs \in 0..bs /\ k + 0 = k /\ bs - 0 = bs /\ k + bs = t /\ bs - bs = 0
    BY <1>1, <1>2
  <2>. QED  BY <2>1, StateSound DEF Device
<1>. HIDE DEF F
<1>8. Along(r, bs, Op("ST"), F)
  BY <1>6, <1>7 DEF Along
<1>9. Leads(r, Times(bs, Op("ST")), F[0], F[bs])
  BY <1>1, <1>8, BodyRows, TimesLeads
<1>10. Leads(r, Wfp("tx", TRUE) \o Op("LD"), Going(r, k, a, {c}), Device(r, k, t, a, bs, {c}))
  BY <1>4, <1>5, JoinLeads
<1>11. Leads(r, Wfp("tx", TRUE) \o Op("LD") \o Times(bs, Op("ST")), Going(r, k, a, {c}), Device(r, t, t, a, 0, {c}))
  BY <1>7, <1>9, <1>10, JoinLeads
<1>12. Leads(r, Wfp("tx", TRUE) \o Op("LD") \o Times(bs, Op("ST")), Going(r, k, a, {c}), Going(r, t, a, {c}))
  BY <1>11, DeviceGoing, LeadsWeaker
<1>. QED  BY <1>2, <1>3, <1>12

LEMMA I2cReceiveBurst ==
  ASSUME NEW r, OfI2c(r), From(r), NEW bs, bs = BurstSize(r.per.level), bs # 0, NEW k, NEW a,
         Spare(r, k, bs)
  PROVE  Leads(r, Wfp("rx", TRUE) \o Times(bs, Op("LD")) \o Op("ST"),
               Going(r, k, a, {Narrowed(r, bs)}), Going(r, k + bs, a, {Narrowed(r, bs)}))
<1>. DEFINE c == Narrowed(r, bs)
            t == k + bs
            F == [j \in 0..bs |-> Device(r, k, k + j, a, bs - j, {c})]
<1>1. bs \in 1..16 /\ bs <= Granted(r, "rx", TRUE) /\ Granted(r, "rx", TRUE) \in Nat /\ bs \in Nat
  <2>1. Towards(r) = "rx"
    BY DEF Towards
  <2>2. bs \in 1..16 /\ bs <= Granted(r, "rx", TRUE) /\ Granted(r, "rx", TRUE) \in Nat
    BY <2>1, I2cGrants
  <2>3. \A x \in 1..16 : x \in Nat
    OBVIOUS
  <2>. QED  BY <2>2, <2>3, Zenon
<1>2. k \in Nat /\ t \in Nat /\ t = k + bs
  BY <1>1 DEF Spare
<1>3. c = Narrowed(r, bs)
  OBVIOUS
<1>. HIDE DEF c, t
<1>4. Leads(r, Wfp("rx", TRUE), Going(r, k, a, {c}), Device(r, k, k, a, bs, {c}))
  BY <1>1, GrantLeads
<1>6. ASSUME NEW j \in 0..(bs - 1) PROVE Leads(r, Op("LD"), F[j], F[j + 1])
  <2>. DEFINE k1 == k + j
              k2 == k + (j + 1)
              m1 == bs - j
              x1 == bs - (j + 1)
  <2>1. /\ k1 \in Nat /\ k2 = k1 + 1 /\ m1 \in Nat /\ x1 \in Nat /\ x1 + 1 <= m1
        /\ j \in 0..bs /\ j + 1 \in 0..bs
    BY <1>1, <1>2
  <2>2. F[j] = Device(r, k, k1, a, m1, {c}) /\ F[j + 1] = Device(r, k, k2, a, x1, {c})
    BY <2>1
  <2>. HIDE DEF F, k1, k2, m1, x1
  <2>3. r.per.kind = "i2c"
    BY DEF OfI2c
  <2>4. Loading(r, k, k1, c, 1)
    BY <1>1, <1>2, <1>3, <2>1, NarrowedAccess
  <2>5. Uses(r, m1, x1, UsedBy(r, 1))
    BY <2>1, <2>3 DEF Uses, UsedBy
  <2>6. k2 = k1 + 1
    BY <2>1
  <2>7. Leads(r, Op("LD"), Device(r, k, k1, a, m1, {c}), Device(r, k, k2, a, x1, {c}))
    BY <2>4, <2>5, <2>6, DeviceLoad
  <2>. QED  BY <2>2, <2>7
<1>7. /\ F[0] = Device(r, k, k, a, bs, {c}) /\ F[bs] = Device(r, k, t, a, 0, {c})
      /\ \A j \in 0..bs : F[j] \subseteq Sound(r)
  <2>1. 0 \in 0..bs /\ bs \in 0..bs /\ k + 0 = k /\ bs - 0 = bs /\ k + bs = t /\ bs - bs = 0
    BY <1>1, <1>2
  <2>. QED  BY <2>1, StateSound DEF Device
<1>. HIDE DEF F
<1>8. Along(r, bs, Op("LD"), F)
  BY <1>6, <1>7 DEF Along
<1>9. Leads(r, Times(bs, Op("LD")), F[0], F[bs])
  BY <1>1, <1>8, BodyRows, TimesLeads
<1>5. Leads(r, Op("ST"), Device(r, k, t, a, 0, {c}), Device(r, t, t, a, 0, {c}))
  <2>1. Storing(r, k, t, c, bs)
    <3>1. k + bs <= t
      BY <1>1, <1>2
    <3>. QED  BY <1>1, <1>2, <1>3, <3>1, NarrowedAccess
  <2>. QED  BY <1>2, <2>1, DeviceStore
<1>10. Leads(r, Wfp("rx", TRUE) \o Times(bs, Op("LD")), Going(r, k, a, {c}), Device(r, k, t, a, 0, {c}))
  BY <1>4, <1>7, <1>9, JoinLeads
<1>11. Leads(r, Wfp("rx", TRUE) \o Times(bs, Op("LD")) \o Op("ST"), Going(r, k, a, {c}), Device(r, t, t, a, 0, {c}))
  BY <1>5, <1>10, JoinLeads
<1>12. Leads(r, Wfp("rx", TRUE) \o Times(bs, Op("LD")) \o Op("ST"), Going(r, k, a, {c}), Going(r, t, a, {c}))
  BY <1>11, DeviceGoing, LeadsWeaker
<1>. QED  BY <1>2, <1>3, <1>12

LEMMA NarrowedSets ==
  ASSUME NEW r, NEW b \in 1..16, NEW a
  PROVE  /\ ~From(r) => Sets(r, Ccr(1, b, TRUE, 1, 1, FALSE), a, Narrowed(r, b))
         /\ From(r) => Sets(r, Ccr(1, 1, FALSE, 1, b, TRUE), a, Narrowed(r, b))
<1>1. Shape(1, b, TRUE, 1, 1, FALSE) \in Ccrs /\ Shape(1, 1, FALSE, 1, b, TRUE) \in Ccrs
  BY DEF Shape, Ccrs
<1>. QED  BY <1>1, GoingSet DEF Sets, Narrowed

\* The part of a transfer from byte k to byte n.
LEMMA I2cSendLeads ==
  ASSUME NEW r, OfI2c(r), ~From(r), NEW k, NEW n, SingleBytes(r, k, n), NEW a, NEW at, at = Here(r) + k,
         NEW size, size = n - k
  PROVE  Leads(r, I2cSend(at, size, r.per.level), Loose(r, k, a), Going(r, n, a, Ccrs))
<1>. DEFINE bs == BurstSize(r.per.level)
            p1 == Ccr(1, bs, TRUE, 1, 1, FALSE)
            p2 == Ccr(1, 1, TRUE, 1, 1, FALSE)
            c1 == Narrowed(r, bs)
            c2 == Wide(r, 1, 1)
            b1 == Wfp("tx", TRUE) \o Op("LD") \o Times(bs, Op("ST"))
            b2 == Wfp("tx", FALSE) \o LdSt
            B == Bursts(size, bs, p1, b1)
            S == Singles(size, bs, p2, b2)
<1>1. /\ k \in Nat /\ n \in Nat /\ size \in Nat /\ n = k + size /\ Spare(r, k, size)
      /\ at \in Nat /\ at + size <= AddrSpace /\ Here(r) \in Nat
  BY DEF SingleBytes, Spare
<1>2. bs \in {0} \cup 2..16
  BY Thresholds DEF OfI2c
<1>3. Towards(r) = "tx" /\ r.op = "m2p" /\ r.per.kind = "i2c" /\ TRUE = ~From(r) /\ FALSE = From(r)
  BY DEF Towards, OfI2c, From
<1>4. at \in 0..AddrSpace
  BY <1>1, AddrSpaceAssumption
<1>5. I2cSend(at, size, r.per.level) = Mov("DAR", Register) \o (Mov("SAR", at) \o B \o S)
  BY DEF I2cSend, I2cSendSegment
<1>6. bs = BurstSize(r.per.level)
  OBVIOUS
<1>. HIDE DEF bs
<1>7. bs \in Nat /\ (bs # 0 => bs \in 1..16)
  BY <1>2
<1>8. bs # 0 => Sets(r, p1, a, c1)
  BY <1>7, NarrowedSets
<1>9. Sets(r, p2, a, c2)
  <2>1. 1 \in {1, 2, 4, 8} /\ 1 \in 1..16
    OBVIOUS
  <2>2. \A si, di : si = ~From(r) /\ di = From(r) => Sets(r, Ccr(1, 1, si, 1, 1, di), a, Wide(r, 1, 1))
    BY <2>1, WideSets
  <2>. QED  BY <1>3, <2>2
<1>10. b1 \in Seq(Instructions) /\ b2 \in Seq(Instructions)
  <2>1. bs \in Int
    BY <1>7
  <2>2. Times(bs, Op("ST")) \in Seq(Instructions)
    BY <2>1, BodyRows
  <2>. QED  BY <2>2, BodyRows
<1>11. bs # 0 => Moves1(r, b1, a, c1, bs, k, n)
  <2>. SUFFICES ASSUME bs # 0, NEW j \in Nat, k <= j, j + bs <= n
                PROVE  Leads(r, b1, Going(r, j, a, {c1}), Going(r, j + bs, a, {c1}))
    <3>. HIDE DEF b1, c1
    <3>. QED  BY DEF Moves1
  <2>1. Spare(r, j, bs)
    BY <1>1, <1>7, SpareLess
  <2>2. \A i \in j..(j + bs - 1) : i \in k..(n - 1)
    BY <1>1, <1>7
  <2>3. \A i \in j..(j + bs - 1) : Frames1(r, i, FALSE, FALSE)
    BY <1>3, <2>2 DEF SingleBytes
  <2>. QED  BY <1>6, <2>1, <2>3, I2cSendBurst
<1>12. Moves1(r, b2, a, c2, 1, k, n)
  BY <1>3, SinglesMove
<1>. HIDE DEF p1, p2, c1, c2, b1, b2
<1>13. \E h : /\ Leads(r, B, Going(r, k, a, Ccrs), Going(r, h, a, Ccrs))
              /\ Leads(r, S, Going(r, h, a, Ccrs), Going(r, n, a, Ccrs))
  BY <1>1, <1>7, <1>8, <1>9, <1>10, <1>11, <1>12, PiecesLead
<1>. HIDE DEF B, S
<1>. QED  BY <1>4, <1>5, <1>13, SegmentLeads

LEMMA I2cReceiveLeads ==
  ASSUME NEW r, OfI2c(r), From(r), NEW k, NEW n, SingleBytes(r, k, n), NEW a, NEW at, at = Here(r) + k,
         NEW size, size = n - k
  PROVE  Leads(r, I2cReceive(at, size, r.per.level), Loose(r, k, a), Going(r, n, a, Ccrs))
<1>. DEFINE bs == BurstSize(r.per.level)
            p1 == Ccr(1, 1, FALSE, 1, bs, TRUE)
            p2 == Ccr(1, 1, FALSE, 1, 1, TRUE)
            c1 == Narrowed(r, bs)
            c2 == Wide(r, 1, 1)
            b1 == Wfp("rx", TRUE) \o Times(bs, Op("LD")) \o Op("ST")
            b2 == Wfp("rx", FALSE) \o LdSt
            B == Bursts(size, bs, p1, b1)
            S == Singles(size, bs, p2, b2)
<1>1. /\ k \in Nat /\ n \in Nat /\ size \in Nat /\ n = k + size /\ Spare(r, k, size)
      /\ at \in Nat /\ at + size <= AddrSpace /\ Here(r) \in Nat
  BY DEF SingleBytes, Spare
<1>2. bs \in {0} \cup 2..16
  BY Thresholds DEF OfI2c
<1>3. Towards(r) = "rx" /\ FALSE = ~From(r) /\ TRUE = From(r)
  BY DEF Towards, From
<1>4. at \in 0..AddrSpace
  BY <1>1, AddrSpaceAssumption
<1>5. I2cReceive(at, size, r.per.level) = Mov("SAR", Register) \o (Mov("DAR", at) \o B \o S)
  BY DEF I2cReceive, I2cReceiveSegment
<1>6. bs = BurstSize(r.per.level)
  OBVIOUS
<1>. HIDE DEF bs
<1>7. bs \in Nat /\ (bs # 0 => bs \in 1..16)
  BY <1>2
<1>8. bs # 0 => Sets(r, p1, a, c1)
  BY <1>7, NarrowedSets
<1>9. Sets(r, p2, a, c2)
  <2>1. 1 \in {1, 2, 4, 8} /\ 1 \in 1..16
    OBVIOUS
  <2>2. \A si, di : si = ~From(r) /\ di = From(r) => Sets(r, Ccr(1, 1, si, 1, 1, di), a, Wide(r, 1, 1))
    BY <2>1, WideSets
  <2>. QED  BY <1>3, <2>2
<1>10. b1 \in Seq(Instructions) /\ b2 \in Seq(Instructions)
  <2>1. bs \in Int
    BY <1>7
  <2>2. Times(bs, Op("LD")) \in Seq(Instructions)
    BY <2>1, BodyRows
  <2>. QED  BY <2>2, BodyRows
<1>11. bs # 0 => Moves1(r, b1, a, c1, bs, k, n)
  <2>. SUFFICES ASSUME bs # 0, NEW j \in Nat, k <= j, j + bs <= n
                PROVE  Leads(r, b1, Going(r, j, a, {c1}), Going(r, j + bs, a, {c1}))
    <3>. HIDE DEF b1, c1
    <3>. QED  BY DEF Moves1
  <2>1. Spare(r, j, bs)
    BY <1>1, <1>7, SpareLess
  <2>. QED  BY <1>6, <2>1, I2cReceiveBurst
<1>12. Moves1(r, b2, a, c2, 1, k, n)
  BY <1>3, SinglesMove
<1>. HIDE DEF p1, p2, c1, c2, b1, b2
<1>13. \E h : /\ Leads(r, B, Going(r, k, a, Ccrs), Going(r, h, a, Ccrs))
              /\ Leads(r, S, Going(r, h, a, Ccrs), Going(r, n, a, Ccrs))
  BY <1>1, <1>7, <1>8, <1>9, <1>10, <1>11, <1>12, PiecesLead
<1>. HIDE DEF B, S
<1>. QED  BY <1>4, <1>5, <1>13, SegmentLeads

-----------------------------------------------------------------------------
(* I2C as a master: words of the scratch buffer (2994-3076, 3421-3598).    *)

WordShape == Shape(4, 1, FALSE, 4, 1, FALSE)
Telling(r, k, a, m, v) == State(r, k, k, a, m, {v}, {Register}, {WordShape})
Holding(r, k, a, v) ==
  {d \in Sound(r) :
     /\ d.done = k /\ Len(d.fifo) = 4 /\ d.fifo[1] = v
     /\ From(r) => d.got = k
     /\ d.asked = a /\ ~d.signalled /\ 1 <= d.room
     /\ d.sar = v /\ d.dar = Register /\ d.ccr = WordShape}

\* The word v is what byte k or command a of the transfer of a master needs.
Fitting(r, k, a, v) ==
  /\ OfI2c(r) /\ Master(r) /\ k \in Nat /\ a \in Nat /\ r.n \in Nat
  /\ IF From(r)
     THEN /\ Restarts(r, v) <=> r.per.restart /\ a = 0
          /\ Stops(r, v) <=> r.per.stop /\ a = r.n - 1
          /\ (a + 1) - k <= I2cFifo /\ a + 1 <= r.n
     ELSE /\ Byte(r, v) = k
          /\ Restarts(r, v) <=> r.per.restart /\ k = 0
          /\ Stops(r, v) <=> r.per.stop /\ k = r.n - 1

LEMMA WordShapes ==
  /\ WordShape \in Ccrs /\ WordShape.ss * WordShape.sb - 0 = 4 /\ ~WordShape.si
  /\ WordShape.ds * WordShape.db - 0 = 4 /\ ~WordShape.di
BY DEF WordShape, Shape, Ccrs

LEMMA WordLoad ==
  ASSUME NEW r, NEW k \in Nat, NEW a, NEW v, v \in -50..(-1), ~Exempt(r)
  PROVE  Leads(r, Op("LD"), Telling(r, k, a, 1, v), Holding(r, k, a, v))
<1>. DEFINE i == [op |-> "LD"]
            P == Telling(r, k, a, 1, v)
            Q == Holding(r, k, a, v)
<1>1. i \in Instructions /\ i.op = "LD" /\ Op("LD") = <<i>>
  BY DEF Instructions, Copies, Op
<1>. HIDE DEF i
<1>2. v # Register /\ v < 0 /\ v \in Int
  BY DEF Register
<1>3. ASSUME NEW d \in P PROVE Result(r, i, d) \in Q
  <2>. DEFINE new == [j \in 1..4 |-> v]
              f == d.fifo \o new
              e == [d EXCEPT !.fifo = f]
  <2>1. /\ d \in Raw /\ d \in Sound(r) /\ d.sar = v /\ d.ccr = WordShape /\ d.dar = Register
        /\ d.done = k /\ k + Len(d.fifo) = k /\ d.asked = a /\ ~d.signalled
        /\ (From(r) => d.got = k) /\ 1 <= d.room
    BY DEF State, Sound, Telling
  <2>2. LoadOf(d) = 4
    BY <2>1, WordShapes DEF LoadOf
  <2>3. Loaded(r, d) = new
    BY <1>2, <2>1, <2>2 DEF Loaded
  <2>4. d.fifo \in Seq(Int) /\ Len(d.fifo) = 0
    <3>1. d.fifo \in Seq(Int)
      BY <2>1 DEF Raw
    <3>. DEFINE y == Len(d.fifo)
    <3>2. y \in Nat /\ k + y = k
      BY <2>1, <3>1
    <3>. HIDE DEF y
    <3>3. y = 0
      BY <3>2
    <3>. QED  BY <3>1, <3>3 DEF y
  <2>5. f \in Seq(Int) /\ Len(f) = 4 /\ f[1] = v
    <3>1. new \in Seq(Int) /\ Len(new) = 4 /\ new[1] = v
      BY <1>2
    <3>. DEFINE s == d.fifo
    <3>. HIDE DEF new, s
    <3>2. s \in Seq(Int) /\ Len(s) = 0
      BY <2>4 DEF s
    <3>3. s \o new \in Seq(Int) /\ Len(s \o new) = 4 /\ (s \o new)[1] = new[1]
      <4>1. /\ s \o new \in Seq(Int) /\ Len(s \o new) = Len(s) + Len(new)
            /\ \A j \in 1..Len(s) + Len(new) : (s \o new)[j] = IF j <= Len(s) THEN s[j] ELSE new[j - Len(s)]
        BY <3>1, <3>2, ConcatProperties
      <4>2. 1 \in 1..Len(s) + Len(new) /\ ~(1 <= Len(s)) /\ 1 - Len(s) = 1
        BY <3>1, <3>2
      <4>3. (s \o new)[1] = new[1]
        BY <4>1, <4>2
      <4>4. Len(s) + Len(new) = 4
        BY <3>1, <3>2
      <4>. QED  BY <4>1, <4>3, <4>4
    <3>. QED  BY <3>1, <3>3 DEF s
  <2>6. Result(r, i, d) = [d EXCEPT !.fifo = f, !.sar = d.sar, !.got = d.got, !.room = d.room]
    BY <1>1, <1>2, <2>1, <2>2, <2>3, WordShapes DEF Result
  <2>. HIDE DEF f
  <2>7. Result(r, i, d) = e
    BY <2>1, <2>6 DEF Raw
  <2>8. /\ e \in Raw /\ e.sar = d.sar /\ e.dar = d.dar /\ e.ccr = d.ccr /\ e.fifo = f
        /\ e.got = d.got /\ e.done = d.done /\ e.landed = d.landed /\ e.asked = d.asked
        /\ e.room = d.room /\ e.bus = d.bus /\ e.exact = d.exact /\ e.signalled = d.signalled
    BY <2>1, <2>5 DEF Raw
  <2>. HIDE DEF e
  <2>9. e \in Sound(r)
    BY <2>1, <2>8 DEF Sound
  <2>. QED  BY <2>1, <2>5, <2>7, <2>8, <2>9 DEF Holding
<1>4. P \in SUBSET Sound(r) /\ Q \in SUBSET Sound(r)
  BY StateSound DEF Telling, Holding
<1>. HIDE DEF P, Q
<1>5. Leads(r, Op("LD"), P, Q)
  BY <1>1, <1>3, <1>4, StepLeads DEF Loops, Waits
<1>. QED  BY <1>5 DEF P, Q

LEMMA WordStore ==
  ASSUME NEW r, NEW k, NEW a, NEW v, Fitting(r, k, a, v),
         NEW k2, k2 = (IF From(r) THEN k ELSE k + 1), NEW a2, a2 = (IF From(r) THEN a + 1 ELSE a)
  PROVE  Leads(r, Op("ST"), Holding(r, k, a, v), Telling(r, k2, a2, 0, v))
<1>. DEFINE i == [op |-> "ST"]
            P == Holding(r, k, a, v)
            Q == Telling(r, k2, a2, 0, v)
<1>1. i \in Instructions /\ i.op = "ST" /\ Op("ST") = <<i>>
  BY DEF Instructions, Copies, Op
<1>. HIDE DEF i
<1>2. /\ r.per.kind = "i2c" /\ k \in Nat /\ a \in Nat /\ k2 \in Nat /\ a2 \in Nat
      /\ (r.op = "p2m" <=> From(r)) /\ UsedBy(r, 4) = 1
  BY DEF Fitting, OfI2c, UsedBy
<1>3. ASSUME NEW d \in P PROVE StoreOf(d) <= Len(d.fifo) /\ Result(r, i, d) \in Q
  <2>. DEFINE s == d.fifo
              f == SubSeq(s, 5, Len(s))
              y == Stored(r, d)
              e == Result(r, i, d)
              b == [at |-> IF From(r) THEN a ELSE k, restart |-> Restarts(r, v), stop |-> Stops(r, v)]
  <2>1. /\ d \in Raw /\ d \in Sound(r) /\ d.sar = v /\ d.ccr = WordShape /\ d.dar = Register
        /\ d.done = k /\ Len(s) = 4 /\ s[1] = v /\ d.asked = a /\ ~d.signalled
        /\ (From(r) => d.got = k) /\ 1 <= d.room /\ d.exact /\ s \in Seq(Int) /\ d.room \in Int
    BY DEF Holding, Sound, Raw
  <2>2. StoreOf(d) = 4
    BY <2>1, WordShapes DEF StoreOf
  <2>3. f \in Seq(Int) /\ Len(f) = 0 /\ Run(f, k2)
    <3>. HIDE DEF s
    <3>1. f \in Seq(Int) /\ Len(f) = 0
      BY <2>1
    <3>. HIDE DEF f
    <3>. QED  BY <3>1 DEF Run
  <2>4. d.room - 1 \in Int /\ 0 <= d.room - 1 /\ ~(d.room - 1 < 0)
    <3>. DEFINE z == d.room
    <3>1. z \in Int /\ 1 <= z
      BY <2>1
    <3>. HIDE DEF z
    <3>2. z - 1 \in Int /\ 0 <= z - 1 /\ ~(z - 1 < 0)
      BY <3>1
    <3>. QED  BY <3>2 DEF z
  <2>5. y = [d EXCEPT !.fifo = f, !.dar = d.dar, !.room = d.room - 1]
    <3>1. SubSeq(d.fifo, 4 + 1, Len(d.fifo)) = f
      OBVIOUS
    <3>. HIDE DEF f
    <3>. QED  BY <1>2, <2>1, <2>2, <3>1, WordShapes DEF Stored
  <2>6. Restarts(r, v) \in BOOLEAN /\ Stops(r, v) \in BOOLEAN
    BY DEF Restarts, Stops
  <2>7. b \in [at : Int, restart : BOOLEAN, stop : BOOLEAN] /\ b.at = (IF From(r) THEN a ELSE k)
        /\ b.restart = Restarts(r, v) /\ b.stop = Stops(r, v)
    BY <1>2, <2>6
  <2>. HIDE DEF f, y
  <2>8. /\ y \in Raw /\ y.sar = d.sar /\ y.dar = d.dar /\ y.ccr = d.ccr /\ y.fifo = f
        /\ y.got = d.got /\ y.done = k /\ y.landed = d.landed /\ y.asked = a
        /\ y.room = d.room - 1 /\ y.bus = d.bus /\ y.exact = d.exact /\ y.signalled = d.signalled
    BY <2>1, <2>3, <2>4, <2>5 DEF Raw
  <2>9. e = [y EXCEPT !.bus = b, !.done = k2, !.asked = a2, !.exact = d.exact]
    <3>1. CASE From(r)
      <4>1. e = [y EXCEPT !.bus = [at |-> d.asked, restart |-> Restarts(r, s[1]), stop |-> Stops(r, s[1])],
                          !.asked = @ + 1]
        BY <1>1, <1>2, <2>1, <3>1 DEF Result, y
      <4>2. [at |-> d.asked, restart |-> Restarts(r, s[1]), stop |-> Stops(r, s[1])] = b
        BY <2>1, <3>1
      <4>. HIDE DEF b, e
      <4>. QED  BY <2>8, <3>1, <4>1, <4>2 DEF Raw
    <3>2. CASE ~From(r)
      <4>1. e = [y EXCEPT !.bus = [at |-> d.done, restart |-> Restarts(r, s[1]), stop |-> Stops(r, s[1])],
                          !.done = @ + 1, !.exact = @ /\ Byte(r, s[1]) = d.done]
        BY <1>1, <1>2, <2>1, <3>2 DEF Result, y
      <4>2. [at |-> d.done, restart |-> Restarts(r, s[1]), stop |-> Stops(r, s[1])] = b
        BY <2>1, <3>2
      <4>3. (y.exact /\ Byte(r, s[1]) = d.done) = d.exact
        BY <2>1, <2>8, <3>2 DEF Raw, Fitting
      <4>. HIDE DEF b, e
      <4>. QED  BY <2>8, <3>2, <4>1, <4>2, <4>3 DEF Raw
    <3>. QED  BY <3>1, <3>2
  <2>. HIDE DEF e, b
  <2>10. /\ e \in Raw /\ e.sar = v /\ e.dar = Register /\ e.ccr = WordShape /\ e.fifo = f
         /\ e.got = d.got /\ e.done = k2 /\ e.landed = d.landed /\ e.asked = a2
         /\ e.room = d.room - 1 /\ e.bus = b /\ e.exact = d.exact /\ e.signalled = d.signalled
    <3>1. k2 \in Int /\ a2 \in Int
      BY <1>2
    <3>2. y \in Raw /\ b \in [at : Int, restart : BOOLEAN, stop : BOOLEAN] /\ d.exact \in BOOLEAN
      BY <2>1, <2>7, <2>8 DEF Raw
    <3>3. /\ e \in Raw /\ e.sar = y.sar /\ e.dar = y.dar /\ e.ccr = y.ccr /\ e.fifo = y.fifo
          /\ e.got = y.got /\ e.done = k2 /\ e.landed = y.landed /\ e.asked = a2
          /\ e.room = y.room /\ e.bus = b /\ e.exact = d.exact /\ e.signalled = y.signalled
      BY <2>9, <3>1, <3>2 DEF Raw
    <3>. QED  BY <2>1, <2>8, <3>3
  <2>11. e \in Sound(r)
    <3>1. /\ b.restart <=> r.per.restart /\ b.at = 0
          /\ b.stop <=> r.per.stop /\ b.at = r.n - 1
      BY <2>7 DEF Fitting
    <3>2. e.asked - e.got <= I2cFifo /\ e.asked <= r.n
      <4>1. CASE From(r)
        BY <2>1, <2>10, <4>1 DEF Fitting
      <4>2. CASE ~From(r)
        BY <2>1, <2>10, <4>2 DEF Sound
      <4>. QED  BY <4>1, <4>2
    <3>. QED  BY <1>2, <2>1, <2>4, <2>10, <3>1, <3>2 DEF Sound
  <2>12. k2 + Len(e.fifo) = k2 /\ Run(e.fifo, k2) /\ (From(r) => e.got = k2)
    BY <1>2, <2>1, <2>3, <2>10
  <2>. QED  BY <2>1, <2>2, <2>4, <2>10, <2>11, <2>12 DEF Telling, State, e
<1>4. P \in SUBSET Sound(r) /\ Q \in SUBSET Sound(r)
  BY StateSound DEF Telling, Holding
<1>. HIDE DEF P, Q
<1>5. Leads(r, Op("ST"), P, Q)
  BY <1>1, <1>3, <1>4, StepLeads DEF Loops, Waits
<1>. QED  BY <1>5 DEF P, Q

LEMMA WordBody ==
  ASSUME NEW r, NEW k, NEW a, NEW w \in 0..3, NEW v, v = Scratch(w), Fitting(r, k, a, v),
         NEW k2, k2 = (IF From(r) THEN k ELSE k + 1), NEW a2, a2 = (IF From(r) THEN a + 1 ELSE a)
  PROVE  Leads(r, Wfp("tx", FALSE) \o LdSt, Telling(r, k, a, 0, v), Telling(r, k2, a2, 0, v))
<1>1. v \in -50..(-1)
  BY DEF Scratch
<1>2. r.per.kind = "i2c" /\ k \in Nat
  BY DEF Fitting, OfI2c
<1>3. ~Exempt(r) /\ Granted(r, "tx", FALSE) = 1
  BY <1>2 DEF Exempt, Granted
<1>. DEFINE S == {v}
            D == {Register}
            C == {WordShape}
            Z == 0
            g == 1
<1>4. g \in Nat /\ g <= Granted(r, "tx", FALSE) /\ Granted(r, "tx", FALSE) \in Nat
  <2>1. 1 \in Nat /\ 1 <= 1
    OBVIOUS
  <2>. QED  BY <1>3, <2>1, Zenon
<1>. HIDE DEF S, D, C, Z, g
<1>5. Leads(r, Wfp("tx", FALSE), State(r, k, k, a, Z, S, D, C), State(r, k, k, a, g, S, D, C))
  BY <1>4, WfpLeads
<1>6. Leads(r, Wfp("tx", FALSE), Telling(r, k, a, 0, v), Telling(r, k, a, 1, v))
  BY <1>5 DEF Telling, S, D, C, Z, g
<1>7. Leads(r, Op("LD"), Telling(r, k, a, 1, v), Holding(r, k, a, v))
  BY <1>1, <1>2, <1>3, WordLoad
<1>8. Leads(r, Op("ST"), Holding(r, k, a, v), Telling(r, k2, a2, 0, v))
  BY WordStore
<1>9. Leads(r, LdSt, Telling(r, k, a, 1, v), Telling(r, k2, a2, 0, v))
  BY <1>7, <1>8, JoinLeads DEF LdSt
<1>. QED  BY <1>6, <1>9, JoinLeads

\* Between the words: the address of the I2C and the shape of a word stay.
Told(r, k, a) == State(r, k, k, a, 0, Int, {Register}, {WordShape})
\* After j words.
Sent(r, k, j) == IF From(r) THEN k ELSE k + j
Asks(r, a, j) == IF From(r) THEN a + j ELSE a

LEMMA ToldLoose ==
  ASSUME NEW r, NEW k, NEW a
  PROVE  /\ Told(r, k, a) \subseteq Loose(r, k, a) /\ \A v : Telling(r, k, a, 0, v) \subseteq Told(r, k, a)
         /\ Told(r, k, a) \subseteq Sound(r)
<1>1. \A d \in Sound(r) : d.sar \in Int
  BY DEF Sound, Raw
<1>2. \A v : Telling(r, k, a, 0, v) \subseteq Told(r, k, a)
  BY <1>1 DEF Telling, Told, State
<1>. QED  BY <1>2, LooseSets, StateSound DEF Told

LEMMA CustomLeads ==
  ASSUME NEW r, NEW w \in 0..3, NEW n \in Nat, NEW k \in Nat, NEW a \in Nat,
         \A j \in 0..(n - 1) : Fitting(r, Sent(r, k, j), Asks(r, a, j), Scratch(w))
  PROVE  /\ Leads(r, Custom(w, n, TRUE), Loose(r, k, a), Told(r, Sent(r, k, n), Asks(r, a, n)))
         /\ Leads(r, Custom(w, n, FALSE), Told(r, k, a), Told(r, Sent(r, k, n), Asks(r, a, n)))
<1>. DEFINE v == Scratch(w)
            body == Wfp("tx", FALSE) \o LdSt
            F == [j \in 0..n |-> Telling(r, Sent(r, k, j), Asks(r, a, j), 0, v)]
            I == Int
            R == {Register}
            C == {WordShape}
            Z == 0
            A == Mov("DAR", Register)
            B == Mov("SAR", v)
            S == Ccr(4, 1, FALSE, 4, 1, FALSE)
            D == Repeat(n, body)
            P == Told(r, k, a)
            Q == Told(r, Sent(r, k, n), Asks(r, a, n))
<1>1. v \in -100..AddrSpace /\ Register \in -100..AddrSpace /\ WordShape \in Ccrs /\ v = Scratch(w)
  BY AddrSpaceAssumption, WordShapes DEF Scratch, Register
<1>2. body \in Seq(Instructions)
  BY BodyRows
<1>3. ASSUME NEW j \in 0..(n - 1) PROVE Leads(r, body, F[j], F[j + 1])
  <2>. DEFINE k1 == Sent(r, k, j)
              a1 == Asks(r, a, j)
              k2 == Sent(r, k, j + 1)
              a2 == Asks(r, a, j + 1)
  <2>1. F[j] = Telling(r, k1, a1, 0, v) /\ F[j + 1] = Telling(r, k2, a2, 0, v)
    OBVIOUS
  <2>2. k2 = (IF From(r) THEN k1 ELSE k1 + 1) /\ a2 = (IF From(r) THEN a1 + 1 ELSE a1)
    BY DEF Sent, Asks
  <2>3. Fitting(r, k1, a1, v)
    OBVIOUS
  <2>. HIDE DEF F, k1, a1, k2, a2, v
  <2>. QED  BY <1>1, <2>1, <2>2, <2>3, WordBody
<1>4. /\ F[0] = Telling(r, k, a, 0, v) /\ F[n] = Telling(r, Sent(r, k, n), Asks(r, a, n), 0, v)
      /\ \A j \in 0..n : F[j] \subseteq Sound(r)
  <2>1. Sent(r, k, 0) = k /\ Asks(r, a, 0) = a /\ 0 \in 0..n /\ n \in 0..n
    BY DEF Sent, Asks
  <2>. QED  BY <2>1, StateSound DEF Telling
<1>. HIDE DEF F, v
<1>5. Along(r, n, body, F)
  BY <1>3, <1>4 DEF Along
<1>6. Leads(r, D, F[0], F[n])
  BY <1>2, <1>5, RepeatLeads
<1>7. Leads(r, D, Telling(r, k, a, 0, v), Q)
  <2>. HIDE DEF D
  <2>. QED  BY <1>4, <1>6, ToldLoose, LeadsWeaker
<1>8. Custom(w, n, TRUE) = A \o B \o S \o D /\ Custom(w, n, FALSE) = <<>> \o B \o <<>> \o D
  BY DEF Custom, v
<1>. HIDE DEF I, R, C, Z, D, S, B, A
<1>9. Leads(r, B, State(r, k, k, a, Z, I, R, C), State(r, k, k, a, Z, {v}, R, C))
  BY <1>1, SarLeads DEF B
<1>10. Leads(r, B, P, Telling(r, k, a, 0, v))
  BY <1>9 DEF Told, Telling, I, R, C, Z
<1>11. Leads(r, Custom(w, n, FALSE), P, Q)
  <2>0. P \in SUBSET Sound(r) /\ Telling(r, k, a, 0, v) \in SUBSET Sound(r)
    BY ToldLoose, StateSound DEF Telling
  <2>. HIDE DEF P, Q
  <2>1. Leads(r, <<>>, P, P) /\ Leads(r, <<>>, Telling(r, k, a, 0, v), Telling(r, k, a, 0, v))
    BY <2>0, NothingLeads
  <2>2. Leads(r, <<>> \o B, P, Telling(r, k, a, 0, v))
    BY <1>10, <2>1, JoinLeads
  <2>3. Leads(r, <<>> \o B \o <<>>, P, Telling(r, k, a, 0, v))
    BY <2>1, <2>2, JoinLeads
  <2>4. Leads(r, <<>> \o B \o <<>> \o D, P, Q)
    BY <1>7, <2>3, JoinLeads
  <2>. QED  BY <1>8, <2>4
<1>12. Leads(r, Custom(w, n, TRUE), Loose(r, k, a), Q)
  <2>. DEFINE E == Ccrs
  <2>. HIDE DEF E
  <2>1. Leads(r, A, State(r, k, k, a, Z, I, I, E), State(r, k, k, a, Z, I, R, E))
    BY <1>1, DarLeads DEF A, R
  <2>2. Leads(r, B, State(r, k, k, a, Z, I, R, E), State(r, k, k, a, Z, {v}, R, E))
    BY <1>1, SarLeads DEF B
  <2>3. Leads(r, S, State(r, k, k, a, Z, {v}, R, E), State(r, k, k, a, Z, {v}, R, C))
    BY <1>1, CcrLeads DEF S, C, WordShape
  <2>4. Leads(r, A \o B, State(r, k, k, a, Z, I, I, E), State(r, k, k, a, Z, {v}, R, E))
    BY <2>1, <2>2, JoinLeads
  <2>5. Leads(r, A \o B \o S, State(r, k, k, a, Z, I, I, E), State(r, k, k, a, Z, {v}, R, C))
    BY <2>3, <2>4, JoinLeads
  <2>6. Leads(r, A \o B \o S, Loose(r, k, a), Telling(r, k, a, 0, v))
    BY <2>5 DEF Loose, Telling, I, R, C, Z, E
  <2>. HIDE DEF Q
  <2>7. Leads(r, A \o B \o S \o D, Loose(r, k, a), Q)
    BY <1>7, <2>6, JoinLeads
  <2>. QED  BY <1>8, <2>7
<1>. QED  BY <1>11, <1>12

\* Which word is for which byte of a master's data (2994-3076) or command (3421-3598).
LEMMA BytesFit ==
  ASSUME NEW r, OfI2c(r), Master(r), ~From(r), NEW n \in Nat \ {0}, r.n = n
  PROVE  /\ n = 1 => Fitting(r, 0, 0, Scratch(3))
         /\ n > 1 /\ r.per.restart => Fitting(r, 0, 0, Scratch(1))
         /\ n > 1 /\ r.per.stop => Fitting(r, n - 1, 0, Scratch(2))
<1>1. r.op # "p2m" /\ 0 \in Nat /\ n - 1 \in Nat
  BY DEF OfI2c
<1>2. /\ Byte(r, Scratch(3)) = 0 /\ Byte(r, Scratch(1)) = 0 /\ Byte(r, Scratch(2)) = n - 1
      /\ Restarts(r, Scratch(3)) <=> r.per.restart
      /\ Restarts(r, Scratch(1))
      /\ ~Restarts(r, Scratch(2))
      /\ Stops(r, Scratch(3)) <=> r.per.stop
      /\ ~Stops(r, Scratch(1))
      /\ Stops(r, Scratch(2))
  BY <1>1 DEF Byte, Restarts, Stops, Scratch
<1>3. r.per.restart \in BOOLEAN /\ r.per.stop \in BOOLEAN
  BY DEF OfI2c
<1>. HIDE DEF Scratch
<1>4. n = 1 => Fitting(r, 0, 0, Scratch(3))
  BY <1>1, <1>2, <1>3 DEF Fitting
<1>5. n > 1 /\ r.per.restart => Fitting(r, 0, 0, Scratch(1))
  BY <1>1, <1>2, <1>3 DEF Fitting
<1>6. n > 1 /\ r.per.stop => Fitting(r, n - 1, 0, Scratch(2))
  BY <1>1, <1>2, <1>3 DEF Fitting
<1>. QED  BY <1>4, <1>5, <1>6

LEMMA CommandsFit ==
  ASSUME NEW r, OfI2c(r), Master(r), From(r), NEW n \in Nat, r.n = n, NEW k \in Nat, NEW a \in 0..(n - 1),
         (a + 1) - k <= I2cFifo
  PROVE  /\ n = 1 => Fitting(r, k, a, Scratch(3))
         /\ n > 1 /\ a = 0 => Fitting(r, k, a, Scratch(1))
         /\ 0 < a /\ a < n - 1 => Fitting(r, k, a, Scratch(0))
         /\ 0 < a /\ a = n - 1 => Fitting(r, k, a, Scratch(2))
<1>1. r.op = "p2m" /\ a \in Nat /\ a + 1 <= n /\ n \in Nat
  BY DEF OfI2c
<1>2. /\ Restarts(r, Scratch(3)) <=> r.per.restart
      /\ Restarts(r, Scratch(1)) <=> r.per.restart
      /\ ~Restarts(r, Scratch(2)) /\ ~Restarts(r, Scratch(0))
      /\ Stops(r, Scratch(3)) <=> r.per.stop
      /\ Stops(r, Scratch(2)) <=> r.per.stop
      /\ ~Stops(r, Scratch(1)) /\ ~Stops(r, Scratch(0))
  BY <1>1 DEF Restarts, Stops, Scratch
<1>3. r.per.restart \in BOOLEAN /\ r.per.stop \in BOOLEAN
  BY DEF OfI2c
<1>. HIDE DEF Scratch
<1>4. n = 1 => Fitting(r, k, a, Scratch(3))
  BY <1>1, <1>2, <1>3 DEF Fitting
<1>5. n > 1 /\ a = 0 => Fitting(r, k, a, Scratch(1))
  BY <1>1, <1>2, <1>3 DEF Fitting
<1>6. 0 < a /\ a < n - 1 => Fitting(r, k, a, Scratch(0))
  BY <1>1, <1>2, <1>3 DEF Fitting
<1>7. 0 < a /\ a = n - 1 => Fitting(r, k, a, Scratch(2))
  BY <1>1, <1>2, <1>3 DEF Fitting
<1>. QED  BY <1>4, <1>5, <1>6, <1>7

\* One word.
LEMMA OneWord ==
  ASSUME NEW r, NEW w \in 0..3, NEW k \in Nat, NEW a \in Nat, Fitting(r, k, a, Scratch(w)),
         NEW k2, k2 = Sent(r, k, 1), NEW a2, a2 = Asks(r, a, 1)
  PROVE  /\ Leads(r, Custom(w, 1, TRUE), Loose(r, k, a), Told(r, k2, a2))
         /\ Leads(r, Custom(w, 1, FALSE), Told(r, k, a), Told(r, k2, a2))
<1>. DEFINE n == 1
<1>1. \A j \in 0..(n - 1) : j = 0
  OBVIOUS
<1>2. Sent(r, k, 0) = k /\ Asks(r, a, 0) = a /\ n \in Nat /\ n = 1
  BY DEF Sent, Asks
<1>. HIDE DEF n
<1>3. \A j \in 0..(n - 1) : Fitting(r, Sent(r, k, j), Asks(r, a, j), Scratch(w))
  BY <1>1, <1>2
<1>4. /\ Leads(r, Custom(w, n, TRUE), Loose(r, k, a), Told(r, Sent(r, k, n), Asks(r, a, n)))
      /\ Leads(r, Custom(w, n, FALSE), Told(r, k, a), Told(r, Sent(r, k, n), Asks(r, a, n)))
  BY <1>2, <1>3, CustomLeads
<1>. QED  BY <1>2, <1>4

LEMMA I2cSendMasterLeads ==
  ASSUME NEW r, OfI2c(r), Master(r), ~From(r), NEW size \in Nat \ {0}, r.n = size, Spare(r, 0, size)
  PROVE  Leads(r, I2cSendMaster(r.src, size, r.per), Fresh(r), Loose(r, size, 0))
<1>. DEFINE p == r.per
            b == IF p.restart THEN 1 ELSE 0
            e == IF p.stop THEN 1 ELSE 0
            n == size - b - e
            h == size - e
            First == IF p.restart THEN Custom(1, 1, TRUE) ELSE <<>>
            Middle == IF n > 0 THEN I2cSend(r.src + b, n, p.level) ELSE <<>>
            Rest == IF p.stop THEN Custom(2, 1, n # 0) ELSE <<>>
            Z == 0
<1>1. p.restart \in BOOLEAN /\ p.stop \in BOOLEAN /\ r.op = "m2p" /\ p.kind = "i2c" /\ Here(r) = r.src
  BY DEF OfI2c, Here
<1>2. \A k, a : Sent(r, k, 1) = k + 1 /\ Asks(r, a, 1) = a
  BY DEF Sent, Asks
<1>3. Fresh(r) \subseteq Loose(r, 0, 0) /\ \A k, a : Told(r, k, a) \subseteq Loose(r, k, a)
  BY LooseSets, ToldLoose
<1>4. CASE size = 1
  <2>1. Fitting(r, 0, 0, Scratch(3)) /\ 0 \in Nat /\ 3 \in 0..3 /\ 1 = 0 + 1
    BY <1>4, BytesFit
  <2>2. Leads(r, Custom(3, 1, TRUE), Loose(r, 0, 0), Told(r, 1, 0))
    BY <1>2, <2>1, OneWord
  <2>3. I2cSendMaster(r.src, size, p) = Custom(3, 1, TRUE)
    BY <1>4 DEF I2cSendMaster
  <2>4. Told(r, 1, 0) \subseteq Loose(r, size, 0)
    BY <1>3, <1>4
  <2>5. Leads(r, Custom(3, 1, TRUE), Fresh(r), Loose(r, size, 0))
    <3>1. \A x : Leads(r, x, Loose(r, 0, 0), Told(r, 1, 0)) => Leads(r, x, Fresh(r), Loose(r, size, 0))
      BY <1>3, <2>4, LeadsWeaker
    <3>. QED  BY <2>2, <3>1
  <2>. HIDE DEF First, Middle, Rest, b, e, n, h, Z
  <2>. QED  BY <2>3, <2>5
<1>5. CASE size # 1
  <2>0. I2cSendMaster(r.src, size, p) = First \o Middle \o Rest
    BY <1>5 DEF I2cSendMaster
  <2>1. size > 1 /\ b \in 0..1 /\ e \in 0..1 /\ n \in Nat /\ h \in Nat /\ h = b + n /\ h + e = size
        /\ b <= h /\ h <= size /\ (n = 0 => b = 1 /\ e = 1 /\ h = 1)
    BY <1>5
  <2>2. Leads(r, First, Loose(r, 0, Z), Loose(r, b, Z))
    <3>1. CASE p.restart
      <4>1. Fitting(r, 0, 0, Scratch(1)) /\ 0 \in Nat /\ 1 \in 0..3 /\ 1 = 0 + 1
        BY <2>1, <3>1, BytesFit
      <4>2. Leads(r, Custom(1, 1, TRUE), Loose(r, 0, 0), Told(r, 1, 0))
        BY <1>2, <4>1, OneWord
      <4>. QED  BY <1>3, <3>1, <4>2, LeadsWeaker
    <3>2. CASE ~p.restart
      <4>1. First = <<>> /\ b = 0
        BY <3>2
      <4>2. Loose(r, 0, 0) \in SUBSET Sound(r)
        BY LooseSets
      <4>. HIDE DEF First, b
      <4>. QED  BY <4>1, <4>2, NothingLeads
    <3>. QED  BY <1>1, <3>1, <3>2
  <2>3. SingleBytes(r, b, h)
    <3>. HIDE DEF b, h
    <3>1. Spare(r, b, h - b)
      <4>. DEFINE zero == 0
                  l == h - b
      <4>1. zero \in Nat /\ b \in Nat /\ l \in Nat /\ b + l <= zero + size /\ size \in Nat /\ Spare(r, zero, size)
        BY <2>1
      <4>. HIDE DEF zero, l
      <4>2. Spare(r, b, l)
        BY <4>1, SpareLess
      <4>. QED  BY <4>2 DEF l
    <3>2. Enough(r, Towards(r), FALSE, 1)
      BY <1>1 DEF Enough, Granted, UsedBy, Towards
    <3>3. \A j \in b..(h - 1) : Frames1(r, j, FALSE, FALSE)
      BY <2>1 DEF Frames1, b, h
    <3>. QED  BY <1>1, <2>1, <3>1, <3>2, <3>3 DEF SingleBytes
  <2>4. n = h - b /\ r.src + b = Here(r) + b
    BY <1>1
  <2>5. CASE n = 0
    <3>1. Middle = <<>> /\ Rest = Custom(2, 1, FALSE) /\ First = Custom(1, 1, TRUE) /\ size = 2 /\ p.restart /\ p.stop
      <4>1. b = 1 /\ e = 1 /\ size = 2
        <5>. HIDE DEF b, e, h, n
        <5>. QED  BY <2>1, <2>5
      <4>2. p.restart /\ p.stop
        BY <4>1
      <4>3. Middle = <<>> /\ Rest = Custom(2, 1, FALSE)
        <5>1. (n # 0) = FALSE /\ ~(n > 0)
          BY <2>5
        <5>. HIDE DEF n, b
        <5>2. Middle = <<>>
          BY <5>1
        <5>3. Rest = Custom(2, 1, n # 0)
          BY <4>2
        <5>. HIDE DEF Rest, Middle
        <5>. QED  BY <5>1, <5>2, <5>3, Zenon
      <4>. QED  BY <4>1, <4>2, <4>3
    <3>2. /\ Fitting(r, 0, 0, Scratch(1)) /\ Fitting(r, 1, 0, Scratch(2)) /\ 0 \in Nat /\ 1 \in Nat
          /\ 1 \in 0..3 /\ 2 \in 0..3 /\ 1 = 0 + 1 /\ 2 = 1 + 1
      BY <2>1, <3>1, BytesFit
    <3>3. Leads(r, Custom(1, 1, TRUE), Loose(r, 0, 0), Told(r, 1, 0))
      BY <1>2, <3>2, OneWord
    <3>4. Leads(r, Custom(2, 1, FALSE), Told(r, 1, 0), Told(r, 2, 0))
      BY <1>2, <3>2, OneWord
    <3>5. Leads(r, <<>>, Told(r, 1, 0), Told(r, 1, 0))
      BY ToldLoose, NothingLeads
    <3>6. Leads(r, Custom(1, 1, TRUE) \o <<>>, Loose(r, 0, 0), Told(r, 1, 0))
      BY <3>3, <3>5, JoinLeads
    <3>7. Leads(r, Custom(1, 1, TRUE) \o <<>> \o Custom(2, 1, FALSE), Loose(r, 0, 0), Told(r, 2, 0))
      BY <3>4, <3>6, JoinLeads
    <3>8. Told(r, 2, 0) \subseteq Loose(r, size, 0)
      BY <1>3, <3>1
    <3>. HIDE DEF First, Middle, Rest, b, e, n, h, Z
    <3>9. First \o Middle \o Rest = Custom(1, 1, TRUE) \o <<>> \o Custom(2, 1, FALSE)
      BY <3>1
    <3>10. \A x : Leads(r, x, Loose(r, 0, 0), Told(r, 2, 0)) => Leads(r, x, Fresh(r), Loose(r, size, 0))
      BY <1>3, <3>8, LeadsWeaker
    <3>11. Leads(r, First \o Middle \o Rest, Loose(r, 0, 0), Told(r, 2, 0))
      BY <3>7, <3>9, Zenon
    <3>. QED  BY <2>0, <3>10, <3>11, Zenon
  <2>6. CASE n # 0
    <3>1. Middle = I2cSend(r.src + b, n, p.level)
      BY <2>1, <2>6
    <3>2. Leads(r, Middle, Loose(r, b, Z), Going(r, h, Z, Ccrs))
      <4>. DEFINE at == r.src + b
      <4>1. at = Here(r) + b
        BY <2>4
      <4>. HIDE DEF b, n, h, Z, at, Middle
      <4>2. Leads(r, I2cSend(at, n, r.per.level), Loose(r, b, Z), Going(r, h, Z, Ccrs))
        BY <2>3, <2>4, <4>1, I2cSendLeads
      <4>. QED  BY <3>1, <4>2 DEF at
    <3>3. Leads(r, Middle, Loose(r, b, Z), Loose(r, h, Z))
      <4>. HIDE DEF Middle, h
      <4>. QED  BY <3>2, LooseSets, LeadsWeaker
    <3>4. Leads(r, Rest, Loose(r, h, Z), Loose(r, size, Z))
      <4>1. CASE p.stop
        <5>1. Rest = Custom(2, 1, TRUE) /\ h = size - 1
          BY <2>6, <4>1
        <5>2. Fitting(r, size - 1, 0, Scratch(2)) /\ size - 1 \in Nat /\ 2 \in 0..3 /\ size = (size - 1) + 1 /\ 0 \in Nat
          BY <2>1, <4>1, BytesFit
        <5>. HIDE DEF h, Rest
        <5>3. Leads(r, Custom(2, 1, TRUE), Loose(r, h, 0), Told(r, size, 0))
          BY <1>2, <5>1, <5>2, OneWord
        <5>. QED  BY <1>3, <5>1, <5>3, LeadsWeaker
      <4>2. CASE ~p.stop
        <5>1. Rest = <<>> /\ h = size
          BY <4>2
        <5>2. Loose(r, size, 0) \in SUBSET Sound(r)
          BY LooseSets
        <5>. HIDE DEF Rest, h
        <5>. QED  BY <5>1, <5>2, NothingLeads
      <4>. QED  BY <1>1, <4>1, <4>2
    <3>. HIDE DEF First, Middle, Rest, b, h
    <3>5. Leads(r, First \o Middle, Loose(r, 0, Z), Loose(r, h, Z))
      BY <2>2, <3>3, JoinLeads
    <3>6. Leads(r, First \o Middle \o Rest, Loose(r, 0, Z), Loose(r, size, Z))
      BY <3>4, <3>5, JoinLeads
    <3>. QED  BY <1>3, <2>0, <3>6, LeadsWeaker
  <2>. QED  BY <2>5, <2>6
<1>. QED  BY <1>4, <1>5

\* Commands between the first and the last one, and the last one.
LEMMA MiddleLeads ==
  ASSUME NEW r, OfI2c(r), Master(r), From(r), NEW size \in Nat, r.n = size, NEW k \in Nat, NEW a \in Nat \ {0},
         NEW w \in Nat, NEW z, z = a + w, z < size, z - k <= I2cFifo
  PROVE  /\ Leads(r, Custom(0, w, TRUE), Loose(r, k, a), Told(r, k, z))
         /\ Leads(r, Custom(0, w, FALSE), Told(r, k, a), Told(r, k, z))
<1>. DEFINE v == 0
<1>1. v \in 0..3 /\ a \in Nat
  OBVIOUS
<1>2. \A j : Sent(r, k, j) = k /\ Asks(r, a, j) = a + j
  BY DEF Sent, Asks
<1>3. ASSUME NEW j \in 0..(w - 1) PROVE Fitting(r, Sent(r, k, j), Asks(r, a, j), Scratch(v))
  <2>. DEFINE b == a + j
  <2>1. b \in 0..(size - 1) /\ (b + 1) - k <= I2cFifo /\ 0 < b /\ b < size - 1
    BY I2cFifoAssumption
  <2>. HIDE DEF b
  <2>2. Fitting(r, k, b, Scratch(0))
    BY <2>1, CommandsFit
  <2>. QED  BY <1>2, <2>2 DEF b
<1>. HIDE DEF v
<1>4. /\ Leads(r, Custom(v, w, TRUE), Loose(r, k, a), Told(r, Sent(r, k, w), Asks(r, a, w)))
      /\ Leads(r, Custom(v, w, FALSE), Told(r, k, a), Told(r, Sent(r, k, w), Asks(r, a, w)))
  BY <1>1, <1>3, CustomLeads
<1>. QED  BY <1>2, <1>4 DEF v

LEMMA LastLeads ==
  ASSUME NEW r, OfI2c(r), Master(r), From(r), NEW size \in Nat, r.n = size, NEW k \in Nat, NEW a \in Nat \ {0},
         size = a + 1, size - k <= I2cFifo
  PROVE  Leads(r, Custom(2, 1, FALSE), Told(r, k, a), Told(r, k, size))
<1>1. a \in 0..(size - 1) /\ (a + 1) - k <= I2cFifo /\ 0 < a /\ a = size - 1 /\ a \in Nat /\ 2 \in 0..3
  BY I2cFifoAssumption
<1>2. Fitting(r, k, a, Scratch(2))
  BY <1>1, CommandsFit
<1>3. k = Sent(r, k, 1) /\ size = Asks(r, a, 1)
  BY DEF Sent, Asks
<1>. QED  BY <1>1, <1>2, <1>3, OneWord

\* The first one.
LEMMA FirstLeads ==
  ASSUME NEW r, OfI2c(r), Master(r), From(r), NEW size \in Nat \ {0}, r.n = size
  PROVE  /\ size = 1 => Leads(r, Custom(3, 1, TRUE), Loose(r, 0, 0), Told(r, 0, 1))
         /\ size > 1 => Leads(r, Custom(1, 1, TRUE), Loose(r, 0, 0), Told(r, 0, 1))
<1>. DEFINE Z == 0
<1>1. Z \in 0..(size - 1) /\ (Z + 1) - Z <= I2cFifo /\ Z = 0 /\ Z \in Nat /\ 3 \in 0..3 /\ 1 \in 0..3
  BY I2cFifoAssumption
<1>2. Z = Sent(r, Z, 1) /\ 1 = Asks(r, Z, 1)
  BY DEF Sent, Asks
<1>. HIDE DEF Z
<1>3. size = 1 => Fitting(r, Z, Z, Scratch(3))
  BY <1>1, CommandsFit
<1>4. size > 1 => Fitting(r, Z, Z, Scratch(1))
  BY <1>1, CommandsFit
<1>5. size = 1 => Leads(r, Custom(3, 1, TRUE), Loose(r, Z, Z), Told(r, Z, 1))
  BY <1>1, <1>2, <1>3, OneWord
<1>6. size > 1 => Leads(r, Custom(1, 1, TRUE), Loose(r, Z, Z), Told(r, Z, 1))
  BY <1>1, <1>2, <1>4, OneWord
<1>. QED  BY <1>1, <1>5, <1>6

LEMMA PrefillLeads ==
  ASSUME NEW r, OfI2c(r), Master(r), From(r), NEW size \in Nat \ {0}, r.n = size
  PROVE  Leads(r, Prefill(size), Fresh(r), Loose(r, 0, Least(size, I2cFifo)))
<1>. DEFINE n == Least(size, I2cFifo)
            Z == 0
            Rest == IF n > 2 THEN Custom(0, n - 2, FALSE) ELSE <<>>
<1>1. /\ n \in Nat \ {0} /\ n <= size /\ n <= I2cFifo /\ (n = 1 => size = 1) /\ Z \in Nat
      /\ n # size => n = I2cFifo
  BY I2cFifoAssumption DEF Least
<1>2. Fresh(r) \subseteq Loose(r, 0, 0) /\ \A k, a : Told(r, k, a) \subseteq Loose(r, k, a)
  BY LooseSets, ToldLoose
<1>3. \A x : Leads(r, x, Loose(r, Z, Z), Told(r, Z, n)) => Leads(r, x, Fresh(r), Loose(r, Z, n))
  <2>. HIDE DEF n
  <2>. QED  BY <1>2, LeadsWeaker
<1>4. CASE n = 1
  <2>1. Prefill(size) = Custom(3, 1, TRUE)
    BY <1>4 DEF Prefill
  <2>2. Leads(r, Custom(3, 1, TRUE), Loose(r, 0, 0), Told(r, 0, 1))
    BY <1>1, <1>4, FirstLeads
  <2>. HIDE DEF n
  <2>3. Leads(r, Custom(3, 1, TRUE), Loose(r, Z, Z), Told(r, Z, n))
    BY <1>4, <2>2
  <2>. QED  BY <1>3, <2>1, <2>3 DEF n, Z
<1>5. CASE n # 1 /\ n = size
  <2>1. Prefill(size) = Custom(1, 1, TRUE) \o Rest \o Custom(2, 1, FALSE)
    BY <1>5 DEF Prefill
  <2>2. Leads(r, Custom(1, 1, TRUE), Loose(r, Z, Z), Told(r, Z, 1))
    <3>1. size > 1
      BY <1>1, <1>5
    <3>2. Leads(r, Custom(1, 1, TRUE), Loose(r, 0, 0), Told(r, 0, 1))
      BY <3>1, FirstLeads
    <3>. QED  BY <3>2
  <2>3. n - 1 \in Nat \ {0}
    BY <1>1, <1>5
  <2>4. Leads(r, Rest, Told(r, Z, 1), Told(r, Z, n - 1))
    <3>1. CASE n > 2
      <4>. DEFINE w == n - 2
                  z == n - 1
                  a == 1
      <4>1. w \in Nat /\ z = a + w /\ z < size /\ z - Z <= I2cFifo /\ a \in Nat \ {0} /\ size \in Nat
        BY <1>1, <1>5, <3>1, I2cFifoAssumption
      <4>2. Rest = Custom(0, w, FALSE)
        BY <3>1
      <4>. HIDE DEF w, z, a, n, Z, Rest
      <4>3. Leads(r, Custom(0, w, FALSE), Told(r, Z, a), Told(r, Z, z))
        BY <1>1, <4>1, MiddleLeads
      <4>. QED  BY <4>2, <4>3 DEF z, a
    <3>2. CASE ~(n > 2)
      <4>1. n - 1 = 1 /\ Rest = <<>>
        BY <1>1, <1>5, <3>2
      <4>2. Told(r, Z, 1) \in SUBSET Sound(r)
        BY ToldLoose
      <4>. HIDE DEF n, Rest
      <4>. QED  BY <4>1, <4>2, NothingLeads
    <3>. QED  BY <3>1, <3>2
  <2>5. Leads(r, Custom(2, 1, FALSE), Told(r, Z, n - 1), Told(r, Z, n))
    <3>. DEFINE a == n - 1
    <3>1. size = a + 1 /\ size - Z <= I2cFifo /\ a \in Nat \ {0} /\ size \in Nat
      BY <1>1, <1>5, I2cFifoAssumption
    <3>. HIDE DEF a, Z, n
    <3>2. Leads(r, Custom(2, 1, FALSE), Told(r, Z, a), Told(r, Z, size))
      BY <1>1, <3>1, LastLeads
    <3>. QED  BY <1>5, <3>2 DEF a
  <2>. HIDE DEF n, Z, Rest
  <2>6. Leads(r, Custom(1, 1, TRUE) \o Rest, Loose(r, Z, Z), Told(r, Z, n - 1))
    BY <2>2, <2>4, JoinLeads
  <2>7. Leads(r, Custom(1, 1, TRUE) \o Rest \o Custom(2, 1, FALSE), Loose(r, Z, Z), Told(r, Z, n))
    BY <2>5, <2>6, JoinLeads
  <2>. QED  BY <1>3, <2>1, <2>7 DEF n, Z
<1>6. CASE n # 1 /\ n # size
  <2>1. Prefill(size) = Custom(1, 1, TRUE) \o Custom(0, n - 1, FALSE)
    BY <1>6 DEF Prefill
  <2>2. Leads(r, Custom(1, 1, TRUE), Loose(r, Z, Z), Told(r, Z, 1))
    <3>1. size > 1
      BY <1>1, <1>6
    <3>2. Leads(r, Custom(1, 1, TRUE), Loose(r, 0, 0), Told(r, 0, 1))
      BY <3>1, FirstLeads
    <3>. QED  BY <3>2
  <2>3. Leads(r, Custom(0, n - 1, FALSE), Told(r, Z, 1), Told(r, Z, n))
    <3>. DEFINE w == n - 1
                a == 1
    <3>1. w \in Nat /\ n = a + w /\ n < size /\ n - Z <= I2cFifo /\ a \in Nat \ {0} /\ size \in Nat
      BY <1>1, <1>6, I2cFifoAssumption
    <3>. HIDE DEF w, a, n, Z
    <3>2. Leads(r, Custom(0, w, FALSE), Told(r, Z, a), Told(r, Z, n))
      BY <1>1, <3>1, MiddleLeads
    <3>. QED  BY <3>2 DEF w, a
  <2>. HIDE DEF n, Z
  <2>4. Leads(r, Custom(1, 1, TRUE) \o Custom(0, n - 1, FALSE), Loose(r, Z, Z), Told(r, Z, n))
    BY <2>2, <2>3, JoinLeads
  <2>. QED  BY <1>3, <2>1, <2>4 DEF n, Z
<1>. QED  BY <1>4, <1>5, <1>6

\* Half a FIFO of commands, or those that are left, while the FIFO has room for them.
LEMMA RefillLeads ==
  ASSUME NEW r, OfI2c(r), Master(r), From(r), NEW size \in Nat, r.n = size, NEW k \in Nat, NEW a \in Nat \ {0},
         a < size, NEW left, left = size - a, NEW z, z = a + Least(left, I2cFifo \div 2), z - k <= I2cFifo
  PROVE  Leads(r, Refill(left), Loose(r, k, a), Loose(r, k, z))
<1>. DEFINE n == Least(left, I2cFifo \div 2)
<1>1. n \in Nat \ {0} /\ n <= left /\ left \in Nat
  BY I2cFifoAssumption DEF Least
<1>2. \A x : Leads(r, x, Loose(r, k, a), Told(r, k, z)) => Leads(r, x, Loose(r, k, a), Loose(r, k, z))
  BY ToldLoose, LeadsWeaker
<1>3. CASE n = left
  <2>. DEFINE w == n - 1
              y == a + w
  <2>1. Refill(left) = Custom(0, w, TRUE) \o Custom(2, 1, FALSE)
    BY <1>1, <1>3 DEF Refill
  <2>2. w \in Nat /\ y = a + w /\ y < size /\ y - k <= I2cFifo /\ z = size /\ size = y + 1 /\ y \in Nat \ {0}
    BY <1>1, <1>3, I2cFifoAssumption
  <2>. HIDE DEF w, y, n
  <2>3. Leads(r, Custom(0, w, TRUE), Loose(r, k, a), Told(r, k, y))
    BY <2>2, MiddleLeads
  <2>4. Leads(r, Custom(2, 1, FALSE), Told(r, k, y), Told(r, k, size))
    BY <2>2, LastLeads
  <2>5. Leads(r, Custom(0, w, TRUE) \o Custom(2, 1, FALSE), Loose(r, k, a), Told(r, k, size))
    BY <2>3, <2>4, JoinLeads
  <2>. QED  BY <1>2, <2>1, <2>2, <2>5
<1>4. CASE n # left
  <2>1. Refill(left) = Custom(0, n, TRUE)
    BY <1>1, <1>4 DEF Refill
  <2>2. n \in Nat /\ z = a + n /\ z < size
    BY <1>1, <1>4, I2cFifoAssumption
  <2>. HIDE DEF n
  <2>3. Leads(r, Custom(0, n, TRUE), Loose(r, k, a), Told(r, k, z))
    BY <2>2, MiddleLeads
  <2>. QED  BY <1>2, <2>1, <2>3
<1>. QED  BY <1>3, <1>4

\* Bytes are taken and more are asked for, when t are taken already.
Taking(r, size, t) ==
  I2cReceive(r.dst + t, Least(size - t, I2cFifo \div 2), r.per.level)
    \o (IF size > I2cFifo + t THEN Refill(size - (I2cFifo + t)) ELSE <<>>)

LEMMA TakingLeads ==
  ASSUME NEW r, OfI2c(r), Master(r), From(r), NEW size \in Nat, r.n = size, Spare(r, 0, size),
         NEW t \in Nat, t < size, NEW a, a = Least(size, I2cFifo + t),
         NEW t2, t2 = t + Least(size - t, I2cFifo \div 2),
         NEW a2, a2 = Least(size, (I2cFifo + t) + (I2cFifo \div 2))
  PROVE  Leads(r, Taking(r, size, t), Loose(r, t, a), Loose(r, t2, a2))
<1>. DEFINE n == Least(size - t, I2cFifo \div 2)
            at == r.dst + t
            More == IF size > I2cFifo + t THEN Refill(size - (I2cFifo + t)) ELSE <<>>
<1>1. /\ n \in Nat \ {0} /\ t2 = t + n /\ n = t2 - t /\ t2 \in Nat /\ t <= t2 /\ t2 <= size
      /\ size > I2cFifo + t => t2 = t + (I2cFifo \div 2)
  BY I2cFifoAssumption DEF Least
<1>2. at = Here(r) + t
  BY DEF Here
<1>3. Taking(r, size, t) = I2cReceive(at, n, r.per.level) \o More
  BY DEF Taking
<1>4. SingleBytes(r, t, t2)
  <2>1. Spare(r, t, n)
    <3>. DEFINE zero == 0
    <3>1. zero \in Nat /\ t \in Nat /\ n \in Nat /\ t + n <= zero + size /\ Spare(r, zero, size)
      BY <1>1
    <3>. HIDE DEF zero, n
    <3>. QED  BY <3>1, SpareLess
  <2>2. Enough(r, Towards(r), FALSE, 1)
    BY DEF Enough, Granted, UsedBy, Towards, OfI2c
  <2>. HIDE DEF n
  <2>. QED  BY <1>1, <2>1, <2>2 DEF SingleBytes
<1>5. Leads(r, I2cReceive(at, n, r.per.level), Loose(r, t, a), Loose(r, t2, a))
  <2>. HIDE DEF n, at
  <2>1. Leads(r, I2cReceive(at, n, r.per.level), Loose(r, t, a), Going(r, t2, a, Ccrs))
    BY <1>1, <1>2, <1>4, I2cReceiveLeads
  <2>2. Going(r, t2, a, Ccrs) \subseteq Loose(r, t2, a)
    BY LooseSets
  <2>. QED  BY <2>1, <2>2, LeadsWeaker
<1>6. Leads(r, More, Loose(r, t2, a), Loose(r, t2, a2))
  <2>1. CASE size > I2cFifo + t
    <3>. DEFINE left == size - (I2cFifo + t)
    <3>1. /\ a = I2cFifo + t /\ a \in Nat \ {0} /\ a < size /\ left = size - a /\ left \in Nat
          /\ a2 = a + Least(left, I2cFifo \div 2)
      BY <2>1, I2cFifoAssumption DEF Least
    <3>2. a2 - t2 <= I2cFifo
      BY <1>1, <2>1, I2cFifoAssumption DEF Least
    <3>3. More = Refill(left)
      BY <2>1
    <3>. HIDE DEF left, More, n
    <3>4. Leads(r, Refill(left), Loose(r, t2, a), Loose(r, t2, a2))
      BY <1>1, <3>1, <3>2, RefillLeads
    <3>. QED  BY <3>3, <3>4
  <2>2. CASE ~(size > I2cFifo + t)
    <3>1. a = size /\ a2 = size
      BY <2>2, I2cFifoAssumption DEF Least
    <3>2. More = <<>> /\ Loose(r, t2, size) \in SUBSET Sound(r)
      BY <2>2, LooseSets
    <3>. HIDE DEF More
    <3>. QED  BY <3>1, <3>2, NothingLeads
  <2>. QED  BY <2>1, <2>2
<1>. HIDE DEF n, at, More
<1>. QED  BY <1>3, <1>5, <1>6, JoinLeads

\* As many rounds as there are halves of a FIFO, the last one perhaps not whole.
LEMMA Halves ==
  ASSUME NEW size \in Nat \ {0}, NEW half \in Nat \ {0}, NEW n, n = (size + half - 1) \div half
  PROVE  n \in Nat /\ size <= n * half /\ \A j \in 0..(n - 1) : j * half < size /\ j * half \in Nat
<1>. DEFINE s == size + half - 1
<1>1. s \in Nat
  OBVIOUS
<1>2. n \in Nat /\ s % half \in 0..(half - 1) /\ half * n + (s % half) = s /\ half * n \in Nat
  <2>. HIDE DEF s
  <2>1. s \div half \in Nat /\ s % half \in 0..(half - 1) /\ half * (s \div half) + (s % half) = s
        /\ half * (s \div half) \in Nat
    BY <1>1, Division
  <2>2. n = s \div half
    BY DEF s
  <2>. QED  BY <2>1, <2>2
<1>3. half * n = n * half
  BY <1>2
<1>4. size <= n * half /\ n * half <= s
  <2>. DEFINE x == half * n
              y == s % half
  <2>1. x \in Nat /\ y \in 0..(half - 1) /\ x + y = s
    BY <1>2
  <2>. HIDE DEF x, y
  <2>2. size <= x /\ x <= s
    BY <2>1
  <2>. QED  BY <1>3, <2>2 DEF x
<1>5. ASSUME NEW j \in 0..(n - 1) PROVE j * half < size /\ j * half \in Nat
  <2>1. j * half + half <= n * half /\ j * half \in Nat
    <3>1. half * j \in Nat /\ half * j + half <= half * n
      BY <1>2, Multiples
    <3>2. half * j = j * half
      OBVIOUS
    <3>. QED  BY <1>3, <3>1, <3>2
  <2>. DEFINE x == j * half
              y == n * half
  <2>2. x + half <= y /\ x \in Nat /\ y <= s /\ y \in Nat
    BY <1>2, <1>3, <1>4, <2>1
  <2>. HIDE DEF x, y
  <2>3. x < size
    BY <2>2
  <2>. QED  BY <2>2, <2>3 DEF x
<1>. QED  BY <1>2, <1>4, <1>5

LEMMA I2cReceiveMasterLeads ==
  ASSUME NEW r, OfI2c(r), Master(r), From(r), NEW size \in Nat \ {0}, r.n = size, Spare(r, 0, size)
  PROVE  Leads(r, I2cReceiveMaster(r.dst, size, r.per), Fresh(r), Loose(r, size, size))
<1>. DEFINE half == I2cFifo \div 2
            n == (size + half - 1) \div half
            ss == [i \in 1..n |-> Taking(r, size, (i - 1) * half)]
            F == [j \in 0..n |-> Loose(r, Least(size, j * half), Least(size, I2cFifo + j * half))]
<1>1. half \in Nat \ {0}
  BY I2cFifoAssumption
<1>2. n \in Nat /\ size <= n * half /\ \A j \in 0..(n - 1) : j * half < size /\ j * half \in Nat
  <2>. HIDE DEF half
  <2>. QED  BY <1>1, Halves
<1>3. I2cReceiveMaster(r.dst, size, r.per) = Prefill(size) \o FlattenSeq(ss)
  BY DEF I2cReceiveMaster, Taking
<1>. HIDE DEF n
<1>4. ASSUME NEW j \in 0..(n - 1) PROVE Leads(r, Taking(r, size, j * half), F[j], F[j + 1])
  <2>. DEFINE t == j * half
              u == (j + 1) * half
              t2 == t + Least(size - t, half)
              a == Least(size, I2cFifo + t)
              a2 == Least(size, (I2cFifo + t) + half)
  <2>1. t \in Nat /\ t < size /\ u = t + half
    BY <1>1, <1>2
  <2>. HIDE DEF t, u, half
  <2>2. t2 = Least(size, u) /\ t = Least(size, t) /\ a2 = Least(size, I2cFifo + u)
    BY <1>1, <2>1, I2cFifoAssumption DEF Least
  <2>3. F[j] = Loose(r, t, a) /\ F[j + 1] = Loose(r, t2, a2)
    <3>1. j \in 0..n /\ j + 1 \in 0..n
      BY <1>2
    <3>2. F[j] = Loose(r, Least(size, t), Least(size, I2cFifo + t))
      BY <3>1 DEF t
    <3>3. F[j + 1] = Loose(r, Least(size, u), Least(size, I2cFifo + u))
      BY <3>1 DEF u
    <3>. HIDE DEF F, t2, a2
    <3>4. F[j] = Loose(r, t, a)
      BY <2>2, <3>2
    <3>5. F[j + 1] = Loose(r, t2, a2)
      BY <2>2, <3>3
    <3>. QED  BY <3>4, <3>5
  <2>4. t2 = t + Least(size - t, I2cFifo \div 2) /\ a2 = Least(size, (I2cFifo + t) + (I2cFifo \div 2))
    BY DEF half
  <2>. HIDE DEF t2, a, a2, F
  <2>5. a = Least(size, I2cFifo + t)
    BY DEF a
  <2>6. Leads(r, Taking(r, size, t), Loose(r, t, a), Loose(r, t2, a2))
    BY <2>1, <2>4, <2>5, TakingLeads
  <2>. QED  BY <2>3, <2>6 DEF t
<1>5. ASSUME NEW j \in 0..n PROVE F[j] \subseteq Sound(r)
  BY LooseSets
<1>6. ss \in Seq(Seq(Instructions)) /\ Len(ss) = n /\ \A j \in 0..(n - 1) : ss[j + 1] = Taking(r, size, j * half)
  <2>. DEFINE T(i) == Taking(r, size, (i - 1) * half)
  <2>1. ASSUME NEW i \in 1..n PROVE T(i) \in Seq(Instructions)
    <3>. DEFINE j == i - 1
    <3>1. j \in 0..(n - 1)
      BY <1>2
    <3>. HIDE DEF j
    <3>2. Taking(r, size, j * half) \in Seq(Instructions)
      BY <1>4, <3>1 DEF Leads
    <3>. QED  BY <3>2 DEF j
  <2>2. ss = [i \in 1..n |-> T(i)]
    OBVIOUS
  <2>3. ASSUME NEW j \in 0..(n - 1) PROVE T(j + 1) = Taking(r, size, j * half) /\ j + 1 \in 1..n
    <3>1. (j + 1) - 1 = j /\ j + 1 \in 1..n
      BY <1>2
    <3>. HIDE DEF half
    <3>. QED  BY <3>1
  <2>. HIDE DEF T, ss
  <2>4. ss \in Seq(Seq(Instructions)) /\ Len(ss) = n
    BY <1>2, <2>1, <2>2
  <2>5. \A i \in 1..n : ss[i] = T(i)
    BY <2>2
  <2>. QED  BY <2>3, <2>4, <2>5
<1>7. F[0] = Loose(r, 0, Least(size, I2cFifo)) /\ F[n] = Loose(r, size, size)
  <2>1. 0 \in 0..n /\ n \in 0..n /\ 0 * half = 0 /\ I2cFifo + 0 = I2cFifo
    BY <1>1, <1>2, I2cFifoAssumption
  <2>2. Least(size, 0) = 0
    BY DEF Least
  <2>. DEFINE x == n * half
  <2>3. x \in Nat /\ size <= x
    BY <1>1, <1>2
  <2>4. F[n] = Loose(r, Least(size, x), Least(size, I2cFifo + x))
    BY <2>1
  <2>5. F[0] = Loose(r, Least(size, 0), Least(size, I2cFifo))
    <3>1. F[0] = Loose(r, Least(size, 0 * half), Least(size, I2cFifo + 0 * half))
      BY <2>1
    <3>. HIDE DEF F, half
    <3>2. I2cFifo + 0 * half = I2cFifo
      BY <2>1
    <3>. QED  BY <2>1, <3>1, <3>2
  <2>. HIDE DEF x, F
  <2>6. Least(size, x) = size /\ Least(size, I2cFifo + x) = size
    BY <2>3, I2cFifoAssumption DEF Least
  <2>. QED  BY <2>2, <2>4, <2>5, <2>6
<1>8. Leads(r, FlattenSeq(ss), F[0], F[n])
  <2>. HIDE DEF ss, F, half
  <2>1. \A j \in 0..(n - 1) : Leads(r, ss[j + 1], F[j], F[j + 1])
    BY <1>4, <1>6
  <2>. QED  BY <1>2, <1>5, <1>6, <2>1, FlattenLeads
<1>9. Leads(r, Prefill(size), Fresh(r), F[0])
  <2>1. Leads(r, Prefill(size), Fresh(r), Loose(r, 0, Least(size, I2cFifo)))
    BY PrefillLeads
  <2>. HIDE DEF F
  <2>. QED  BY <1>7, <2>1
<1>. HIDE DEF ss, F
<1>10. Leads(r, Prefill(size) \o FlattenSeq(ss), Fresh(r), F[n])
  BY <1>8, <1>9, JoinLeads
<1>. QED  BY <1>3, <1>7, <1>10

-----------------------------------------------------------------------------
(* QSPI (3660-4617).                                                       *)

OfQspi(r) ==
  /\ r.per.kind = "qspi" /\ r.per.single \in 0..15 /\ r.per.burst \in 0..15
  /\ From(r) <=> r.op = "p2m"
  /\ ~From(r) <=> r.op = "m2p"

\* The bytes of a request of the device, and its words of 4 bytes.
Chunk(log) == 2 ^ log
Quarter(log) == 2 ^ log \div 4
\* What an access moves on the side of the memory.
Span(log) == Beat(log) * Least(Beats(log), 16)

\* The numbers of a block of requests of 4 bytes or more.
LEMMA QspiValues ==
  ASSUME NEW log \in 2..15
  PROVE  /\ Beat(log) \in {4, 8} /\ Least(Beats(log), 16) \in 1..16 /\ Multiple(log) \in Nat
         /\ Chunk(log) \in Nat \ {0} /\ Quarter(log) \in Nat /\ 4 * Quarter(log) = Chunk(log)
         /\ Span(log) \in Nat /\ Span(log) % Beat(log) = 0 /\ Span(log) * Multiple(log) = Chunk(log)
         /\ log >= 3 => Chunk(log) % 8 = 0
         /\ log = 2 => Beat(log) = 4 /\ Chunk(log) = 4
<1>. DEFINE w(k) == IF k >= 3 THEN 8 ELSE 4
            s(k, x) == IF x \div w(k) < 16 THEN x \div w(k) ELSE 16
            m(k, x) == IF x \div w(k) <= 16 THEN 1 ELSE (x \div w(k)) \div 16
            good(k, x) == /\ s(k, x) \in 1..16 /\ m(k, x) \in Nat
                          /\ x \in Nat \ {0} /\ x \div 4 \in Nat /\ 4 * (x \div 4) = x
                          /\ w(k) * s(k, x) \in Nat /\ (w(k) * s(k, x)) % w(k) = 0
                          /\ (w(k) * s(k, x)) * m(k, x) = x
                          /\ k >= 3 => x % 8 = 0
                          /\ k = 2 => x = 4
<1>1. /\ good(2, 2 ^ 2) /\ good(3, 2 ^ 3) /\ good(4, 2 ^ 4)
      /\ good(5, 2 ^ 5) /\ good(6, 2 ^ 6) /\ good(7, 2 ^ 7) /\ good(8, 2 ^ 8) /\ good(9, 2 ^ 9)
      /\ good(10, 2 ^ 10) /\ good(11, 2 ^ 11) /\ good(12, 2 ^ 12) /\ good(13, 2 ^ 13)
      /\ good(14, 2 ^ 14) /\ good(15, 2 ^ 15)
  BY SMT
<1>2. good(log, 2 ^ log)
  <2>1. log = 2 \/ log = 3 \/ log = 4 \/ log = 5 \/ log = 6 \/ log = 7 \/ log = 8 \/ log = 9
        \/ log = 10 \/ log = 11 \/ log = 12 \/ log = 13 \/ log = 14 \/ log = 15
    OBVIOUS
  <2>. HIDE DEF good
  <2>. QED  BY <1>1, <2>1, Zenon
<1>3. Beat(log) = w(log)
  <2>1. 2 ^ 3 = 8 /\ 2 ^ 2 = 4
    BY SMT
  <2>2. Least(3, log) = IF log >= 3 THEN 3 ELSE 2
    BY DEF Least
  <2>. QED  BY <2>1, <2>2, Zenon DEF Beat
<1>. DEFINE x == 2 ^ log
<1>4. Beats(log) = x \div w(log)
  BY <1>3 DEF Beats
<1>5. Least(Beats(log), 16) = s(log, x) /\ Multiple(log) = m(log, x)
  BY <1>4 DEF Least, Multiple
<1>6. w(log) \in {4, 8} /\ (log = 2 => w(log) = 4)
  OBVIOUS
<1>7. good(log, x)
  BY <1>2
<1>. HIDE DEF w, s, m, x
<1>8. Chunk(log) = x /\ Quarter(log) = x \div 4
  BY DEF x, Chunk, Quarter
<1>. QED  BY <1>3, <1>5, <1>6, <1>7, <1>8, Zenon DEF Span

QspiShape(r, log) ==
  IF From(r) THEN Shape(4, 1, FALSE, Beat(log), Least(Beats(log), 16), TRUE)
  ELSE Shape(Beat(log), Least(Beats(log), 16), TRUE, 4, 1, FALSE)

LEMMA QspiAccess ==
  ASSUME NEW r, OfQspi(r), NEW log \in 2..15, NEW c, c = QspiShape(r, log), NEW k \in Nat, NEW t \in Nat
  PROVE  /\ From(r) => Loading(r, k, t, c, 4)
         /\ ~From(r) /\ k + 4 <= t => Storing(r, k, t, c, 4)
         /\ From(r) /\ Spare(r, k, Span(log)) /\ k + Span(log) <= t /\ (Here(r) + k) % Beat(log) = 0 =>
              Storing(r, k, t, c, Span(log))
         /\ ~From(r) /\ Spare(r, t, Span(log)) /\ (Here(r) + t) % Beat(log) = 0 =>
              Loading(r, k, t, c, Span(log))
<1>. DEFINE w == Beat(log)
            s == Least(Beats(log), 16)
            l == Span(log)
<1>1. w \in {4, 8} /\ s \in 1..16 /\ l = w * s /\ l \in Nat /\ r.per.kind # "i2c"
  BY QspiValues DEF Span, OfQspi
<1>2. /\ c \in Ccrs
      /\ From(r) => c.ss = 4 /\ c.sb = 1 /\ ~c.si /\ c.ds = w /\ c.db = s /\ c.di
      /\ ~From(r) => c.ss = w /\ c.sb = s /\ c.si /\ c.ds = 4 /\ c.db = 1 /\ ~c.di
  <2>. HIDE DEF w, s
  <2>1. c = IF From(r) THEN Shape(4, 1, FALSE, w, s, TRUE) ELSE Shape(w, s, TRUE, 4, 1, FALSE)
    BY DEF QspiShape, w, s
  <2>2. 4 \in {1, 2, 4, 8} /\ w \in {1, 2, 4, 8} /\ 1 \in 1..16
    BY <1>1
  <2>. QED  BY <1>1, <2>1, <2>2 DEF Shape, Ccrs
<1>3. From(r) => Loading(r, k, t, c, 4)
  BY <1>2 DEF Loading, LoadIs
<1>4. ~From(r) /\ k + 4 <= t => Storing(r, k, t, c, 4)
  BY <1>1, <1>2 DEF Storing, StoreIs
<1>5. From(r) /\ Spare(r, k, l) /\ k + l <= t /\ (Here(r) + k) % w = 0 => Storing(r, k, t, c, l)
  <2>. HAVE From(r) /\ Spare(r, k, l) /\ k + l <= t /\ (Here(r) + k) % w = 0
  <2>. HIDE DEF w, s, l
  <2>1. (r.dst + k) % w = 0
    BY DEF Here
  <2>2. StoreIs(c, r.dst + k, l)
    BY <1>1, <1>2, <2>1 DEF StoreIs
  <2>. QED  BY <1>1, <1>2, <2>2 DEF Storing
<1>6. ~From(r) /\ Spare(r, t, l) /\ (Here(r) + t) % w = 0 => Loading(r, k, t, c, l)
  <2>. HAVE ~From(r) /\ Spare(r, t, l) /\ (Here(r) + t) % w = 0
  <2>. HIDE DEF w, s, l
  <2>1. (r.src + t) % w = 0
    BY DEF Here
  <2>2. LoadIs(c, r.src + t, l)
    BY <1>1, <1>2, <2>1 DEF LoadIs
  <2>. QED  BY <1>1, <1>2, <2>2 DEF Loading
<1>. QED  BY <1>3, <1>4, <1>5, <1>6

\* A multiple of a beat after an aligned address.
Grid(w, l, h) == w \in {4, 8} /\ l \in Nat /\ l % w = 0 /\ h \in Nat /\ h % w = 0

LEMMA Lines ==
  ASSUME NEW w, NEW l, NEW h, Grid(w, l, h), NEW j \in Nat
  PROVE  l * j \in Nat /\ (h + l * j) % w = 0
<1>0. w \in {4, 8} /\ l \in Nat /\ h \in Nat
  BY DEF Grid
<1>1. CASE w = 4
  <2>1. l % 4 = 0 /\ h % 4 = 0
    BY <1>1 DEF Grid
  <2>2. PICK x \in Nat : l = 4 * x
    <3>1. l = 4 * (l \div 4) /\ l \div 4 \in Nat
      BY <1>0, <2>1
    <3>. QED  BY <3>1
  <2>3. x * j \in Nat /\ l * j = 4 * (x * j)
    BY <1>0, <2>2
  <2>. DEFINE y == x * j
  <2>. HIDE DEF y
  <2>4. (h + 4 * y) % 4 = 0 /\ 4 * y \in Nat
    BY <1>0, <2>1, <2>3 DEF y
  <2>. QED  BY <1>1, <2>3, <2>4 DEF y
<1>2. CASE w = 8
  <2>1. l % 8 = 0 /\ h % 8 = 0
    BY <1>2 DEF Grid
  <2>2. PICK x \in Nat : l = 8 * x
    <3>1. l = 8 * (l \div 8) /\ l \div 8 \in Nat
      BY <1>0, <2>1
    <3>. QED  BY <3>1
  <2>3. x * j \in Nat /\ l * j = 8 * (x * j)
    BY <1>0, <2>2
  <2>. DEFINE y == x * j
  <2>. HIDE DEF y
  <2>4. (h + 8 * y) % 8 = 0 /\ 8 * y \in Nat
    BY <1>0, <2>1, <2>3 DEF y
  <2>. QED  BY <1>2, <2>3, <2>4 DEF y
<1>. QED  BY <1>0, <1>1, <1>2

\* The words of a request on the side of the flash, and its accesses on that of the memory.
LEMMA QspiWords ==
  ASSUME NEW r, OfQspi(r), NEW log \in 2..15, NEW c, c = QspiShape(r, log), NEW k \in Nat,
         NEW z, z = Chunk(log), NEW t, t = k + z
  PROVE  /\ From(r) => Leads(r, Times(Quarter(log), Op("LD")), Device(r, k, k, 0, z, {c}), Device(r, k, t, 0, 0, {c}))
         /\ ~From(r) => Leads(r, Times(Quarter(log), Op("ST")), Device(r, k, t, 0, z, {c}), Device(r, t, t, 0, 0, {c}))
<1>. DEFINE g == Quarter(log)
            F == [j \in 0..g |-> IF From(r) THEN Device(r, k, k + 4 * j, 0, z - 4 * j, {c})
                                 ELSE Device(r, k + 4 * j, t, 0, z - 4 * j, {c})]
            body == IF From(r) THEN Op("LD") ELSE Op("ST")
<1>1. g \in Nat /\ 4 * g = z /\ z \in Nat /\ t \in Nat
  <2>1. Chunk(log) \in Nat \ {0} /\ g \in Nat /\ 4 * g = Chunk(log)
    BY QspiValues
  <2>. HIDE DEF g
  <2>. QED  BY <2>1
<1>. HIDE DEF g
<1>2. ASSUME NEW j \in 0..(g - 1) PROVE Leads(r, body, F[j], F[j + 1])
  <2>. DEFINE k1 == k + 4 * j
              k2 == k + 4 * (j + 1)
              m1 == z - 4 * j
              x1 == z - 4 * (j + 1)
  <2>1. /\ k1 \in Nat /\ k2 = k1 + 4 /\ k1 + 4 <= t /\ m1 \in Nat /\ x1 \in Nat /\ x1 + 4 <= m1
        /\ j \in 0..g /\ j + 1 \in 0..g
    BY <1>1
  <2>2. /\ F[j] = IF From(r) THEN Device(r, k, k1, 0, m1, {c}) ELSE Device(r, k1, t, 0, m1, {c})
        /\ F[j + 1] = IF From(r) THEN Device(r, k, k2, 0, x1, {c}) ELSE Device(r, k2, t, 0, x1, {c})
    BY <2>1
  <2>. HIDE DEF F, k1, k2, m1, x1
  <2>3. UsedBy(r, 4) = 4
    BY DEF UsedBy, OfQspi
  <2>4. Uses(r, m1, x1, UsedBy(r, 4))
    BY <2>1, <2>3 DEF Uses
  <2>5. From(r) => Loading(r, k, k1, c, 4)
    BY <2>1, QspiAccess
  <2>6. ~From(r) => Storing(r, k1, t, c, 4)
    BY <1>1, <2>1, QspiAccess
  <2>7. k2 = k1 + 4
    BY <2>1
  <2>8. From(r) => Leads(r, Op("LD"), Device(r, k, k1, 0, m1, {c}), Device(r, k, k2, 0, x1, {c}))
    BY <2>4, <2>5, <2>7, DeviceLoad
  <2>9. ~From(r) => Leads(r, Op("ST"), Device(r, k1, t, 0, m1, {c}), Device(r, k2, t, 0, x1, {c}))
    BY <2>4, <2>6, <2>7, DeviceStore
  <2>. QED  BY <2>2, <2>8, <2>9
<1>3. /\ From(r) => F[0] = Device(r, k, k, 0, z, {c}) /\ F[g] = Device(r, k, t, 0, 0, {c})
      /\ ~From(r) => F[0] = Device(r, k, t, 0, z, {c}) /\ F[g] = Device(r, t, t, 0, 0, {c})
      /\ \A j \in 0..g : F[j] \subseteq Sound(r)
  <2>1. 0 \in 0..g /\ g \in 0..g /\ k + 4 * 0 = k /\ z - 4 * 0 = z /\ k + 4 * g = t /\ z - 4 * g = 0
    BY <1>1
  <2>. QED  BY <2>1, StateSound DEF Device
<1>. HIDE DEF F
<1>4. Along(r, g, body, F)
  BY <1>2, <1>3 DEF Along
<1>5. body \in Seq(Instructions)
  BY BodyRows
<1>6. Leads(r, Times(g, body), F[0], F[g])
  BY <1>1, <1>4, <1>5, TimesLeads
<1>. QED  BY <1>3, <1>6 DEF g

LEMMA QspiBurst ==
  ASSUME NEW r, OfQspi(r), NEW log \in 2..15, NEW c, c = QspiShape(r, log), NEW k \in Nat,
         NEW z, z = Chunk(log), NEW t, t = k + z, Spare(r, k, z), (Here(r) + k) % Beat(log) = 0
  PROVE  /\ From(r) => Leads(r, Times(Multiple(log), Op("ST")), Device(r, k, t, 0, 0, {c}), Device(r, t, t, 0, 0, {c}))
         /\ ~From(r) => Leads(r, Times(Multiple(log), Op("LD")), Device(r, k, k, 0, z, {c}), Device(r, k, t, 0, z, {c}))
<1>. DEFINE g == Multiple(log)
            l == Span(log)
            w == Beat(log)
            h == Here(r) + k
            F == [j \in 0..g |-> IF From(r) THEN Device(r, k + l * j, t, 0, 0, {c})
                                 ELSE Device(r, k, k + l * j, 0, z, {c})]
            body == IF From(r) THEN Op("ST") ELSE Op("LD")
<1>1. /\ g \in Nat /\ l \in Nat /\ l * g = z /\ z \in Nat /\ t \in Nat /\ l % w = 0 /\ w \in {4, 8}
      /\ h \in Nat /\ h % w = 0
  <2>. DEFINE p == Chunk(log)
  <2>1. g \in Nat /\ l \in Nat /\ l * g = p /\ p \in Nat \ {0} /\ l % w = 0 /\ w \in {4, 8}
    BY QspiValues
  <2>2. z = p /\ h % w = 0
    OBVIOUS
  <2>3. h \in Nat
    BY DEF Spare
  <2>. HIDE DEF p, g, l, w, h
  <2>. QED  BY <2>1, <2>2, <2>3
<1>. HIDE DEF g, l, w
<1>2. ASSUME NEW j \in 0..(g - 1) PROVE Leads(r, body, F[j], F[j + 1])
  <2>. DEFINE k1 == k + l * j
              k2 == k + l * (j + 1)
              zero == 0
  <2>0. j \in Nat /\ j \in 0..g /\ j + 1 \in 0..g
    BY <1>1
  <2>1. l * j \in Nat /\ l * j + l <= z /\ l * (j + 1) = l * j + l /\ (h + l * j) % w = 0
    <3>1. l * j \in Nat /\ l * j + l <= l * g
      BY <1>1, Multiples
    <3>2. l * (j + 1) = l * j + l
      BY <1>1, <2>0
    <3>. HIDE DEF h
    <3>3. (h + l * j) % w = 0
      <4>. HIDE DEF F, body, k1, k2
      <4>1. w \in {4, 8} /\ l \in Nat /\ l % w = 0 /\ h \in Nat /\ h % w = 0 /\ j \in Nat
        BY <1>1, <2>0
      <4>2. Grid(w, l, h)
        BY <4>1 DEF Grid
      <4>. QED  BY <4>1, <4>2, Lines
    <3>. QED  BY <1>1, <3>1, <3>2, <3>3
  <2>2. k1 \in Nat /\ k2 = k1 + l /\ k1 + l <= t /\ h + l * j = Here(r) + k1 /\ k1 + l <= k + z
    <3>. DEFINE y == l * j
    <3>1. y \in Nat /\ y + l <= z /\ k1 = k + y /\ k2 = k + (y + l)
      BY <2>1
    <3>. HIDE DEF y, k1, k2
    <3>2. k1 \in Nat /\ k2 = k1 + l /\ k1 + l <= t /\ k1 + l <= k + z /\ h + y = Here(r) + k1
      BY <1>1, <3>1 DEF Spare
    <3>. QED  BY <3>2 DEF y
  <2>3. /\ F[j] = IF From(r) THEN Device(r, k1, t, 0, 0, {c}) ELSE Device(r, k, k1, 0, z, {c})
        /\ F[j + 1] = IF From(r) THEN Device(r, k2, t, 0, 0, {c}) ELSE Device(r, k, k2, 0, z, {c})
    BY <2>0
  <2>4. (Here(r) + k1) % w = 0
    <3>. HIDE DEF h, k1
    <3>. QED  BY <2>1, <2>2
  <2>. HIDE DEF F, k1, k2
  <2>5. Spare(r, k1, l)
    BY <1>1, <2>2, SpareLess
  <2>. HIDE DEF zero
  <2>6. From(r) => Storing(r, k1, t, c, l)
    BY <1>1, <2>2, <2>4, <2>5, QspiAccess DEF l, w
  <2>7. ~From(r) => Loading(r, k, k1, c, l)
    BY <1>1, <2>2, <2>4, <2>5, QspiAccess DEF l, w
  <2>8. From(r) => Leads(r, Op("ST"), Device(r, k1, t, 0, zero, {c}), Device(r, k2, t, 0, zero, {c}))
    BY <2>2, <2>6, DeviceStore
  <2>9. ~From(r) => Leads(r, Op("LD"), Device(r, k, k1, 0, z, {c}), Device(r, k, k2, 0, z, {c}))
    BY <2>2, <2>7, DeviceLoad
  <2>. QED  BY <2>3, <2>8, <2>9 DEF zero
<1>3. /\ From(r) => F[0] = Device(r, k, t, 0, 0, {c}) /\ F[g] = Device(r, t, t, 0, 0, {c})
      /\ ~From(r) => F[0] = Device(r, k, k, 0, z, {c}) /\ F[g] = Device(r, k, t, 0, z, {c})
      /\ \A j \in 0..g : F[j] \subseteq Sound(r)
  <2>1. 0 \in 0..g /\ g \in 0..g /\ k + l * 0 = k /\ k + l * g = t
    BY <1>1
  <2>. DEFINE G(j) == IF From(r) THEN Device(r, k + l * j, t, 0, 0, {c}) ELSE Device(r, k, k + l * j, 0, z, {c})
  <2>2. \A j \in 0..g : F[j] = G(j)
    OBVIOUS
  <2>3. \A j : G(j) \subseteq Sound(r)
    BY StateSound DEF Device
  <2>4. F[0] = G(0) /\ F[g] = G(g)
    BY <2>1, <2>2
  <2>5. /\ From(r) => G(0) = Device(r, k, t, 0, 0, {c}) /\ G(g) = Device(r, t, t, 0, 0, {c})
        /\ ~From(r) => G(0) = Device(r, k, k, 0, z, {c}) /\ G(g) = Device(r, k, t, 0, z, {c})
    BY <2>1
  <2>. HIDE DEF F, G
  <2>. QED  BY <2>2, <2>3, <2>4, <2>5
<1>. HIDE DEF F
<1>4. Along(r, g, body, F)
  BY <1>2, <1>3 DEF Along
<1>5. body \in Seq(Instructions)
  BY BodyRows
<1>6. Leads(r, Times(g, body), F[0], F[g])
  BY <1>1, <1>4, <1>5, TimesLeads
<1>. QED  BY <1>3, <1>6 DEF g

\* What is waited for, and the round of a block.
Exponent(r, burst) == IF burst THEN r.per.burst ELSE r.per.single
SendRound(log, burst) ==
  Wfp("tx", burst) \o Times(Multiple(log), Op("LD")) \o Times(Quarter(log), Op("ST"))
ReceiveRound(log, burst) ==
  Wfp("rx", burst) \o Times(Quarter(log), Op("LD")) \o Times(Multiple(log), Op("ST"))
QspiRound(r, log, burst) == IF From(r) THEN ReceiveRound(log, burst) ELSE SendRound(log, burst)

LEMMA QspiRoundLeads ==
  ASSUME NEW r, OfQspi(r), NEW burst \in BOOLEAN, NEW log \in 2..15, log = Exponent(r, burst),
         NEW c, c = QspiShape(r, log), NEW k \in Nat,
         NEW z, z = Chunk(log), NEW t, t = k + z, Spare(r, k, z), (Here(r) + k) % Beat(log) = 0
  PROVE  Leads(r, QspiRound(r, log, burst), Going(r, k, 0, {c}), Going(r, t, 0, {c}))
<1>1. z \in Nat /\ z <= z
  <2>1. z \in Nat \ {0}
    BY QspiValues, Zenon
  <2>. QED  BY <2>1
<1>2. \A dir : Granted(r, dir, burst) = z
  <2>1. CASE burst
    BY <2>1 DEF Granted, Exponent, OfQspi, Chunk
  <2>2. CASE ~burst
    BY <2>2 DEF Granted, Exponent, OfQspi, Chunk
  <2>. QED  BY <2>1, <2>2
<1>3. "tx" \in {"tx", "rx"} /\ "rx" \in {"tx", "rx"}
  OBVIOUS
<1>4. /\ Leads(r, Wfp("tx", burst), Going(r, k, 0, {c}), Device(r, k, k, 0, z, {c}))
      /\ Leads(r, Wfp("rx", burst), Going(r, k, 0, {c}), Device(r, k, k, 0, z, {c}))
  BY <1>1, <1>2, <1>3, GrantLeads
<1>5. Device(r, t, t, 0, 0, {c}) \subseteq Going(r, t, 0, {c})
  BY DeviceGoing
<1>6. CASE From(r)
  <2>1. Leads(r, Times(Quarter(log), Op("LD")), Device(r, k, k, 0, z, {c}), Device(r, k, t, 0, 0, {c}))
    BY <1>6, QspiWords
  <2>2. Leads(r, Times(Multiple(log), Op("ST")), Device(r, k, t, 0, 0, {c}), Device(r, t, t, 0, 0, {c}))
    BY <1>6, QspiBurst
  <2>3. Leads(r, Wfp("rx", burst) \o Times(Quarter(log), Op("LD")), Going(r, k, 0, {c}), Device(r, k, t, 0, 0, {c}))
    BY <1>4, <2>1, JoinLeads
  <2>4. Leads(r, ReceiveRound(log, burst), Going(r, k, 0, {c}), Device(r, t, t, 0, 0, {c}))
    BY <2>2, <2>3, JoinLeads DEF ReceiveRound
  <2>5. QspiRound(r, log, burst) = ReceiveRound(log, burst)
    BY <1>6 DEF QspiRound
  <2>6. \A x : Leads(r, x, Going(r, k, 0, {c}), Device(r, t, t, 0, 0, {c})) =>
                Leads(r, x, Going(r, k, 0, {c}), Going(r, t, 0, {c}))
    BY <1>5, LeadsWeaker, ZenonT(30)
  <2>. QED  BY <2>4, <2>5, <2>6, Zenon
<1>7. CASE ~From(r)
  <2>1. Leads(r, Times(Multiple(log), Op("LD")), Device(r, k, k, 0, z, {c}), Device(r, k, t, 0, z, {c}))
    BY <1>7, QspiBurst
  <2>2. Leads(r, Times(Quarter(log), Op("ST")), Device(r, k, t, 0, z, {c}), Device(r, t, t, 0, 0, {c}))
    BY <1>7, QspiWords
  <2>3. Leads(r, Wfp("tx", burst) \o Times(Multiple(log), Op("LD")), Going(r, k, 0, {c}), Device(r, k, t, 0, z, {c}))
    BY <1>4, <2>1, JoinLeads
  <2>4. Leads(r, SendRound(log, burst), Going(r, k, 0, {c}), Device(r, t, t, 0, 0, {c}))
    BY <2>2, <2>3, JoinLeads DEF SendRound
  <2>5. QspiRound(r, log, burst) = SendRound(log, burst)
    BY <1>7 DEF QspiRound
  <2>6. \A x : Leads(r, x, Going(r, k, 0, {c}), Device(r, t, t, 0, 0, {c})) =>
                Leads(r, x, Going(r, k, 0, {c}), Going(r, t, 0, {c}))
    BY <1>5, LeadsWeaker, ZenonT(30)
  <2>. QED  BY <2>4, <2>5, <2>6, Zenon
<1>. QED  BY <1>6, <1>7

\* A block of requests.
QspiBlock(r, log, burst, n) ==
  IF From(r) THEN QspiReceiveBlock(log, burst, n) ELSE QspiSendBlock(log, burst, n)

LEMMA QspiBlockParts ==
  ASSUME NEW r, NEW log, NEW burst, NEW n
  PROVE  QspiBlock(r, log, burst, n) =
           IF From(r)
           THEN Ccr(4, 1, FALSE, Beat(log), Least(Beats(log), 16), TRUE) \o Nested(n, QspiRound(r, log, burst))
           ELSE Ccr(Beat(log), Least(Beats(log), 16), TRUE, 4, 1, FALSE) \o Repeat(n, QspiRound(r, log, burst))
BY DEF QspiBlock, QspiReceiveBlock, QspiSendBlock, QspiRound, ReceiveRound, SendRound, Quarter

LEMMA QspiRoundRow ==
  ASSUME NEW r, NEW log \in 0..15, NEW burst \in BOOLEAN
  PROVE  QspiRound(r, log, burst) \in Seq(Instructions)
<1>. DEFINE A == Wfp("tx", burst)
            B == Times(Multiple(log), Op("LD"))
            C == Times(Quarter(log), Op("ST"))
            D == Wfp("rx", burst)
            E == Times(Quarter(log), Op("LD"))
            G == Times(Multiple(log), Op("ST"))
<1>1. Quarter(log) \in Int /\ Multiple(log) \in Int
  BY QspiBeats, Powers DEF Quarter
<1>2. /\ A \in Seq(Instructions) /\ B \in Seq(Instructions) /\ C \in Seq(Instructions)
      /\ D \in Seq(Instructions) /\ E \in Seq(Instructions) /\ G \in Seq(Instructions)
  BY <1>1, BodyRows
<1>3. QspiRound(r, log, burst) = IF From(r) THEN D \o E \o G ELSE A \o B \o C
  BY DEF QspiRound, ReceiveRound, SendRound
<1>. HIDE DEF A, B, C, D, E, G
<1>. QED  BY <1>2, <1>3, BodyRows

LEMMA QspiShapes ==
  ASSUME NEW r, NEW log \in 0..15
  PROVE  /\ QspiShape(r, log) \in Ccrs
         /\ \A k : From(r) => Leads(r, Ccr(4, 1, FALSE, Beat(log), Least(Beats(log), 16), TRUE),
                                    Going(r, k, 0, Ccrs), Going(r, k, 0, {QspiShape(r, log)}))
         /\ \A k : ~From(r) => Leads(r, Ccr(Beat(log), Least(Beats(log), 16), TRUE, 4, 1, FALSE),
                                     Going(r, k, 0, Ccrs), Going(r, k, 0, {QspiShape(r, log)}))
<1>. DEFINE w == Beat(log)
            s == Least(Beats(log), 16)
<1>1. w \in {1, 2, 4, 8} /\ s \in 1..16 /\ 4 \in {1, 2, 4, 8} /\ 1 \in 1..16
  BY QspiBeats
<1>2. QspiShape(r, log) = IF From(r) THEN Shape(4, 1, FALSE, w, s, TRUE) ELSE Shape(w, s, TRUE, 4, 1, FALSE)
  BY DEF QspiShape
<1>. HIDE DEF w, s
<1>3. Shape(4, 1, FALSE, w, s, TRUE) \in Ccrs /\ Shape(w, s, TRUE, 4, 1, FALSE) \in Ccrs
  BY <1>1 DEF Shape, Ccrs
<1>4. \A k : /\ Leads(r, Ccr(4, 1, FALSE, w, s, TRUE), Going(r, k, 0, Ccrs), Going(r, k, 0, {Shape(4, 1, FALSE, w, s, TRUE)}))
             /\ Leads(r, Ccr(w, s, TRUE, 4, 1, FALSE), Going(r, k, 0, Ccrs), Going(r, k, 0, {Shape(w, s, TRUE, 4, 1, FALSE)}))
  BY <1>3, GoingSet
<1>5. CASE From(r)
  <2>1. QspiShape(r, log) = Shape(4, 1, FALSE, w, s, TRUE)
    BY <1>2, <1>5
  <2>. QED  BY <1>3, <1>4, <1>5, <2>1, Zenon DEF w, s
<1>6. CASE ~From(r)
  <2>1. QspiShape(r, log) = Shape(w, s, TRUE, 4, 1, FALSE)
    BY <1>2, <1>6
  <2>. QED  BY <1>3, <1>4, <1>6, <2>1, Zenon DEF w, s
<1>. QED  BY <1>5, <1>6

LEMMA QspiBlockLeads ==
  ASSUME NEW r, OfQspi(r), NEW burst \in BOOLEAN, NEW log \in 2..15, log = Exponent(r, burst),
         NEW k \in Nat, NEW q \in Nat, NEW z, z = Chunk(log), Spare(r, k, z * q),
         (Here(r) + k) % Beat(log) = 0
  PROVE  Leads(r, QspiBlock(r, log, burst, q), Going(r, k, 0, Ccrs), Going(r, k + z * q, 0, Ccrs))
<1>. DEFINE c == QspiShape(r, log)
            body == QspiRound(r, log, burst)
            w == Beat(log)
            h == Here(r) + k
<1>1. z \in Nat /\ w \in {4, 8} /\ z % w = 0 /\ log \in 0..15
  <2>1. z \in Nat \ {0} /\ w \in {4, 8} /\ (log >= 3 => z % 8 = 0) /\ (log = 2 => w = 4 /\ z = 4)
    BY QspiValues
  <2>. HIDE DEF w
  <2>. QED  BY <2>1
<1>2. h \in Nat /\ h % w = 0
  BY DEF Spare
<1>3. Grid(w, z, h)
  BY <1>1, <1>2 DEF Grid
<1>4. ASSUME NEW j \in 0..(q - 1)
      PROVE  Leads(r, body, Going(r, k + z * j, 0, {c}), Going(r, k + z * j + z, 0, {c}))
  <2>. DEFINE y == z * j
              k1 == k + y
              v == z * q
  <2>1. y \in Nat /\ y + z <= v /\ v \in Nat /\ j \in Nat
    BY <1>1, Multiples
  <2>2. (h + y) % w = 0
    <3>. HIDE DEF h, w
    <3>. QED  BY <1>3, <2>1, Lines
  <2>. HIDE DEF y, v
  <2>3. k1 \in Nat /\ k1 + z <= k + v /\ h + y = Here(r) + k1 /\ v \in Nat
    <3>1. Here(r) \in Nat
      BY DEF Spare
    <3>. QED  BY <1>1, <2>1, <3>1
  <2>4. (Here(r) + k1) % w = 0
    <3>. HIDE DEF h, k1, w
    <3>. QED  BY <2>2, <2>3
  <2>. HIDE DEF k1, c, h
  <2>5. Spare(r, k1, z)
    BY <1>1, <2>3, SpareLess DEF v
  <2>6. Leads(r, QspiRound(r, log, burst), Going(r, k1, 0, {c}), Going(r, k1 + z, 0, {c}))
    BY <2>3, <2>4, <2>5, QspiRoundLeads DEF c, w
  <2>. QED  BY <2>6 DEF k1, y
<1>5. Steady(r, body, 0, c, k, z, q)
  <2>1. body \in Seq(Instructions)
    BY <1>1, QspiRoundRow
  <2>. HIDE DEF body, c
  <2>. QED  BY <1>1, <1>4, <2>1 DEF Steady
<1>. HIDE DEF c, body
<1>6. /\ Leads(r, Repeat(q, body), Going(r, k, 0, {c}), Going(r, k + z * q, 0, {c}))
      /\ Leads(r, Nested(q, body), Going(r, k, 0, {c}), Going(r, k + z * q, 0, {c}))
  BY <1>5, SteadyLeads
<1>7. Going(r, k + z * q, 0, {c}) \subseteq Going(r, k + z * q, 0, Ccrs)
  BY GoingStays
<1>8. CASE From(r)
  <2>. DEFINE first == Ccr(4, 1, FALSE, Beat(log), Least(Beats(log), 16), TRUE)
  <2>1. Leads(r, first, Going(r, k, 0, Ccrs), Going(r, k, 0, {c}))
    BY <1>1, <1>8, QspiShapes DEF c
  <2>2. QspiBlock(r, log, burst, q) = first \o Nested(q, body)
    BY <1>8, QspiBlockParts DEF body
  <2>. HIDE DEF first
  <2>3. Leads(r, first \o Nested(q, body), Going(r, k, 0, Ccrs), Going(r, k + z * q, 0, {c}))
    BY <1>6, <2>1, JoinLeads
  <2>4. Leads(r, first \o Nested(q, body), Going(r, k, 0, Ccrs), Going(r, k + z * q, 0, Ccrs))
    BY <1>7, <2>3, LeadsWeaker
  <2>. QED  BY <2>2, <2>4
<1>9. CASE ~From(r)
  <2>. DEFINE first == Ccr(Beat(log), Least(Beats(log), 16), TRUE, 4, 1, FALSE)
  <2>1. Leads(r, first, Going(r, k, 0, Ccrs), Going(r, k, 0, {c}))
    BY <1>1, <1>9, QspiShapes DEF c
  <2>2. QspiBlock(r, log, burst, q) = first \o Repeat(q, body)
    BY <1>9, QspiBlockParts DEF body
  <2>. HIDE DEF first
  <2>3. Leads(r, first \o Repeat(q, body), Going(r, k, 0, Ccrs), Going(r, k + z * q, 0, {c}))
    BY <1>6, <2>1, JoinLeads
  <2>4. Leads(r, first \o Repeat(q, body), Going(r, k, 0, Ccrs), Going(r, k + z * q, 0, Ccrs))
    BY <1>7, <2>3, LeadsWeaker
  <2>. QED  BY <2>2, <2>4
<1>. QED  BY <1>8, <1>9

\* Requests of less than a word.
LEMMA SmallValues ==
  ASSUME NEW log \in 0..1
  PROVE  /\ Beat(log) \in {1, 2} /\ Least(Beats(log), 16) = 1 /\ Multiple(log) = 1 /\ Quarter(log) = 0
         /\ Chunk(log) = Beat(log)
<1>1. 2 ^ 0 = 1 /\ 2 ^ 1 = 2
  BY SMT
<1>2. Least(3, log) = log
  BY DEF Least
<1>3. CASE log = 0
  <2>1. Beat(log) = 1 /\ Chunk(log) = 1
    BY <1>1, <1>2, <1>3 DEF Beat, Chunk
  <2>2. Beats(log) = 1 /\ Quarter(log) = 0
    BY <1>1, <1>3, <2>1 DEF Beats, Quarter
  <2>. QED  BY <2>1, <2>2 DEF Least, Multiple
<1>4. CASE log = 1
  <2>1. Beat(log) = 2 /\ Chunk(log) = 2
    BY <1>1, <1>2, <1>4 DEF Beat, Chunk
  <2>2. Beats(log) = 1 /\ Quarter(log) = 0
    BY <1>1, <1>4, <2>1 DEF Beats, Quarter
  <2>. QED  BY <2>1, <2>2 DEF Least, Multiple
<1>. QED  BY <1>3, <1>4

LEMMA OnceLeads ==
  ASSUME NEW r, NEW p \in Seq(Instructions), NEW P \in SUBSET Sound(r), NEW Q \in SUBSET Sound(r), Leads(r, p, P, Q)
  PROVE  Leads(r, Times(1, p), P, Q)
<1>. DEFINE F == [j \in 0..1 |-> IF j = 0 THEN P ELSE Q]
            n == 1
<1>1. F[0] = P /\ F[1] = Q /\ n \in Nat /\ n = 1
  OBVIOUS
<1>2. \A j \in 0..n : F[j] \subseteq Sound(r)
  OBVIOUS
<1>3. \A j \in 0..(n - 1) : j = 0 /\ j + 1 = 1
  OBVIOUS
<1>. HIDE DEF F, n
<1>4. Along(r, n, p, F)
  BY <1>1, <1>2, <1>3 DEF Along
<1>5. Leads(r, Times(n, p), F[0], F[n])
  BY <1>1, <1>4, TimesLeads
<1>. QED  BY <1>1, <1>5

LEMMA NeverLeads ==
  ASSUME NEW r, NEW p \in Seq(Instructions), NEW P \in SUBSET Sound(r)
  PROVE  Leads(r, Times(0, p), P, P)
<1>. DEFINE F == [j \in {0} |-> P]
            n == 0
<1>1. F[0] = P /\ n \in Nat /\ n = 0 /\ (\A j \in 0..n : j = 0) /\ 0..(n - 1) = {}
  OBVIOUS
<1>. HIDE DEF F, n
<1>2. Along(r, n, p, F)
  BY <1>1 DEF Along
<1>3. Leads(r, Times(n, p), F[0], F[n])
  BY <1>1, <1>2, TimesLeads
<1>. QED  BY <1>1, <1>3

\* Such a round stores nothing of what it loads from memory ...
LEMMA SmallSendRound ==
  ASSUME NEW r, OfQspi(r), ~From(r), NEW burst \in BOOLEAN, NEW log \in 0..1, NEW c, c = QspiShape(r, log),
         NEW k \in Nat, NEW t \in Nat, NEW z, z = Chunk(log), Spare(r, t, z), (Here(r) + t) % z = 0
  PROVE  Leads(r, SendRound(log, burst), Device(r, k, t, 0, 0, {c}), Device(r, k, t + z, 0, 0, {c}))
<1>. DEFINE w == Beat(log)
            t2 == t + z
            zero == 0
<1>1. w \in {1, 2} /\ Least(Beats(log), 16) = 1 /\ Multiple(log) = 1 /\ Quarter(log) = 0 /\ z = w
  BY SmallValues
<1>2. c = Shape(w, 1, TRUE, 4, 1, FALSE)
  BY <1>1 DEF QspiShape
<1>3. c \in Ccrs /\ c.si /\ c.ss = w /\ c.sb = 1
  <2>. HIDE DEF w
  <2>1. w \in {1, 2, 4, 8} /\ 4 \in {1, 2, 4, 8} /\ 1 \in 1..16
    BY <1>1
  <2>. QED  BY <1>2, <2>1 DEF Shape, Ccrs
<1>4. Loading(r, k, t, c, z)
  <2>. HIDE DEF w
  <2>1. (r.src + t) % w = 0 /\ z \in Nat
    BY <1>1 DEF Here
  <2>2. LoadIs(c, r.src + t, z)
    BY <1>1, <1>3, <2>1 DEF LoadIs
  <2>. QED  BY <1>3, <2>1, <2>2 DEF Loading
<1>5. Leads(r, Wfp("tx", burst), Device(r, k, t, 0, 0, {c}), Device(r, k, t, 0, 0, {c}))
  <2>1. Granted(r, "tx", burst) \in Nat
    <3>1. \A x \in 0..15 : 2 ^ x \in Nat
      BY Powers
    <3>2. Granted(r, "tx", burst) = 2 ^ Exponent(r, burst)
      BY DEF Granted, OfQspi, Exponent
    <3>3. Exponent(r, burst) \in 0..15
      BY DEF Exponent, OfQspi
    <3>. QED  BY <3>1, <3>2, <3>3, Zenon
  <2>2. zero \in Nat /\ zero <= Granted(r, "tx", burst) /\ "tx" \in {"tx", "rx"}
    BY <2>1
  <2>. HIDE DEF zero
  <2>3. \A S, D : Leads(r, Wfp("tx", burst), State(r, k, t, 0, 0, S, D, {c}), State(r, k, t, 0, zero, S, D, {c}))
    BY <2>1, <2>2, WfpLeads
  <2>. QED  BY <2>3 DEF Device, zero
<1>6. Leads(r, Times(Multiple(log), Op("LD")), Device(r, k, t, 0, 0, {c}), Device(r, k, t2, 0, 0, {c}))
  <2>1. t2 = t + z /\ zero = zero
    OBVIOUS
  <2>. HIDE DEF t2, zero
  <2>2. Leads(r, Op("LD"), Device(r, k, t, 0, zero, {c}), Device(r, k, t2, 0, zero, {c}))
    BY <1>4, <2>1, DeviceLoad
  <2>3. /\ Device(r, k, t, 0, zero, {c}) \in SUBSET Sound(r)
        /\ Device(r, k, t2, 0, zero, {c}) \in SUBSET Sound(r)
    BY StateSound DEF Device
  <2>4. Leads(r, Times(1, Op("LD")), Device(r, k, t, 0, zero, {c}), Device(r, k, t2, 0, zero, {c}))
    BY <2>2, <2>3, BodyRows, OnceLeads
  <2>. QED  BY <1>1, <2>4 DEF zero
<1>7. Leads(r, Times(Quarter(log), Op("ST")), Device(r, k, t2, 0, 0, {c}), Device(r, k, t2, 0, 0, {c}))
  <2>. HIDE DEF t2
  <2>1. Device(r, k, t2, 0, 0, {c}) \in SUBSET Sound(r)
    BY StateSound DEF Device
  <2>2. Leads(r, Times(0, Op("ST")), Device(r, k, t2, 0, 0, {c}), Device(r, k, t2, 0, 0, {c}))
    BY <2>1, BodyRows, NeverLeads
  <2>. QED  BY <1>1, <2>2
<1>. HIDE DEF t2
<1>8. Leads(r, Wfp("tx", burst) \o Times(Multiple(log), Op("LD")),
            Device(r, k, t, 0, 0, {c}), Device(r, k, t2, 0, 0, {c}))
  BY <1>5, <1>6, JoinLeads
<1>9. Leads(r, SendRound(log, burst), Device(r, k, t, 0, 0, {c}), Device(r, k, t2, 0, 0, {c}))
  BY <1>7, <1>8, JoinLeads DEF SendRound
<1>. QED  BY <1>9 DEF t2

\* ... and waits for good for what it never loads from the device.
LEMMA SmallReceiveRound ==
  ASSUME NEW r, OfQspi(r), From(r), QspiMisfit(r), NEW burst \in BOOLEAN, NEW log \in 0..1,
         NEW c, c = QspiShape(r, log), NEW k \in Nat
  PROVE  Leads(r, ReceiveRound(log, burst), Going(r, k, 0, {c}), {})
<1>. DEFINE w == Beat(log)
            P == Device(r, k, k, 0, 0, {c})
            zero == 0
<1>1. w \in {1, 2} /\ Least(Beats(log), 16) = 1 /\ Multiple(log) = 1 /\ Quarter(log) = 0
  BY SmallValues
<1>2. c = Shape(4, 1, FALSE, w, 1, TRUE)
  BY <1>1 DEF QspiShape
<1>3. c.di /\ c.ds = w /\ c.db = 1
  <2>. HIDE DEF w
  <2>. QED  BY <1>2 DEF Shape
<1>4. Leads(r, Wfp("rx", burst), Going(r, k, 0, {c}), P)
  <2>1. Granted(r, "rx", burst) \in Nat
    <3>1. \A x \in 0..15 : 2 ^ x \in Nat
      BY Powers
    <3>2. Granted(r, "rx", burst) = 2 ^ Exponent(r, burst)
      BY DEF Granted, OfQspi, Exponent
    <3>3. Exponent(r, burst) \in 0..15
      BY DEF Exponent, OfQspi
    <3>. QED  BY <3>1, <3>2, <3>3, Zenon
  <2>2. zero \in Nat /\ zero <= Granted(r, "rx", burst) /\ "rx" \in {"tx", "rx"}
    BY <2>1
  <2>. HIDE DEF zero
  <2>3. Leads(r, Wfp("rx", burst), Going(r, k, 0, {c}), Device(r, k, k, 0, zero, {c}))
    BY <2>1, <2>2, GrantLeads
  <2>. QED  BY <2>3 DEF zero
<1>5. P \in SUBSET Sound(r)
  BY StateSound DEF Device
<1>6. Leads(r, Times(Quarter(log), Op("LD")), P, P)
  <2>. HIDE DEF P
  <2>1. Leads(r, Times(0, Op("LD")), P, P)
    BY <1>5, BodyRows, NeverLeads
  <2>. QED  BY <1>1, <2>1
<1>7. Leads(r, Op("ST"), P, {})
  <2>1. ASSUME NEW d \in P PROVE ~(StoreOf(d) <= Len(d.fifo))
    <3>1. d \in Raw /\ d.ccr = c /\ k + Len(d.fifo) = k
      BY <2>1 DEF Device, State, Sound
    <3>2. d.fifo \in Seq(Int) /\ d.dar \in Int
      BY <3>1 DEF Raw
    <3>3. Len(d.fifo) = 0
      BY <3>1, <3>2
    <3>4. StoreOf(d) = w - (d.dar % w)
      <4>. HIDE DEF w
      <4>1. w * 1 = w
        BY <1>1
      <4>. QED  BY <1>3, <3>1, <4>1 DEF StoreOf
    <3>5. d.dar % w < w /\ d.dar % w \in Int
      <4>. HIDE DEF w
      <4>. QED  BY <1>1, <3>2
    <3>. HIDE DEF w
    <3>. QED  BY <1>1, <3>3, <3>4, <3>5
  <2>. DEFINE i == [op |-> "ST"]
  <2>2. i \in Instructions /\ i.op = "ST" /\ i.op \notin Loops \cup Waits
    BY DEF Instructions, Copies, Loops, Waits
  <2>. HIDE DEF i, P
  <2>3. \A d \in P : /\ i.op = "ST" => StoreOf(d) <= Len(d.fifo) \/ QspiMisfit(r)
                     /\ Able(i, d) => Result(r, i, d) \in {}
    BY <2>1, <2>2 DEF Able
  <2>4. {} \in SUBSET Sound(r)
    OBVIOUS
  <2>5. Leads(r, <<i>>, P, {})
    BY <1>5, <2>2, <2>3, <2>4, StepLeads
  <2>. QED  BY <2>5 DEF i, Op
<1>8. Leads(r, Times(Multiple(log), Op("ST")), P, {})
  <2>. HIDE DEF P
  <2>1. Leads(r, Times(1, Op("ST")), P, {})
    BY <1>5, <1>7, BodyRows, OnceLeads
  <2>. QED  BY <1>1, <2>1
<1>. HIDE DEF P
<1>9. Leads(r, Wfp("rx", burst) \o Times(Quarter(log), Op("LD")), Going(r, k, 0, {c}), P)
  BY <1>4, <1>6, JoinLeads
<1>. QED  BY <1>8, <1>9, JoinLeads DEF ReceiveRound

\* The data after the last piece: k bytes are stored.
Settling(r, k) == {d \in Sound(r) : d.done = k /\ ~d.signalled}

LEMMA DeviceSettles ==
  ASSUME NEW r, NEW k, NEW t, NEW a, NEW m, NEW C
  PROVE  Device(r, k, t, a, m, C) \subseteq Settling(r, k)
BY DEF Device, State, Settling

\* Rounds that load t bytes each of what is never stored.
LEMMA SmallSendBlock ==
  ASSUME NEW r, OfQspi(r), ~From(r), NEW burst \in BOOLEAN, NEW log \in 0..1,
         NEW k \in Nat, NEW q \in Nat, NEW z, z = Chunk(log), Spare(r, k, z * q),
         (Here(r) + k) % 4 = 0
  PROVE  Leads(r, QspiBlock(r, log, burst, q), Going(r, k, 0, Ccrs), Settling(r, k))
<1>. DEFINE c == QspiShape(r, log)
            body == QspiRound(r, log, burst)
            h == Here(r) + k
            F == [j \in 0..q |-> Device(r, k, k + z * j, 0, 0, {c})]
            first == Ccr(Beat(log), Least(Beats(log), 16), TRUE, 4, 1, FALSE)
<1>1. z \in {1, 2} /\ log \in 0..15
  BY SmallValues
<1>2. h \in Nat /\ h % 4 = 0
  BY DEF Spare
<1>3. \A j \in 0..q : F[j] \subseteq Sound(r)
  BY StateSound DEF Device
<1>4. ASSUME NEW j \in 0..(q - 1)
      PROVE  Leads(r, body, F[j], F[j + 1])
  <2>. DEFINE y == z * j
              t == k + y
              v == z * q
              t2 == t + z
  <2>1. y \in Nat /\ y + z <= v /\ v \in Nat /\ j \in Nat /\ z * (j + 1) = y + z /\ (h + y) % z = 0
    <3>. HIDE DEF h
    <3>1. CASE z = 1
      BY <1>2, <3>1
    <3>2. CASE z = 2
      BY <1>2, <3>2
    <3>. QED  BY <1>1, <3>1, <3>2
  <2>. HIDE DEF y, v
  <2>2. t \in Nat /\ t + z <= k + v /\ h + y = Here(r) + t /\ t2 = k + z * (j + 1)
    <3>1. Here(r) \in Nat /\ z \in Nat
      BY <1>1 DEF Spare
    <3>. DEFINE x == z * (j + 1)
    <3>2. x = y + z
      BY <2>1
    <3>. HIDE DEF F, c, body, x
    <3>3. t2 = k + x /\ t \in Nat /\ t + z <= k + v /\ h + y = Here(r) + t
      BY <2>1, <3>1, <3>2
    <3>. QED  BY <3>3 DEF x
  <2>3. (Here(r) + t) % z = 0
    <3>. HIDE DEF h, t
    <3>. QED  BY <2>1, <2>2
  <2>4. F[j] = Device(r, k, t, 0, 0, {c}) /\ F[j + 1] = Device(r, k, t2, 0, 0, {c})
    <3>1. j \in 0..q /\ j + 1 \in 0..q
      OBVIOUS
    <3>2. F[j] = Device(r, k, k + z * j, 0, 0, {c}) /\ F[j + 1] = Device(r, k, k + z * (j + 1), 0, 0, {c})
      BY <3>1
    <3>. HIDE DEF F, c
    <3>. QED  BY <2>2, <3>2 DEF y
  <2>5. Spare(r, t, z)
    <3>. HIDE DEF t
    <3>. QED  BY <1>1, <2>2, SpareLess DEF v
  <2>. HIDE DEF F, c, h, t, t2
  <2>6. Leads(r, SendRound(log, burst), Device(r, k, t, 0, 0, {c}), Device(r, k, t + z, 0, 0, {c}))
    BY <2>2, <2>3, <2>5, SmallSendRound DEF c
  <2>7. body = SendRound(log, burst)
    BY DEF QspiRound
  <2>. HIDE DEF body
  <2>. QED  BY <2>4, <2>6, <2>7 DEF t2
<1>5. F[0] = Going(r, k, 0, {c}) /\ F[q] \subseteq Settling(r, k)
  <2>1. k + z * 0 = k
    BY <1>1
  <2>2. F[0] = Device(r, k, k, 0, 0, {c}) /\ F[q] = Device(r, k, k + z * q, 0, 0, {c})
    BY <2>1
  <2>3. Device(r, k, k, 0, 0, {c}) = Going(r, k, 0, {c})
    BY DEF Device, Going
  <2>. HIDE DEF F, c
  <2>. QED  BY <2>2, <2>3, DeviceSettles
<1>6. body \in Seq(Instructions)
  BY <1>1, QspiRoundRow
<1>7. Leads(r, first, Going(r, k, 0, Ccrs), Going(r, k, 0, {c}))
  BY <1>1, QspiShapes
<1>8. QspiBlock(r, log, burst, q) = first \o Repeat(q, body)
  BY QspiBlockParts
<1>. HIDE DEF F, c, body, first
<1>9. Along(r, q, body, F)
  BY <1>3, <1>4 DEF Along
<1>10. Leads(r, Repeat(q, body), Going(r, k, 0, {c}), F[q])
  BY <1>5, <1>6, <1>9, RepeatLeads
<1>11. Leads(r, first \o Repeat(q, body), Going(r, k, 0, Ccrs), F[q])
  BY <1>7, <1>10, JoinLeads
<1>12. Leads(r, first \o Repeat(q, body), Going(r, k, 0, Ccrs), Settling(r, k))
  BY <1>5, <1>11, LeadsWeaker
<1>. QED  BY <1>8, <1>12

LEMMA SmallReceiveBlock ==
  ASSUME NEW r, OfQspi(r), From(r), QspiMisfit(r), NEW burst \in BOOLEAN, NEW log \in 0..1,
         NEW k \in Nat, NEW q \in Nat \ {0}
  PROVE  Leads(r, QspiBlock(r, log, burst, q), Going(r, k, 0, Ccrs), Settling(r, k))
<1>. DEFINE c == QspiShape(r, log)
            body == QspiRound(r, log, burst)
            G == Going(r, k, 0, {c})
            F == [j \in 0..q |-> IF j = 0 THEN G ELSE {}]
            first == Ccr(4, 1, FALSE, Beat(log), Least(Beats(log), 16), TRUE)
<1>1. log \in 0..15
  OBVIOUS
<1>2. G \subseteq Sound(r)
  BY GoingStays
<1>3. Leads(r, body, G, {})
  <2>1. body = ReceiveRound(log, burst)
    BY DEF QspiRound
  <2>. QED  BY <2>1, SmallReceiveRound
<1>6. body \in Seq(Instructions)
  BY <1>1, QspiRoundRow
<1>7. Leads(r, first, Going(r, k, 0, Ccrs), G)
  BY <1>1, QspiShapes
<1>8. QspiBlock(r, log, burst, q) = first \o Nested(q, body)
  BY QspiBlockParts
<1>. HIDE DEF G, c, body, first
<1>4. Leads(r, body, {}, {})
  BY <1>3, LeadsWeaker
<1>5. F[0] = G /\ F[q] = {} /\ (\A j \in 0..q : F[j] \subseteq Sound(r))
      /\ \A j \in 0..(q - 1) : Leads(r, body, F[j], F[j + 1])
  <2>1. F[0] = G /\ F[q] = {} /\ (\A j \in 0..q : F[j] \subseteq Sound(r))
    BY <1>2
  <2>2. ASSUME NEW j \in 0..(q - 1) PROVE Leads(r, body, F[j], F[j + 1])
    <3>1. F[j + 1] = {} /\ (F[j] = G \/ F[j] = {})
      OBVIOUS
    <3>. HIDE DEF F
    <3>. QED  BY <1>3, <1>4, <3>1
  <2>. QED  BY <2>1, <2>2
<1>. HIDE DEF F
<1>9. Along(r, q, body, F)
  BY <1>5 DEF Along
<1>10. Leads(r, Nested(q, body), G, {})
  <2>1. q \in Nat
    OBVIOUS
  <2>2. Leads(r, Nested(q, body), F[0], F[q])
    BY <1>6, <1>9, <2>1, NestedLeads
  <2>. QED  BY <1>5, <2>2
<1>11. Leads(r, first \o Nested(q, body), Going(r, k, 0, Ccrs), {})
  BY <1>7, <1>10, JoinLeads
<1>12. Leads(r, first \o Nested(q, body), Going(r, k, 0, Ccrs), Settling(r, k))
  BY <1>11, LeadsWeaker
<1>. QED  BY <1>8, <1>12

\* A longer request is made of whole shorter ones.
LEMMA ChunkDoubles ==
  \A k \in 0..14 : Chunk(k + 1) = 2 * Chunk(k)
<1>. DEFINE good(x, y) == y = 2 * x
<1>1. /\ good(2 ^ 0, 2 ^ 1) /\ good(2 ^ 1, 2 ^ 2) /\ good(2 ^ 2, 2 ^ 3) /\ good(2 ^ 3, 2 ^ 4)
      /\ good(2 ^ 4, 2 ^ 5) /\ good(2 ^ 5, 2 ^ 6) /\ good(2 ^ 6, 2 ^ 7) /\ good(2 ^ 7, 2 ^ 8)
      /\ good(2 ^ 8, 2 ^ 9) /\ good(2 ^ 9, 2 ^ 10) /\ good(2 ^ 10, 2 ^ 11) /\ good(2 ^ 11, 2 ^ 12)
      /\ good(2 ^ 12, 2 ^ 13) /\ good(2 ^ 13, 2 ^ 14) /\ good(2 ^ 14, 2 ^ 15)
  BY SMT
<1>2. /\ good(Chunk(0), Chunk(1)) /\ good(Chunk(1), Chunk(2)) /\ good(Chunk(2), Chunk(3))
      /\ good(Chunk(3), Chunk(4)) /\ good(Chunk(4), Chunk(5)) /\ good(Chunk(5), Chunk(6))
      /\ good(Chunk(6), Chunk(7)) /\ good(Chunk(7), Chunk(8)) /\ good(Chunk(8), Chunk(9))
      /\ good(Chunk(9), Chunk(10)) /\ good(Chunk(10), Chunk(11)) /\ good(Chunk(11), Chunk(12))
      /\ good(Chunk(12), Chunk(13)) /\ good(Chunk(13), Chunk(14)) /\ good(Chunk(14), Chunk(15))
  <2>. HIDE DEF good
  <2>. QED  BY <1>1, Zenon DEF Chunk
<1>3. ASSUME NEW k \in 0..14 PROVE good(Chunk(k), Chunk(k + 1))
  <2>1. k = 0 \/ k = 1 \/ k = 2 \/ k = 3 \/ k = 4 \/ k = 5 \/ k = 6 \/ k = 7 \/ k = 8 \/ k = 9
        \/ k = 10 \/ k = 11 \/ k = 12 \/ k = 13 \/ k = 14
    OBVIOUS
  <2>2. /\ 0 + 1 = 1 /\ 1 + 1 = 2 /\ 2 + 1 = 3 /\ 3 + 1 = 4 /\ 4 + 1 = 5 /\ 5 + 1 = 6 /\ 6 + 1 = 7
        /\ 7 + 1 = 8 /\ 8 + 1 = 9 /\ 9 + 1 = 10 /\ 10 + 1 = 11 /\ 11 + 1 = 12 /\ 12 + 1 = 13
        /\ 13 + 1 = 14 /\ 14 + 1 = 15
    OBVIOUS
  <2>. HIDE DEF good
  <2>. QED  BY <1>2, <2>1, <2>2, Zenon
<1>. QED  BY <1>3

LEMMA ChunkValues ==
  \A k \in 0..15 : /\ Chunk(k) \in Nat \ {0}
                   /\ k <= 2 => Chunk(k) \in {1, 2, 4}
                   /\ k >= 3 => Chunk(k) % 8 = 0
                   /\ k >= 2 => Chunk(k) % 4 = 0
<1>1. Chunk(0) = 1 /\ Chunk(1) = 2 /\ Chunk(2) = 4
  <2>1. 2 ^ 0 = 1 /\ 2 ^ 1 = 2 /\ 2 ^ 2 = 4
    BY SMT
  <2>. QED  BY <2>1 DEF Chunk
<1>2. \A k \in 2..15 : Chunk(k) \in Nat \ {0} /\ (k >= 3 => Chunk(k) % 8 = 0) /\ (k = 2 => Chunk(k) = 4)
  BY QspiValues
<1>3. ASSUME NEW k \in 0..15
      PROVE  /\ Chunk(k) \in Nat \ {0}
             /\ k <= 2 => Chunk(k) \in {1, 2, 4}
             /\ k >= 3 => Chunk(k) % 8 = 0
             /\ k >= 2 => Chunk(k) % 4 = 0
  <2>1. CASE k <= 2
    <3>1. k = 0 \/ k = 1 \/ k = 2
      BY <2>1
    <3>. QED  BY <1>1, <3>1
  <2>2. CASE k >= 3
    BY <1>2, <2>2
  <2>. QED  BY <2>1, <2>2
<1>. QED  BY <1>3

LEMMA ChunkDivides ==
  ASSUME NEW j \in 0..15, NEW k \in 0..15, j <= k
  PROVE  \E m \in Nat : Chunk(k) = Chunk(j) * m
<1>. DEFINE T == {i \in Nat : j + i <= 15 => \E m \in Nat : Chunk(j + i) = Chunk(j) * m}
            x == Chunk(j)
<1>1. x \in Nat
  BY ChunkValues
<1>2. 0 \in T
  <2>1. j + 0 = j
    OBVIOUS
  <2>2. Chunk(j + 0) = x * 1
    <3>. HIDE DEF x
    <3>1. x * 1 = x
      BY <1>1
    <3>. QED  BY <2>1, <3>1 DEF x
  <2>. QED  BY <2>2
<1>3. ASSUME NEW i \in Nat, i \in T PROVE i + 1 \in T
  <2>. SUFFICES ASSUME j + (i + 1) <= 15 PROVE \E m \in Nat : Chunk(j + (i + 1)) = x * m
    OBVIOUS
  <2>1. j + i \in 0..14 /\ j + (i + 1) = (j + i) + 1
    OBVIOUS
  <2>2. PICK m \in Nat : Chunk(j + i) = x * m
    BY <1>3, <2>1
  <2>3. Chunk(j + (i + 1)) = 2 * Chunk(j + i)
    BY <2>1, ChunkDoubles
  <2>. HIDE DEF x
  <2>4. 2 * (x * m) = x * (2 * m) /\ 2 * m \in Nat
    BY <1>1
  <2>. QED  BY <2>2, <2>3, <2>4
<1>4. k - j \in Nat /\ j + (k - j) = k
  OBVIOUS
<1>5. k - j \in T
  <2>. HIDE DEF T
  <2>. QED  BY <1>2, <1>3, <1>4, Induct
<1>. QED  BY <1>4, <1>5

LEMMA Exactly ==
  ASSUME NEW z \in Nat \ {0}, NEW y \in Int, NEW v \in Nat, v = z * y
  PROVE  v \div z = y /\ v % z = 0 /\ y \in Nat
<1>1. v \div z \in Nat /\ v % z \in 0..(z - 1) /\ z * (v \div z) + (v % z) = v
  BY Division
<1>. DEFINE q == v \div z
            m == v % z
            e == y - q
<1>2. q \in Nat /\ m \in 0..(z - 1) /\ z * q + m = v
  BY <1>1
<1>. HIDE DEF q, m
<1>3. e \in Int /\ z * e = m
  <2>1. z * e = z * y - z * q
    BY <1>2
  <2>2. z * y \in Int /\ z * q \in Int
    BY <1>2
  <2>. QED  BY <1>2, <2>1, <2>2
<1>. HIDE DEF e
<1>4. e = 0
  <2>1. e >= 1 => z * e >= z
    BY <1>3
  <2>2. e <= -1 => z * e <= -z
    BY <1>3
  <2>. QED  BY <1>2, <1>3, <2>1, <2>2
<1>5. m = 0
  BY <1>3, <1>4
<1>6. y = q
  BY <1>2, <1>4 DEF e
<1>. QED  BY <1>2, <1>5, <1>6 DEF q, m

\* The odd word at the start.
Odd(r) == Here(r) % 8 # 0
OddWord(r) ==
  IF ~Odd(r) THEN <<>>
  ELSE IF From(r) THEN Ccr(4, 1, FALSE, 4, 1, TRUE) \o Wfp("rx", FALSE) \o LdSt
  ELSE Ccr(4, 1, TRUE, 4, 1, FALSE) \o Wfp("tx", FALSE) \o LdSt
OddSize(r) == IF Odd(r) THEN 4 ELSE 0

LEMMA HereMemory ==
  ASSUME NEW r, OfQspi(r)
  PROVE  Here(r) = Memory(r)
<1>1. CASE From(r)
  BY <1>1 DEF OfQspi, Here, Memory
<1>2. CASE ~From(r)
  BY <1>2 DEF OfQspi, Here, Memory
<1>. QED  BY <1>1, <1>2

LEMMA OddGrant ==
  ASSUME NEW r, OfQspi(r), Odd(r), NEW dir \in {"tx", "rx"}, NEW u, u = 4
  PROVE  /\ Granted(r, dir, FALSE) \in Nat /\ UsedBy(r, u) = 4
         /\ 4 <= Granted(r, dir, FALSE) \/ Exempt(r)
<1>1. Granted(r, dir, FALSE) = Chunk(r.per.single)
  BY DEF Granted, OfQspi, Chunk
<1>2. r.per.single \in 0..15
  BY DEF OfQspi
<1>3. CASE r.per.single < 2
  <2>1. Exempt(r)
    BY <1>3, HereMemory DEF Exempt, OfQspi, Odd
  <2>2. Chunk(r.per.single) \in Nat
    BY <1>2, ChunkValues
  <2>. QED  BY <1>1, <2>1, <2>2 DEF UsedBy, OfQspi
<1>4. CASE r.per.single >= 2
  <2>1. Chunk(r.per.single) \in Nat \ {0} /\ Chunk(r.per.single) % 4 = 0
    BY <1>2, <1>4, ChunkValues
  <2>2. 4 <= Chunk(r.per.single)
    BY <2>1
  <2>. QED  BY <1>1, <2>1, <2>2 DEF UsedBy, OfQspi
<1>5. r.per.single < 2 \/ r.per.single >= 2
  BY <1>2
<1>. QED  BY <1>3, <1>4, <1>5, Zenon

LEMMA OddWordLeads ==
  ASSUME NEW r, OfQspi(r), Here(r) % 4 = 0, Spare(r, 0, 4)
  PROVE  Leads(r, OddWord(r), Going(r, 0, 0, Ccrs), Going(r, OddSize(r), 0, Ccrs))
<1>1. CASE ~Odd(r)
  BY <1>1, GoingStays DEF OddWord, OddSize
<1>2. CASE Odd(r)
  <2>. DEFINE c == Wide(r, 4, 1)
              g == Granted(r, Towards(r), FALSE)
              u == UsedBy(r, 4)
              x == IF u <= g THEN g - u ELSE 0
              zero == 0
              four == 4
              si == ~From(r)
              di == From(r)
              first == Ccr(4, 1, si, 4, 1, di)
              G(k, C) == Going(r, k, 0, C)
  <2>1. Towards(r) \in {"tx", "rx"}
    BY DEF Towards
  <2>2. g \in Nat /\ u = 4 /\ (4 <= g \/ Exempt(r))
    <3>1. four = 4
      OBVIOUS
    <3>. HIDE DEF four
    <3>2. Granted(r, Towards(r), FALSE) \in Nat /\ UsedBy(r, four) = 4 /\ (4 <= Granted(r, Towards(r), FALSE) \/ Exempt(r))
      BY <1>2, <2>1, <3>1, OddGrant
    <3>. QED  BY <3>2 DEF four
  <2>3. x \in Nat /\ (x + u <= g \/ Exempt(r))
    <3>. HIDE DEF g, u
    <3>. QED  BY <2>2
  <2>4. Leads(r, first, Going(r, 0, 0, Ccrs), Going(r, 0, 0, {c}))
    <3>1. Sets(r, Ccr(4, 1, si, 4, 1, di), zero, Wide(r, 4, 1))
      <4>1. 4 \in {1, 2, 4, 8} /\ 1 \in 1..16 /\ si = ~From(r) /\ di = From(r)
        OBVIOUS
      <4>. HIDE DEF zero, si, di
      <4>. QED  BY <4>1, WideSets
    <3>2. zero \in Nat
      OBVIOUS
    <3>. HIDE DEF zero, c, first, si, di
    <3>3. Leads(r, first, Going(r, zero, zero, Ccrs), Going(r, zero, zero, {c}))
      BY <3>1, <3>2 DEF Sets, c, first
    <3>. QED  BY <3>3 DEF zero
  <2>5. Paired(r, zero, four, c, four)
    <3>1. 4 \in {1, 2, 4, 8} /\ 1 \in 1..16 /\ four = 4 * 1 /\ Spare(r, zero, four) /\ four = zero + four
      OBVIOUS
    <3>2. (Here(r) + zero) % 4 = 0
      <4>1. Here(r) \in Nat
        BY DEF Spare
      <4>. QED  BY <4>1
    <3>3. r.per.kind # "i2c"
      BY DEF OfQspi
    <3>. HIDE DEF zero, four
    <3>. QED  BY <3>1, <3>2, <3>3, WidePaired DEF c
  <2>6. Uses(r, g, x, UsedBy(r, four))
    <3>1. UsedBy(r, four) = u
      OBVIOUS
    <3>. HIDE DEF g, u, x, four
    <3>. QED  BY <2>2, <2>3, <3>1 DEF Uses
  <2>. HIDE DEF c, g, u, x, zero, four, first
  <2>7. Leads(r, Wfp(Towards(r), FALSE), Going(r, zero, zero, {c}), Device(r, zero, zero, zero, g, {c}))
    <3>1. g <= Granted(r, Towards(r), FALSE) /\ Granted(r, Towards(r), FALSE) \in Nat
      <4>1. g <= g
        BY <2>2
      <4>. QED  BY <2>2, <4>1, Zenon DEF g
    <3>. QED  BY <2>1, <2>2, <3>1, GrantLeads
  <2>8. Leads(r, LdSt, Device(r, zero, zero, zero, g, {c}), Device(r, four, four, zero, x, {c}))
    BY <2>5, <2>6, PairLeads
  <2>9. Leads(r, first \o Wfp(Towards(r), FALSE), Going(r, zero, zero, Ccrs), Device(r, zero, zero, zero, g, {c}))
    BY <2>4, <2>7, JoinLeads DEF zero
  <2>10. Leads(r, first \o Wfp(Towards(r), FALSE) \o LdSt, Going(r, zero, zero, Ccrs), Device(r, four, four, zero, x, {c}))
    BY <2>8, <2>9, JoinLeads
  <2>11. Device(r, four, four, zero, x, {c}) \subseteq Going(r, four, zero, Ccrs)
    <3>1. Device(r, four, four, zero, x, {c}) \subseteq Going(r, four, zero, {c})
      BY DeviceGoing
    <3>2. Going(r, four, zero, {c}) \subseteq Going(r, four, zero, Ccrs)
      BY GoingStays
    <3>. QED  BY <3>1, <3>2
  <2>12. Leads(r, first \o Wfp(Towards(r), FALSE) \o LdSt, Going(r, zero, zero, Ccrs), Going(r, four, zero, Ccrs))
    BY <2>10, <2>11, LeadsWeaker
  <2>13. OddWord(r) = first \o Wfp(Towards(r), FALSE) \o LdSt
    <3>1. CASE From(r)
      <4>1. si = FALSE /\ di = TRUE /\ Towards(r) = "rx"
        BY <3>1 DEF Towards
      <4>. HIDE DEF si, di
      <4>. QED  BY <1>2, <3>1, <4>1 DEF OddWord, first
    <3>2. CASE ~From(r)
      <4>1. si = TRUE /\ di = FALSE /\ Towards(r) = "tx"
        BY <3>2 DEF Towards, From
      <4>. HIDE DEF si, di
      <4>. QED  BY <1>2, <3>2, <4>1 DEF OddWord, first
    <3>. QED  BY <3>1, <3>2
  <2>14. OddSize(r) = four
    BY <1>2 DEF OddSize, four
  <2>. QED  BY <2>12, <2>13, <2>14 DEF zero
<1>. QED  BY <1>1, <1>2

\* All of a request is stored, but for the misfits.
Settled(r) == {d \in Sound(r) : ~d.signalled /\ (d.done = r.n <=> ~QspiMisfit(r))}
Skew(r) == Odd(r) /\ r.per.single > 2
\* k bytes are stored, and m are left for q requests of 2^l bytes.
LastPiece(r, l, k, m, q) ==
  /\ OfQspi(r) /\ l = r.per.single /\ r.n \in Nat
  /\ k \in Nat /\ m \in Nat /\ k + m = r.n /\ q = m \div Chunk(l) /\ Spare(r, 0, r.n)
  /\ (Here(r) + k) % 4 = 0 /\ (l >= 3 => (Here(r) + k) % 8 = 0)
  /\ QspiMisfit(r) <=> Skew(r) \/ (l < 2 /\ q # 0)
  /\ IF Skew(r) THEN k % 8 = 4 /\ r.n % 8 = 0 ELSE m = Chunk(l) * q

LEMMA SettlingSets ==
  ASSUME NEW r, NEW k
  PROVE  /\ Settling(r, k) \subseteq Sound(r)
         /\ Going(r, k, 0, Ccrs) \subseteq Settling(r, k)
         /\ (k = r.n <=> ~QspiMisfit(r)) => Settling(r, k) \subseteq Settled(r)
<1>1. Going(r, k, 0, Ccrs) \subseteq Settling(r, k)
  BY DEF Going, State, Settling
<1>2. Settling(r, k) \subseteq Sound(r)
  BY DEF Settling
<1>3. (k = r.n <=> ~QspiMisfit(r)) => Settling(r, k) \subseteq Settled(r)
  BY DEF Settling, Settled
<1>. QED  BY <1>1, <1>2, <1>3

LEMMA LastPieceLeads ==
  ASSUME NEW r, NEW l, NEW k, NEW m, NEW q, LastPiece(r, l, k, m, q)
  PROVE  Leads(r, IF q = 0 THEN <<>> ELSE QspiBlock(r, l, FALSE, q), Going(r, k, 0, Ccrs), Settled(r))
<1>. DEFINE z == Chunk(l)
            n == r.n
            y == z * q
<1>1. /\ OfQspi(r) /\ l = r.per.single /\ n \in Nat /\ k \in Nat /\ m \in Nat /\ k + m = n /\ q = m \div z
      /\ Spare(r, 0, n) /\ (Here(r) + k) % 4 = 0 /\ (l >= 3 => (Here(r) + k) % 8 = 0) /\ l \in 0..15
  BY DEF LastPiece, OfQspi
<1>2. /\ QspiMisfit(r) <=> Skew(r) \/ (l < 2 /\ q # 0)
      /\ Skew(r) => k % 8 = 4 /\ n % 8 = 0 /\ l >= 3
      /\ ~Skew(r) => m = y
  BY <1>1 DEF LastPiece, Skew
<1>3. z \in Nat \ {0} /\ (l >= 3 => z % 8 = 0)
  BY <1>1, ChunkValues
<1>. HIDE DEF z, n
<1>4. q \in Nat /\ y \in Nat /\ y <= m
  <2>1. m \div z \in Nat /\ m % z \in 0..(z - 1) /\ z * (m \div z) + (m % z) = m /\ z * (m \div z) \in Nat
    BY <1>1, <1>3, Division
  <2>. QED  BY <1>1, <2>1
<1>. HIDE DEF y
<1>5. CASE q = 0
  <2>1. y = 0
    BY <1>3, <1>5 DEF y
  <2>2. k = n <=> ~QspiMisfit(r)
    BY <1>1, <1>2, <1>5, <2>1
  <2>3. Going(r, k, 0, Ccrs) \in SUBSET Sound(r) /\ Going(r, k, 0, Ccrs) \subseteq Settled(r)
    BY <2>2, SettlingSets DEF n
  <2>. QED  BY <1>5, <2>3, NothingLeads
<1>6. CASE q # 0 /\ l < 2
  <2>1. m # 0
    <3>1. m = 0 => y = 0
      BY <1>4
    <3>2. y # 0
      BY <1>3, <1>4, <1>6 DEF y
    <3>. QED  BY <3>1, <3>2
  <2>2. QspiMisfit(r) /\ k # n /\ q \in Nat \ {0} /\ l \in 0..1 /\ FALSE \in BOOLEAN
    BY <1>1, <1>2, <1>4, <1>6, <2>1
  <2>3. Settling(r, k) \subseteq Settled(r)
    BY <2>2, SettlingSets DEF n
  <2>4. Spare(r, k, y)
    <3>1. 0 \in Nat /\ k + y <= 0 + n
      BY <1>1, <1>4
    <3>. QED  BY <1>1, <1>4, <3>1, SpareLess
  <2>5. Leads(r, QspiBlock(r, l, FALSE, q), Going(r, k, 0, Ccrs), Settling(r, k))
    <3>1. CASE From(r)
      BY <1>1, <2>2, <3>1, SmallReceiveBlock
    <3>2. CASE ~From(r)
      <4>1. Spare(r, k, z * q)
        BY <2>4 DEF y
      <4>. QED  BY <1>1, <1>4, <2>2, <3>2, <4>1, SmallSendBlock DEF z
    <3>. QED  BY <3>1, <3>2
  <2>6. Leads(r, QspiBlock(r, l, FALSE, q), Going(r, k, 0, Ccrs), Settled(r))
    BY <2>3, <2>5, LeadsWeaker
  <2>. QED  BY <1>6, <2>6
<1>7. CASE q # 0 /\ l >= 2
  <2>1. Spare(r, k, y)
    <3>1. 0 \in Nat /\ k + y <= 0 + n
      BY <1>1, <1>4
    <3>. QED  BY <1>1, <1>4, <3>1, SpareLess
  <2>2. (Here(r) + k) % Beat(l) = 0 /\ l \in 2..15 /\ FALSE \in BOOLEAN
    <3>1. l \in 2..15
      BY <1>1, <1>7
    <3>2. Beat(l) \in {4, 8} /\ (l = 2 => Beat(l) = 4)
      BY <3>1, QspiValues
    <3>. DEFINE b == Beat(l)
                h == Here(r) + k
    <3>3. h % 4 = 0 /\ (l # 2 => h % 8 = 0)
      BY <1>1, <3>1
    <3>. HIDE DEF b, h
    <3>4. h % b = 0
      BY <3>2, <3>3 DEF b
    <3>. QED  BY <3>1, <3>4 DEF b, h
  <2>3. l = Exponent(r, FALSE)
    BY <1>1 DEF Exponent
  <2>4. Leads(r, QspiBlock(r, l, FALSE, q), Going(r, k, 0, Ccrs), Going(r, k + y, 0, Ccrs))
    <3>1. Spare(r, k, z * q)
      BY <2>1 DEF y
    <3>. QED  BY <1>1, <1>4, <2>2, <2>3, <3>1, QspiBlockLeads DEF z, y
  <2>5. k + y = n <=> ~QspiMisfit(r)
    <3>1. CASE Skew(r)
      <4>1. l >= 3 /\ k % 8 = 4 /\ n % 8 = 0 /\ z % 8 = 0
        BY <1>2, <1>3, <3>1
      <4>2. y % 8 = 0
        <5>. DEFINE zero == 0
                    eight == 8
        <5>1. eight = 8 /\ zero = 0 /\ zero \in Nat /\ zero % eight = 0 /\ eight \in {4, 8} /\ z % eight = 0
          BY <4>1
        <5>. HIDE DEF zero, eight
        <5>2. Grid(eight, z, zero)
          BY <1>3, <5>1 DEF Grid
        <5>3. z * q \in Nat /\ (zero + z * q) % eight = 0
          BY <1>4, <5>2, Lines
        <5>4. y \in Nat /\ (zero + y) % eight = 0
          BY <5>3 DEF y
        <5>5. zero + y = y
          BY <5>1, <5>4
        <5>. QED  BY <5>1, <5>4, <5>5
      <4>3. k + y # n
        BY <1>1, <1>4, <4>1, <4>2
      <4>. QED  BY <1>2, <3>1, <4>3
    <3>2. CASE ~Skew(r)
      BY <1>1, <1>2, <1>7, <3>2
    <3>. QED  BY <3>1, <3>2
  <2>6. Going(r, k + y, 0, Ccrs) \subseteq Settled(r)
    BY <2>5, SettlingSets DEF n
  <2>7. Leads(r, QspiBlock(r, l, FALSE, q), Going(r, k, 0, Ccrs), Settled(r))
    BY <2>4, <2>6, LeadsWeaker
  <2>. QED  BY <1>7, <2>7
<1>8. l < 2 \/ l >= 2
  BY <1>1
<1>. QED  BY <1>5, <1>6, <1>7, <1>8, Zenon

LEMMA WholeLines ==
  ASSUME NEW w \in {4, 8}, NEW x \in Nat, x % w = 0, NEW q \in Nat
  PROVE  x * q \in Nat /\ (x * q) % w = 0
<1>. DEFINE zero == 0
<1>1. zero = 0 /\ zero \in Nat /\ zero % w = 0
  OBVIOUS
<1>. HIDE DEF zero
<1>2. Grid(w, x, zero)
  BY <1>1 DEF Grid
<1>3. x * q \in Nat /\ (zero + x * q) % w = 0
  BY <1>2, Lines
<1>. DEFINE y == x * q
<1>4. y \in Nat /\ (zero + y) % w = 0
  BY <1>3
<1>. HIDE DEF y
<1>5. zero + y = y
  BY <1>1, <1>4
<1>. QED  BY <1>4, <1>5 DEF y

\* What a word at the start and longer requests leave is made of whole requests.
LEMMA LeftOver ==
  ASSUME NEW l \in 0..15, NEW x, x = Chunk(l), NEW n \in Nat, n % x = 0,
         NEW o \in {0, 4}, o = 4 => l <= 2,
         NEW e \in Nat, NEW y, y = x * e, NEW m \in Nat, m + y + o = n
  PROVE  m = x * (m \div x)
<1>1. x \in Nat \ {0} /\ (l <= 2 => x \in {1, 2, 4})
  BY ChunkValues
<1>2. PICK f \in Nat : n = x * f
  <2>1. n \div x \in Nat /\ x * (n \div x) + (n % x) = n /\ x * (n \div x) \in Nat
    BY <1>1, Division
  <2>2. x * (n \div x) = n
    BY <2>1
  <2>. QED  BY <2>1, <2>2
<1>3. PICK g \in Nat : o = x * g
  <2>1. CASE o = 0
    <3>1. x * 0 = 0
      BY <1>1
    <3>. QED  BY <2>1, <3>1
  <2>2. CASE o = 4
    <3>1. x = 1 \/ x = 2 \/ x = 4
      BY <1>1, <2>2
    <3>2. 1 * 4 = 4 /\ 2 * 2 = 4 /\ 4 * 1 = 4
      OBVIOUS
    <3>. QED  BY <2>2, <3>1, <3>2
  <2>. QED  BY <2>1, <2>2
<1>4. x * (f - e - g) = x * f - x * e - x * g
  BY <1>1
<1>5. m = x * (f - e - g) /\ f - e - g \in Int
  <2>1. x * f \in Nat /\ x * e \in Nat /\ x * g \in Nat
    BY <1>1
  <2>2. m = x * f - x * e - x * g
    BY <1>2, <1>3, <2>1
  <2>. QED  BY <1>4, <2>2
<1>. DEFINE h == f - e - g
<1>. HIDE DEF h
<1>6. m \div x = h
  <2>1. m = x * h /\ h \in Int
    BY <1>5 DEF h
  <2>. QED  BY <1>1, <2>1, Exactly
<1>. QED  BY <1>5, <1>6 DEF h

Rest(r) == r.n - OddSize(r)
\* A request of the QSPI that is accepted.
AcceptedQspi(r) ==
  /\ OfQspi(r) /\ r.n \in Nat \ {0} /\ r.n % 4 = 0 /\ r.n % Chunk(r.per.single) = 0
  /\ Here(r) % 4 = 0 /\ Spare(r, 0, r.n)

LEMMA MisfitParts ==
  ASSUME NEW r, AcceptedQspi(r), NEW m, m = Rest(r)
  PROVE  /\ QspiMisfit(r) <=> \/ Skew(r)
                              \/ r.per.single < 2 /\ QspiSingles(r.per, m) # 0
                              \/ r.per.burst < 2 /\ QspiUsesBursts(r.per, m)
         /\ m \in Nat /\ OddSize(r) \in {0, 4} /\ m + OddSize(r) = r.n /\ m % 4 = 0
         /\ Here(r) \in Nat /\ (Here(r) + OddSize(r)) % 8 = 0
         /\ Skew(r) => OddSize(r) = 4 /\ r.per.single \in 3..15
         /\ ~Skew(r) => OddSize(r) = 0 \/ r.per.single <= 2
<1>1. r.n \in Nat \ {0} /\ r.n % 4 = 0 /\ Here(r) % 4 = 0 /\ Here(r) \in Nat /\ OfQspi(r)
  BY DEF AcceptedQspi, Spare
<1>2. Here(r) = Memory(r)
  BY <1>1, HereMemory
<1>3. QspiRest(Memory(r), r.n) = m
  BY <1>1, <1>2 DEF QspiRest, Rest, OddSize, Odd
<1>4. r.n # 0 /\ r.per.kind = "qspi"
  BY <1>1 DEF OfQspi
<1>5. QspiMisfit(r) <=> \/ Skew(r)
                        \/ r.per.single < 2 /\ QspiSingles(r.per, m) # 0
                        \/ r.per.burst < 2 /\ QspiUsesBursts(r.per, m)
  <2>1. QspiMisfit(r) <=> /\ r.per.kind = "qspi" /\ r.n # 0
                          /\ \/ r.per.single > 2 /\ Memory(r) % 8 # 0
                             \/ r.per.single < 2 /\ QspiSingles(r.per, QspiRest(Memory(r), r.n)) # 0
                             \/ r.per.burst < 2 /\ QspiUsesBursts(r.per, QspiRest(Memory(r), r.n))
    BY Zenon DEF QspiMisfit
  <2>2. Skew(r) <=> r.per.single > 2 /\ Memory(r) % 8 # 0
    BY <1>2, Zenon DEF Skew, Odd
  <2>. QED  BY <1>3, <1>4, <2>1, <2>2, Zenon
<1>6. OddSize(r) \in {0, 4}
  BY DEF OddSize
<1>7. m \in Nat /\ m + OddSize(r) = r.n /\ m % 4 = 0
  <2>. DEFINE o == OddSize(r)
              n == r.n
  <2>1. n \in Nat \ {0} /\ n % 4 = 0 /\ o \in {0, 4} /\ m = n - o
    BY <1>1, <1>6 DEF Rest
  <2>. HIDE DEF o, n
  <2>2. n >= 4
    BY <2>1
  <2>3. m \in Nat /\ m + o = n /\ m % 4 = 0
    BY <2>1, <2>2
  <2>. QED  BY <2>3 DEF o, n
<1>8. (Here(r) + OddSize(r)) % 8 = 0
  BY <1>1 DEF OddSize, Odd
<1>9. Skew(r) => OddSize(r) = 4 /\ r.per.single \in 3..15
  BY <1>1 DEF Skew, OddSize, OfQspi
<1>10. ~Skew(r) => OddSize(r) = 0 \/ r.per.single <= 2
  BY <1>1 DEF Skew, OddSize, OfQspi
<1>. QED  BY <1>1, <1>5, <1>6, <1>7, <1>8, <1>9, <1>10, Zenon

\* What is left after y bytes of longer requests.
Longer(r, l, y, m, q) ==
  /\ AcceptedQspi(r) /\ l = r.per.single /\ q = QspiSingles(r.per, Rest(r))
  /\ ~(r.per.burst < 2 /\ QspiUsesBursts(r.per, Rest(r)))
  /\ y \in Nat /\ y % 4 = 0 /\ (l >= 3 => y % 8 = 0) /\ (\E e \in Nat : y = Chunk(l) * e)
  /\ m \in Nat /\ m + y = Rest(r) /\ q = m \div Chunk(l)

LEMMA LongerLast ==
  ASSUME NEW r, NEW l, NEW y, NEW m, NEW q, Longer(r, l, y, m, q)
  PROVE  LastPiece(r, l, OddSize(r) + y, m, q)
<1>. DEFINE o == OddSize(r)
            n == r.n
            k == o + y
            h == Here(r)
            s == Rest(r)
            z == Chunk(l)
<1>1. /\ AcceptedQspi(r) /\ l = r.per.single /\ q = QspiSingles(r.per, s)
      /\ ~(r.per.burst < 2 /\ QspiUsesBursts(r.per, s))
      /\ y \in Nat /\ y % 4 = 0 /\ (l >= 3 => y % 8 = 0) /\ m \in Nat /\ m + y = s /\ q = m \div z
  BY DEF Longer
<1>2. PICK e \in Nat : y = z * e
  BY DEF Longer
<1>3. /\ OfQspi(r) /\ n \in Nat \ {0} /\ n % 4 = 0 /\ n % z = 0 /\ Spare(r, 0, n) /\ l \in 0..15
  BY <1>1 DEF AcceptedQspi, OfQspi
<1>4. /\ QspiMisfit(r) <=> \/ Skew(r)
                           \/ r.per.single < 2 /\ QspiSingles(r.per, s) # 0
                           \/ r.per.burst < 2 /\ QspiUsesBursts(r.per, s)
      /\ o \in {0, 4} /\ s + o = n
      /\ h \in Nat /\ (h + o) % 8 = 0
      /\ Skew(r) => o = 4 /\ l \in 3..15
      /\ ~Skew(r) => o = 0 \/ l <= 2
  <2>. HIDE DEF o, h, n
  <2>. QED  BY <1>1, MisfitParts DEF o, h, n
<1>. HIDE DEF o, n, h, s, z
<1>5. k \in Nat /\ k + m = n
  BY <1>1, <1>4
<1>6. (h + k) % 4 = 0 /\ (l >= 3 => (h + k) % 8 = 0)
  <2>. DEFINE b == h + o
  <2>1. b \in Nat /\ b % 8 = 0 /\ h + k = b + y
    BY <1>1, <1>4
  <2>. HIDE DEF b, k
  <2>2. (b + y) % 4 = 0 /\ (l >= 3 => (b + y) % 8 = 0)
    BY <1>1, <2>1
  <2>. QED  BY <2>1, <2>2
<1>7. QspiMisfit(r) <=> Skew(r) \/ (l < 2 /\ q # 0)
  BY <1>1, <1>4, Zenon
<1>8. CASE Skew(r)
  <2>1. o = 4 /\ l \in 3..15 /\ k % 8 = 4
    BY <1>1, <1>4, <1>8
  <2>2. z \in Nat \ {0} /\ z % 8 = 0
    BY <1>3, <2>1, ChunkValues DEF z
  <2>3. n % 8 = 0
    <3>1. n \div z \in Nat /\ z * (n \div z) + (n % z) = n /\ z * (n \div z) \in Nat
      BY <1>3, <2>2, Division
    <3>. DEFINE f == n \div z
    <3>. HIDE DEF f
    <3>2. z * f = n /\ f \in Nat
      BY <1>3, <3>1 DEF f
    <3>3. (z * f) % 8 = 0
      BY <2>2, <3>2, WholeLines
    <3>. QED  BY <3>2, <3>3
  <2>. HIDE DEF k
  <2>. QED  BY <1>1, <1>3, <1>5, <1>6, <1>7, <1>8, <2>1, <2>3 DEF LastPiece, n, h, k, o, z
<1>9. CASE ~Skew(r)
  <2>1. m = z * (m \div z)
    <3>1. n \in Nat /\ (o = 4 => l <= 2) /\ o \in {0, 4} /\ l \in 0..15
      BY <1>3, <1>4, <1>9
    <3>2. m + y + o = n
      BY <1>1, <1>4
    <3>3. z = Chunk(l) /\ n % z = 0 /\ y \in Nat /\ m \in Nat
      BY <1>1, <1>3 DEF z
    <3>. QED  BY <1>2, <3>1, <3>2, <3>3, LeftOver
  <2>. HIDE DEF k
  <2>2. m = z * q
    BY <1>1, <2>1, Zenon
  <2>. QED  BY <1>1, <1>3, <1>5, <1>6, <1>7, <1>9, <2>2 DEF LastPiece, n, h, k, o, z
<1>. QED  BY <1>8, <1>9

QspiLong(r) ==
  IF QspiUsesBursts(r.per, Rest(r)) THEN QspiBlock(r, r.per.burst, TRUE, Rest(r) \div Chunk(r.per.burst))
  ELSE <<>>
QspiShort(r) ==
  IF QspiSingles(r.per, Rest(r)) = 0 THEN <<>>
  ELSE QspiBlock(r, r.per.single, FALSE, QspiSingles(r.per, Rest(r)))

LEMMA QspiAmounts ==
  ASSUME NEW r, AcceptedQspi(r), NEW s, s = Rest(r), NEW b, b = r.per.burst, NEW l, l = r.per.single
  PROVE  /\ QspiUsesBursts(r.per, s) <=> b > l /\ s \div Chunk(b) # 0
         /\ QspiSingles(r.per, s) = (IF QspiUsesBursts(r.per, s) THEN s % Chunk(b) ELSE s) \div Chunk(l)
         /\ b \in 0..15 /\ l \in 0..15 /\ s \in Nat
<1>1. b \in 0..15 /\ l \in 0..15
  BY DEF AcceptedQspi, OfQspi
<1>2. s \in Nat
  BY MisfitParts
<1>3. QspiUsesBursts(r.per, s) <=> b > l /\ s \div Chunk(b) # 0
  BY Zenon DEF QspiUsesBursts, Chunk
<1>4. QspiSingles(r.per, s) = (IF QspiUsesBursts(r.per, s) THEN s % Chunk(b) ELSE s) \div Chunk(l)
  BY Zenon DEF QspiSingles, Chunk
<1>. QED  BY <1>1, <1>2, <1>3, <1>4, Zenon

\* Without longer requests.
LEMMA ShortLeads ==
  ASSUME NEW r, AcceptedQspi(r), ~QspiUsesBursts(r.per, Rest(r))
  PROVE  Leads(r, QspiShort(r), Going(r, OddSize(r), 0, Ccrs), Settled(r))
<1>. DEFINE s == Rest(r)
            l == r.per.single
            q == QspiSingles(r.per, s)
            y == 0
            o == OddSize(r)
<1>1. q = s \div Chunk(l) /\ l \in 0..15 /\ s \in Nat
  <2>. HIDE DEF q, s, l
  <2>1. QspiSingles(r.per, s) = (IF QspiUsesBursts(r.per, s) THEN s % Chunk(r.per.burst) ELSE s) \div Chunk(l) /\ l \in 0..15 /\ s \in Nat
    BY QspiAmounts DEF s, l
  <2>. QED  BY <2>1 DEF q, s
<1>2. \E e \in Nat : y = Chunk(l) * e
  <2>1. Chunk(l) \in Nat
    BY <1>1, ChunkValues
  <2>. DEFINE x == Chunk(l)
  <2>. HIDE DEF x
  <2>2. x * 0 = 0
    BY <2>1 DEF x
  <2>. QED  BY <2>2 DEF x
<1>3. y \in Nat /\ y % 4 = 0 /\ y % 8 = 0 /\ s + y = s /\ o + y = o
  <2>1. o \in Nat
    BY DEF OddSize
  <2>. HIDE DEF o, s
  <2>. QED  BY <1>1, <2>1
<1>4. l = r.per.single /\ q = QspiSingles(r.per, Rest(r)) /\ s = Rest(r)
  OBVIOUS
<1>. HIDE DEF s, l, q, y
<1>5. Longer(r, l, y, s, q)
  BY <1>1, <1>2, <1>3, <1>4 DEF Longer
<1>6. LastPiece(r, l, OddSize(r) + y, s, q)
  BY <1>5, LongerLast
<1>7. Leads(r, IF q = 0 THEN <<>> ELSE QspiBlock(r, l, FALSE, q), Going(r, OddSize(r) + y, 0, Ccrs), Settled(r))
  BY <1>6, LastPieceLeads
<1>. QED  BY <1>3, <1>4, <1>7 DEF QspiShort, o

\* Longer requests of a word or more.
LEMMA LongLeads ==
  ASSUME NEW r, AcceptedQspi(r), QspiUsesBursts(r.per, Rest(r)), r.per.burst >= 2
  PROVE  \E P : /\ Leads(r, QspiLong(r), Going(r, OddSize(r), 0, Ccrs), P)
                /\ Leads(r, QspiShort(r), P, Settled(r))
<1>. DEFINE s == Rest(r)
            l == r.per.single
            b == r.per.burst
            o == OddSize(r)
            zb == Chunk(b)
            zl == Chunk(l)
            u == s \div zb
            m == s % zb
            y == zb * u
            q == QspiSingles(r.per, s)
            k == o + y
<1>1. /\ b > l /\ u # 0 /\ q = m \div zl /\ b \in 2..15 /\ l \in 0..15 /\ s \in Nat
  <2>. HIDE DEF q, s, l, b
  <2>1. QspiUsesBursts(r.per, s)
    BY DEF s
  <2>2. /\ QspiUsesBursts(r.per, s) <=> b > l /\ s \div Chunk(b) # 0
        /\ QspiSingles(r.per, s) = (IF QspiUsesBursts(r.per, s) THEN s % Chunk(b) ELSE s) \div Chunk(l)
        /\ b \in 0..15 /\ l \in 0..15 /\ s \in Nat
    BY QspiAmounts DEF s, l, b
  <2>3. b >= 2
    BY DEF b
  <2>4. q = m \div zl /\ b > l /\ u # 0
    BY <2>1, <2>2 DEF q
  <2>5. b \in 2..15 /\ l \in 0..15 /\ s \in Nat
    BY <2>2, <2>3
  <2>. QED  BY <2>4, <2>5
<1>2. /\ s + o = r.n /\ o \in {0, 4} /\ Here(r) \in Nat /\ (Here(r) + o) % 8 = 0 /\ OfQspi(r) /\ Spare(r, 0, r.n)
      /\ r.n \in Nat
  <2>. HIDE DEF s, o
  <2>1. s + o = r.n /\ o \in {0, 4} /\ Here(r) \in Nat /\ (Here(r) + o) % 8 = 0
    BY MisfitParts DEF s, o
  <2>. QED  BY <2>1 DEF AcceptedQspi
<1>3. l = r.per.single /\ q = QspiSingles(r.per, Rest(r)) /\ b = r.per.burst /\ s = Rest(r)
  OBVIOUS
<1>4. zb \in Nat \ {0} /\ zl \in Nat \ {0} /\ zb % 4 = 0 /\ (b >= 3 => zb % 8 = 0)
  <2>. HIDE DEF b, l
  <2>. QED  BY <1>1, ChunkValues
<1>5. PICK d \in Nat : zb = zl * d
  <2>. HIDE DEF b, l
  <2>1. b \in 0..15 /\ l <= b
    BY <1>1
  <2>. QED  BY <1>1, <2>1, ChunkDivides
<1>. HIDE DEF s, l, b, o, zb, zl, q
<1>6. u \in Nat /\ m \in Nat /\ y \in Nat /\ m + y = s
  <2>1. u \in Nat /\ m \in 0..(zb - 1) /\ zb * u + m = s /\ zb * u \in Nat
    BY <1>1, <1>4, Division
  <2>. HIDE DEF u, m
  <2>. QED  BY <2>1
<1>. HIDE DEF u, m
<1>7. y = zl * (d * u) /\ d * u \in Nat
  BY <1>4, <1>5, <1>6
<1>8. y % 4 = 0 /\ (l >= 3 => y % 8 = 0)
  <2>1. 4 \in {4, 8} /\ 8 \in {4, 8} /\ zb \in Nat /\ (l >= 3 => zb % 8 = 0)
    BY <1>1, <1>4
  <2>2. (zb * u) % 4 = 0
    BY <1>4, <1>6, <2>1, WholeLines
  <2>3. l >= 3 => (zb * u) % 8 = 0
    BY <1>6, <2>1, WholeLines
  <2>. QED  BY <2>2, <2>3
<1>. HIDE DEF y
<1>9. ~(r.per.burst < 2 /\ QspiUsesBursts(r.per, Rest(r)))
  BY <1>1, <1>3
<1>10. Longer(r, l, y, m, q)
  BY <1>1, <1>3, <1>6, <1>7, <1>8, <1>9 DEF Longer, zl
<1>11. LastPiece(r, l, OddSize(r) + y, m, q)
  BY <1>10, LongerLast
<1>12. Leads(r, IF q = 0 THEN <<>> ELSE QspiBlock(r, l, FALSE, q), Going(r, OddSize(r) + y, 0, Ccrs), Settled(r))
  BY <1>11, LastPieceLeads
<1>13. Leads(r, QspiShort(r), Going(r, o + y, 0, Ccrs), Settled(r))
  BY <1>3, <1>12 DEF QspiShort, o
<1>14. (Here(r) + o) % Beat(b) = 0
  <2>1. Beat(b) \in {4, 8}
    BY <1>1, QspiValues
  <2>. DEFINE h == Here(r) + o
              w == Beat(b)
  <2>2. h \in Nat /\ h % 8 = 0 /\ w \in {4, 8}
    BY <1>2, <2>1
  <2>. HIDE DEF h, w
  <2>3. h % w = 0
    BY <2>2
  <2>. QED  BY <2>3 DEF h, w
<1>15. Spare(r, o, y)
  <2>1. o \in Nat /\ o + y <= 0 + r.n /\ 0 \in Nat
    BY <1>2, <1>6
  <2>. QED  BY <1>2, <1>6, <2>1, SpareLess
<1>16. Leads(r, QspiBlock(r, b, TRUE, u), Going(r, o, 0, Ccrs), Going(r, o + y, 0, Ccrs))
  <2>1. Spare(r, o, zb * u) /\ TRUE \in BOOLEAN /\ o \in Nat
    BY <1>2, <1>15 DEF y
  <2>2. b = Exponent(r, TRUE)
    BY <1>3 DEF Exponent
  <2>. QED  BY <1>1, <1>2, <1>6, <1>14, <2>1, <2>2, QspiBlockLeads DEF zb, y
<1>17. QspiLong(r) = QspiBlock(r, b, TRUE, u)
  BY <1>3 DEF QspiLong, u, zb
<1>. QED  BY <1>13, <1>16, <1>17 DEF o

\* Longer requests of less than a word.
LEMMA LongSmallLeads ==
  ASSUME NEW r, AcceptedQspi(r), QspiUsesBursts(r.per, Rest(r)), r.per.burst < 2
  PROVE  /\ Leads(r, QspiLong(r), Going(r, OddSize(r), 0, Ccrs), Settled(r))
         /\ Leads(r, QspiShort(r), Settled(r), Settled(r))
<1>. DEFINE s == Rest(r)
            l == r.per.single
            b == r.per.burst
            o == OddSize(r)
            u == s \div Chunk(b)
            q == QspiSingles(r.per, s)
<1>1. /\ b > l /\ u # 0 /\ q = (s % Chunk(b)) \div Chunk(l) /\ b = 1 /\ l = 0 /\ s \in Nat
  <2>. HIDE DEF q, s, l, b
  <2>1. QspiUsesBursts(r.per, s)
    BY DEF s
  <2>2. /\ QspiUsesBursts(r.per, s) <=> b > l /\ s \div Chunk(b) # 0
        /\ QspiSingles(r.per, s) = (IF QspiUsesBursts(r.per, s) THEN s % Chunk(b) ELSE s) \div Chunk(l)
        /\ b \in 0..15 /\ l \in 0..15 /\ s \in Nat
    BY QspiAmounts DEF s, l, b
  <2>3. b < 2
    BY DEF b
  <2>4. q = (s % Chunk(b)) \div Chunk(l) /\ b > l /\ u # 0
    BY <2>1, <2>2 DEF q
  <2>5. b = 1 /\ l = 0 /\ s \in Nat
    BY <2>2, <2>3, <2>4
  <2>. QED  BY <2>4, <2>5
<1>2. /\ s + o = r.n /\ o \in {0, 4} /\ Here(r) \in Nat /\ (Here(r) + o) % 8 = 0 /\ OfQspi(r) /\ Spare(r, 0, r.n)
      /\ r.n \in Nat /\ s % 4 = 0 /\ QspiMisfit(r)
  <2>. HIDE DEF s, o
  <2>1. s + o = r.n /\ o \in {0, 4} /\ Here(r) \in Nat /\ (Here(r) + o) % 8 = 0 /\ s % 4 = 0
    BY MisfitParts DEF s, o
  <2>2. QspiMisfit(r)
    BY MisfitParts
  <2>. QED  BY <2>1, <2>2 DEF AcceptedQspi
<1>3. Chunk(0) = 1 /\ Chunk(1) = 2
  <2>1. 2 ^ 0 = 1 /\ 2 ^ 1 = 2
    BY SMT
  <2>. QED  BY <2>1 DEF Chunk
<1>4. b = r.per.burst /\ s = Rest(r) /\ q = QspiSingles(r.per, Rest(r))
  OBVIOUS
<1>. HIDE DEF s, l, b, o, q
<1>5. u = s \div 2 /\ q = 0 /\ s # 0 /\ u \in Nat \ {0} /\ 2 * u <= s
  <2>1. u = s \div 2 /\ q = (s % 2) \div 1
    BY <1>1, <1>3
  <2>2. s \in Nat /\ s % 4 = 0 /\ u # 0
    BY <1>1, <1>2
  <2>. HIDE DEF u
  <2>3. s % 2 = 0
    BY <2>2
  <2>4. q = 0 /\ s # 0 /\ u \in Nat \ {0} /\ 2 * u <= s
    BY <2>1, <2>2, <2>3
  <2>. QED  BY <2>1, <2>4
<1>6. QspiShort(r) = <<>>
  BY <1>4, <1>5 DEF QspiShort
<1>7. Settling(r, o) \subseteq Settled(r)
  <2>1. o # r.n
    BY <1>1, <1>2, <1>5
  <2>. QED  BY <1>2, <2>1, SettlingSets
<1>8. Leads(r, QspiBlock(r, b, TRUE, u), Going(r, o, 0, Ccrs), Settling(r, o))
  <2>1. b \in 0..1 /\ TRUE \in BOOLEAN /\ o \in Nat /\ u \in Nat /\ Chunk(b) = 2
    BY <1>1, <1>2, <1>3, <1>5
  <2>. HIDE DEF u
  <2>2. CASE From(r)
    BY <1>2, <1>5, <2>1, <2>2, SmallReceiveBlock
  <2>3. CASE ~From(r)
    <3>. DEFINE z == Chunk(b)
    <3>1. z = 2 /\ 0 \in Nat /\ z * u = 2 * u /\ 2 * u \in Nat
      BY <2>1
    <3>2. o + 2 * u <= 0 + r.n
      BY <1>1, <1>2, <1>5, <3>1
    <3>3. Spare(r, o, 2 * u)
      BY <1>2, <2>1, <3>1, <3>2, SpareLess
    <3>4. (Here(r) + o) % 4 = 0
      <4>. DEFINE h == Here(r) + o
      <4>1. h \in Nat /\ h % 8 = 0
        BY <1>2
      <4>. HIDE DEF h
      <4>2. h % 4 = 0
        BY <4>1
      <4>. QED  BY <4>2 DEF h
    <3>. HIDE DEF z
    <3>5. Spare(r, o, z * u)
      BY <3>1, <3>3
    <3>. QED  BY <1>2, <2>1, <2>3, <3>4, <3>5, SmallSendBlock DEF z
  <2>. QED  BY <2>2, <2>3
<1>9. Leads(r, QspiBlock(r, b, TRUE, u), Going(r, o, 0, Ccrs), Settled(r))
  BY <1>7, <1>8, LeadsWeaker
<1>10. QspiLong(r) = QspiBlock(r, b, TRUE, u)
  BY <1>4 DEF QspiLong
<1>11. Leads(r, <<>>, Settled(r), Settled(r))
  <2>1. Settled(r) \in SUBSET Sound(r)
    BY DEF Settled
  <2>. QED  BY <2>1, NothingLeads
<1>. QED  BY <1>6, <1>9, <1>10, <1>11 DEF o

LEMMA QspiPiecesLead ==
  ASSUME NEW r, AcceptedQspi(r)
  PROVE  \E P : /\ Leads(r, QspiLong(r), Going(r, OddSize(r), 0, Ccrs), P)
                /\ Leads(r, QspiShort(r), P, Settled(r))
<1>1. CASE ~QspiUsesBursts(r.per, Rest(r))
  <2>1. QspiLong(r) = <<>>
    BY <1>1 DEF QspiLong
  <2>2. Leads(r, <<>>, Going(r, OddSize(r), 0, Ccrs), Going(r, OddSize(r), 0, Ccrs))
    BY GoingStays
  <2>3. Leads(r, QspiShort(r), Going(r, OddSize(r), 0, Ccrs), Settled(r))
    BY <1>1, ShortLeads
  <2>. QED  BY <2>1, <2>2, <2>3
<1>2. CASE QspiUsesBursts(r.per, Rest(r)) /\ r.per.burst >= 2
  BY <1>2, LongLeads
<1>3. CASE QspiUsesBursts(r.per, Rest(r)) /\ r.per.burst < 2
  BY <1>3, LongSmallLeads
<1>4. r.per.burst >= 2 \/ r.per.burst < 2
  BY DEF AcceptedQspi, OfQspi
<1>. QED  BY <1>1, <1>2, <1>3, <1>4, Zenon

LEMMA QspiSendParts ==
  ASSUME NEW r, AcceptedQspi(r), ~From(r)
  PROVE  QspiSend(r.src, r.n, r.per)
           = Mov("DAR", Register) \o (Mov("SAR", r.src) \o OddWord(r) \o QspiLong(r) \o QspiShort(r))
<1>0. r.n \in Nat /\ r.n - 0 = r.n
  BY DEF AcceptedQspi
<1>1. Here(r) = r.src /\ QspiRest(r.src, r.n) = Rest(r)
  BY <1>0 DEF Here, QspiRest, Rest, OddSize, Odd
<1>. DEFINE m == Rest(r)
            p == r.per
<1>2. QspiSendBursts(m, p) = QspiLong(r)
  <2>. HIDE DEF m
  <2>1. QspiSendBursts(m, p) = IF QspiUsesBursts(p, m) THEN QspiSendBlock(p.burst, TRUE, m \div Chunk(p.burst)) ELSE <<>>
    BY DEF QspiSendBursts, Chunk
  <2>. QED  BY <2>1 DEF QspiLong, QspiBlock, m
<1>3. QspiSendSingles(m, p) = QspiShort(r)
  <2>. HIDE DEF m
  <2>. QED  BY DEF QspiSendSingles, QspiShort, QspiBlock, m
<1>4. (IF r.src % 8 = 0 THEN <<>> ELSE Ccr(4, 1, TRUE, 4, 1, FALSE) \o Wfp("tx", FALSE) \o LdSt) = OddWord(r)
  BY <1>1 DEF OddWord, Odd
<1>5. QspiSendSegment(r.src, r.n, p) = Mov("SAR", r.src) \o OddWord(r) \o QspiLong(r) \o QspiShort(r)
  <2>. DEFINE x == IF r.src % 8 = 0 THEN <<>> ELSE Ccr(4, 1, TRUE, 4, 1, FALSE) \o Wfp("tx", FALSE) \o LdSt
  <2>1. QspiSendSegment(r.src, r.n, p) = Mov("SAR", r.src) \o x \o QspiSendBursts(m, p) \o QspiSendSingles(m, p)
    BY <1>1, Zenon DEF QspiSendSegment
  <2>. HIDE DEF x, m, p
  <2>. QED  BY <1>2, <1>3, <1>4, <2>1, Zenon DEF x
<1>. QED  BY <1>5 DEF QspiSend

LEMMA QspiReceiveParts ==
  ASSUME NEW r, AcceptedQspi(r), From(r)
  PROVE  QspiReceive(r.dst, r.n, r.per)
           = Mov("SAR", Register) \o (Mov("DAR", r.dst) \o OddWord(r) \o QspiLong(r) \o QspiShort(r))
<1>0. r.n \in Nat /\ r.n - 0 = r.n
  BY DEF AcceptedQspi
<1>1. Here(r) = r.dst /\ QspiRest(r.dst, r.n) = Rest(r)
  BY <1>0 DEF Here, QspiRest, Rest, OddSize, Odd
<1>. DEFINE m == Rest(r)
            p == r.per
<1>2. QspiReceiveBursts(m, p) = QspiLong(r)
  <2>. HIDE DEF m
  <2>1. QspiReceiveBursts(m, p) = IF QspiUsesBursts(p, m) THEN QspiReceiveBlock(p.burst, TRUE, m \div Chunk(p.burst)) ELSE <<>>
    BY DEF QspiReceiveBursts, Chunk
  <2>. QED  BY <2>1 DEF QspiLong, QspiBlock, m
<1>3. QspiReceiveSingles(m, p) = QspiShort(r)
  <2>. HIDE DEF m
  <2>. QED  BY DEF QspiReceiveSingles, QspiShort, QspiBlock, m
<1>4. (IF r.dst % 8 = 0 THEN <<>> ELSE Ccr(4, 1, FALSE, 4, 1, TRUE) \o Wfp("rx", FALSE) \o LdSt) = OddWord(r)
  BY <1>1 DEF OddWord, Odd
<1>5. QspiReceiveSegment(r.dst, r.n, p) = Mov("DAR", r.dst) \o OddWord(r) \o QspiLong(r) \o QspiShort(r)
  <2>. DEFINE x == IF r.dst % 8 = 0 THEN <<>> ELSE Ccr(4, 1, FALSE, 4, 1, TRUE) \o Wfp("rx", FALSE) \o LdSt
  <2>1. QspiReceiveSegment(r.dst, r.n, p) = Mov("DAR", r.dst) \o x \o QspiReceiveBursts(m, p) \o QspiReceiveSingles(m, p)
    BY <1>1, Zenon DEF QspiReceiveSegment
  <2>. HIDE DEF x, m, p
  <2>. QED  BY <1>2, <1>3, <1>4, <2>1, Zenon DEF x
<1>. QED  BY <1>5 DEF QspiReceive

\* All bytes of a request of the QSPI are moved, but for the misfits.
LEMMA QspiLeads ==
  ASSUME NEW r, AcceptedQspi(r), Here(r) \in 0..AddrSpace
  PROVE  /\ ~From(r) => Leads(r, QspiSend(r.src, r.n, r.per), Fresh(r), Settled(r))
         /\ From(r) => Leads(r, QspiReceive(r.dst, r.n, r.per), Fresh(r), Settled(r))
<1>1. PICK P : /\ Leads(r, QspiLong(r), Going(r, OddSize(r), 0, Ccrs), P)
               /\ Leads(r, QspiShort(r), P, Settled(r))
  BY QspiPiecesLead
<1>2. Leads(r, OddWord(r), Going(r, 0, 0, Ccrs), Going(r, OddSize(r), 0, Ccrs))
  <2>1. OfQspi(r) /\ Here(r) % 4 = 0 /\ Spare(r, 0, r.n) /\ 0 \in Nat /\ 4 \in Nat /\ r.n \in Nat \ {0} /\ r.n % 4 = 0
    BY DEF AcceptedQspi
  <2>2. 0 + 4 <= 0 + r.n
    <3>. DEFINE n == r.n
    <3>1. n \in Nat \ {0} /\ n % 4 = 0
      BY <2>1
    <3>. HIDE DEF n
    <3>2. n >= 4
      BY <3>1
    <3>. QED  BY <3>1, <3>2 DEF n
  <2>3. Spare(r, 0, 4)
    BY <2>1, <2>2, SpareLess
  <2>. QED  BY <2>1, <2>3, OddWordLeads
<1>3. ASSUME ~From(r) PROVE Leads(r, QspiSend(r.src, r.n, r.per), Fresh(r), Settled(r))
  <2>. DEFINE A == Mov("DAR", Register)
              B == Mov("SAR", r.src)
              Z == State(r, 0, 0, 0, 0, {0}, {Register}, Ccrs)
  <2>1. Leads(r, A, Fresh(r), Z) /\ Leads(r, B, Z, Going(r, 0, 0, Ccrs))
    BY <1>3, StartLeads
  <2>2. QspiSend(r.src, r.n, r.per) = A \o (B \o OddWord(r) \o QspiLong(r) \o QspiShort(r))
    BY <1>3, QspiSendParts
  <2>. HIDE DEF A, B, Z
  <2>3. Leads(r, B \o OddWord(r), Z, Going(r, OddSize(r), 0, Ccrs))
    BY <1>2, <2>1, JoinLeads
  <2>4. Leads(r, B \o OddWord(r) \o QspiLong(r), Z, P)
    BY <1>1, <2>3, JoinLeads
  <2>5. Leads(r, B \o OddWord(r) \o QspiLong(r) \o QspiShort(r), Z, Settled(r))
    BY <1>1, <2>4, JoinLeads
  <2>6. Leads(r, A \o (B \o OddWord(r) \o QspiLong(r) \o QspiShort(r)), Fresh(r), Settled(r))
    BY <2>1, <2>5, JoinLeads
  <2>. QED  BY <2>2, <2>6
<1>4. ASSUME From(r) PROVE Leads(r, QspiReceive(r.dst, r.n, r.per), Fresh(r), Settled(r))
  <2>. DEFINE A == Mov("SAR", Register)
              B == Mov("DAR", r.dst)
              Z == State(r, 0, 0, 0, 0, {Register}, {0}, Ccrs)
  <2>1. Leads(r, A, Fresh(r), Z) /\ Leads(r, B, Z, Going(r, 0, 0, Ccrs))
    BY <1>4, StartLeads
  <2>2. QspiReceive(r.dst, r.n, r.per) = A \o (B \o OddWord(r) \o QspiLong(r) \o QspiShort(r))
    BY <1>4, QspiReceiveParts
  <2>. HIDE DEF A, B, Z
  <2>3. Leads(r, B \o OddWord(r), Z, Going(r, OddSize(r), 0, Ccrs))
    BY <1>2, <2>1, JoinLeads
  <2>4. Leads(r, B \o OddWord(r) \o QspiLong(r), Z, P)
    BY <1>1, <2>3, JoinLeads
  <2>5. Leads(r, B \o OddWord(r) \o QspiLong(r) \o QspiShort(r), Z, Settled(r))
    BY <1>1, <2>4, JoinLeads
  <2>6. Leads(r, A \o (B \o OddWord(r) \o QspiLong(r) \o QspiShort(r)), Fresh(r), Settled(r))
    BY <2>1, <2>5, JoinLeads
  <2>. QED  BY <2>2, <2>6
<1>. QED  BY <1>3, <1>4

-----------------------------------------------------------------------------
(* Every request.                                                          *)

\* What holds when the transfer is through, before an event is sent.
Through(r) ==
  {d \in Sound(r) : /\ ~d.signalled
                    /\ d.done = Asked(r) <=> ~QspiMisfit(r) /\ Asked(r) < AddrSpace}

LEMMA StateThrough ==
  ASSUME NEW r, NEW k, k = Asked(r) <=> ~QspiMisfit(r) /\ Asked(r) < AddrSpace
  PROVE  /\ \A t, a, m, S, D, C : State(r, k, t, a, m, S, D, C) \subseteq Through(r)
         /\ \A t, C : Moved(r, k, t, C) \subseteq Through(r)
         /\ \A C : Wiped(r, k, C) \subseteq Through(r)
         /\ \A a, C : Going(r, k, a, C) \subseteq Through(r)
         /\ \A a : Loose(r, k, a) \subseteq Through(r)
<1>1. \A t, a, m, S, D, C : State(r, k, t, a, m, S, D, C) \subseteq Through(r)
  BY DEF State, Through
<1>. QED  BY <1>1 DEF Moved, Wiped, Going, Loose

LEMMA FitsMemory ==
  ASSUME NEW a \in Words, NEW n \in Words, n # 0, ~Overshoots(a, n)
  PROVE  a + n <= AddrSpace
<1>1. Wrap(a + n - 1) = IF a + n - 1 < AddrSpace THEN a + n - 1 ELSE a + n - 1 - AddrSpace
  BY AddrSpaceAssumption, WrapOnce DEF Words
<1>. QED  BY <1>1, AddrSpaceAssumption DEF Overshoots, Words

\* The arguments of a request, as RequestsAssumption has them.
LEMMA Arguments ==
  ASSUME NEW r \in Requests
  PROVE  /\ r.n \in Words /\ r.width \in Nat
         /\ r.op \in {"m2m", "zero", "m2r", "m2p", "r2m", "p2m"}
         /\ r.op \in {"m2m", "m2r", "m2p"} => r.src \in Words
         /\ r.op \in {"m2m", "zero", "r2m", "p2m"} => r.dst \in Words
         /\ r.op \notin {"m2r", "r2m"} => r.width = 1
         /\ r.op \in {"m2p", "p2m"} => r.per \in Peripherals
         /\ r.op \notin {"m2p", "p2m"} => r.per.kind = "none"
<1>1. /\ r.n \in Words /\ r.width \in Nat
      /\ CASE r.op = "m2m" -> r.dst \in Words /\ r.src \in Words
           [] r.op = "zero" -> r.dst \in Words
           [] r.op \in {"m2r", "m2p"} -> r.dst = Register /\ r.src \in Words
           [] r.op \in {"r2m", "p2m"} -> r.dst \in Words /\ r.src = Register
           [] OTHER -> FALSE
      /\ r.op \notin {"m2r", "r2m"} => r.width = 1
      /\ IF r.op \in {"m2p", "p2m"} THEN r.per \in Peripherals ELSE r.per.kind = "none"
  BY RequestsAssumption
<1>2. r.op \in {"m2m", "zero", "m2r", "m2p", "r2m", "p2m"}
  BY RequestTypes
<1>3. CASE r.op = "m2m"
  BY <1>1, <1>3
<1>4. CASE r.op = "zero"
  BY <1>1, <1>4
<1>5. CASE r.op = "m2r"
  BY <1>1, <1>5
<1>6. CASE r.op = "m2p"
  BY <1>1, <1>6
<1>7. CASE r.op = "r2m"
  BY <1>1, <1>7
<1>8. CASE r.op = "p2m"
  BY <1>1, <1>8
<1>. QED  BY <1>2, <1>3, <1>4, <1>5, <1>6, <1>7, <1>8

\* A request that counts bytes.
LEMMA AskedBytes ==
  ASSUME NEW r \in Requests, r.op \notin {"m2r", "r2m"}
  PROVE  Asked(r) = r.n /\ Asked(r) < AddrSpace
<1>1. r.n \in Words /\ r.width = 1
  BY Arguments
<1>. QED  BY <1>1, AddrSpaceAssumption DEF Asked, Words

LEMMA CopyThrough ==
  ASSUME NEW r \in Requests, r.op = "m2m", r.n # 0, Verdict(r) = "success"
  PROVE  Leads(r, Transfer(r), Fresh(r), Through(r))
<1>. DEFINE n == r.n
<1>1. n \in Words /\ r.src \in Words /\ r.dst \in Words /\ r.per.kind = "none" /\ n > 0
  BY Arguments DEF Words
<1>2. ~Overlaps(r.dst, r.src, n) /\ ~Overshoots(r.dst, n) /\ ~Overshoots(r.src, n)
  BY DEF Verdict, CopyVerdict
<1>3. r.src + n <= AddrSpace /\ r.dst + n <= AddrSpace
  BY <1>1, <1>2, VerdictApart
<1>4. Places(r) /\ n \in Nat \ {0}
  BY <1>1 DEF Places, From, Words
<1>5. Ahead(r, 0, n)
  BY <1>1, <1>3, <1>4 DEF Ahead, Words
<1>6. Transfer(r) = CopySegment(r.dst, r.src, n)
  BY DEF Transfer
<1>7. n = Asked(r) <=> ~QspiMisfit(r) /\ Asked(r) < AddrSpace
  BY <1>1, AskedBytes DEF QspiMisfit
<1>8. n = r.n
  OBVIOUS
<1>. HIDE DEF n
<1>9. Leads(r, CopySegment(r.dst, r.src, n), Fresh(r), Moved(r, n, n, Ccrs))
  BY <1>4, <1>5, <1>8, CopySegmentLeads
<1>10. Moved(r, n, n, Ccrs) \subseteq Through(r)
  BY <1>7, StateThrough
<1>11. Leads(r, CopySegment(r.dst, r.src, n), Fresh(r), Through(r))
  BY <1>9, <1>10, LeadsWeaker
<1>. QED  BY <1>6, <1>11

LEMMA ZeroThrough ==
  ASSUME NEW r \in Requests, r.op = "zero", r.n # 0, Verdict(r) = "success"
  PROVE  Leads(r, Transfer(r), Fresh(r), Through(r))
<1>. DEFINE n == r.n
<1>1. n \in Words /\ r.dst \in Words /\ r.per.kind = "none" /\ n # 0
  BY Arguments DEF Words
<1>2. ~Overshoots(r.dst, n)
  BY DEF Verdict
<1>3. r.dst + n <= AddrSpace
  BY <1>1, <1>2, FitsMemory
<1>4. n \in Nat \ {0}
  BY <1>1 DEF Words
<1>5. Leaves(r, 0, n)
  BY <1>1, <1>3, <1>4 DEF Leaves, Words, From
<1>6. Transfer(r) = ZeroSegment(r.dst, n)
  BY DEF Transfer
<1>7. n = Asked(r) <=> ~QspiMisfit(r) /\ Asked(r) < AddrSpace
  BY <1>1, AskedBytes DEF QspiMisfit
<1>8. n = r.n
  OBVIOUS
<1>. HIDE DEF n
<1>9. Leads(r, ZeroSegment(r.dst, n), Fresh(r), Wiped(r, n, Ccrs))
  BY <1>4, <1>5, <1>8, ZeroSegmentLeads
<1>10. Wiped(r, n, Ccrs) \subseteq Through(r)
  BY <1>7, StateThrough
<1>11. Leads(r, ZeroSegment(r.dst, n), Fresh(r), Through(r))
  BY <1>9, <1>10, LeadsWeaker
<1>. QED  BY <1>6, <1>11

LEMMA RegisterThrough ==
  ASSUME NEW r \in Requests, r.op \in {"m2r", "r2m"}, r.n # 0, Verdict(r) = "success"
  PROVE  Leads(r, Transfer(r), Fresh(r), Through(r))
<1>. DEFINE h == Here(r)
            z == Size(r)
            w == r.width
            k == Counted(r)
            a == Asked(r)
<1>1. r.n \in Words /\ h \in Words /\ r.per.kind = "none" /\ h = Memory(r)
  BY Arguments DEF Here, From, Memory
<1>2. w \in {1, 2, 4, 8} /\ h % w = 0 /\ ~Overshoots(h, z)
  BY <1>1 DEF Verdict, RegisterVerdict
<1>3. a \in Nat /\ z = a % AddrSpace /\ z \in Words
  <2>1. r.n \in Nat /\ w \in Nat
    BY <1>1, <1>2 DEF Words
  <2>2. a = r.n * w /\ a \in Nat
    BY <2>1 DEF Asked
  <2>3. z = a % AddrSpace
    BY <2>2 DEF Size, Wrap
  <2>. HIDE DEF a, z
  <2>. QED  BY <2>2, <2>3, AddrSpaceAssumption DEF Words
<1>4. z # 0 => Spare(r, 0, z)
  <2>. HAVE z # 0
  <2>1. h + z <= AddrSpace
    BY <1>1, <1>2, <1>3, FitsMemory
  <2>. HIDE DEF z
  <2>. QED  BY <1>1, <1>3, <2>1 DEF Spare, Words
<1>5. Registers(r)
  <2>1. h \in 0..AddrSpace /\ z \in Nat
    BY <1>1, <1>3, AddrSpaceAssumption DEF Words
  <2>. QED  BY <1>1, <1>2, <1>4, <2>1 DEF Registers
<1>6. k = a <=> a < AddrSpace
  <2>. DEFINE x == z \div w
  <2>1. z \in Nat /\ w \in Nat \ {0}
    BY <1>2, <1>3 DEF Words
  <2>2. x \in Nat /\ z % w \in 0..(w - 1) /\ w * x + (z % w) = z /\ w * x \in Nat
    <3>. HIDE DEF z, w
    <3>. QED  BY <2>1, Division
  <2>3. k = w * x
    BY DEF Counted
  <2>4. a < AddrSpace => z = a /\ a % w = 0
    <3>. HAVE a < AddrSpace
    <3>1. z = a
      BY <1>3, AddrSpaceAssumption
    <3>2. a = r.n * w /\ r.n \in Nat
      BY <1>1 DEF Asked, Words
    <3>. DEFINE n == r.n
    <3>. HIDE DEF a, w, n
    <3>3. n \in Nat /\ w \in {1, 2, 4, 8} /\ a = n * w
      BY <1>2, <3>2 DEF n
    <3>4. a % w = 0
      <4>1. CASE w = 1
        BY <3>3, <4>1
      <4>2. CASE w = 2
        BY <3>3, <4>2
      <4>3. CASE w = 4
        BY <3>3, <4>3
      <4>4. CASE w = 8
        BY <3>3, <4>4
      <4>. QED  BY <3>3, <4>1, <4>2, <4>3, <4>4
    <3>. QED  BY <3>1, <3>4
  <2>5. z < AddrSpace /\ k <= z /\ k \in Nat
    <3>1. z < AddrSpace
      BY <1>3, AddrSpaceAssumption DEF Words
    <3>. HIDE DEF k, z, w, x
    <3>. QED  BY <2>1, <2>2, <2>3, <3>1
  <2>6. ASSUME a < AddrSpace PROVE k = a
    <3>. HIDE DEF k, z, w, x, a
    <3>. QED  BY <2>1, <2>2, <2>3, <2>4, <2>6
  <2>. HIDE DEF k, z, w, x, a
  <2>. QED  BY <1>3, <2>5, <2>6, AddrSpaceAssumption
<1>7. k = Asked(r) <=> ~QspiMisfit(r) /\ Asked(r) < AddrSpace
  BY <1>1, <1>6 DEF QspiMisfit
<1>8. (IF Size(r) = 0 THEN Idle(r) ELSE Going(r, Counted(r), 0, Ccrs)) \subseteq Through(r)
  <2>1. CASE Size(r) = 0
    <3>1. k = 0
      <4>1. w * 0 = 0 /\ z \div w = 0
        BY <1>2, <2>1
      <4>. QED  BY <4>1 DEF Counted
    <3>2. 0 = Asked(r) <=> ~QspiMisfit(r) /\ Asked(r) < AddrSpace
      BY <1>7, <3>1
    <3>3. Idle(r) \subseteq Through(r)
      <4>. DEFINE zero == 0
      <4>1. zero = Asked(r) <=> ~QspiMisfit(r) /\ Asked(r) < AddrSpace
        BY <3>2
      <4>. HIDE DEF zero
      <4>2. \A t, b, m, S, D, C : State(r, zero, t, b, m, S, D, C) \subseteq Through(r)
        BY <4>1, StateThrough
      <4>. QED  BY <4>2 DEF Idle, zero
    <3>. QED  BY <2>1, <3>3
  <2>2. CASE Size(r) # 0
    BY <1>7, <2>2, StateThrough
  <2>. QED  BY <2>1, <2>2
<1>9. CASE From(r)
  <2>1. Transfer(r) = FromRegister(r)
    BY <1>9 DEF From, Transfer
  <2>2. Leads(r, FromRegister(r), Fresh(r), IF Size(r) = 0 THEN Idle(r) ELSE Going(r, Counted(r), 0, Ccrs))
    BY <1>5, <1>9, FromRegisterLeads
  <2>3. Leads(r, FromRegister(r), Fresh(r), Through(r))
    BY <1>8, <2>2, LeadsWeaker
  <2>. QED  BY <2>1, <2>3
<1>10. CASE ~From(r)
  <2>1. Transfer(r) = ToRegister(r)
    BY <1>10 DEF From, Transfer
  <2>2. Leads(r, ToRegister(r), Fresh(r), IF Size(r) = 0 THEN Idle(r) ELSE Going(r, Counted(r), 0, Ccrs))
    BY <1>5, <1>10, ToRegisterLeads
  <2>3. Leads(r, ToRegister(r), Fresh(r), Through(r))
    BY <1>8, <2>2, LeadsWeaker
  <2>. QED  BY <2>1, <2>3
<1>. QED  BY <1>9, <1>10

\* What is common to the requests of a peripheral.
LEMMA PeripheralRequest ==
  ASSUME NEW r \in Requests, r.op \in {"m2p", "p2m"}, r.n # 0, Verdict(r) = "success"
  PROVE  /\ r.n \in Nat \ {0} /\ Here(r) \in 0..AddrSpace /\ Spare(r, 0, r.n) /\ Here(r) = Memory(r)
         /\ r.per \in Peripherals /\ r.per.kind # "other"
         /\ From(r) <=> r.op = "p2m"
         /\ ~From(r) <=> r.op = "m2p"
         /\ Asked(r) = r.n /\ Asked(r) < AddrSpace
         /\ r.per.kind = "qspi" => ~QspiRefuses(Memory(r), r.n, r.per)
<1>1. r.n \in Words /\ Memory(r) \in Words /\ r.per \in Peripherals
  BY Arguments DEF Memory
<1>2. Here(r) = Memory(r) /\ (From(r) <=> r.op = "p2m") /\ (~From(r) <=> r.op = "m2p")
  BY DEF Here, From, Memory
<1>3. PeriphVerdict(r) = "success"
  BY DEF Verdict
<1>4. ~Overshoots(Memory(r), r.n) /\ r.per.kind # "other"
  BY <1>3 DEF PeriphVerdict
<1>5. r.per.kind = "qspi" => ~QspiRefuses(Memory(r), r.n, r.per)
  BY <1>3, <1>4 DEF PeriphVerdict
<1>6. Memory(r) + r.n <= AddrSpace
  BY <1>1, <1>4, FitsMemory
<1>7. r.n \in Nat \ {0} /\ Here(r) \in 0..AddrSpace
  <2>1. Here(r) \in Words
    BY <1>1, <1>2
  <2>. QED  BY <1>1, <2>1, AddrSpaceAssumption DEF Words
<1>8. Spare(r, 0, r.n)
  BY <1>1, <1>2, <1>6, <1>7 DEF Spare, Words
<1>. QED  BY <1>1, <1>2, <1>4, <1>5, <1>7, <1>8, AskedBytes

LEMMA UartThrough ==
  ASSUME NEW r \in Requests, r.op \in {"m2p", "p2m"}, r.n # 0, Verdict(r) = "success", r.per.kind = "uart"
  PROVE  Leads(r, Transfer(r), Fresh(r), Through(r))
<1>. DEFINE n == r.n
<1>1. /\ n \in Nat \ {0} /\ Spare(r, 0, n) /\ r.per \in Peripherals
      /\ From(r) <=> r.op = "p2m"
      /\ ~From(r) <=> r.op = "m2p"
      /\ Asked(r) = n /\ Asked(r) < AddrSpace
  <2>. HIDE DEF n
  <2>. QED  BY PeripheralRequest DEF n
<1>2. OfUart(r)
  <2>1. /\ r.per.fifo \in BOOLEAN /\ r.per.depth \in {16 * k : k \in 0..255}
        /\ r.per.fifo => r.per.depth > 0
    BY <1>1 DEF Peripherals
  <2>. QED  BY <2>1 DEF OfUart
<1>3. n = Asked(r) <=> ~QspiMisfit(r) /\ Asked(r) < AddrSpace
  BY <1>1 DEF QspiMisfit
<1>. HIDE DEF n
<1>4. Going(r, n, 0, Ccrs) \subseteq Through(r)
  BY <1>3, StateThrough
<1>5. CASE From(r)
  <2>1. Transfer(r) = UartReceive(r.dst, n, r.per)
    BY <1>1, <1>5 DEF Transfer, FromPeriph, n
  <2>2. Leads(r, UartReceive(r.dst, n, r.per), Fresh(r), Going(r, n, 0, Ccrs))
    BY <1>1, <1>2, <1>5, UartLeads
  <2>3. Leads(r, UartReceive(r.dst, n, r.per), Fresh(r), Through(r))
    BY <1>4, <2>2, LeadsWeaker
  <2>. QED  BY <2>1, <2>3
<1>6. CASE ~From(r)
  <2>1. Transfer(r) = UartSend(r.src, n, r.per)
    BY <1>1, <1>6 DEF Transfer, ToPeriph, n
  <2>2. Leads(r, UartSend(r.src, n, r.per), Fresh(r), Going(r, n, 0, Ccrs))
    BY <1>1, <1>2, <1>6, UartLeads
  <2>3. Leads(r, UartSend(r.src, n, r.per), Fresh(r), Through(r))
    BY <1>4, <2>2, LeadsWeaker
  <2>. QED  BY <2>1, <2>3
<1>. QED  BY <1>5, <1>6

LEMMA I2cThrough ==
  ASSUME NEW r \in Requests, r.op \in {"m2p", "p2m"}, r.n # 0, Verdict(r) = "success", r.per.kind = "i2c"
  PROVE  Leads(r, Transfer(r), Fresh(r), Through(r))
<1>. DEFINE n == r.n
            zero == 0
<1>1. /\ n \in Nat \ {0} /\ Spare(r, 0, n) /\ r.per \in Peripherals
      /\ From(r) <=> r.op = "p2m"
      /\ ~From(r) <=> r.op = "m2p"
      /\ Asked(r) = n /\ Asked(r) < AddrSpace
  <2>. HIDE DEF n
  <2>. QED  BY PeripheralRequest DEF n
<1>2. OfI2c(r)
  <2>1. /\ r.per.level \in 0..255 /\ r.per.master \in BOOLEAN
        /\ r.per.restart \in BOOLEAN /\ r.per.stop \in BOOLEAN
    BY <1>1 DEF Peripherals
  <2>. QED  BY <1>1, <2>1 DEF OfI2c
<1>3. n = Asked(r) <=> ~QspiMisfit(r) /\ Asked(r) < AddrSpace
  BY <1>1 DEF QspiMisfit
<1>4. n = r.n /\ zero = 0 /\ Fresh(r) \subseteq Loose(r, zero, zero)
  BY LooseSets
<1>. HIDE DEF n
<1>5. \A a : Loose(r, n, a) \subseteq Through(r)
  BY <1>3, StateThrough
<1>6. \A a, C : Going(r, n, a, C) \subseteq Through(r)
  BY <1>3, StateThrough
<1>7. CASE Master(r)
  <2>0. r.per.master
    BY <1>7 DEF Master
  <2>1. CASE From(r)
    <3>1. Transfer(r) = I2cReceiveMaster(r.dst, n, r.per)
      BY <1>1, <2>0, <2>1, Zenon DEF Transfer, FromPeriph, FromI2c, n
    <3>2. Leads(r, I2cReceiveMaster(r.dst, n, r.per), Fresh(r), Loose(r, n, n))
      BY <1>1, <1>2, <1>4, <1>7, <2>1, I2cReceiveMasterLeads
    <3>3. Leads(r, I2cReceiveMaster(r.dst, n, r.per), Fresh(r), Through(r))
      BY <1>5, <3>2, LeadsWeaker
    <3>. QED  BY <3>1, <3>3
  <2>2. CASE ~From(r)
    <3>1. Transfer(r) = I2cSendMaster(r.src, n, r.per)
      BY <1>1, <2>0, <2>2, Zenon DEF Transfer, ToPeriph, ToI2c, n
    <3>2. Leads(r, I2cSendMaster(r.src, n, r.per), Fresh(r), Loose(r, n, 0))
      BY <1>1, <1>2, <1>4, <1>7, <2>2, I2cSendMasterLeads
    <3>3. Leads(r, I2cSendMaster(r.src, n, r.per), Fresh(r), Through(r))
      BY <1>5, <3>2, LeadsWeaker
    <3>. QED  BY <3>1, <3>3
  <2>. QED  BY <2>1, <2>2
<1>8. CASE ~Master(r)
  <2>0. ~r.per.master
    BY <1>8 DEF Master
  <2>1. SingleBytes(r, zero, n)
    <3>1. Spare(r, zero, n - zero) /\ zero <= n /\ n \in Nat
      BY <1>1
    <3>2. Enough(r, Towards(r), FALSE, 1)
      <4>1. Towards(r) \in {"tx", "rx"}
        BY DEF Towards
      <4>2. Granted(r, Towards(r), FALSE) = 1 /\ UsedBy(r, 1) = 1
        BY DEF Granted, UsedBy
      <4>. DEFINE g == Granted(r, Towards(r), FALSE)
                  u == UsedBy(r, 1)
      <4>3. g = 1 /\ u = 1
        BY <4>2
      <4>. HIDE DEF g, u
      <4>4. g \in Nat /\ u \in Nat /\ u <= g /\ FALSE \in BOOLEAN
        BY <4>3
      <4>. QED  BY <4>1, <4>4, Zenon DEF Enough, g, u
    <3>3. \A j : Frames1(r, j, FALSE, FALSE)
      BY <1>8 DEF Frames1
    <3>. HIDE DEF zero
    <3>. QED  BY <1>1, <3>1, <3>2, <3>3 DEF SingleBytes
  <2>2. n = n - zero
    BY <1>1
  <2>3. CASE From(r)
    <3>1. Transfer(r) = I2cReceive(r.dst, n, r.per.level)
      BY <1>1, <2>0, <2>3, Zenon DEF Transfer, FromPeriph, FromI2c, n
    <3>2. r.dst = Here(r) + zero
      BY <1>1, <2>3 DEF Here, Spare
    <3>. HIDE DEF zero
    <3>3. Leads(r, I2cReceive(r.dst, n, r.per.level), Loose(r, zero, zero), Going(r, n, zero, Ccrs))
      BY <1>2, <2>1, <2>2, <2>3, <3>2, I2cReceiveLeads
    <3>4. Leads(r, I2cReceive(r.dst, n, r.per.level), Fresh(r), Through(r))
      BY <1>4, <1>6, <3>3, LeadsWeaker
    <3>. QED  BY <3>1, <3>4
  <2>4. CASE ~From(r)
    <3>1. Transfer(r) = I2cSend(r.src, n, r.per.level)
      BY <1>1, <2>0, <2>4, Zenon DEF Transfer, ToPeriph, ToI2c, n
    <3>2. r.src = Here(r) + zero
      BY <1>1, <2>4 DEF Here, Spare
    <3>. HIDE DEF zero
    <3>3. Leads(r, I2cSend(r.src, n, r.per.level), Loose(r, zero, zero), Going(r, n, zero, Ccrs))
      BY <1>2, <2>1, <2>2, <2>4, <3>2, I2cSendLeads
    <3>4. Leads(r, I2cSend(r.src, n, r.per.level), Fresh(r), Through(r))
      BY <1>4, <1>6, <3>3, LeadsWeaker
    <3>. QED  BY <3>1, <3>4
  <2>. QED  BY <2>3, <2>4
<1>. QED  BY <1>7, <1>8

LEMMA QspiThrough ==
  ASSUME NEW r \in Requests, r.op \in {"m2p", "p2m"}, r.n # 0, Verdict(r) = "success", r.per.kind = "qspi"
  PROVE  Leads(r, Transfer(r), Fresh(r), Through(r))
<1>. DEFINE n == r.n
<1>1. /\ n \in Nat \ {0} /\ Spare(r, 0, n) /\ r.per \in Peripherals
      /\ From(r) <=> r.op = "p2m"
      /\ ~From(r) <=> r.op = "m2p"
      /\ Asked(r) = n /\ Asked(r) < AddrSpace
      /\ Here(r) \in 0..AddrSpace /\ Here(r) = Memory(r) /\ ~QspiRefuses(Memory(r), n, r.per)
  <2>. HIDE DEF n
  <2>. QED  BY PeripheralRequest DEF n
<1>2. OfQspi(r)
  <2>1. r.per.single \in 0..15 /\ r.per.burst \in 0..15
    BY <1>1 DEF Peripherals
  <2>. QED  BY <1>1, <2>1 DEF OfQspi
<1>3. AcceptedQspi(r)
  <2>1. Memory(r) % 4 = 0 /\ n % 4 = 0 /\ n % Chunk(r.per.single) = 0
    BY <1>1, Zenon DEF QspiRefuses, Chunk
  <2>. QED  BY <1>1, <1>2, <2>1 DEF AcceptedQspi
<1>4. Settled(r) \subseteq Through(r)
  BY <1>1 DEF Settled, Through
<1>5. CASE From(r)
  <2>1. Transfer(r) = QspiReceive(r.dst, r.n, r.per)
    BY <1>1, <1>5 DEF Transfer, FromPeriph
  <2>2. Leads(r, QspiReceive(r.dst, r.n, r.per), Fresh(r), Settled(r))
    BY <1>1, <1>3, <1>5, QspiLeads
  <2>3. Leads(r, QspiReceive(r.dst, r.n, r.per), Fresh(r), Through(r))
    BY <1>4, <2>2, LeadsWeaker
  <2>. QED  BY <2>1, <2>3
<1>6. CASE ~From(r)
  <2>1. Transfer(r) = QspiSend(r.src, r.n, r.per)
    BY <1>1, <1>6 DEF Transfer, ToPeriph
  <2>2. Leads(r, QspiSend(r.src, r.n, r.per), Fresh(r), Settled(r))
    BY <1>1, <1>3, <1>6, QspiLeads
  <2>3. Leads(r, QspiSend(r.src, r.n, r.per), Fresh(r), Through(r))
    BY <1>4, <2>2, LeadsWeaker
  <2>. QED  BY <2>1, <2>3
<1>. QED  BY <1>5, <1>6

LEMMA TransferLeads ==
  ASSUME NEW r \in Requests, r.n # 0, Verdict(r) = "success"
  PROVE  Leads(r, Transfer(r), Fresh(r), Through(r))
<1>1. r.op \in {"m2m", "zero", "m2r", "m2p", "r2m", "p2m"}
  BY RequestTypes
<1>2. CASE r.op = "m2m"
  BY <1>2, CopyThrough
<1>3. CASE r.op = "zero"
  BY <1>3, ZeroThrough
<1>4. CASE r.op \in {"m2r", "r2m"}
  BY <1>4, RegisterThrough
<1>5. CASE r.op \in {"m2p", "p2m"}
  <2>1. r.per \in Peripherals /\ r.per.kind # "other"
    BY <1>5, PeripheralRequest
  <2>2. r.per.kind = "i2c" \/ r.per.kind = "qspi" \/ r.per.kind = "uart"
    BY <2>1, PeripheralTypes
  <2>. QED  BY <1>5, <2>2, I2cThrough, QspiThrough, UartThrough
<1>. QED  BY <1>1, <1>2, <1>3, <1>4, <1>5

-----------------------------------------------------------------------------
(* The end of a program.                                                   *)

\* The stores of a channel that waits arrive.
Arrived(d) == [d EXCEPT !.landed = d.done]

LEMMA WaitLeads ==
  ASSUME NEW r, NEW c \in Instructions, c.op \in Waits,
         NEW P \in SUBSET Sound(r), NEW Q \in SUBSET Sound(r),
         \A d \in P : /\ Arrived(d) \in P
                      /\ c.op = "END" /\ d.landed = d.done => d \in Final(r)
                      /\ c.op # "END" /\ Able(c, d) => Result(r, c, d) \in Q
  PROVE  Leads(r, <<c>>, P, Q)
<1>. DEFINE A == {<<1, <<>>, d>> : d \in P} \cup {<<2, <<>>, d>> : d \in Q}
<1>1. <<c>> \in Seq(Instructions) /\ Len(<<c>>) = 1 /\ <<c>>[1] = c
  OBVIOUS
<1>2. Open(<<>>, 1) /\ Open(<<>>, 2) /\ <<>> \in Seq(Turns)
  BY DEF Open
<1>3. A \subseteq Nat \X Seq(Turns) \X Raw
  <2>1. \A d \in Sound(r) : d \in Raw
    BY DEF Sound
  <2>2. ASSUME NEW x \in A PROVE x \in Nat \X Seq(Turns) \X Raw
    <3>1. \A y \in Raw : <<1, <<>>, y>> \in Nat \X Seq(Turns) \X Raw
                       /\ <<2, <<>>, y>> \in Nat \X Seq(Turns) \X Raw
      BY <1>2
    <3>2. CASE x \in {<<1, <<>>, d>> : d \in P}
      BY <2>1, <3>1, <3>2
    <3>3. CASE x \in {<<2, <<>>, d>> : d \in Q}
      BY <2>1, <3>1, <3>3
    <3>. QED  BY <3>2, <3>3
  <2>. QED  BY <2>2
<1>. HIDE DEF A
<1>4. Outlined(r, <<c>>, A)
  <2>. SUFFICES ASSUME NEW i, NEW s, NEW d, <<i, s, d>> \in A
                PROVE  /\ i \in 1..2 /\ Open(s, i) /\ d \in Sound(r)
                       /\ i = 2 => s = <<>>
                       /\ i \in 1..1 => Follows(r, <<c>>, A, i, s, d)
    BY <1>1, <1>3 DEF Outlined
  <2>1. s = <<>> /\ \/ i = 1 /\ d \in P
                    \/ i = 2 /\ d \in Q
    BY DEF A
  <2>2. ASSUME i = 1, d \in P PROVE Follows(r, <<c>>, A, 1, <<>>, d)
    <3>1. c.op # "END" /\ Able(c, d) => <<1 + 1, <<>>, Result(r, c, d)>> \in A
      BY <2>2 DEF A
    <3>2. <<1, <<>>, [d EXCEPT !.landed = d.done]>> \in A
      BY <2>2 DEF A, Arrived
    <3>. QED  BY <1>1, <2>2, <3>1, <3>2 DEF Follows, Loops, Waits
  <2>. QED  BY <1>2, <2>1, <2>2
<1>5. \A d \in P : <<1, <<>>, d>> \in A
  BY DEF A
<1>6. \A d : <<Len(<<c>>) + 1, <<>>, d>> \in A => d \in Q
  BY <1>1 DEF A
<1>. QED  BY <1>1, <1>4, <1>5, <1>6 DEF Leads

\* The rest of the request is in place, and so is all of a copy; before the event of a copy
\* is sent it has arrived.
Whole(r, d) ==
  /\ d.done = Asked(r) <=> ~QspiMisfit(r) /\ Asked(r) < AddrSpace
  /\ r.op = "m2m" => d.done = r.n
Finished(r) == {d \in Sound(r) : Whole(r, d)}
Quiet(r) == {d \in Finished(r) : ~d.signalled}
Announced(r) == {d \in Quiet(r) : r.op = "m2m" => d.landed = d.done}

LEMMA ArrivedSound ==
  ASSUME NEW r, NEW d \in Sound(r), d.signalled /\ r.op = "m2m" => d.done = r.n
  PROVE  /\ Arrived(d) \in Sound(r) /\ Arrived(d).done = d.done /\ Arrived(d).landed = d.done
         /\ Arrived(d).signalled = d.signalled
<1>. DEFINE e == Arrived(d)
<1>1. d \in Raw /\ d.done \in Nat
  BY DEF Sound
<1>2. /\ e \in Raw /\ e.sar = d.sar /\ e.dar = d.dar /\ e.got = d.got /\ e.done = d.done /\ e.landed = d.done
      /\ e.asked = d.asked /\ e.exact = d.exact /\ e.room = d.room /\ e.bus = d.bus /\ e.signalled = d.signalled
  BY <1>1 DEF Raw, Arrived
<1>. HIDE DEF e
<1>3. e \in Sound(r)
  BY <1>2 DEF Sound
<1>. QED  BY <1>2, <1>3 DEF e

LEMMA FinishedArrive ==
  ASSUME NEW r
  PROVE  /\ \A d \in Finished(r) : Arrived(d) \in Finished(r)
         /\ \A d \in Quiet(r) : Arrived(d) \in Quiet(r)
         /\ \A d \in Announced(r) : Arrived(d) \in Announced(r)
BY ArrivedSound DEF Finished, Quiet, Announced, Whole

LEMMA EndLeads ==
  ASSUME NEW r
  PROVE  Leads(r, Op("END"), Finished(r), {})
<1>. DEFINE c == [op |-> "END"]
<1>1. c \in Instructions /\ c.op = "END" /\ c.op \in Waits
  BY DEF Instructions, Closing, Waits
<1>2. Finished(r) \in SUBSET Sound(r) /\ {} \in SUBSET Sound(r) /\ Finished(r) \subseteq Final(r)
  BY DEF Finished, Final, Whole
<1>. HIDE DEF c
<1>3. \A d \in Finished(r) : /\ Arrived(d) \in Finished(r)
                             /\ c.op = "END" /\ d.landed = d.done => d \in Final(r)
                             /\ c.op # "END" /\ Able(c, d) => Result(r, c, d) \in {}
  BY <1>1, <1>2, FinishedArrive
<1>4. Leads(r, <<c>>, Finished(r), {})
  BY <1>1, <1>2, <1>3, WaitLeads
<1>. QED  BY <1>4 DEF c, Op

LEMMA BarrierLeads ==
  ASSUME NEW r
  PROVE  Leads(r, Op("WMB"), Quiet(r), Announced(r))
<1>. DEFINE c == [op |-> "WMB"]
<1>1. c \in Instructions /\ c.op = "WMB" /\ c.op \in Waits
  BY DEF Instructions, Closing, Waits
<1>2. Quiet(r) \in SUBSET Sound(r) /\ Announced(r) \in SUBSET Sound(r)
  BY DEF Quiet, Announced, Finished
<1>. HIDE DEF c
<1>3. \A d \in Quiet(r) : Able(c, d) => Result(r, c, d) \in Announced(r)
  <2>1. \A d : Result(r, c, d) = d
    BY <1>1 DEF Result
  <2>. QED  BY <1>1, <2>1 DEF Able, Announced
<1>4. \A d \in Quiet(r) : /\ Arrived(d) \in Quiet(r)
                          /\ c.op = "END" /\ d.landed = d.done => d \in Final(r)
                          /\ c.op # "END" /\ Able(c, d) => Result(r, c, d) \in Announced(r)
  BY <1>1, <1>3, FinishedArrive
<1>5. Leads(r, <<c>>, Quiet(r), Announced(r))
  BY <1>1, <1>2, <1>4, WaitLeads
<1>. QED  BY <1>5 DEF c, Op

LEMMA EventLeads ==
  ASSUME NEW r
  PROVE  Leads(r, Op("SEV"), Announced(r), Finished(r))
<1>. DEFINE c == [op |-> "SEV"]
<1>1. c \in Instructions /\ c.op = "SEV" /\ c.op \in Waits
  BY DEF Instructions, Closing, Waits
<1>2. Announced(r) \in SUBSET Sound(r) /\ Finished(r) \in SUBSET Sound(r)
  BY DEF Quiet, Announced, Finished
<1>3. ASSUME NEW d \in Announced(r) PROVE Result(r, c, d) \in Finished(r)
  <2>. DEFINE e == [d EXCEPT !.signalled = TRUE]
  <2>1. Result(r, c, d) = e
    BY <1>1 DEF Result
  <2>2. d \in Sound(r) /\ Whole(r, d) /\ (r.op = "m2m" => d.landed = d.done)
    BY <1>3 DEF Announced, Quiet, Finished
  <2>3. d \in Raw
    BY <2>2 DEF Sound
  <2>4. /\ e \in Raw /\ e.sar = d.sar /\ e.dar = d.dar /\ e.got = d.got /\ e.done = d.done /\ e.landed = d.landed
        /\ e.asked = d.asked /\ e.exact = d.exact /\ e.room = d.room /\ e.bus = d.bus
    BY <2>3 DEF Raw
  <2>. HIDE DEF e, c
  <2>5. Whole(r, e)
    BY <2>2, <2>4 DEF Whole
  <2>6. r.op = "m2m" => e.landed = r.n
    BY <2>2, <2>4 DEF Whole
  <2>7. e \in Sound(r)
    BY <2>2, <2>4, <2>6 DEF Sound
  <2>. QED  BY <2>1, <2>5, <2>7 DEF Finished
<1>. HIDE DEF c
<1>4. \A d \in Announced(r) : /\ Arrived(d) \in Announced(r)
                              /\ c.op = "END" /\ d.landed = d.done => d \in Final(r)
                              /\ c.op # "END" /\ Able(c, d) => Result(r, c, d) \in Finished(r)
  BY <1>1, <1>3, FinishedArrive
<1>5. Leads(r, <<c>>, Announced(r), Finished(r))
  BY <1>1, <1>2, <1>4, WaitLeads
<1>. QED  BY <1>5 DEF c, Op

LEMMA SignalLeads ==
  ASSUME NEW r
  PROVE  Leads(r, Signal(r), Quiet(r), Finished(r))
<1>. DEFINE W == IF r.op = "m2m" THEN Op("WMB") ELSE <<>>
            E == Op("SEV")
<1>1. Quiet(r) \in SUBSET Sound(r) /\ Quiet(r) \subseteq Finished(r)
  BY DEF Quiet, Finished
<1>2. CASE r.evt
  <2>1. Signal(r) = W \o E
    BY <1>2 DEF Signal
  <2>2. Leads(r, W, Quiet(r), Announced(r))
    <3>1. CASE r.op = "m2m"
      BY <3>1, BarrierLeads
    <3>2. CASE r.op # "m2m"
      <4>1. Quiet(r) \subseteq Announced(r)
        BY <3>2 DEF Announced
      <4>2. Leads(r, <<>>, Quiet(r), Announced(r))
        BY <1>1, <4>1, NothingLeads
      <4>. QED  BY <3>2, <4>2
    <3>. QED  BY <3>1, <3>2
  <2>3. Leads(r, E, Announced(r), Finished(r))
    BY EventLeads
  <2>. HIDE DEF W, E
  <2>4. Leads(r, W \o E, Quiet(r), Finished(r))
    BY <2>2, <2>3, JoinLeads
  <2>. QED  BY <2>1, <2>4
<1>3. CASE ~r.evt
  <2>1. Signal(r) = <<>>
    BY <1>3 DEF Signal
  <2>2. Leads(r, <<>>, Quiet(r), Finished(r))
    BY <1>1, NothingLeads
  <2>. QED  BY <2>1, <2>2
<1>. QED  BY <1>2, <1>3

\* The whole program of a request that is not refused.
LEMMA ProgramLeads ==
  ASSUME NEW r \in Requests, Verdict(r) = "success"
  PROVE  Leads(r, Program(r), Fresh(r), {})
<1>. DEFINE T == IF r.n = 0 THEN <<>> ELSE Transfer(r)
<1>1. Through(r) \subseteq Quiet(r)
  <2>1. r.op = "m2m" => Asked(r) = r.n /\ ~QspiMisfit(r) /\ Asked(r) < AddrSpace
    <3>. HAVE r.op = "m2m"
    <3>1. r.per.kind = "none"
      BY Arguments
    <3>. QED  BY <3>1, AskedBytes DEF QspiMisfit
  <2>. QED  BY <2>1 DEF Through, Quiet, Finished, Whole
<1>2. Leads(r, T, Fresh(r), Through(r))
  <2>1. CASE r.n = 0
    <3>1. Asked(r) = 0 /\ ~QspiMisfit(r) /\ 0 < AddrSpace
      <4>1. r.width \in Nat
        BY Arguments
      <4>. QED  BY <2>1, <4>1, AddrSpaceAssumption DEF Asked, QspiMisfit
    <3>2. Fresh(r) \subseteq Through(r)
      <4>. DEFINE zero == 0
      <4>1. zero = Asked(r) <=> ~QspiMisfit(r) /\ Asked(r) < AddrSpace
        BY <3>1
      <4>. HIDE DEF zero
      <4>2. \A t, b, m, S, D, C : State(r, zero, t, b, m, S, D, C) \subseteq Through(r)
        BY <4>1, StateThrough
      <4>. QED  BY <4>2 DEF Fresh, zero
    <3>3. Fresh(r) \in SUBSET Sound(r)
      BY StateSound DEF Fresh
    <3>. QED  BY <2>1, <3>2, <3>3, NothingLeads
  <2>2. CASE r.n # 0
    BY <2>2, TransferLeads
  <2>. QED  BY <2>1, <2>2
<1>3. Program(r) = T \o Signal(r) \o Op("END")
  BY DEF Program
<1>. HIDE DEF T
<1>4. Fresh(r) \in SUBSET Fresh(r)
  OBVIOUS
<1>5. Leads(r, T, Fresh(r), Quiet(r))
  BY <1>1, <1>2, <1>4, LeadsWeaker
<1>6. Leads(r, T \o Signal(r), Fresh(r), Finished(r))
  BY <1>5, SignalLeads, JoinLeads
<1>7. Leads(r, T \o Signal(r) \o Op("END"), Fresh(r), {})
  BY <1>6, EndLeads, JoinLeads
<1>. QED  BY <1>3, <1>7

-----------------------------------------------------------------------------
(* The channel stays in the outline of its program.                        *)

\* The data of a channel that has done nothing yet.
Unused ==
  [sar |-> 0, dar |-> 0, ccr |-> NoCcr, fifo |-> <<>>, got |-> 0, done |-> 0, landed |-> 0,
   asked |-> 0, room |-> 0, bus |-> NoWord, exact |-> TRUE, signalled |-> FALSE]

\* An outline of a whole program has no place behind its last instruction.
Covers(r, p, A) == Outlined(r, p, A) /\ \A d : <<Len(p) + 1, <<>>, d>> \notin A

OutlineInv ==
  /\ phase \in {"idle", "run", "ended", "refused", "starved"}
  /\ Open(loops, pc) /\ pc \in Nat
  /\ phase = "idle" => req = NoRequest /\ pc = 1 /\ loops = <<>> /\ Now = Unused
  /\ phase # "idle" => req \in Requests /\ Now \in Sound(req)
  /\ phase = "run" => \E A : Covers(req, prog, A) /\ <<pc, loops, Now>> \in A
  /\ phase = "ended" => Now \in Final(req)
  /\ phase = "starved" => QspiMisfit(req)

LEMMA UnusedFresh ==
  ASSUME NEW r \in Requests
  PROVE  Unused \in Fresh(r)
<1>1. r.n \in Nat /\ AddrSpace \in Nat /\ I2cFifo \in Nat
  BY RequestTypes, AddrSpaceAssumption, I2cFifoAssumption
<1>2. NoCcr \in Ccrs
  BY DEF NoCcr, Ccr, Ccrs
<1>3. /\ Unused \in Raw /\ Unused.sar = 0 /\ Unused.dar = 0 /\ Unused.ccr = NoCcr /\ Unused.fifo = <<>>
      /\ Unused.got = 0 /\ Unused.done = 0 /\ Unused.landed = 0 /\ Unused.asked = 0 /\ Unused.room = 0
      /\ Unused.bus.at = -1 /\ Unused.exact = TRUE /\ Unused.signalled = FALSE
  BY <1>2 DEF Unused, Raw, NoWord
<1>. DEFINE e == Unused
<1>. HIDE DEF e
<1>4. e \in Sound(r)
  BY <1>1, <1>3 DEF Sound, e
<1>5. Run(e.fifo, 0) /\ Len(e.fifo) = 0
  BY <1>3 DEF Run, e
<1>. QED  BY <1>2, <1>3, <1>4, <1>5 DEF Fresh, State, e

LEMMA OutlineRequest ==
  ASSUME OutlineInv, NEW r \in Requests, Request(r)
  PROVE  OutlineInv'
<1>1. /\ phase = "idle" /\ req' = r /\ pc' = pc /\ loops' = loops /\ pc = 1 /\ loops = <<>> /\ Now' = Now
      /\ Now = Unused
  BY DEF Request, OutlineInv, registers, data, Now
<1>2. Now \in Fresh(r) /\ Now \in Sound(r)
  BY <1>1, UnusedFresh DEF Fresh, State
<1>3. CASE r.n = 0 /\ ~r.evt /\ phase' = "ended"
  <2>1. Asked(r) = 0 /\ ~QspiMisfit(r) /\ 0 < AddrSpace /\ Unused.done = 0
    <3>1. r.width \in Nat
      BY RequestTypes
    <3>. QED  BY <1>3, <3>1, AddrSpaceAssumption DEF Asked, QspiMisfit, Unused
  <2>2. Now \in Final(r)
    BY <1>1, <1>2, <2>1 DEF Final
  <2>. QED  BY <1>1, <1>2, <1>3, <2>2 DEF OutlineInv
<1>4. CASE phase' = "refused"
  BY <1>1, <1>2, <1>4 DEF OutlineInv
<1>5. CASE Verdict(r) = "success" /\ phase' = "run" /\ prog' = Program(r)
  <2>1. PICK A : /\ Outlined(r, Program(r), A) /\ \A d \in Fresh(r) : <<1, <<>>, d>> \in A
                 /\ \A d : <<Len(Program(r)) + 1, <<>>, d>> \in A => d \in {}
    BY <1>5, ProgramLeads DEF Leads
  <2>2. Covers(r, Program(r), A) /\ <<1, <<>>, Now>> \in A
    BY <1>2, <2>1 DEF Covers
  <2>. QED  BY <1>1, <1>2, <1>5, <2>2 DEF OutlineInv
<1>. QED  BY <1>3, <1>4, <1>5 DEF Request

\* Where a running channel is, and where it may go.
LEMMA OutlinePlace ==
  ASSUME NEW A, Covers(req, prog, A), <<pc, loops, Now>> \in A
  PROVE  /\ pc \in 1..Len(prog) /\ pc \in Nat /\ Open(loops, pc) /\ Now \in Sound(req)
         /\ Follows(req, prog, A, pc, loops, Now)
<1>1. /\ pc \in 1..(Len(prog) + 1) /\ Open(loops, pc) /\ Now \in Sound(req)
      /\ pc = Len(prog) + 1 => loops = <<>>
      /\ pc \in 1..Len(prog) => Follows(req, prog, A, pc, loops, Now)
      /\ A \subseteq Nat \X Seq(Turns) \X Raw
  BY DEF Covers, Outlined
<1>2. pc # Len(prog) + 1
  BY <1>1 DEF Covers
<1>. QED  BY <1>1, <1>2

\* A step to a place of the outline stays in it.
LEMMA OutlineStays ==
  ASSUME NEW A, Covers(req, prog, A), req \in Requests, <<pc', loops', Now'>> \in A,
         req' = req, prog' = prog, phase' = "run"
  PROVE  OutlineInv'
<1>1. Open(loops', pc') /\ Now' \in Sound(req) /\ pc' \in Nat
  BY DEF Covers, Outlined
<1>. QED  BY <1>1 DEF OutlineInv

\* So does the execution of an instruction that is no loop and no end.
LEMMA OutlineStep ==
  ASSUME OutlineInv, phase = "run", Continue, loops' = loops,
         prog[pc].op \notin Loops \cup {"END"}, Able(prog[pc], Now),
         Now' = Result(req, prog[pc], Now)
  PROVE  OutlineInv'
<1>1. req \in Requests /\ req' = req /\ prog' = prog /\ phase' = "run" /\ pc' = pc + 1
  BY DEF OutlineInv, Continue
<1>2. PICK A : Covers(req, prog, A) /\ <<pc, loops, Now>> \in A
  BY DEF OutlineInv
<1>3. <<pc + 1, loops, Result(req, prog[pc], Now)>> \in A
  BY <1>2, OutlinePlace DEF Follows
<1>. QED  BY <1>1, <1>2, <1>3, OutlineStays

\* The terms of the model are those of its data.
LEMMA NowTerms ==
  /\ LoadOf(Now) = LoadSize /\ StoreOf(Now) = StoreSize
  /\ \A n : UsedBy(req, n) = Used(n)
  /\ \A dir, burst : Granted(req, dir, burst) = Grant(dir, burst)
  /\ \A w : /\ Restarts(req, w) = SaysRestart(w) /\ Stops(req, w) = SaysStop(w)
            /\ Byte(req, w) = ByteOf(w)
  /\ Loaded(req, Now) = [i \in 1..LoadSize |->
                           IF sar = Register THEN got + i - 1
                           ELSE IF sar < 0 THEN sar ELSE sar - req.src + i - 1]
<1>1. /\ Now.sar = sar /\ Now.dar = dar /\ Now.ccr = ccr /\ Now.got = got
  BY DEF Now
<1>2. LoadOf(Now) = LoadSize /\ StoreOf(Now) = StoreSize
  BY <1>1 DEF LoadOf, StoreOf, LoadSize, StoreSize
<1>3. \A n : UsedBy(req, n) = Used(n)
  BY DEF UsedBy, Used, I2c
<1>4. \A dir, burst : Granted(req, dir, burst) = Grant(dir, burst)
  BY Zenon DEF Granted, Grant
<1>5. \A w : /\ Restarts(req, w) = SaysRestart(w) /\ Stops(req, w) = SaysStop(w)
             /\ Byte(req, w) = ByteOf(w)
  BY DEF Restarts, Stops, Byte, SaysRestart, SaysStop, ByteOf, Reads
<1>6. Loaded(req, Now) = [i \in 1..LoadSize |->
                            IF sar = Register THEN got + i - 1
                            ELSE IF sar < 0 THEN sar ELSE sar - req.src + i - 1]
  BY <1>1, <1>2 DEF Loaded
<1>. QED  BY <1>2, <1>3, <1>4, <1>5, <1>6

\* Records of data are told apart by their fields.
Fields == {"sar", "dar", "ccr", "fifo", "got", "done", "landed", "asked", "room", "bus", "exact",
           "signalled"}
Formal(d) == d = [f \in Fields |-> d[f]]

LEMMA NowFormal ==
  /\ Formal(Now)
  /\ Now.sar = sar /\ Now.dar = dar /\ Now.ccr = ccr /\ Now.fifo = fifo /\ Now.got = got
  /\ Now.done = done /\ Now.landed = landed /\ Now.asked = asked /\ Now.room = room
  /\ Now.bus = bus /\ Now.exact = exact /\ Now.signalled = signalled
BY DEF Formal, Now, Fields

LEMMA NowBecomes ==
  ASSUME NEW e, Formal(e),
         e.sar = sar' /\ e.dar = dar' /\ e.ccr = ccr' /\ e.fifo = fifo' /\ e.got = got',
         e.done = done' /\ e.landed = landed' /\ e.asked = asked' /\ e.room = room',
         e.bus = bus' /\ e.exact = exact' /\ e.signalled = signalled'
  PROVE  Now' = e
<1>1. e = [sar |-> e.sar, dar |-> e.dar, ccr |-> e.ccr, fifo |-> e.fifo, got |-> e.got, done |-> e.done,
           landed |-> e.landed, asked |-> e.asked, room |-> e.room, bus |-> e.bus, exact |-> e.exact,
           signalled |-> e.signalled]
  BY DEF Formal, Fields
<1>. QED  BY <1>1 DEF Now

\* What an instruction does is what the model does.
LEMMA SimpleModelled ==
  ASSUME \/ MovSar \/ MovDar \/ MovCcr \/ WaitForPeripheral \/ Barrier \/ SendEvent
  PROVE  /\ Able(prog[pc], Now) /\ Now' = Result(req, prog[pc], Now)
         /\ prog[pc].op \notin Loops \cup {"END"}
<1>1. CASE MovSar
  <2>1. prog[pc].op = "SAR" /\ sar' = prog[pc].at /\ UNCHANGED <<dar, ccr, data>>
    BY <1>1 DEF MovSar, At
  <2>. QED  BY <2>1 DEF Able, Result, Now, Loops, data
<1>2. CASE MovDar
  <2>1. prog[pc].op = "DAR" /\ dar' = prog[pc].at /\ UNCHANGED <<sar, ccr, data>>
    BY <1>2 DEF MovDar, At
  <2>. QED  BY <2>1 DEF Able, Result, Now, Loops, data
<1>3. CASE MovCcr
  <2>1. prog[pc].op = "CCR" /\ ccr' = prog[pc] /\ UNCHANGED <<sar, dar, data>>
    BY <1>3 DEF MovCcr, At
  <2>. QED  BY <2>1 DEF Able, Result, Now, Loops, data
<1>4. CASE WaitForPeripheral
  <2>1. /\ prog[pc].op = "WFP" /\ room' = Granted(req, prog[pc].dir, prog[pc].burst)
        /\ UNCHANGED <<sar, dar, ccr, fifo, got, done, landed, asked, bus, exact, signalled>>
    BY <1>4, NowTerms DEF WaitForPeripheral, At
  <2>. QED  BY <2>1 DEF Able, Result, Now, Loops
<1>5. CASE Barrier
  <2>1. prog[pc].op = "WMB" /\ landed = done /\ UNCHANGED <<sar, dar, ccr, data>>
    BY <1>5 DEF Barrier, At
  <2>. QED  BY <2>1 DEF Able, Result, Now, Loops, data
<1>6. CASE SendEvent
  <2>1. /\ prog[pc].op = "SEV" /\ signalled' = TRUE
        /\ UNCHANGED <<sar, dar, ccr, fifo, got, done, landed, asked, room, bus, exact>>
    BY <1>6 DEF SendEvent, At
  <2>. QED  BY <2>1 DEF Able, Result, Now, Loops
<1>. QED  BY <1>1, <1>2, <1>3, <1>4, <1>5, <1>6

LEMMA LoadModelled ==
  ASSUME Load
  PROVE  /\ Able(prog[pc], Now) /\ Now' = Result(req, prog[pc], Now)
         /\ prog[pc].op \notin Loops \cup {"END"}
<1>. DEFINE d == Now
            z == LoadOf(Now)
            q == Loaded(req, Now)
            v == UsedBy(req, z)
<1>1. /\ prog[pc].op = "LD"
      /\ fifo' = fifo \o q
      /\ sar' = IF ccr.si THEN sar + z ELSE sar
      /\ got' = IF sar = Register THEN got + z ELSE got
      /\ room' = IF sar = Register THEN room - v ELSE room
      /\ UNCHANGED <<dar, ccr, done, landed, asked, bus, exact, signalled>>
  BY NowTerms DEF Load, At
<1>. DEFINE e == [d EXCEPT !.fifo = @ \o q,
                           !.sar = IF d.ccr.si THEN @ + z ELSE @,
                           !.got = IF d.sar = Register THEN @ + z ELSE @,
                           !.room = IF d.sar = Register THEN @ - v ELSE @]
<1>2. Result(req, prog[pc], Now) = e
  BY <1>1 DEF Result
<1>. HIDE DEF d, z, q, v
<1>3. /\ Formal(d) /\ d.sar = sar /\ d.dar = dar /\ d.ccr = ccr /\ d.fifo = fifo /\ d.got = got
      /\ d.done = done /\ d.landed = landed /\ d.asked = asked /\ d.room = room
      /\ d.bus = bus /\ d.exact = exact /\ d.signalled = signalled
  BY NowFormal DEF d
<1>4. /\ Formal(e) /\ e.sar = sar' /\ e.dar = dar' /\ e.ccr = ccr' /\ e.fifo = fifo' /\ e.got = got'
      /\ e.done = done' /\ e.landed = landed' /\ e.asked = asked' /\ e.room = room'
      /\ e.bus = bus' /\ e.exact = exact' /\ e.signalled = signalled'
  BY <1>1, <1>3 DEF Formal, Fields
<1>. HIDE DEF e
<1>. QED  BY <1>1, <1>2, <1>4, NowBecomes DEF Able, Loops

LEMMA StoreZeroModelled ==
  ASSUME StoreZero
  PROVE  /\ Able(prog[pc], Now) /\ Now' = Result(req, prog[pc], Now)
         /\ prog[pc].op \notin Loops \cup {"END"}
<1>. DEFINE d == Now
            z == StoreOf(Now)
            right == exact /\ dar - req.dst = done
            e == [d EXCEPT !.done = @ + z, !.exact = @ /\ d.dar - req.dst = d.done, !.dar = @ + z]
<1>1. /\ prog[pc].op = "STZ"
      /\ done' = done + z /\ exact' = right /\ dar' = dar + z
      /\ UNCHANGED <<sar, ccr, fifo, got, landed, asked, room, bus, signalled>>
  BY NowTerms DEF StoreZero, At
<1>2. Result(req, prog[pc], Now) = e
  BY <1>1 DEF Result
<1>. HIDE DEF d, z
<1>3. /\ Formal(d) /\ d.sar = sar /\ d.dar = dar /\ d.ccr = ccr /\ d.fifo = fifo /\ d.got = got
      /\ d.done = done /\ d.landed = landed /\ d.asked = asked /\ d.room = room
      /\ d.bus = bus /\ d.exact = exact /\ d.signalled = signalled
  BY NowFormal DEF d
<1>. DEFINE e2 == [d EXCEPT !.done = @ + z, !.exact = right, !.dar = @ + z]
<1>4. e = e2
  BY <1>3
<1>. HIDE DEF right
<1>5. /\ Formal(e2) /\ e2.sar = sar' /\ e2.dar = dar' /\ e2.ccr = ccr' /\ e2.fifo = fifo' /\ e2.got = got'
      /\ e2.done = done' /\ e2.landed = landed' /\ e2.asked = asked' /\ e2.room = room'
      /\ e2.bus = bus' /\ e2.exact = exact' /\ e2.signalled = signalled'
  BY <1>1, <1>3 DEF Formal, Fields
<1>. HIDE DEF e, e2
<1>. QED  BY <1>1, <1>2, <1>4, <1>5, NowBecomes DEF Able, Loops

LEMMA StoreModelled ==
  ASSUME Store
  PROVE  /\ Able(prog[pc], Now) /\ Now' = Result(req, prog[pc], Now)
         /\ prog[pc].op \notin Loops \cup {"END"}
<1>. DEFINE d == Now
            z == StoreOf(Now)
            v == UsedBy(req, z)
            w == fifo[1]
            i == Restarts(req, w)
            j == Stops(req, w)
            b == Byte(req, w)
            right == /\ exact
                     /\ dar # Register => dar - req.dst = done
                     /\ \A k \in 1..z : fifo[k] = done + k - 1
            u == Stored(req, Now)
<1>1. /\ prog[pc].op = "ST" /\ z <= Len(fifo)
      /\ fifo' = SubSeq(fifo, z + 1, Len(fifo))
      /\ dar' = IF ccr.di THEN dar + z ELSE dar
      /\ room' = IF dar = Register THEN room - v ELSE room
      /\ UNCHANGED <<sar, ccr, got, landed, signalled>>
  BY NowTerms DEF Store, At
<1>2. u = [d EXCEPT !.fifo = SubSeq(@, z + 1, Len(@)),
                    !.dar = IF d.ccr.di THEN @ + z ELSE @,
                    !.room = IF d.dar = Register THEN @ - v ELSE @]
  BY DEF Stored
<1>3. I2c /\ dar = Register =>
        /\ bus' = [at |-> IF Reads THEN asked ELSE done, restart |-> i, stop |-> j]
        /\ Reads => asked' = asked + 1 /\ UNCHANGED <<done, exact>>
        /\ ~Reads => done' = done + 1 /\ exact' = (exact /\ b = done) /\ UNCHANGED asked
  BY NowTerms DEF Store, StoreWord
<1>4. ~(I2c /\ dar = Register) => done' = done + z /\ exact' = right /\ UNCHANGED <<asked, bus>>
  BY NowTerms DEF Store, StoreBytes
<1>5. Result(req, prog[pc], Now) =
        IF req.per.kind = "i2c" /\ d.dar = Register
        THEN IF req.op = "p2m"
             THEN [u EXCEPT !.bus = [at |-> d.asked, restart |-> Restarts(req, d.fifo[1]),
                                     stop |-> Stops(req, d.fifo[1])],
                            !.asked = @ + 1]
             ELSE [u EXCEPT !.bus = [at |-> d.done, restart |-> Restarts(req, d.fifo[1]),
                                     stop |-> Stops(req, d.fifo[1])],
                            !.done = @ + 1,
                            !.exact = @ /\ Byte(req, d.fifo[1]) = d.done]
        ELSE [u EXCEPT !.done = @ + z,
                       !.exact = /\ @
                                 /\ d.dar # Register => d.dar - req.dst = d.done
                                 /\ \A k \in 1..z : d.fifo[k] = d.done + k - 1]
  BY <1>1 DEF Result
<1>. HIDE DEF d, z, v, u
<1>6. /\ Formal(d) /\ d.sar = sar /\ d.dar = dar /\ d.ccr = ccr /\ d.fifo = fifo /\ d.got = got
      /\ d.done = done /\ d.landed = landed /\ d.asked = asked /\ d.room = room
      /\ d.bus = bus /\ d.exact = exact /\ d.signalled = signalled
  BY NowFormal DEF d
<1>7. /\ Formal(u) /\ u.sar = sar' /\ u.dar = dar' /\ u.ccr = ccr' /\ u.fifo = fifo' /\ u.got = got'
      /\ u.done = done /\ u.landed = landed' /\ u.asked = asked /\ u.room = room'
      /\ u.bus = bus /\ u.exact = exact /\ u.signalled = signalled'
  BY <1>1, <1>2, <1>6 DEF Formal, Fields
<1>8. Able(prog[pc], Now) /\ prog[pc].op \notin Loops \cup {"END"}
  BY <1>1, NowFormal DEF Able, Loops, z
<1>9. CASE I2c /\ dar = Register /\ Reads
  <2>. DEFINE e == [u EXCEPT !.bus = [at |-> asked, restart |-> i, stop |-> j], !.asked = @ + 1]
  <2>1. Result(req, prog[pc], Now) = e
    BY <1>5, <1>6, <1>9 DEF I2c, Reads
  <2>. HIDE DEF i, j, w
  <2>2. /\ Formal(e) /\ e.sar = sar' /\ e.dar = dar' /\ e.ccr = ccr' /\ e.fifo = fifo' /\ e.got = got'
        /\ e.done = done' /\ e.landed = landed' /\ e.asked = asked' /\ e.room = room'
        /\ e.bus = bus' /\ e.exact = exact' /\ e.signalled = signalled'
    BY <1>3, <1>7, <1>9 DEF Formal, Fields
  <2>. HIDE DEF e
  <2>. QED  BY <1>8, <2>1, <2>2, NowBecomes
<1>10. CASE I2c /\ dar = Register /\ ~Reads
  <2>. DEFINE just == exact /\ b = done
              e == [u EXCEPT !.bus = [at |-> done, restart |-> i, stop |-> j], !.done = @ + 1,
                             !.exact = just]
  <2>1. Result(req, prog[pc], Now) = e
    BY <1>5, <1>6, <1>7, <1>10 DEF I2c, Reads
  <2>2. done' = done + 1 /\ exact' = just /\ asked' = asked
        /\ bus' = [at |-> done, restart |-> i, stop |-> j]
    BY <1>3, <1>10
  <2>. HIDE DEF i, j, w, b, just
  <2>3. /\ Formal(e) /\ e.sar = sar' /\ e.dar = dar' /\ e.ccr = ccr' /\ e.fifo = fifo' /\ e.got = got'
        /\ e.done = done' /\ e.landed = landed' /\ e.asked = asked' /\ e.room = room'
        /\ e.bus = bus' /\ e.exact = exact' /\ e.signalled = signalled'
    BY <1>7, <2>2 DEF Formal, Fields
  <2>. HIDE DEF e
  <2>. QED  BY <1>8, <2>1, <2>3, NowBecomes
<1>11. CASE ~(I2c /\ dar = Register)
  <2>. DEFINE e == [u EXCEPT !.done = @ + z, !.exact = right]
  <2>1. Result(req, prog[pc], Now) = e
    BY <1>5, <1>6, <1>7, <1>11 DEF I2c
  <2>. HIDE DEF right
  <2>2. /\ Formal(e) /\ e.sar = sar' /\ e.dar = dar' /\ e.ccr = ccr' /\ e.fifo = fifo' /\ e.got = got'
        /\ e.done = done' /\ e.landed = landed' /\ e.asked = asked' /\ e.room = room'
        /\ e.bus = bus' /\ e.exact = exact' /\ e.signalled = signalled'
    BY <1>4, <1>7, <1>11 DEF Formal, Fields
  <2>. HIDE DEF e
  <2>. QED  BY <1>8, <2>1, <2>2, NowBecomes
<1>. QED  BY <1>9, <1>10, <1>11

LEMMA OutlineLoops ==
  ASSUME OutlineInv, Lp \/ LpEnd
  PROVE  OutlineInv'
<1>1. req \in Requests /\ req' = req /\ prog' = prog /\ phase' = "run" /\ phase = "run" /\ Now' = Now
  BY DEF OutlineInv, Lp, LpEnd, At, Continue, Now, data
<1>2. PICK A : Covers(req, prog, A) /\ <<pc, loops, Now>> \in A
  BY <1>1 DEF OutlineInv
<1>3. Follows(req, prog, A, pc, loops, Now) /\ loops \in Seq(Turns)
  BY <1>2, OutlinePlace DEF Open
<1>4. CASE Lp
  <2>1. /\ prog[pc].op = "LP" /\ pc' = pc + 1
        /\ loops' = Append(loops, [start |-> pc + 1, left |-> prog[pc].n])
    BY <1>4 DEF Lp, At, Continue
  <2>2. <<pc', loops', Now'>> \in A
    BY <1>1, <1>3, <2>1 DEF Follows
  <2>. QED  BY <1>1, <1>2, <2>2, OutlineStays
<1>5. CASE LpEnd
  <2>. DEFINE k == Len(loops)
  <2>1. /\ prog[pc].op = "LPEND"
        /\ \/ loops[k].left > 1 /\ loops' = Down(loops) /\ pc' = loops[k].start
           \/ loops[k].left = 1 /\ loops' = Front(loops) /\ pc' = pc + 1
    BY <1>5 DEF LpEnd, At, Down
  <2>2. /\ loops[k].left > 1 => <<loops[k].start, Down(loops), Now>> \in A
        /\ ~(loops[k].left > 1) => <<pc + 1, Front(loops), Now>> \in A
    BY <1>3, <2>1 DEF Follows
  <2>3. <<pc', loops', Now'>> \in A
    BY <1>1, <2>1, <2>2
  <2>. QED  BY <1>1, <1>2, <2>3, OutlineStays
<1>. QED  BY <1>4, <1>5

LEMMA OutlineLand ==
  ASSUME OutlineInv, Land
  PROVE  OutlineInv'
<1>. DEFINE d == Now
            e == [d EXCEPT !.landed = d.done]
<1>1. /\ prog[pc].op \in Waits /\ landed' = done /\ phase = "run" /\ req \in Requests
      /\ UNCHANGED <<req, phase, prog, registers, fifo, got, done, asked, room, bus, exact, signalled>>
  BY DEF OutlineInv, Land, At, Waits
<1>2. PICK A : Covers(req, prog, A) /\ <<pc, loops, Now>> \in A
  BY <1>1 DEF OutlineInv
<1>3. <<pc, loops, e>> \in A
  BY <1>1, <1>2, OutlinePlace DEF Follows
<1>4. UNCHANGED <<pc, loops, sar, dar, ccr>>
  BY <1>1 DEF registers
<1>. HIDE DEF d
<1>5. /\ Formal(d) /\ d.sar = sar /\ d.dar = dar /\ d.ccr = ccr /\ d.fifo = fifo /\ d.got = got
      /\ d.done = done /\ d.landed = landed /\ d.asked = asked /\ d.room = room
      /\ d.bus = bus /\ d.exact = exact /\ d.signalled = signalled
  BY NowFormal DEF d
<1>6. /\ Formal(e) /\ e.sar = sar' /\ e.dar = dar' /\ e.ccr = ccr' /\ e.fifo = fifo' /\ e.got = got'
      /\ e.done = done' /\ e.landed = landed' /\ e.asked = asked' /\ e.room = room'
      /\ e.bus = bus' /\ e.exact = exact' /\ e.signalled = signalled'
  BY <1>1, <1>4, <1>5 DEF Formal, Fields
<1>. HIDE DEF e
<1>7. Now' = e
  BY <1>6, NowBecomes
<1>. QED  BY <1>1, <1>2, <1>3, <1>4, <1>7, OutlineStays

LEMMA OutlineEnds ==
  ASSUME OutlineInv, Starve \/ End
  PROVE  OutlineInv'
<1>1. /\ phase = "run" /\ UNCHANGED <<req, prog, pc, loops>> /\ Now' = Now
      /\ req \in Requests /\ Now \in Sound(req)
  BY DEF OutlineInv, Starve, End, At, registers, data, Now
<1>2. PICK A : Covers(req, prog, A) /\ <<pc, loops, Now>> \in A
  BY <1>1 DEF OutlineInv
<1>3. Follows(req, prog, A, pc, loops, Now) /\ Open(loops, pc) /\ pc \in Nat
  BY <1>2, OutlinePlace
<1>4. CASE Starve
  <2>1. prog[pc].op = "ST" /\ StoreOf(Now) > Len(Now.fifo) /\ phase' = "starved"
    BY <1>4, NowTerms, NowFormal DEF Starve, At
  <2>2. Now.fifo \in Seq(Int) /\ StoreOf(Now) \in Int
    <3>1. Now \in Raw
      BY <1>1 DEF Sound
    <3>2. Now.ccr.ss \in Int /\ Now.ccr.ds \in Int /\ Now.ccr.db \in Int /\ Now.dar \in Int
          /\ Now.ccr.ds \in {1, 2, 4, 8} /\ Now.fifo \in Seq(Int)
      <4>1. \A d \in Raw : d.ccr \in Ccrs /\ d.dar \in Int /\ d.fifo \in Seq(Int)
        BY DEF Raw
      <4>2. \A e \in Ccrs : e.ss \in Int /\ e.ds \in Int /\ e.db \in Int /\ e.ds \in {1, 2, 4, 8}
        BY DEF Ccrs
      <4>. QED  BY <3>1, <4>1, <4>2, Zenon
    <3>. DEFINE a == Now.dar
                b == Now.ccr.db
                c == Now.ccr.ds
    <3>3. c * b \in Int /\ a % c \in Int
      <4>. HIDE DEF a, b, c
      <4>1. c \in {1, 2, 4, 8} /\ a \in Int /\ b \in Int
        BY <3>2 DEF a, b, c
      <4>. QED  BY <4>1
    <3>. QED  BY <3>2, <3>3 DEF StoreOf
  <2>3. QspiMisfit(req)
    <3>1. Len(Now.fifo) \in Nat
      BY <2>2
    <3>. QED  BY <1>3, <2>1, <2>2, <3>1 DEF Follows
  <2>. QED  BY <1>1, <1>3, <2>1, <2>3 DEF OutlineInv
<1>5. CASE End
  <2>1. prog[pc].op = "END" /\ Now.landed = Now.done /\ phase' = "ended"
    BY <1>5, NowFormal DEF End, At
  <2>2. Now \in Final(req)
    BY <1>3, <2>1 DEF Follows
  <2>. QED  BY <1>1, <1>3, <2>1, <2>2 DEF OutlineInv
<1>. QED  BY <1>4, <1>5

\* The outline is inductive.
LEMMA OutlineNext == OutlineInv /\ [Next]_vars => OutlineInv'
<1>. SUFFICES ASSUME OutlineInv, [Next]_vars PROVE OutlineInv'
  OBVIOUS
<1>1. ASSUME NEW r \in Requests, Request(r) PROVE OutlineInv'
  BY <1>1, OutlineRequest
<1>2. CASE \/ MovSar \/ MovDar \/ MovCcr \/ WaitForPeripheral
           \/ Load \/ Store \/ StoreZero \/ Barrier \/ SendEvent
  <2>1. phase = "run" /\ Continue /\ loops' = loops
    BY <1>2 DEF MovSar, MovDar, MovCcr, WaitForPeripheral, Load, Store, StoreZero,
                Barrier, SendEvent, At
  <2>2. /\ Able(prog[pc], Now) /\ Now' = Result(req, prog[pc], Now)
        /\ prog[pc].op \notin Loops \cup {"END"}
    BY <1>2, SimpleModelled, LoadModelled, StoreModelled, StoreZeroModelled
  <2>. QED  BY <2>1, <2>2, OutlineStep
<1>3. CASE Lp \/ LpEnd
  BY <1>3, OutlineLoops
<1>4. CASE Land
  BY <1>4, OutlineLand
<1>5. CASE Starve \/ End
  BY <1>5, OutlineEnds
<1>6. CASE Over
  <2>1. phase' = "idle" /\ req' = NoRequest /\ pc' = 1 /\ loops' = <<>> /\ Now' = Unused
    BY <1>6 DEF Over, Blank, Now, Unused
  <2>2. Open(<<>>, 1)
    BY DEF Open
  <2>. QED  BY <2>1, <2>2 DEF OutlineInv
<1>7. CASE UNCHANGED vars
  <2>1. UNCHANGED <<req, phase, prog, pc, loops>> /\ Now' = Now
    BY <1>7 DEF vars, registers, data, Now
  <2>. QED  BY <2>1 DEF OutlineInv
<1>. QED  BY <1>1, <1>2, <1>3, <1>4, <1>5, <1>6, <1>7 DEF Next, Execute

LEMMA OutlineInit == Init => OutlineInv
<1>. SUFFICES ASSUME Init PROVE OutlineInv
  OBVIOUS
<1>1. Open(<<>>, 1)
  BY DEF Open
<1>. QED  BY <1>1 DEF Init, OutlineInv, Now, Unused

LEMMA OutlineAlways == Spec => []OutlineInv
BY OutlineInit, OutlineNext, PTL DEF Spec

-----------------------------------------------------------------------------
(* What the outlines say of every request.                                 *)

\* The data at any time, and what the model and the invariant call them.
LEMMA OutlineData ==
  ASSUME OutlineInv
  PROVE  /\ phase = "idle" => /\ req = NoRequest /\ sar = 0 /\ dar = 0 /\ ccr = NoCcr /\ got = 0 /\ done = 0
                              /\ landed = 0 /\ asked = 0 /\ room = 0 /\ bus = NoWord /\ exact = TRUE
                              /\ signalled = FALSE
         /\ phase # "idle" =>
              /\ req \in Requests /\ ccr \in Ccrs
              /\ sar \in -100..AddrSpace /\ dar \in -100..AddrSpace
              /\ got \in Nat /\ done \in Nat /\ landed \in Nat /\ asked \in Nat
              /\ exact \in BOOLEAN /\ signalled \in BOOLEAN
              /\ exact
              /\ room < 0 => Exempt(req)
              /\ Master(req) /\ bus.at >= 0 =>
                   /\ bus.restart <=> req.per.restart /\ bus.at = 0
                   /\ bus.stop <=> req.per.stop /\ bus.at = req.n - 1
              /\ asked - got <= I2cFifo /\ asked <= req.n
              /\ signalled /\ req.op = "m2m" => landed = req.n
<1>1. CASE phase = "idle"
  <2>1. Now = Unused /\ req = NoRequest
    BY <1>1 DEF OutlineInv
  <2>. QED  BY <1>1, <2>1, NowFormal DEF Unused
<1>2. CASE phase # "idle"
  <2>. DEFINE d == Now
  <2>1. req \in Requests /\ d \in Sound(req)
    BY <1>2 DEF OutlineInv
  <2>2. /\ Formal(d) /\ d.sar = sar /\ d.dar = dar /\ d.ccr = ccr /\ d.fifo = fifo /\ d.got = got
        /\ d.done = done /\ d.landed = landed /\ d.asked = asked /\ d.room = room
        /\ d.bus = bus /\ d.exact = exact /\ d.signalled = signalled
    BY NowFormal
  <2>. HIDE DEF d
  <2>3. d \in Raw
    BY <2>1 DEF Sound
  <2>4. d.ccr \in Ccrs /\ d.exact \in BOOLEAN /\ d.signalled \in BOOLEAN
    BY <2>3 DEF Raw
  <2>5. /\ d.sar \in -100..AddrSpace /\ d.dar \in -100..AddrSpace
        /\ d.got \in Nat /\ d.done \in Nat /\ d.landed \in Nat /\ d.asked \in Nat
        /\ d.exact
        /\ d.room < 0 => Exempt(req)
        /\ Master(req) /\ d.bus.at >= 0 =>
             /\ d.bus.restart <=> req.per.restart /\ d.bus.at = 0
             /\ d.bus.stop <=> req.per.stop /\ d.bus.at = req.n - 1
        /\ d.asked - d.got <= I2cFifo /\ d.asked <= req.n
        /\ d.signalled /\ req.op = "m2m" => d.landed = req.n
    BY <2>1 DEF Sound
  <2>. QED  BY <1>2, <2>1, <2>2, <2>4, <2>5
<1>. QED  BY <1>1, <1>2

\* The channel is at an instruction of its program, inside of loops that are counted down
\* from at most 256, and its two addresses stay in the memory, in the scratch buffer or at
\* the register (alt_dma.c 1706-1726, 1789-1799, 2972-3091).
THEOREM ChannelTypes == Spec => []TypeOK
<1>1. ASSUME OutlineInv PROVE TypeOK
  <2>1. phase = "idle" <=> req = NoRequest
    <3>1. CASE phase = "idle"
      BY <1>1, <3>1 DEF OutlineInv
    <3>2. CASE phase # "idle"
      <4>1. req \in Requests
        BY <1>1, <3>2 DEF OutlineInv
      <4>2. req.op # "none"
        BY <4>1, RequestTypes
      <4>. QED  BY <3>2, <4>2 DEF NoRequest
    <3>. QED  BY <3>1, <3>2
  <2>2. phase \in {"idle", "run", "ended", "refused", "starved"}
    BY <1>1 DEF OutlineInv
  <2>3. phase = "run" => pc \in 1..Len(prog)
    <3>. HAVE phase = "run"
    <3>1. PICK A : Covers(req, prog, A) /\ <<pc, loops, Now>> \in A
      BY <1>1 DEF OutlineInv
    <3>. QED  BY <3>1, OutlinePlace
  <2>4. \A k \in 1..Len(loops) : loops[k].start \in 1..pc /\ loops[k].left \in 1..256
    <3>. TAKE k \in 1..Len(loops)
    <3>1. pc \in Nat /\ loops \in Seq(Turns) /\ loops[k].start <= pc
      BY <1>1 DEF OutlineInv, Open
    <3>2. loops[k] \in Turns
      <4>. HIDE DEF Turns
      <4>. QED  BY <3>1
    <3>. QED  BY <3>1, <3>2 DEF Turns
  <2>5. /\ ccr \in Ccrs /\ sar \in -100..AddrSpace /\ dar \in -100..AddrSpace
        /\ got \in Nat /\ done \in Nat /\ landed \in Nat /\ asked \in Nat
        /\ exact \in BOOLEAN /\ signalled \in BOOLEAN
    <3>1. CASE phase = "idle"
      <4>1. NoCcr \in Ccrs
        BY DEF NoCcr, Ccr, Ccrs
      <4>2. 0 \in -100..AddrSpace /\ 0 \in Nat /\ TRUE \in BOOLEAN /\ FALSE \in BOOLEAN
        BY AddrSpaceAssumption
      <4>. QED  BY <1>1, <3>1, <4>1, <4>2, OutlineData
    <3>2. CASE phase # "idle"
      BY <1>1, <3>2, OutlineData
    <3>. QED  BY <3>1, <3>2
  <2>6. /\ ccr.sb \in 1..16 /\ ccr.db \in 1..16
        /\ ccr.ss \in {1, 2, 4, 8} /\ ccr.ds \in {1, 2, 4, 8}
    BY <2>5 DEF Ccrs
  <2>. QED  BY <2>1, <2>2, <2>3, <2>4, <2>5, <2>6 DEF TypeOK
<1>. QED  BY <1>1, OutlineAlways, PTL

\* Every byte is stored once, in order and where it belongs, whatever the request: also of
\* the pieces of an I2C master transfer (2972-3091, 3383-3614), whose addresses are set anew.
THEOREM AllInPlace == Spec => []RightPlace
<1>1. ASSUME OutlineInv PROVE RightPlace
  BY <1>1, OutlineData DEF RightPlace
<1>. QED  BY <1>1, OutlineAlways, PTL

\* A program ends with all of its request moved, except exactly for the QSPI requests whose
\* pieces do not add up (3692-3786) and a count of registers that wraps round (2182, 2542);
\* it waits for data nobody loads for none but these QSPI requests.
THEOREM AllIsMoved == Spec => []EndsWhole
<1>1. ASSUME OutlineInv PROVE EndsWhole
  <2>1. CASE phase = "ended"
    <3>1. Now \in Final(req)
      BY <1>1, <2>1 DEF OutlineInv
    <3>2. Now.done = done
      BY NowFormal
    <3>3. done = Asked(req) <=> ~QspiMisfit(req) /\ Asked(req) < AddrSpace
      BY <3>1, <3>2 DEF Final
    <3>. QED  BY <2>1, <3>3 DEF EndsWhole
  <2>2. CASE phase = "starved"
    BY <1>1, <2>2 DEF OutlineInv, EndsWhole
  <2>. QED  BY <2>1, <2>2 DEF EndsWhole
<1>. QED  BY <1>1, OutlineAlways, PTL

\* What a peripheral granted is never exceeded, for every FIFO depth, level and trigger
\* (4998-5036, 5436-5474, 2740-2753), but for the odd word of a QSPI whose requests are of
\* less than a word (3699-3743).
THEOREM GrantsSuffice == Spec => []NoOverrun
<1>1. ASSUME OutlineInv PROVE NoOverrun
  <2>1. CASE phase = "idle"
    <3>1. room = 0
      BY <1>1, <2>1, OutlineData
    <3>. QED  BY <3>1 DEF NoOverrun
  <2>2. CASE phase # "idle"
    BY <1>1, <2>2, OutlineData DEF NoOverrun, Exempt
  <2>. QED  BY <2>1, <2>2
<1>. QED  BY <1>1, OutlineAlways, PTL

\* The restart and the stop of a master transfer are on its first and on its last word,
\* however many pieces the program is made of (2994-3076, 3421-3598).
THEOREM MasterFrames == Spec => []FramedOnce
<1>1. ASSUME OutlineInv PROVE FramedOnce
  <2>1. CASE phase = "idle"
    <3>1. ~(bus.at >= 0)
      BY <1>1, <2>1, OutlineData DEF NoWord
    <3>. QED  BY <3>1 DEF FramedOnce
  <2>2. CASE phase # "idle"
    BY <1>1, <2>2, OutlineData DEF FramedOnce, Master, I2c
  <2>. QED  BY <2>1, <2>2
<1>. QED  BY <1>1, OutlineAlways, PTL

\* The commands of a master read never ask for more than the FIFO holds and the transfer
\* takes (3442-3598).
THEOREM ReadCommandsFit == Spec => []ReadsFitFifo
<1>1. ASSUME OutlineInv PROVE ReadsFitFifo
  <2>1. CASE phase = "idle"
    <3>1. asked = 0 /\ got = 0 /\ req.n = 0
      BY <1>1, <2>1, OutlineData DEF NoRequest
    <3>. QED  BY <3>1, I2cFifoAssumption DEF ReadsFitFifo
  <2>2. CASE phase # "idle"
    BY <1>1, <2>2, OutlineData DEF ReadsFitFifo
  <2>. QED  BY <2>1, <2>2
<1>. QED  BY <1>1, OutlineAlways, PTL

\* The event of a copy tells that all of it has arrived (1555-1567).
THEOREM EventIsLast == Spec => []EventAfterData
<1>1. ASSUME OutlineInv PROVE EventAfterData
  BY <1>1, OutlineData DEF EventAfterData
<1>. QED  BY <1>1, OutlineAlways, PTL

=============================================================================
