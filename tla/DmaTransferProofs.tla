------------------------- MODULE DmaTransferProofs --------------------------
(***************************************************************************)
(* Theorems about DmaProgram and DmaTransfer, for any address space, any   *)
(* size of the I2C FIFOs and any requests: the arithmetic by which a copy  *)
(* is cut into pieces, what the tests before a copy exclude, the shape of  *)
(* the programs, and from it that no program opens a third loop.           *)
(***************************************************************************)
EXTENDS DmaTransfer, SequenceTheorems, WellFoundedInduction, TLAPS

-----------------------------------------------------------------------------
\* alt_dma_memory_to_memory_segment and alt_dma_zero_to_memory_segment cut a region into
\* less than 8 bytes up to a multiple of 8, whole bursts of 8 bytes from there, and less
\* than 8 bytes, unless it ends before the multiple of 8 (1145-1190, 1360-1401).
THEOREM PiecesAddUp ==
  ASSUME NEW a \in Nat, NEW size \in Nat
  PROVE  /\ AlignCount(a, size) \in 0..7
         /\ PostCount(a, size) \in 0..7
         /\ AlignCount(a, size) + 8 * BurstCount(a, size) + PostCount(a, size) = size
         /\ BurstCount(a, size) > 0 => (a + AlignCount(a, size)) % 8 = 0
<1>1. /\ AlignCount(a, size) \in 0..7 /\ AlignCount(a, size) <= size
      /\ AlignCount(a, size) = size \/ (a + AlignCount(a, size)) % 8 = 0
  BY DEF AlignCount, Least
<1>. DEFINE rest == size - AlignCount(a, size)
<1>2. rest \in Nat
  BY <1>1
<1>3. /\ rest % 8 \in 0..7 /\ rest = 8 * (rest \div 8) + (rest % 8)
      /\ rest = 0 => rest \div 8 = 0
  BY <1>2
<1>4. BurstCount(a, size) = rest \div 8 /\ PostCount(a, size) = rest % 8
  BY DEF BurstCount, PostCount
<1>5. BurstCount(a, size) \in Nat /\ size = AlignCount(a, size) + rest
  BY <1>1, <1>2, <1>4
<1>. HIDE DEF rest
<1>6. AlignCount(a, size) + 8 * BurstCount(a, size) + PostCount(a, size) = size
  <2>1. rest = 8 * BurstCount(a, size) + PostCount(a, size) /\ PostCount(a, size) \in 0..7
    BY <1>3, <1>4
  <2>2. AlignCount(a, size) \in Nat
    BY <1>1
  <2>. QED  BY <1>2, <1>5, <2>1, <2>2
<1>7. BurstCount(a, size) > 0 => (a + AlignCount(a, size)) % 8 = 0
  <2>1. rest = 0 => AlignCount(a, size) = size
    BY <1>1 DEF rest
  <2>. QED  BY <1>1, <1>2, <1>3, <1>4, <1>5, <2>1
<1>. QED  BY <1>1, <1>3, <1>4, <1>6, <1>7

\* When source and destination are differently aligned, the store that corrects it takes
\* as many bytes as they are apart, which is what the cut first beat left in the FIFO: it
\* is not empty, and single bytes of one burst (1320-1358).
THEOREM CorrectionFits ==
  ASSUME NEW dst \in Nat, NEW src \in Nat, src % 8 # dst % 8
  PROVE  CorrectCount(dst, src) \in 1..7 /\ (src + CorrectCount(dst, src)) % 8 = dst % 8
BY DEF CorrectCount

-----------------------------------------------------------------------------
(* Sequences put together from pieces.                                     *)

\* A set of numbers has a least one, and a set with 0 and every successor has them all;
\* what holds of a number is put as membership in a set.
LEMMA NatMin ==
  ASSUME NEW T \in SUBSET Nat, T # {}
  PROVE  \E x \in T : \A y \in T : x <= y
<1>. DEFINE R == OpToRel(<, Nat)
<1>1. \E x \in T : \A y \in T : ~ (<<y, x>> \in R)
  BY NatLessThanWellFounded, WFMin
<1>2. \A x, y \in Nat : <<y, x>> \in R <=> y < x
  BY DEF OpToRel
<1>. HIDE DEF R
<1>3. PICK x \in T : \A y \in T : ~ (<<y, x>> \in R)
  BY <1>1
<1>4. x \in Nat /\ \A y \in T : y \in Nat /\ ~ (y < x)
  BY <1>2, <1>3
<1>. QED  BY <1>4

LEMMA Induct ==
  ASSUME NEW T, 0 \in T, \A n \in Nat : n \in T => n + 1 \in T
  PROVE  \A n \in Nat : n \in T
<1>. SUFFICES ASSUME Nat \ T # {} PROVE FALSE
  OBVIOUS
<1>1. PICK x \in Nat \ T : \A y \in Nat \ T : x <= y
  BY NatMin
<1>2. x # 0 /\ x - 1 \in Nat
  BY <1>1
<1>3. x - 1 \in T
  BY <1>1, <1>2
<1>. QED  BY <1>1, <1>2, <1>3

\* The whole of some pieces is put together from the first to the last.
LEMMA FlattenParts ==
  ASSUME NEW T, NEW ss \in Seq(T)
  PROVE  \E flat : /\ FlattenSeq(ss) = IF Len(ss) = 0 THEN ss ELSE flat[Len(ss)]
                   /\ \A i \in 1..Len(ss) : flat[i] = IF i = 1 THEN ss[i] ELSE flat[i - 1] \o ss[i]
<1>. DEFINE N == Len(ss)
            Ends(f, n) == f = [i \in 1..n |-> IF i = 1 THEN ss[i] ELSE f[i - 1] \o ss[i]]
            ok == {n \in Nat : \E f : Ends(f, n)}
<1>1. N \in Nat
  OBVIOUS
<1>2. 0 \in ok
  <2>1. Ends([i \in 1..0 |-> <<>>], 0)
    OBVIOUS
  <2>. QED  BY <2>1
<1>3. ASSUME NEW n \in Nat, n \in ok PROVE n + 1 \in ok
  <2>1. PICK f : Ends(f, n)
    BY <1>3
  <2>. DEFINE g == [i \in 1..(n + 1) |->
                      IF i <= n THEN f[i] ELSE IF i = 1 THEN ss[i] ELSE f[i - 1] \o ss[i]]
  <2>2. \A i \in 1..n : f[i] = IF i = 1 THEN ss[i] ELSE f[i - 1] \o ss[i]
    BY <2>1
  <2>3. \A i \in 1..(n + 1) : g[i] = IF i = 1 THEN ss[i] ELSE g[i - 1] \o ss[i]
    <3>. TAKE i \in 1..(n + 1)
    <3>1. CASE i = 1
      BY <2>2, <3>1
    <3>2. CASE i # 1
      <4>1. i - 1 \in 1..n /\ g[i - 1] = f[i - 1]
        BY <3>2
      <4>2. CASE i <= n
        <5>1. g[i] = f[i] /\ i \in 1..n
          BY <4>2, <3>2
        <5>2. g[i] = f[i - 1] \o ss[i]
          BY <5>1, <2>2, <3>2
        <5>. HIDE DEF g
        <5>. QED  BY <5>2, <4>1, <3>2
      <4>3. CASE ~(i <= n)
        <5>1. g[i] = f[i - 1] \o ss[i]
          BY <4>3, <3>2
        <5>. HIDE DEF g
        <5>. QED  BY <5>1, <4>1, <3>2
      <4>. QED  BY <4>2, <4>3
    <3>. QED  BY <3>1, <3>2
  <2>4. Ends(g, n + 1)
    <3>1. g = [i \in 1..(n + 1) |-> g[i]]
      OBVIOUS
    <3>. HIDE DEF g
    <3>. QED  BY <2>3, <3>1, Zenon
  <2>. HIDE DEF g, Ends
  <2>. QED  BY <2>4
<1>4. \E f : Ends(f, N)
  <2>. HIDE DEF ok
  <2>1. N \in ok
    BY <1>1, <1>2, <1>3, Induct
  <2>. QED  BY <2>1 DEF ok
<1>. DEFINE flat == CHOOSE f : Ends(f, N)
<1>5. Ends(flat, N)
  <2>. HIDE DEF Ends
  <2>. QED  BY <1>4
<1>6. FlattenSeq(ss) = IF N = 0 THEN ss ELSE flat[N]
  BY DEF FlattenSeq
<1>. HIDE DEF flat
<1>7. \A i \in 1..N : flat[i] = IF i = 1 THEN ss[i] ELSE flat[i - 1] \o ss[i]
  BY <1>5
<1>. QED  BY <1>6, <1>7

\* What contains the pieces, the empty sequence and any two joined contains the whole.
LEMMA FlattenClosed ==
  ASSUME NEW S, NEW T \in SUBSET Seq(S), <<>> \in T, \A s, t \in T : s \o t \in T,
         NEW ss \in Seq(T)
  PROVE  FlattenSeq(ss) \in T
<1>. DEFINE N == Len(ss)
<1>1. N \in Nat /\ \A i \in 1..N : ss[i] \in T
  OBVIOUS
<1>2. PICK flat : /\ FlattenSeq(ss) = IF N = 0 THEN ss ELSE flat[N]
                  /\ \A i \in 1..N : flat[i] = IF i = 1 THEN ss[i] ELSE flat[i - 1] \o ss[i]
  BY FlattenParts
<1>6. FlattenSeq(ss) = IF N = 0 THEN ss ELSE flat[N]
  BY <1>2
<1>7. \A i \in 1..N : flat[i] = IF i = 1 THEN ss[i] ELSE flat[i - 1] \o ss[i]
  BY <1>2
<1>. DEFINE good == {i \in Nat : i \in 1..N => flat[i] \in T}
<1>8. \A n \in Nat : n \in good => n + 1 \in good
  <2>. SUFFICES ASSUME NEW n \in Nat, n \in good, n + 1 \in 1..N
                PROVE  flat[n + 1] \in T
    OBVIOUS
  <2>1. CASE n = 0
    BY <1>1, <1>7, <2>1
  <2>2. CASE n # 0
    <3>1. n \in 1..N /\ flat[n] \in T /\ ss[n + 1] \in T
      BY <1>1, <2>2
    <3>2. flat[n + 1] = flat[n] \o ss[n + 1]
      <4>1. n + 1 # 1 /\ (n + 1) - 1 = n
        <5>. HIDE DEF good, N
        <5>. QED  BY <2>2
      <4>2. flat[n + 1] = flat[(n + 1) - 1] \o ss[n + 1]
        BY <1>7, <4>1, Zenon
      <4>. QED  BY <4>1, <4>2
    <3>. QED  BY <3>1, <3>2
  <2>. QED  BY <2>1, <2>2
<1>9. 0 \in good
  BY <1>1
<1>10. N = 0 => ss = <<>>
  OBVIOUS
<1>. HIDE DEF good
<1>11. N \in good
  BY <1>1, <1>8, <1>9, Induct
<1>. QED  BY <1>1, <1>6, <1>10, <1>11 DEF good

\* The same piece n times.
LEMMA TimesClosed ==
  ASSUME NEW S, NEW T \in SUBSET Seq(S), <<>> \in T, \A s, t \in T : s \o t \in T,
         NEW body \in T, NEW n \in Int
  PROVE  Times(n, body) \in T
<1>. DEFINE ss == [i \in 1..n |-> body]
<1>1. ss \in Seq(T)
  <2>1. CASE n \in Nat
    BY <2>1
  <2>2. CASE n \notin Nat
    <3>1. ss = <<>>
      BY <2>2
    <3>. QED  BY <3>1
  <2>. QED  BY <2>1, <2>2
<1>2. Times(n, body) = FlattenSeq(ss)
  BY DEF Times
<1>. HIDE DEF ss
<1>. QED  BY <1>1, <1>2, FlattenClosed

-----------------------------------------------------------------------------
(* Programs whose loops nest.                                              *)

\* A program in which loops are opened and closed in pairs, at most m deep: d is the depth
\* before each instruction.
After(op, depth) == CASE op = "LP" -> depth + 1 [] op = "LPEND" -> depth - 1 [] OTHER -> depth
Nesting(p, m, d) ==
  /\ d \in [1..(Len(p) + 1) -> 0..m]
  /\ d[1] = 0 /\ d[Len(p) + 1] = 0
  /\ \A i \in 1..Len(p) : d[i + 1] = After(p[i].op, d[i])
Blocks(m, I) == {p \in Seq(I) : \E d : Nesting(p, m, d)}

LEMMA NoBlock ==
  ASSUME NEW m \in Nat, NEW I
  PROVE  <<>> \in Blocks(m, I)
<1>1. Nesting(<<>>, m, [i \in 1..1 |-> 0])
  BY DEF Nesting
<1>. QED  BY <1>1 DEF Blocks

LEMMA OneInstruction ==
  ASSUME NEW m \in Nat, NEW I, NEW i \in I, i.op \notin {"LP", "LPEND"}
  PROVE  <<i>> \in Blocks(m, I)
<1>1. Nesting(<<i>>, m, [k \in 1..2 |-> 0])
  BY DEF Nesting, After
<1>. QED  BY <1>1 DEF Blocks

LEMMA BlocksJoin ==
  ASSUME NEW m \in Nat, NEW I, NEW p \in Blocks(m, I), NEW q \in Blocks(m, I)
  PROVE  p \o q \in Blocks(m, I)
<1>1. PICK d : Nesting(p, m, d)
  BY DEF Blocks
<1>2. PICK e : Nesting(q, m, e)
  BY DEF Blocks
<1>3. p \in Seq(I) /\ q \in Seq(I)
  BY DEF Blocks
<1>. DEFINE g == [i \in 1..(Len(p \o q) + 1) |-> IF i <= Len(p) THEN d[i] ELSE e[i - Len(p)]]
<1>4. /\ p \o q \in Seq(I) /\ Len(p) \in Nat /\ Len(q) \in Nat
      /\ Len(p \o q) = Len(p) + Len(q)
      /\ \A i \in 1..(Len(p) + Len(q)) : (p \o q)[i] = IF i <= Len(p) THEN p[i] ELSE q[i - Len(p)]
  BY <1>3, ConcatProperties
<1>5. Nesting(p \o q, m, g)
  <2>1. \A i \in 1..(Len(p) + Len(q) + 1) : g[i] = IF i <= Len(p) + 1 THEN d[i] ELSE e[i - Len(p)]
    BY <1>1, <1>2, <1>4 DEF Nesting
  <2>2. g \in [1..(Len(p \o q) + 1) -> 0..m]
    BY <1>1, <1>2, <1>4 DEF Nesting
  <2>. HIDE DEF g
  <2>3. g[1] = 0 /\ g[Len(p \o q) + 1] = 0
    <3>1. d[1] = 0 /\ d[Len(p) + 1] = 0 /\ e[Len(q) + 1] = 0
      BY <1>1, <1>2 DEF Nesting
    <3>2. g[1] = d[1]
      BY <1>4, <2>1
    <3>3. g[Len(p) + Len(q) + 1] = 0
      BY <1>4, <2>1, <3>1
    <3>. QED  BY <1>4, <3>1, <3>2, <3>3
  <2>4. \A i \in 1..Len(p \o q) : g[i + 1] = After((p \o q)[i].op, g[i])
    <3>. TAKE i \in 1..Len(p \o q)
    <3>1. CASE i <= Len(p)
      <4>1. /\ g[i] = d[i] /\ g[i + 1] = d[i + 1] /\ (p \o q)[i] = p[i]
            /\ i \in 1..Len(p)
        BY <1>4, <2>1, <3>1
      <4>. QED  BY <4>1, <1>1 DEF Nesting
    <3>2. CASE i > Len(p)
      <4>. DEFINE j == i - Len(p)
      <4>1. j \in 1..Len(q) /\ i + 1 - Len(p) = j + 1
        BY <1>4, <3>2
      <4>2. (p \o q)[i] = q[j]
        BY <1>4, <3>2
      <4>3. g[i + 1] = e[j + 1]
        BY <1>4, <2>1, <3>2, <4>1
      <4>4. g[i] = e[j]
        BY <1>1, <1>2, <1>4, <2>1, <3>2, <4>1 DEF Nesting
      <4>. HIDE DEF j
      <4>5. e[j + 1] = After(q[j].op, e[j])
        BY <4>1, <1>2 DEF Nesting
      <4>. QED  BY <4>2, <4>3, <4>4, <4>5
    <3>. QED  BY <3>1, <3>2, <1>4
  <2>. QED  BY <2>2, <2>3, <2>4 DEF Nesting
<1>. QED  BY <1>4, <1>5 DEF Blocks

LEMMA BlocksRepeat ==
  ASSUME NEW m \in Nat, NEW I, NEW p \in Blocks(m, I), NEW n \in Int
  PROVE  Times(n, p) \in Blocks(m, I)
<1>1. Blocks(m, I) \in SUBSET Seq(I)
  BY DEF Blocks
<1>. QED  BY <1>1, NoBlock, BlocksJoin, TimesClosed

LEMMA BlocksGrow ==
  ASSUME NEW m \in Nat, NEW n \in Nat, m <= n, NEW I, NEW J, I \subseteq J
  PROVE  Blocks(m, I) \subseteq Blocks(n, J)
<1>. SUFFICES ASSUME NEW p \in Blocks(m, I) PROVE p \in Blocks(n, J)
  OBVIOUS
<1>1. PICK d : Nesting(p, m, d)
  BY DEF Blocks
<1>2. p \in Seq(J)
  BY SeqMonotonic DEF Blocks
<1>3. 0..m \subseteq 0..n
  OBVIOUS
<1>4. Nesting(p, n, d)
  BY <1>1, <1>3 DEF Nesting
<1>. QED  BY <1>2, <1>4 DEF Blocks

\* A loop around a block is one deeper.
LEMMA BlocksWrap ==
  ASSUME NEW m \in Nat, NEW I, NEW p \in Blocks(m, I),
         NEW lp \in I, lp.op = "LP", NEW lpend \in I, lpend.op = "LPEND"
  PROVE  <<lp>> \o p \o <<lpend>> \in Blocks(m + 1, I)
<1>1. PICK d : Nesting(p, m, d)
  BY DEF Blocks
<1>. DEFINE w == <<lp>> \o p \o <<lpend>>
            g == [i \in 1..(Len(p) + 3) |-> IF i = 1 \/ i = Len(p) + 3 THEN 0 ELSE d[i - 1] + 1]
<1>2. p \in Seq(I) /\ Len(p) \in Nat /\ <<lp>> \in Seq(I) /\ <<lpend>> \in Seq(I)
  BY DEF Blocks
<1>3. /\ w \in Seq(I) /\ Len(w) = Len(p) + 2
      /\ w[1] = lp /\ w[Len(p) + 2] = lpend
      /\ \A i \in 2..(Len(p) + 1) : w[i] = p[i - 1]
  BY <1>2
<1>. HIDE DEF w
<1>4. /\ \A i \in 1..(Len(p) + 1) : d[i] \in 0..m /\ d[i] + 1 \in 0..(m + 1)
      /\ d[1] = 0 /\ d[Len(p) + 1] = 0
      /\ \A i \in 1..Len(p) : d[i + 1] = After(p[i].op, d[i])
  BY <1>1, <1>2 DEF Nesting
<1>5. g \in [1..(Len(w) + 1) -> 0..(m + 1)]
  BY <1>2, <1>3, <1>4
<1>6. /\ g[1] = 0 /\ g[Len(p) + 3] = 0
      /\ \A i \in 2..(Len(p) + 2) : g[i] = d[i - 1] + 1
  BY <1>2
<1>. HIDE DEF g
<1>7. ASSUME NEW i \in 1..Len(w) PROVE g[i + 1] = After(w[i].op, g[i])
  <2>1. CASE i = 1
    BY <1>2, <1>3, <1>4, <1>6, <2>1 DEF After
  <2>2. CASE i = Len(p) + 2
    BY <1>2, <1>3, <1>4, <1>6, <2>2 DEF After
  <2>3. CASE i \in 2..(Len(p) + 1)
    <3>. DEFINE j == i - 1
    <3>1. j \in 1..Len(p) /\ i = j + 1 /\ w[i] = p[j]
      BY <1>2, <1>3, <2>3
    <3>2. g[i] = d[j] + 1 /\ g[i + 1] = d[j + 1] + 1 /\ d[j] \in Nat
      BY <1>2, <1>4, <1>6, <2>3
    <3>. HIDE DEF j
    <3>3. d[j + 1] = After(p[j].op, d[j])
      BY <1>4, <3>1
    <3>. QED  BY <3>1, <3>2, <3>3 DEF After
  <2>. QED  BY <1>2, <1>3, <2>1, <2>2, <2>3
<1>8. Nesting(w, m + 1, g)
  BY <1>2, <1>3, <1>5, <1>6, <1>7 DEF Nesting
<1>. QED  BY <1>3, <1>8 DEF Blocks, w

-----------------------------------------------------------------------------
USE AddrSpaceAssumption, I2cFifoAssumption

\* A sum of two words wraps once at the most.
LEMMA WrapOnce ==
  ASSUME NEW x \in Nat, x < 2 * AddrSpace
  PROVE  Wrap(x) = IF x < AddrSpace THEN x ELSE x - AddrSpace
BY DEF Wrap

LEMMA VerdictApart ==
  ASSUME NEW dst \in Words, NEW src \in Words, NEW n \in Words, n > 0,
         ~Overlaps(dst, src, n), ~Overshoots(dst, n), ~Overshoots(src, n)
  PROVE  /\ src + n <= AddrSpace /\ dst + n <= AddrSpace
         /\ src + n - 1 <= dst \/ dst + n - 1 <= src
<1>1. Wrap(src + n - 1) = IF src + n - 1 < AddrSpace THEN src + n - 1 ELSE src + n - 1 - AddrSpace
  BY WrapOnce DEF Words
<1>2. Wrap(dst + n - 1) = IF dst + n - 1 < AddrSpace THEN dst + n - 1 ELSE dst + n - 1 - AddrSpace
  BY WrapOnce DEF Words
<1>. QED  BY <1>1, <1>2 DEF Overlaps, Overshoots, Words

CopyAccepted ==
  phase \in {"run", "ended"} /\ req.op = "m2m" /\ req.n > 0 =>
    req \in Requests /\ Verdict(req) = "success"

LEMMA RequestAccepted ==
  ASSUME NEW r \in Requests, Request(r), req'.op = "m2m", req'.n > 0, phase' \in {"run", "ended"}
  PROVE  req' \in Requests /\ Verdict(req') = "success"
BY DEF Request

LEMMA AcceptedStep == CopyAccepted /\ [Next]_vars => CopyAccepted'
<1>. SUFFICES ASSUME CopyAccepted, [Next]_vars PROVE CopyAccepted'
  OBVIOUS
<1>1. ASSUME NEW r \in Requests, Request(r) PROVE CopyAccepted'
  BY <1>1, RequestAccepted DEF CopyAccepted
<1>2. CASE Over
  BY <1>2 DEF Over, NoRequest, CopyAccepted
<1>3. CASE Execute \/ Land
  <2>1. req' = req /\ (phase' \in {"run", "ended"} => phase \in {"run", "ended"})
    BY <1>3 DEF Execute, Land, MovSar, MovDar, MovCcr, Lp, LpEnd, WaitForPeripheral, Load,
                Store, Starve, StoreZero, Barrier, SendEvent, End, Continue, At
  <2>. QED  BY <2>1 DEF CopyAccepted, Verdict, CopyVerdict
<1>4. CASE UNCHANGED vars
  BY <1>4 DEF vars, CopyAccepted
<1>. QED  BY <1>1, <1>2, <1>3, <1>4 DEF Next

\* What the test for overlap does ensure, off by one: the regions of a copy that is made
\* lie inside the memory, and share at most the last byte of one and the first of the other.
ApartButOneByte ==
  phase \in {"run", "ended"} /\ req.op = "m2m" /\ req.n > 0 =>
    /\ req.src + req.n <= AddrSpace /\ req.dst + req.n <= AddrSpace
    /\ req.src + req.n - 1 <= req.dst \/ req.dst + req.n - 1 <= req.src

\* A copy that is made has regions inside the memory that share at most one byte; the
\* test lets that one byte pass (alt_dma.c 1437-1455).
THEOREM CopiesApart == Spec => []ApartButOneByte
<1>1. Init => CopyAccepted
  BY DEF Init, CopyAccepted
<1>2. CopyAccepted => ApartButOneByte
  <2>. SUFFICES ASSUME CopyAccepted, phase \in {"run", "ended"}, req.op = "m2m", req.n > 0
                PROVE  /\ req.src + req.n <= AddrSpace /\ req.dst + req.n <= AddrSpace
                       /\ req.src + req.n - 1 <= req.dst \/ req.dst + req.n - 1 <= req.src
    BY DEF ApartButOneByte
  <2>1. req \in Requests /\ Verdict(req) = "success"
    BY DEF CopyAccepted
  <2>2. req.dst \in Words /\ req.src \in Words /\ req.n \in Words
    BY <2>1, RequestsAssumption DEF Words
  <2>3. CopyVerdict(req) = "success"
    BY <2>1, <2>2 DEF Verdict, Words
  <2>4. /\ ~Overlaps(req.dst, req.src, req.n)
        /\ ~Overshoots(req.dst, req.n) /\ ~Overshoots(req.src, req.n)
    BY <2>3 DEF CopyVerdict
  <2>. QED  BY <2>2, <2>4, VerdictApart
<1>. QED  BY <1>1, <1>2, AcceptedStep, PTL DEF Spec

-----------------------------------------------------------------------------
(* The instructions of the programs, by what they do.                      *)

Ccrs == [op : {"CCR"}, ss : {1, 2, 4, 8}, sb : 1..16, si : BOOLEAN,
                       ds : {1, 2, 4, 8}, db : 1..16, di : BOOLEAN]
Others ==
  [op : {"LPEND"}] \cup [op : {"LP"}, n : Int] \cup
  [op : {"WFP"}, dir : {"tx", "rx"}, burst : BOOLEAN]
Copies == [op : {"LD", "ST"}]
Clears == [op : {"STZ"}]
Closing == [op : {"WMB", "SEV", "END"}]
Moves == [op : {"SAR", "DAR"}, at : Int]
Instructions == Ccrs \cup Others \cup Copies \cup Clears \cup Closing \cup Moves

\* Instructions that read with or without increment and write with or without, where
\* one says that single bytes are written.
Steps(si, di, one, accesses) ==
  accesses \cup Others \cup
  {c \in Ccrs : c.si = si /\ c.di = di /\ (one => c.ds = 1 /\ c.db = 1)}

LEMMA OpBlock ==
  ASSUME NEW m \in Nat, NEW I, NEW op, op \notin {"LP", "LPEND"}, [op |-> op] \in I
  PROVE  Op(op) \in Blocks(m, I)
<1>. DEFINE i == [op |-> op]
<1>1. i \in I /\ i.op \notin {"LP", "LPEND"}
  OBVIOUS
<1>2. Op(op) = <<i>>
  BY DEF Op
<1>. HIDE DEF i
<1>. QED  BY <1>1, <1>2, OneInstruction

LEMMA LdStBlock ==
  ASSUME NEW m \in Nat, NEW I, Copies \subseteq I
  PROVE  Op("LD") \in Blocks(m, I) /\ Op("ST") \in Blocks(m, I) /\ LdSt \in Blocks(m, I)
<1>1. [op |-> "LD"] \in I /\ [op |-> "ST"] \in I
  BY DEF Copies
<1>2. Op("LD") \in Blocks(m, I) /\ Op("ST") \in Blocks(m, I)
  BY <1>1, OpBlock
<1>. QED  BY <1>2, BlocksJoin DEF LdSt

LEMMA WfpBlock ==
  ASSUME NEW m \in Nat, NEW I, Others \subseteq I, NEW dir \in {"tx", "rx"}, NEW burst \in BOOLEAN
  PROVE  Wfp(dir, burst) \in Blocks(m, I)
<1>. DEFINE i == [op |-> "WFP", dir |-> dir, burst |-> burst]
<1>1. i \in I /\ i.op \notin {"LP", "LPEND"}
  BY DEF Others
<1>2. Wfp(dir, burst) = <<i>>
  BY DEF Wfp
<1>. HIDE DEF i
<1>. QED  BY <1>1, <1>2, OneInstruction

LEMMA BlocksLoop ==
  ASSUME NEW m \in Nat, NEW I, Others \subseteq I, NEW p \in Blocks(m, I), NEW n \in Int
  PROVE  /\ Loop(n, p) \in Blocks(m + 1, I)
         /\ Rounds(n, p) \in Blocks(m + 1, I)
<1>1. Rounds(n, p) \in Blocks(m + 1, I)
  <2>. DEFINE lp == [op |-> "LP", n |-> n]
              lpend == [op |-> "LPEND"]
  <2>1. lp \in I /\ lpend \in I /\ lp.op = "LP" /\ lpend.op = "LPEND"
    BY DEF Others
  <2>2. Op("LPEND") = <<lpend>>
    BY DEF Op
  <2>. HIDE DEF lp, lpend
  <2>3. <<lp>> \o p \o <<lpend>> \in Blocks(m + 1, I)
    BY <2>1, BlocksWrap
  <2>. QED  BY <2>2, <2>3 DEF lp, Rounds
<1>2. p \in Blocks(m + 1, I) /\ <<>> \in Blocks(m + 1, I)
  BY BlocksGrow, NoBlock
<1>. QED  BY <1>1, <1>2 DEF Loop

LEMMA BlocksLong ==
  ASSUME NEW m \in Nat, NEW I, Others \subseteq I, NEW p \in Blocks(m, I)
  PROVE  \A n \in Int : Repeat(n, p) \in Blocks(m + 1, I)
<1>. TAKE n \in Int
<1>1. \A k \in Int : Loop(k, p) \in Blocks(m + 1, I)
  BY BlocksLoop
<1>2. n \div 256 \in Int /\ n % 256 \in Int /\ 256 \in Int /\ m + 1 \in Nat
  OBVIOUS
<1>3. Loop(256, p) \in Blocks(m + 1, I) /\ Loop(n % 256, p) \in Blocks(m + 1, I)
  BY <1>1, <1>2
<1>4. Times(n \div 256, Loop(256, p)) \in Blocks(m + 1, I)
  BY <1>2, <1>3, BlocksRepeat
<1>. QED  BY <1>2, <1>3, <1>4, BlocksJoin DEF Repeat

LEMMA BlocksNested ==
  ASSUME NEW m \in Nat, NEW I, Others \subseteq I, NEW p \in Blocks(m, I)
  PROVE  \A n \in Int : Nested(n, p) \in Blocks(m + 2, I)
<1>. TAKE n \in Int
<1>1. \A k \in Int : Loop(k, p) \in Blocks(m + 1, I)
  BY BlocksLoop
<1>2. /\ n \div 256 \in Int /\ n % 256 \in Int /\ 256 \in Int
      /\ m + 1 \in Nat /\ m + 2 \in Nat /\ (m + 1) + 1 = m + 2 /\ m + 1 <= m + 2
  OBVIOUS
<1>3. Loop(256, p) \in Blocks(m + 1, I) /\ Loop(n % 256, p) \in Blocks(m + 1, I)
  BY <1>1, <1>2
<1>4. Repeat(n \div 256, Loop(256, p)) \in Blocks((m + 1) + 1, I)
  BY <1>2, <1>3, BlocksLong
<1>5. Loop(n % 256, p) \in Blocks(m + 2, I)
  BY <1>2, <1>3, BlocksGrow
<1>. QED  BY <1>2, <1>4, <1>5, BlocksJoin DEF Nested

\* What a request does between its addresses and its end: nothing, or what begins by
\* saying how to read and write.
Opened(I) == {p \in Blocks(2, I) : p # <<>> /\ p[1].op = "CCR"}
Bodies(I) == Opened(I) \cup {<<>>}

LEMMA BodiesAreBlocks ==
  ASSUME NEW I
  PROVE  Bodies(I) \subseteq Blocks(2, I)
BY NoBlock DEF Bodies, Opened

LEMMA OpenedThen ==
  ASSUME NEW I, NEW p \in Opened(I), NEW q \in Blocks(2, I)
  PROVE  p \o q \in Opened(I)
<1>1. p \o q \in Blocks(2, I)
  BY BlocksJoin DEF Opened
<1>2. p \in Seq(I) /\ q \in Seq(I) /\ p # <<>> /\ p[1].op = "CCR"
  BY DEF Opened, Blocks
<1>3. (p \o q)[1] = p[1] /\ p \o q # <<>>
  BY <1>2
<1>. QED  BY <1>1, <1>2, <1>3 DEF Opened

LEMMA BodiesJoin ==
  ASSUME NEW I, NEW p \in Bodies(I), NEW q \in Bodies(I)
  PROVE  p \o q \in Bodies(I)
<1>1. p \in Seq(I) /\ q \in Seq(I)
  BY BodiesAreBlocks DEF Blocks
<1>2. CASE p = <<>>
  BY <1>1, <1>2, ConcatEmptySeq
<1>3. CASE p \in Opened(I)
  BY <1>3, OpenedThen, BodiesAreBlocks DEF Bodies
<1>. QED  BY <1>2, <1>3 DEF Bodies

LEMMA CcrOpens ==
  ASSUME NEW ss \in {1, 2, 4, 8}, NEW sb \in 1..16, NEW si \in BOOLEAN,
         NEW ds \in {1, 2, 4, 8}, NEW db \in 1..16, NEW di \in BOOLEAN,
         NEW one \in BOOLEAN, one => ds = 1 /\ db = 1, NEW A
  PROVE  Ccr(ss, sb, si, ds, db, di) \in Opened(Steps(si, di, one, A))
<1>. DEFINE c == [op |-> "CCR", ss |-> ss, sb |-> sb, si |-> si, ds |-> ds, db |-> db, di |-> di]
<1>1. c \in Ccrs
  BY DEF Ccrs
<1>2. c.si = si /\ c.di = di /\ (one => c.ds = 1 /\ c.db = 1) /\ c.op = "CCR"
  OBVIOUS
<1>3. Ccr(ss, sb, si, ds, db, di) = <<c>>
  BY DEF Ccr
<1>. HIDE DEF c
<1>4. c \in Steps(si, di, one, A)
  BY <1>1, <1>2 DEF Steps
<1>5. <<c>> \in Blocks(2, Steps(si, di, one, A))
  BY <1>2, <1>4, OneInstruction
<1>. QED  BY <1>2, <1>3, <1>5 DEF Opened

LEMMA StepsHold ==
  ASSUME NEW si, NEW di, NEW one, NEW A
  PROVE  Others \subseteq Steps(si, di, one, A) /\ A \subseteq Steps(si, di, one, A)
BY DEF Steps

-----------------------------------------------------------------------------
(* Copies within memory: the pieces of alt_dma_memory_to_memory_segment    *)
(* (alt_dma.c 1123-1401).                                                  *)

\* Reads and writes both go on through memory.
Within == Steps(TRUE, TRUE, FALSE, Copies)

LEMMA CopyOpens ==
  ASSUME NEW beat \in {1, 8}, NEW len \in 1..16
  PROVE  Copy(beat, len) \in Opened(Within)
<1>1. Ccr(beat, len, TRUE, beat, len, TRUE) \in Opened(Within)
  BY CcrOpens DEF Within
<1>2. LdSt \in Blocks(2, Within)
  BY StepsHold, LdStBlock DEF Within
<1>. QED  BY <1>1, <1>2, OpenedThen DEF Copy

LEMMA CopyBody ==
  ASSUME NEW dst \in Nat, NEW src \in Nat, NEW size \in Nat, size > 0
  PROVE  /\ AlignPart(src, size) \in Bodies(Within)
         /\ FullBursts(BurstCount(src, size)) \in Bodies(Within)
         /\ RestBurst(BurstCount(src, size)) \in Bodies(Within)
         /\ Correction(dst, src, BurstCount(src, size)) \in Bodies(Within)
         /\ PostPart(PostCount(src, size)) \in Bodies(Within)
<1>. DEFINE n == BurstCount(src, size)
<1>1. \A p \in Opened(Within) : p \in Bodies(Within)
  BY DEF Bodies
<1>2. <<>> \in Bodies(Within)
  BY DEF Bodies
<1>3. n \in Int
  BY DEF BurstCount, AlignCount, Least
<1>4. AlignPart(src, size) \in Bodies(Within)
  <2>1. src % 8 # 0 => AlignCount(src, size) \in 1..16
    BY DEF AlignCount, Least
  <2>. QED  BY <1>1, <1>2, <2>1, CopyOpens DEF AlignPart
<1>5. FullBursts(n) \in Bodies(Within)
  <2>1. Ccr(8, 16, TRUE, 8, 16, TRUE) \in Opened(Within)
    <3>1. 8 \in {1, 2, 4, 8} /\ 16 \in 1..16 /\ TRUE \in BOOLEAN /\ FALSE \in BOOLEAN
      OBVIOUS
    <3>. QED  BY <3>1, CcrOpens, Zenon DEF Within
  <2>2. LdSt \in Blocks(0, Within) /\ Others \subseteq Within
    BY StepsHold, LdStBlock DEF Within
  <2>3. \A k \in Int : Repeat(k, LdSt) \in Blocks(0 + 1, Within)
    BY <2>2, BlocksLong
  <2>4. n \div 16 \in Int
    BY <1>3
  <2>5. Repeat(n \div 16, LdSt) \in Blocks(2, Within)
    BY <2>3, <2>4, BlocksGrow
  <2>6. Ccr(8, 16, TRUE, 8, 16, TRUE) \o Repeat(n \div 16, LdSt) \in Opened(Within)
    BY <2>1, <2>5, OpenedThen
  <2>. QED  BY <1>1, <1>2, <2>6 DEF FullBursts
<1>6. RestBurst(n) \in Bodies(Within)
  <2>1. n % 16 # 0 => n % 16 \in 1..16
    BY <1>3
  <2>. QED  BY <1>1, <1>2, <2>1, CopyOpens DEF RestBurst
<1>7. Correction(dst, src, n) \in Bodies(Within)
  <2>. DEFINE c == CorrectCount(dst, src)
  <2>1. CASE src % 8 # dst % 8
    <3>1. c \in 1..16
      <4>1. c \in 1..7
        BY <2>1, CorrectionFits
      <4>. HIDE DEF c
      <4>. QED  BY <4>1
    <3>2. Ccr(1, c, TRUE, 1, c, TRUE) \in Opened(Within)
      BY <3>1, CcrOpens DEF Within
    <3>3. Op("ST") \in Blocks(2, Within)
      BY StepsHold, LdStBlock DEF Within
    <3>4. Ccr(1, c, TRUE, 1, c, TRUE) \o Op("ST") \in Opened(Within)
      BY <3>2, <3>3, OpenedThen
    <3>. QED  BY <1>1, <1>2, <3>4 DEF Correction
  <2>2. CASE src % 8 = dst % 8
    BY <1>2, <2>2 DEF Correction
  <2>. QED  BY <2>1, <2>2
<1>8. PostPart(PostCount(src, size)) \in Bodies(Within)
  <2>1. PostCount(src, size) \in 0..7
    BY PiecesAddUp
  <2>2. PostCount(src, size) # 0 => PostCount(src, size) \in 1..16
    BY <2>1
  <2>. QED  BY <1>1, <1>2, <2>2, CopyOpens DEF PostPart
<1>. QED  BY <1>4, <1>5, <1>6, <1>7, <1>8

-----------------------------------------------------------------------------
(* Programs that set their addresses first.                                *)

\* The programs that begin with h and go on with a body.
Headed(h, I) == {h \o b : b \in Bodies(I)}

\* A body may go on, or be missing.
LEMMA HeadedThen ==
  ASSUME NEW I, I \subseteq Instructions, NEW h \in Seq(Instructions), NEW p \in Headed(h, I), NEW q \in Bodies(I)
  PROVE  p \o q \in Headed(h, I)
<1>1. PICK b \in Bodies(I) : p = h \o b
  BY DEF Headed
<1>2. b \in Seq(Instructions) /\ q \in Seq(Instructions)
  <2>1. b \in Seq(I) /\ q \in Seq(I)
    BY BodiesAreBlocks DEF Blocks
  <2>. QED  BY <2>1, SeqMonotonic
<1>3. p \o q = h \o (b \o q)
  BY <1>1, <1>2, ConcatAssociative
<1>. QED  BY <1>3, BodiesJoin DEF Headed

LEMMA HeadedAlone ==
  ASSUME NEW I, NEW h \in Seq(Instructions)
  PROVE  h \in Headed(h, I)
<1>1. h \o <<>> = h
  BY ConcatEmptySeq
<1>. QED  BY <1>1 DEF Headed, Bodies

\* These are all instructions.
LEMMA StepsAreAny ==
  ASSUME NEW si, NEW di, NEW one, NEW A \in {Copies, Clears}
  PROVE  Steps(si, di, one, A) \subseteq Instructions
BY DEF Steps, Instructions

LEMMA MovesAreAny ==
  ASSUME NEW x \in Int, NEW y \in Int, NEW o \in {"SAR", "DAR"}, NEW u \in {"SAR", "DAR"}
  PROVE  Mov(o, x) \in Seq(Instructions) /\ Mov(o, x) \o Mov(u, y) \in Seq(Instructions)
<1>1. [op |-> o, at |-> x] \in Instructions /\ [op |-> u, at |-> y] \in Instructions
  BY DEF Instructions, Moves
<1>. QED  BY <1>1 DEF Mov

\* A copy sets its two addresses and goes on with the five pieces.
LEMMA CopyProgram ==
  ASSUME NEW dst \in Nat, NEW src \in Nat, NEW size \in Nat, size > 0
  PROVE  CopySegment(dst, src, size) \in Headed(Mov("SAR", src) \o Mov("DAR", dst), Within)
<1>. DEFINE h == Mov("SAR", src) \o Mov("DAR", dst)
<1>1. h \in Seq(Instructions) /\ Within \subseteq Instructions
  <2>1. h \in Seq(Instructions)
    BY MovesAreAny
  <2>2. Within \subseteq Instructions
    BY StepsAreAny DEF Within
  <2>. QED  BY <2>1, <2>2
<1>2. h \in Headed(h, Within)
  BY <1>1, HeadedAlone
<1>. HIDE DEF h
<1>3. \A p \in Headed(h, Within), q \in Bodies(Within) : p \o q \in Headed(h, Within)
  BY <1>1, HeadedThen
<1>. QED  BY <1>2, <1>3, CopyBody DEF CopySegment, h

\* One more address in front.
LEMMA HeadedAfter ==
  ASSUME NEW I, I \subseteq Instructions, NEW g \in Seq(Instructions), NEW h \in Seq(Instructions),
         NEW p \in Headed(h, I)
  PROVE  g \o p \in Headed(g \o h, I)
<1>1. PICK b \in Bodies(I) : p = h \o b
  BY DEF Headed
<1>2. b \in Seq(Instructions)
  BY BodiesAreBlocks, SeqMonotonic DEF Blocks
<1>3. g \o p = (g \o h) \o b
  BY <1>1, <1>2, ConcatAssociative, SMTT(30)
<1>. QED  BY <1>3, ZenonT(30) DEF Headed

\* A way to read and write followed by a loop.
LEMMA OpenedLoops ==
  ASSUME NEW I, Others \subseteq I, NEW c \in Opened(I)
  PROVE  /\ \A p \in Blocks(1, I), n \in Int : c \o Repeat(n, p) \in Opened(I)
         /\ \A p \in Blocks(0, I), n \in Int : c \o Nested(n, p) \in Opened(I)
<1>1. ASSUME NEW p \in Blocks(1, I), NEW n \in Int PROVE c \o Repeat(n, p) \in Opened(I)
  <2>1. Repeat(n, p) \in Blocks(1 + 1, I)
    BY BlocksLong
  <2>. QED  BY <2>1, OpenedThen
<1>2. ASSUME NEW p \in Blocks(0, I), NEW n \in Int PROVE c \o Nested(n, p) \in Opened(I)
  <2>1. Nested(n, p) \in Blocks(0 + 2, I)
    BY BlocksNested
  <2>. QED  BY <2>1, OpenedThen
<1>. QED  BY <1>1, <1>2

\* The bursts of an I2C transfer, and the bytes that are left.
LEMMA BurstsAndSingles ==
  ASSUME NEW I, Others \subseteq I, NEW c \in Opened(I), NEW p \in Blocks(1, I),
         NEW n \in Int, NEW bs \in Nat
  PROVE  Bursts(n, bs, c, p) \in Bodies(I) /\ Singles(n, bs, c, p) \in Bodies(I)
<1>1. \A k \in Int : c \o Repeat(k, p) \in Opened(I)
  BY OpenedLoops
<1>2. bs # 0 => n \div bs \in Int /\ n % bs \in Int
  OBVIOUS
<1>. QED  BY <1>1, <1>2 DEF Bursts, Singles, Bodies

\* Zeroes; from memory to a register, for the I2C one byte at a time; from a register to memory.
Cleared == Steps(TRUE, TRUE, FALSE, Clears)
Outward == Steps(TRUE, FALSE, FALSE, Copies)
Narrow == Steps(TRUE, FALSE, TRUE, Copies)
Inward == Steps(FALSE, TRUE, FALSE, Copies)

LEMMA KindsAreInstructions ==
  /\ \A I \in {Within, Outward, Narrow, Inward} : I \subseteq Instructions /\ Others \subseteq I /\ Copies \subseteq I
  /\ Cleared \subseteq Instructions /\ Others \subseteq Cleared /\ Clears \subseteq Cleared
<1>1. ASSUME NEW si, NEW di, NEW one, NEW A \in {Copies, Clears}
      PROVE  /\ Steps(si, di, one, A) \subseteq Instructions
             /\ Others \subseteq Steps(si, di, one, A) /\ A \subseteq Steps(si, di, one, A)
  BY StepsAreAny, StepsHold
<1>. QED  BY <1>1, ZenonT(30) DEF Within, Cleared, Outward, Narrow, Inward

\* A program that has set one address.
LEMMA MoveThen ==
  ASSUME NEW I, I \subseteq Instructions, NEW o \in {"SAR", "DAR"}, NEW at \in Int
  PROVE  /\ Mov(o, at) \in Headed(Mov(o, at), I)
         /\ \A p \in Headed(Mov(o, at), I), q \in Bodies(I) : p \o q \in Headed(Mov(o, at), I)
<1>1. Mov(o, at) \in Seq(Instructions)
  BY MovesAreAny
<1>. QED  BY <1>1, HeadedAlone, HeadedThen

LEMMA Booleans == TRUE \in BOOLEAN /\ FALSE \in BOOLEAN /\ 1 \in {1, 2, 4, 8} /\ 4 \in {1, 2, 4, 8}
                  /\ 8 \in {1, 2, 4, 8} /\ 1 \in 1..16 /\ 16 \in 1..16
OBVIOUS

-----------------------------------------------------------------------------
(* Zeroes: the pieces of alt_dma_zero_to_memory_segment (1589-1801).       *)

LEMMA ClearBlock ==
  /\ Op("STZ") \in Blocks(0, Cleared) /\ Op("STZ") \in Blocks(2, Cleared)
  /\ Others \subseteq Cleared
<1>1. [op |-> "STZ"] \in Cleared
  BY StepsHold DEF Cleared, Clears
<1>. QED  BY <1>1, OpBlock, StepsHold DEF Cleared

LEMMA ZeroesOpen ==
  ASSUME NEW beat \in {1, 8}, NEW len \in 1..16
  PROVE  Zeroes(beat, len) \in Opened(Cleared)
<1>1. beat \in {1, 2, 4, 8}
  OBVIOUS
<1>2. Ccr(1, 1, TRUE, beat, len, TRUE) \in Opened(Cleared)
  BY <1>1, CcrOpens, Booleans, Zenon DEF Cleared
<1>. QED  BY <1>2, ClearBlock, OpenedThen DEF Zeroes

\* A fill sets its address and goes on with its pieces.
LEMMA ZeroProgram ==
  ASSUME NEW buf \in Nat, NEW size \in Nat, size > 0
  PROVE  ZeroSegment(buf, size) \in Headed(Mov("DAR", buf), Cleared)
<1>. DEFINE h == Mov("DAR", buf)
            n == BurstCount(buf, size)
            rest == PostCount(buf, size)
<1>1. h \in Headed(h, Cleared)
  BY MoveThen, KindsAreInstructions
<1>2. \A p \in Headed(h, Cleared), q \in Bodies(Cleared) : p \o q \in Headed(h, Cleared)
  BY MoveThen, KindsAreInstructions
<1>3. <<>> \in Bodies(Cleared) /\ \A p \in Opened(Cleared) : p \in Bodies(Cleared)
  BY DEF Bodies
<1>4. buf % 8 # 0 => AlignCount(buf, size) \in 1..16
  BY DEF AlignCount, Least
<1>5. n \in Int /\ (rest # 0 => rest \in 1..16)
  <2>1. n \in Int
    BY DEF BurstCount, AlignCount, Least
  <2>2. rest \in 0..7
    BY PiecesAddUp
  <2>. HIDE DEF rest
  <2>. QED  BY <2>1, <2>2
<1>6. ZeroBursts(n) \in Bodies(Cleared)
  <2>1. n \div 16 \in Int /\ (n % 16 # 0 => n % 16 \in 1..16)
    <3>. HIDE DEF n
    <3>. QED  BY <1>5
  <2>2. Ccr(1, 1, TRUE, 8, 16, TRUE) \in Opened(Cleared)
    BY CcrOpens, Booleans, Zenon DEF Cleared
  <2>3. Ccr(1, 1, TRUE, 8, 16, TRUE) \o Nested(n \div 16, Op("STZ")) \in Opened(Cleared)
    BY <2>1, <2>2, OpenedLoops, ClearBlock
  <2>4. n % 16 # 0 => Zeroes(8, n % 16) \in Opened(Cleared)
    BY <2>1, ZeroesOpen
  <2>. QED  BY <1>3, <2>3, <2>4, BodiesJoin DEF ZeroBursts
<1>7. buf % 8 # 0 => Zeroes(1, AlignCount(buf, size)) \in Bodies(Cleared)
  BY <1>3, <1>4, ZeroesOpen
<1>8. rest # 0 => Zeroes(1, rest) \in Bodies(Cleared)
  BY <1>3, <1>5, ZeroesOpen
<1>. HIDE DEF h
<1>. QED  BY <1>1, <1>2, <1>3, <1>6, <1>7, <1>8 DEF ZeroSegment, h

-----------------------------------------------------------------------------
(* Registers (1908-2439): both directions.                                 *)

LEMMA RegisterProgram ==
  ASSUME NEW at \in Nat, NEW w \in {1, 2, 4, 8}, NEW n \in Nat
  PROVE  /\ ToRegisterSegment(at, w, n) \in Headed(Mov("SAR", at), Outward)
         /\ FromRegisterSegment(at, w, n) \in Headed(Mov("DAR", at), Inward)
<1>1. n \div 16 \in Int /\ (n % 16 # 0 => n % 16 \in 1..16)
  OBVIOUS
<1>2. /\ Mov("SAR", at) \in Headed(Mov("SAR", at), Outward)
      /\ Mov("DAR", at) \in Headed(Mov("DAR", at), Inward)
  BY MoveThen, KindsAreInstructions
<1>3. /\ \A p \in Headed(Mov("SAR", at), Outward), q \in Bodies(Outward) :
           p \o q \in Headed(Mov("SAR", at), Outward)
      /\ \A p \in Headed(Mov("DAR", at), Inward), q \in Bodies(Inward) :
           p \o q \in Headed(Mov("DAR", at), Inward)
  BY MoveThen, KindsAreInstructions
<1>4. ASSUME NEW I \in {Outward, Inward}
      PROVE  /\ <<>> \in Bodies(I) /\ \A p \in Opened(I) : p \in Bodies(I)
             /\ LdSt \in Blocks(0, I) /\ LdSt \in Blocks(2, I) /\ Others \subseteq I
  BY StepsHold, LdStBlock DEF Outward, Inward, Bodies
<1>5. \A k \in 1..16 : /\ Ccr(w, k, TRUE, w, k, FALSE) \in Opened(Outward)
                       /\ Ccr(w, k, FALSE, w, k, TRUE) \in Opened(Inward)
  BY CcrOpens, Booleans, Zenon DEF Outward, Inward
<1>6. /\ Ccr(w, 16, TRUE, w, 16, FALSE) \o Nested(n \div 16, LdSt) \in Bodies(Outward)
      /\ Ccr(w, 16, FALSE, w, 16, TRUE) \o Nested(n \div 16, LdSt) \in Bodies(Inward)
  BY <1>1, <1>4, <1>5, OpenedLoops, Booleans
<1>7. n % 16 # 0 =>
        /\ Ccr(w, n % 16, TRUE, w, n % 16, FALSE) \o LdSt \in Bodies(Outward)
        /\ Ccr(w, n % 16, FALSE, w, n % 16, TRUE) \o LdSt \in Bodies(Inward)
  BY <1>1, <1>4, <1>5, OpenedThen
<1>8. ToRegisterSegment(at, w, n) \in Headed(Mov("SAR", at), Outward)
  BY <1>2, <1>3, <1>4, <1>6, <1>7 DEF ToRegisterSegment
<1>9. FromRegisterSegment(at, w, n) \in Headed(Mov("DAR", at), Inward)
  BY <1>2, <1>3, <1>4, <1>6, <1>7 DEF FromRegisterSegment
<1>. QED  BY <1>8, <1>9

\* The address of the register is set first.
LEMMA TwoMoves ==
  ASSUME NEW o \in {"SAR", "DAR"}, NEW x \in Int, NEW u \in {"SAR", "DAR"}, NEW y \in Int,
         NEW I, I \subseteq Instructions, NEW p \in Headed(Mov(u, y), I)
  PROVE  Mov(o, x) \o p \in Headed(Mov(o, x) \o Mov(u, y), I)
BY MovesAreAny, HeadedAfter

-----------------------------------------------------------------------------
(* I2C (2724-2970, 3135-3381): a burst is no longer than a CCR can say.    *)

LEMMA Thresholds ==
  ASSUME NEW level \in 0..255
  PROVE  BurstSize(level) \in {0} \cup 2..16
BY DEF BurstSize, Threshold, Least

\* What is loaded or stored in bursts of bs, with the request before it.
LEMMA BurstBlocks ==
  ASSUME NEW I \in {Within, Outward, Narrow, Inward}, NEW dir \in {"tx", "rx"},
         NEW burst \in BOOLEAN, NEW bs \in Nat
  PROVE  /\ Wfp(dir, burst) \o LdSt \in Blocks(1, I)
         /\ Wfp(dir, burst) \o Op("LD") \o Times(bs, Op("ST")) \in Blocks(1, I)
         /\ Wfp(dir, burst) \o Times(bs, Op("LD")) \o Op("ST") \in Blocks(1, I)
<1>1. /\ Wfp(dir, burst) \in Blocks(1, I)
      /\ Op("LD") \in Blocks(1, I) /\ Op("ST") \in Blocks(1, I) /\ LdSt \in Blocks(1, I)
  BY KindsAreInstructions, WfpBlock, LdStBlock
<1>2. Times(bs, Op("LD")) \in Blocks(1, I) /\ Times(bs, Op("ST")) \in Blocks(1, I)
  BY <1>1, BlocksRepeat
<1>3. \A p, q \in Blocks(1, I) : p \o q \in Blocks(1, I)
  BY BlocksJoin
<1>. QED  BY <1>1, <1>2, <1>3

\* Each byte that is sent is a store of its own.
LEMMA I2cSendProgram ==
  ASSUME NEW src \in Int, NEW n \in Int, NEW level \in 0..255
  PROVE  I2cSend(src, n, level) \in Headed(Mov("DAR", Register) \o Mov("SAR", src), Narrow)
<1>. DEFINE bs == BurstSize(level)
<1>1. bs \in {0} \cup 2..16
  BY Thresholds
<1>. HIDE DEF bs
<1>2. bs \in Nat /\ (bs # 0 => bs \in 1..16)
  BY <1>1
<1>3. /\ \A k \in 1..16 : Ccr(1, k, TRUE, 1, 1, FALSE) \in Opened(Narrow)
      /\ Wfp("tx", TRUE) \o Op("LD") \o Times(bs, Op("ST")) \in Blocks(1, Narrow)
      /\ Wfp("tx", FALSE) \o LdSt \in Blocks(1, Narrow)
  <2>1. \A k \in 1..16 : Ccr(1, k, TRUE, 1, 1, FALSE) \in Opened(Narrow)
    BY CcrOpens, Booleans, Zenon DEF Narrow
  <2>. QED  BY <1>2, <2>1, BurstBlocks
<1>4. Bursts(n, bs, Ccr(1, bs, TRUE, 1, 1, FALSE), Wfp("tx", TRUE) \o Op("LD") \o Times(bs, Op("ST")))
        \in Bodies(Narrow)
  <2>1. CASE bs = 0
    BY <2>1 DEF Bursts, Bodies
  <2>2. CASE bs # 0
    <3>1. Ccr(1, bs, TRUE, 1, 1, FALSE) \in Opened(Narrow)
      BY <1>2, <1>3, <2>2
    <3>. QED  BY <1>2, <1>3, <3>1, BurstsAndSingles, KindsAreInstructions
  <2>. QED  BY <2>1, <2>2
<1>5. Singles(n, bs, Ccr(1, 1, TRUE, 1, 1, FALSE), Wfp("tx", FALSE) \o LdSt) \in Bodies(Narrow)
  <2>1. Ccr(1, 1, TRUE, 1, 1, FALSE) \in Opened(Narrow)
    BY <1>3, Booleans
  <2>. QED  BY <1>2, <1>3, <2>1, BurstsAndSingles, KindsAreInstructions
<1>6. I2cSendSegment(src, n, level) \in Headed(Mov("SAR", src), Narrow)
  <2>1. /\ Mov("SAR", src) \in Headed(Mov("SAR", src), Narrow)
        /\ \A p \in Headed(Mov("SAR", src), Narrow), q \in Bodies(Narrow) :
             p \o q \in Headed(Mov("SAR", src), Narrow)
    BY MoveThen, KindsAreInstructions
  <2>. QED  BY <1>4, <1>5, <2>1 DEF I2cSendSegment, bs
<1>. QED  BY <1>6, TwoMoves, KindsAreInstructions DEF I2cSend, Register

LEMMA I2cReceiveProgram ==
  ASSUME NEW dst \in Int, NEW n \in Int, NEW level \in 0..255
  PROVE  I2cReceive(dst, n, level) \in Headed(Mov("SAR", Register) \o Mov("DAR", dst), Inward)
<1>. DEFINE bs == BurstSize(level)
<1>1. bs \in {0} \cup 2..16
  BY Thresholds
<1>. HIDE DEF bs
<1>2. bs \in Nat /\ (bs # 0 => bs \in 1..16)
  BY <1>1
<1>3. /\ \A k \in 1..16 : Ccr(1, 1, FALSE, 1, k, TRUE) \in Opened(Inward)
      /\ Wfp("rx", TRUE) \o Times(bs, Op("LD")) \o Op("ST") \in Blocks(1, Inward)
      /\ Wfp("rx", FALSE) \o LdSt \in Blocks(1, Inward)
  <2>1. \A k \in 1..16 : Ccr(1, 1, FALSE, 1, k, TRUE) \in Opened(Inward)
    BY CcrOpens, Booleans, Zenon DEF Inward
  <2>. QED  BY <1>2, <2>1, BurstBlocks
<1>4. Bursts(n, bs, Ccr(1, 1, FALSE, 1, bs, TRUE), Wfp("rx", TRUE) \o Times(bs, Op("LD")) \o Op("ST"))
        \in Bodies(Inward)
  <2>1. CASE bs = 0
    BY <2>1 DEF Bursts, Bodies
  <2>2. CASE bs # 0
    <3>1. Ccr(1, 1, FALSE, 1, bs, TRUE) \in Opened(Inward)
      BY <1>2, <1>3, <2>2
    <3>. QED  BY <1>2, <1>3, <3>1, BurstsAndSingles, KindsAreInstructions
  <2>. QED  BY <2>1, <2>2
<1>5. Singles(n, bs, Ccr(1, 1, FALSE, 1, 1, TRUE), Wfp("rx", FALSE) \o LdSt) \in Bodies(Inward)
  <2>1. Ccr(1, 1, FALSE, 1, 1, TRUE) \in Opened(Inward)
    BY <1>3, Booleans
  <2>. QED  BY <1>2, <1>3, <2>1, BurstsAndSingles, KindsAreInstructions
<1>6. I2cReceiveSegment(dst, n, level) \in Headed(Mov("DAR", dst), Inward)
  <2>1. /\ Mov("DAR", dst) \in Headed(Mov("DAR", dst), Inward)
        /\ \A p \in Headed(Mov("DAR", dst), Inward), q \in Bodies(Inward) :
             p \o q \in Headed(Mov("DAR", dst), Inward)
    BY MoveThen, KindsAreInstructions
  <2>. QED  BY <1>4, <1>5, <2>1 DEF I2cReceiveSegment, bs
<1>. QED  BY <1>6, TwoMoves, KindsAreInstructions DEF I2cReceive, Register

-----------------------------------------------------------------------------
(* UART (4622-5505): the burst follows from the depth of the FIFO.         *)

UartPeripherals == [kind : {"uart"}, fifo : BOOLEAN, depth : Nat, trigger : STRING]

LEMMA UartBurstSizes ==
  ASSUME NEW p \in UartPeripherals
  PROVE  UartBurst(p, UartTxBurst(p)) \in Nat /\ UartBurst(p, UartRxBurst(p)) \in Nat
<1>1. p.depth \in Nat
  BY DEF UartPeripherals
<1>2. Wrap(p.depth - 2) \in Nat
  BY <1>1, AddrSpaceAssumption DEF Wrap
<1>3. UartTxBurst(p) \in Nat /\ UartRxBurst(p) \in Nat
  BY <1>1, <1>2 DEF UartTxBurst, UartRxBurst
<1>4. \A b \in Nat : b - (b % 16) \in Nat
  OBVIOUS
<1>. QED  BY <1>3, <1>4 DEF UartBurst

LEMMA UartBodies ==
  ASSUME NEW I \in {Outward, Inward}, NEW dir \in {"tx", "rx"}, NEW bs \in Nat
  PROVE  UartBody(dir, bs) \in Blocks(1, I)
<1>1. bs \div 16 \in Int /\ 0 + 1 = 1
  OBVIOUS
<1>2. LdSt \in Blocks(0, I) /\ Wfp(dir, TRUE) \in Blocks(1, I)
  BY KindsAreInstructions, LdStBlock, WfpBlock
<1>3. Rounds(bs \div 16, LdSt) \in Blocks(0 + 1, I)
  BY <1>1, <1>2, BlocksLoop, KindsAreInstructions
<1>. QED  BY <1>1, <1>2, <1>3, BlocksJoin DEF UartBody

\* Bursts, single bytes, or both, as the FIFO and its trigger level decide.
LEMMA UartPrograms ==
  ASSUME NEW at \in Int, NEW n \in Int, NEW p \in UartPeripherals
  PROVE  /\ UartSend(at, n, p) \in Headed(Mov("DAR", Register) \o Mov("SAR", at), Outward)
         /\ UartReceive(at, n, p) \in Headed(Mov("SAR", Register) \o Mov("DAR", at), Inward)
<1>1. /\ Ccr(1, 16, TRUE, 1, 16, FALSE) \in Opened(Outward)
      /\ Ccr(1, 1, TRUE, 1, 1, FALSE) \in Opened(Outward)
      /\ Ccr(1, 16, FALSE, 1, 16, TRUE) \in Opened(Inward)
      /\ Ccr(1, 1, FALSE, 1, 1, TRUE) \in Opened(Inward)
  BY CcrOpens, Booleans, Zenon DEF Outward, Inward
<1>2. ASSUME NEW bs \in Nat
      PROVE  /\ UartSendRegion(at, n, bs) \in Headed(Mov("SAR", at), Outward)
             /\ UartReceiveRegion(at, n, bs) \in Headed(Mov("DAR", at), Inward)
  <2>1. /\ UartBody("tx", bs) \in Blocks(1, Outward) /\ UartBody("rx", bs) \in Blocks(1, Inward)
        /\ Wfp("tx", FALSE) \o LdSt \in Blocks(1, Outward)
        /\ Wfp("rx", FALSE) \o LdSt \in Blocks(1, Inward)
    BY UartBodies, BurstBlocks, Booleans
  <2>2. UartSendBursts(n, bs) \in Bodies(Outward) /\ UartSendSingles(n, bs) \in Bodies(Outward)
    BY <1>1, <2>1, BurstsAndSingles, KindsAreInstructions DEF UartSendBursts, UartSendSingles
  <2>3. UartReceiveBursts(n, bs) \in Bodies(Inward) /\ UartReceiveSingles(n, bs) \in Bodies(Inward)
    BY <1>1, <2>1, BurstsAndSingles, KindsAreInstructions DEF UartReceiveBursts, UartReceiveSingles
  <2>4. /\ Mov("SAR", at) \in Headed(Mov("SAR", at), Outward)
        /\ \A h \in Headed(Mov("SAR", at), Outward), q \in Bodies(Outward) :
             h \o q \in Headed(Mov("SAR", at), Outward)
    BY MoveThen, KindsAreInstructions
  <2>5. /\ Mov("DAR", at) \in Headed(Mov("DAR", at), Inward)
        /\ \A h \in Headed(Mov("DAR", at), Inward), q \in Bodies(Inward) :
             h \o q \in Headed(Mov("DAR", at), Inward)
    BY MoveThen, KindsAreInstructions
  <2>. QED  BY <2>2, <2>3, <2>4, <2>5 DEF UartSendRegion, UartReceiveRegion
<1>3. UartSend(at, n, p) \in Headed(Mov("DAR", Register) \o Mov("SAR", at), Outward)
  BY <1>2, UartBurstSizes, TwoMoves, KindsAreInstructions DEF UartSend, Register
<1>4. UartReceive(at, n, p) \in Headed(Mov("SAR", Register) \o Mov("DAR", at), Inward)
  BY <1>2, UartBurstSizes, TwoMoves, KindsAreInstructions DEF UartReceive, Register
<1>. QED  BY <1>3, <1>4

-----------------------------------------------------------------------------
(* QSPI (3660-4617): bursts and single beats are powers of two.            *)

QspiPeripherals == [kind : {"qspi"}, single : 0..15, burst : 0..15]

\* A power is computed for each exponent the two bit fields hold.
LEMMA Powers ==
  \A k \in 0..15 : 2 ^ k \in Nat \ {0} /\ 2 ^ k \div 4 \in Int /\ (k >= 3 => 2 ^ k >= 8)
<1>. DEFINE good(k, x) == x \in Nat \ {0} /\ x \div 4 \in Int /\ (k >= 3 => x >= 8)
<1>1. /\ good(0, 2 ^ 0) /\ good(1, 2 ^ 1) /\ good(2, 2 ^ 2) /\ good(3, 2 ^ 3) /\ good(4, 2 ^ 4)
      /\ good(5, 2 ^ 5) /\ good(6, 2 ^ 6) /\ good(7, 2 ^ 7) /\ good(8, 2 ^ 8) /\ good(9, 2 ^ 9)
      /\ good(10, 2 ^ 10) /\ good(11, 2 ^ 11) /\ good(12, 2 ^ 12) /\ good(13, 2 ^ 13)
      /\ good(14, 2 ^ 14) /\ good(15, 2 ^ 15)
  BY SMT
<1>. HIDE DEF good
<1>2. ASSUME NEW k \in 0..15 PROVE good(k, 2 ^ k)
  <2>1. k = 0 \/ k = 1 \/ k = 2 \/ k = 3 \/ k = 4 \/ k = 5 \/ k = 6 \/ k = 7 \/ k = 8 \/ k = 9
        \/ k = 10 \/ k = 11 \/ k = 12 \/ k = 13 \/ k = 14 \/ k = 15
    OBVIOUS
  <2>. QED  BY <1>1, <2>1, Zenon
<1>. QED  BY <1>2 DEF good

LEMMA QspiBeats ==
  ASSUME NEW k \in 0..15
  PROVE  Beat(k) \in {1, 2, 4, 8} /\ Least(Beats(k), 16) \in 1..16 /\ Multiple(k) \in Nat
<1>1. Beat(k) = IF k >= 3 THEN 8 ELSE 2 ^ k
  <2>1. 2 ^ 3 = 8
    BY SMT
  <2>2. Least(3, k) = IF k >= 3 THEN 3 ELSE k
    BY DEF Least
  <2>3. CASE k >= 3
    BY <2>1, <2>2, <2>3, Zenon DEF Beat
  <2>4. CASE ~(k >= 3)
    BY <2>2, <2>4, Zenon DEF Beat
  <2>. QED  BY <2>3, <2>4
<1>2. 2 ^ 0 = 1 /\ 2 ^ 1 = 2 /\ 2 ^ 2 = 4
  BY SMT
<1>3. Beat(k) \in {1, 2, 4, 8}
  <2>1. k >= 3 \/ k = 0 \/ k = 1 \/ k = 2
    OBVIOUS
  <2>. QED  BY <1>1, <1>2, <2>1
<1>4. Beats(k) \in Nat \ {0}
  <2>. DEFINE power == 2 ^ k
  <2>1. power \in Nat \ {0} /\ (k >= 3 => power >= 8)
    BY Powers
  <2>2. Beats(k) = IF k >= 3 THEN power \div 8 ELSE power \div power
    BY <1>1 DEF Beats
  <2>. HIDE DEF power
  <2>. QED  BY <2>1, <2>2
<1>. QED  BY <1>3, <1>4 DEF Least, Multiple

LEMMA QspiBlocks ==
  ASSUME NEW k \in 0..15, NEW burst \in BOOLEAN, NEW n \in Int
  PROVE  /\ QspiSendBlock(k, burst, n) \in Opened(Outward)
         /\ QspiReceiveBlock(k, burst, n) \in Opened(Inward)
<1>. DEFINE b == Least(Beats(k), 16)
            m == Multiple(k)
            q == 2 ^ k \div 4
<1>1. Beat(k) \in {1, 2, 4, 8} /\ b \in 1..16 /\ m \in Int /\ q \in Int
  BY QspiBeats, Powers
<1>. HIDE DEF b, m, q
<1>2. Ccr(Beat(k), b, TRUE, 4, 1, FALSE) \in Opened(Outward)
  BY <1>1, CcrOpens, Booleans, Zenon DEF Outward
<1>3. Ccr(4, 1, FALSE, Beat(k), b, TRUE) \in Opened(Inward)
  BY <1>1, CcrOpens, Booleans, Zenon DEF Inward
<1>4. ASSUME NEW I \in {Outward, Inward}, NEW dir \in {"tx", "rx"}, NEW x \in Int, NEW y \in Int
      PROVE  Wfp(dir, burst) \o Times(x, Op("LD")) \o Times(y, Op("ST")) \in Blocks(0, I)
  <2>1. Wfp(dir, burst) \in Blocks(0, I) /\ Op("LD") \in Blocks(0, I) /\ Op("ST") \in Blocks(0, I)
    BY KindsAreInstructions, WfpBlock, LdStBlock
  <2>2. Times(x, Op("LD")) \in Blocks(0, I) /\ Times(y, Op("ST")) \in Blocks(0, I)
    BY <2>1, BlocksRepeat
  <2>. QED  BY <2>1, <2>2, BlocksJoin
<1>5. QspiSendBlock(k, burst, n) \in Opened(Outward)
  <2>1. Wfp("tx", burst) \o Times(m, Op("LD")) \o Times(q, Op("ST")) \in Blocks(0, Outward)
    BY <1>1, <1>4
  <2>2. Blocks(0, Outward) \subseteq Blocks(1, Outward)
    BY BlocksGrow
  <2>3. Ccr(Beat(k), b, TRUE, 4, 1, FALSE)
          \o Repeat(n, Wfp("tx", burst) \o Times(m, Op("LD")) \o Times(q, Op("ST"))) \in Opened(Outward)
    BY <1>2, <2>1, <2>2, OpenedLoops, KindsAreInstructions
  <2>. QED  BY <2>3 DEF QspiSendBlock, b, m, q
<1>6. QspiReceiveBlock(k, burst, n) \in Opened(Inward)
  <2>1. Wfp("rx", burst) \o Times(q, Op("LD")) \o Times(m, Op("ST")) \in Blocks(0, Inward)
    BY <1>1, <1>4
  <2>2. Ccr(4, 1, FALSE, Beat(k), b, TRUE)
          \o Nested(n, Wfp("rx", burst) \o Times(q, Op("LD")) \o Times(m, Op("ST"))) \in Opened(Inward)
    BY <1>3, <2>1, OpenedLoops, KindsAreInstructions
  <2>. QED  BY <2>2 DEF QspiReceiveBlock, b, m, q
<1>. QED  BY <1>5, <1>6

\* How often each of them is repeated.
LEMMA QspiCounts ==
  ASSUME NEW p \in QspiPeripherals, NEW n \in Int
  PROVE  n \div 2 ^ p.burst \in Int /\ QspiSingles(p, n) \in Int
<1>1. p.burst \in 0..15 /\ p.single \in 0..15
  BY DEF QspiPeripherals
<1>. DEFINE x == 2 ^ p.burst
            y == 2 ^ p.single
<1>2. x \in Nat \ {0} /\ y \in Nat \ {0}
  BY <1>1, Powers
<1>3. QspiSingles(p, n) = (IF QspiUsesBursts(p, n) THEN n % x ELSE n) \div y
  BY DEF QspiSingles
<1>. HIDE DEF x, y
<1>4. n \div x \in Int /\ n % x \in Int
  BY <1>2
<1>5. (IF QspiUsesBursts(p, n) THEN n % x ELSE n) \in Int
  BY <1>4
<1>6. QspiSingles(p, n) \in Int
  BY <1>2, <1>3, <1>5
<1>. QED  BY <1>4, <1>6 DEF x

\* Both directions.
LEMMA QspiPrograms ==
  ASSUME NEW at \in Int, NEW size \in Int, NEW p \in QspiPeripherals
  PROVE  /\ QspiSend(at, size, p) \in Headed(Mov("DAR", Register) \o Mov("SAR", at), Outward)
         /\ QspiReceive(at, size, p) \in Headed(Mov("SAR", Register) \o Mov("DAR", at), Inward)
<1>. DEFINE n == QspiRest(at, size)
<1>1. n \in Int /\ p.burst \in 0..15 /\ p.single \in 0..15
  BY DEF QspiRest, QspiPeripherals
<1>. HIDE DEF n
<1>2. n \div 2 ^ p.burst \in Int /\ QspiSingles(p, n) \in Int
  BY <1>1, QspiCounts
<1>3. /\ QspiSendBursts(n, p) \in Bodies(Outward) /\ QspiSendSingles(n, p) \in Bodies(Outward)
      /\ QspiReceiveBursts(n, p) \in Bodies(Inward) /\ QspiReceiveSingles(n, p) \in Bodies(Inward)
  BY <1>1, <1>2, QspiBlocks, Booleans
  DEF QspiSendBursts, QspiSendSingles, QspiReceiveBursts, QspiReceiveSingles, Bodies
<1>4. /\ Ccr(4, 1, TRUE, 4, 1, FALSE) \o Wfp("tx", FALSE) \o LdSt \in Bodies(Outward)
      /\ Ccr(4, 1, FALSE, 4, 1, TRUE) \o Wfp("rx", FALSE) \o LdSt \in Bodies(Inward)
  <2>1. /\ Ccr(4, 1, TRUE, 4, 1, FALSE) \in Opened(Outward)
        /\ Ccr(4, 1, FALSE, 4, 1, TRUE) \in Opened(Inward)
    BY CcrOpens, Booleans, Zenon DEF Outward, Inward
  <2>2. /\ Wfp("tx", FALSE) \in Blocks(2, Outward) /\ LdSt \in Blocks(2, Outward)
        /\ Wfp("rx", FALSE) \in Blocks(2, Inward) /\ LdSt \in Blocks(2, Inward)
    BY KindsAreInstructions, WfpBlock, LdStBlock, Booleans
  <2>. QED  BY <2>1, <2>2, OpenedThen DEF Bodies
<1>5. QspiSendSegment(at, size, p) \in Headed(Mov("SAR", at), Outward)
  <2>1. /\ Mov("SAR", at) \in Headed(Mov("SAR", at), Outward)
        /\ \A h \in Headed(Mov("SAR", at), Outward), q \in Bodies(Outward) :
             h \o q \in Headed(Mov("SAR", at), Outward)
    BY MoveThen, KindsAreInstructions
  <2>2. <<>> \in Bodies(Outward)
    BY DEF Bodies
  <2>. QED  BY <1>3, <1>4, <2>1, <2>2 DEF QspiSendSegment, n
<1>6. QspiReceiveSegment(at, size, p) \in Headed(Mov("DAR", at), Inward)
  <2>1. /\ Mov("DAR", at) \in Headed(Mov("DAR", at), Inward)
        /\ \A h \in Headed(Mov("DAR", at), Inward), q \in Bodies(Inward) :
             h \o q \in Headed(Mov("DAR", at), Inward)
    BY MoveThen, KindsAreInstructions
  <2>2. <<>> \in Bodies(Inward)
    BY DEF Bodies
  <2>. QED  BY <1>3, <1>4, <2>1, <2>2 DEF QspiReceiveSegment, n
<1>. QED  BY <1>5, <1>6, TwoMoves, KindsAreInstructions DEF QspiSend, QspiReceive, Register

-----------------------------------------------------------------------------
(* The I2C as a master (2972-3091, 3383-3614): its pieces set addresses of *)
(* their own, so they are looked at as blocks of any instructions.         *)

LEMMA AnyBlocks ==
  /\ \A n \in Int, p \in Blocks(1, Instructions) : Repeat(n, p) \in Blocks(2, Instructions)
  /\ Wfp("tx", FALSE) \o LdSt \in Blocks(1, Instructions)
  /\ \A o \in {"SAR", "DAR"}, x \in Int : Mov(o, x) \in Blocks(2, Instructions)
  /\ Ccr(4, 1, FALSE, 4, 1, FALSE) \in Blocks(2, Instructions)
<1>1. Others \subseteq Instructions /\ Copies \subseteq Instructions
  BY DEF Instructions
<1>2. \A n \in Int, p \in Blocks(1, Instructions) : Repeat(n, p) \in Blocks(1 + 1, Instructions)
  BY <1>1, BlocksLong
<1>3. Wfp("tx", FALSE) \o LdSt \in Blocks(1, Instructions)
  BY <1>1, LdStBlock, WfpBlock, BlocksJoin, Booleans
<1>4. ASSUME NEW o \in {"SAR", "DAR"}, NEW x \in Int PROVE Mov(o, x) \in Blocks(2, Instructions)
  <2>. DEFINE i == [op |-> o, at |-> x]
  <2>1. i \in Instructions /\ i.op \notin {"LP", "LPEND"} /\ Mov(o, x) = <<i>>
    BY DEF Instructions, Moves, Mov
  <2>. HIDE DEF i
  <2>. QED  BY <2>1, OneInstruction
<1>5. Ccr(4, 1, FALSE, 4, 1, FALSE) \in Blocks(2, Instructions)
  <2>1. Ccr(4, 1, FALSE, 4, 1, FALSE) \in Opened(Steps(FALSE, FALSE, FALSE, Copies))
    BY CcrOpens, Booleans, Zenon
  <2>2. Steps(FALSE, FALSE, FALSE, Copies) \subseteq Instructions
    BY StepsAreAny
  <2>3. Ccr(4, 1, FALSE, 4, 1, FALSE) \in Blocks(2, Steps(FALSE, FALSE, FALSE, Copies))
    BY <2>1 DEF Opened
  <2>4. \A I : I \subseteq Instructions => Blocks(2, I) \subseteq Blocks(2, Instructions)
    BY BlocksGrow
  <2>. QED  BY <2>2, <2>3, <2>4, Zenon
<1>6. 1 + 1 = 2
  OBVIOUS
<1>. QED  BY <1>2, <1>3, <1>4, <1>5, <1>6, Zenon

LEMMA Numbers == 0 \in Int /\ 1 \in Int /\ 2 \in Int /\ 3 \in Int
OBVIOUS

\* The command word of the last or first byte, taken from the scratch words.
LEMMA CustomBlock ==
  ASSUME NEW k \in Int, NEW n \in Int, NEW first \in BOOLEAN
  PROVE  Custom(k, n, first) \in Blocks(2, Instructions)
<1>1. Scratch(k) \in Int /\ Register \in Int
  BY DEF Scratch, Register
<1>2. /\ (IF first THEN Mov("DAR", Register) ELSE <<>>) \in Blocks(2, Instructions)
      /\ (IF first THEN Ccr(4, 1, FALSE, 4, 1, FALSE) ELSE <<>>) \in Blocks(2, Instructions)
      /\ Mov("SAR", Scratch(k)) \in Blocks(2, Instructions)
      /\ Repeat(n, Wfp("tx", FALSE) \o LdSt) \in Blocks(2, Instructions)
  BY <1>1, AnyBlocks, NoBlock
<1>. QED  BY <1>2, BlocksJoin DEF Custom

\* A program that sets its addresses first is a block.
LEMMA HeadedIsBlock ==
  ASSUME NEW I, I \subseteq Instructions, NEW h \in Blocks(2, Instructions), NEW p \in Headed(h, I)
  PROVE  p \in Blocks(2, Instructions)
<1>1. PICK b \in Bodies(I) : p = h \o b
  BY DEF Headed
<1>2. b \in Blocks(2, Instructions)
  BY <1>1, BodiesAreBlocks, BlocksGrow
<1>. QED  BY <1>1, <1>2, BlocksJoin

LEMMA I2cBlocks ==
  ASSUME NEW at \in Int, NEW n \in Int, NEW level \in 0..255
  PROVE  /\ I2cSend(at, n, level) \in Blocks(2, Instructions)
         /\ I2cReceive(at, n, level) \in Blocks(2, Instructions)
<1>1. Register \in Int
  BY DEF Register
<1>2. /\ Mov("DAR", Register) \o Mov("SAR", at) \in Blocks(2, Instructions)
      /\ Mov("SAR", Register) \o Mov("DAR", at) \in Blocks(2, Instructions)
  BY <1>1, AnyBlocks, BlocksJoin
<1>. QED  BY <1>2, I2cSendProgram, I2cReceiveProgram, HeadedIsBlock, KindsAreInstructions

I2cPeripherals == [kind : {"i2c"}, master : BOOLEAN, level : 0..255, restart : BOOLEAN, stop : BOOLEAN]

\* All the ways to put the pieces of a master transfer together.
LEMMA I2cMasterBlocks ==
  ASSUME NEW at \in Int, NEW size \in Nat, NEW p \in I2cPeripherals
  PROVE  /\ I2cSendMaster(at, size, p) \in Blocks(2, Instructions)
         /\ I2cReceiveMaster(at, size, p) \in Blocks(2, Instructions)
<1>1. \A k, n \in Int : /\ Custom(k, n, TRUE) \in Blocks(2, Instructions)
                         /\ Custom(k, n, FALSE) \in Blocks(2, Instructions)
  <2>. TAKE k, n \in Int
  <2>. QED  BY CustomBlock, Booleans, Zenon
<1>2. p.level \in 0..255 /\ <<>> \in Blocks(2, Instructions)
  BY NoBlock DEF I2cPeripherals
<1>3. \A q, s \in Blocks(2, Instructions) : q \o s \in Blocks(2, Instructions)
  BY BlocksJoin
<1>4. I2cSendMaster(at, size, p) \in Blocks(2, Instructions)
  <2>. DEFINE restart == IF p.restart THEN 1 ELSE 0
              n == size - restart - (IF p.stop THEN 1 ELSE 0)
              only == Custom(3, 1, TRUE)
              start == IF p.restart THEN Custom(1, 1, TRUE) ELSE <<>>
              middle == IF n > 0 THEN I2cSend(at + restart, n, p.level) ELSE <<>>
              last == IF p.stop THEN Custom(2, 1, n # 0) ELSE <<>>
  <2>1. n \in Int /\ at + restart \in Int /\ (n # 0) \in BOOLEAN
    OBVIOUS
  <2>2. middle \in Blocks(2, Instructions)
    <3>1. I2cSend(at + restart, n, p.level) \in Blocks(2, Instructions)
      BY <1>2, <2>1, I2cBlocks
    <3>. QED  BY <1>2, <3>1, Zenon
  <2>3. I2cSendMaster(at, size, p) = IF size = 1 THEN only ELSE start \o middle \o last
    BY DEF I2cSendMaster
  <2>4. only \in Blocks(2, Instructions) /\ start \in Blocks(2, Instructions)
    BY <1>1, <1>2, Numbers, Zenon
  <2>5. last \in Blocks(2, Instructions)
    <3>1. Custom(2, 1, n # 0) \in Blocks(2, Instructions)
      BY <2>1, CustomBlock, Numbers, Zenon
    <3>. QED  BY <1>2, <3>1, Zenon
  <2>. HIDE DEF only, start, middle, last
  <2>. QED  BY <1>3, <2>2, <2>3, <2>4, <2>5
<1>5. Prefill(size) \in Blocks(2, Instructions)
  <2>. DEFINE n == Least(size, I2cFifo)
              only == Custom(3, 1, TRUE)
              start == Custom(1, 1, TRUE)
              middle == IF n > 2 THEN Custom(0, n - 2, FALSE) ELSE <<>>
              last == Custom(2, 1, FALSE)
              rest == Custom(0, n - 1, FALSE)
  <2>1. n - 2 \in Int /\ n - 1 \in Int
    BY DEF Least
  <2>2. /\ only \in Blocks(2, Instructions) /\ start \in Blocks(2, Instructions)
        /\ middle \in Blocks(2, Instructions) /\ last \in Blocks(2, Instructions)
        /\ rest \in Blocks(2, Instructions)
    BY <1>1, <1>2, <2>1, Numbers, Zenon
  <2>3. Prefill(size) = CASE n = 1 -> only
                          [] n # 1 /\ n = size -> start \o middle \o last
                          [] OTHER -> start \o rest
    BY DEF Prefill
  <2>. HIDE DEF n, only, start, middle, last, rest
  <2>. QED  BY <1>3, <2>2, <2>3
<1>6. ASSUME NEW left \in Int PROVE Refill(left) \in Blocks(2, Instructions)
  <2>. DEFINE n == Least(left, I2cFifo \div 2)
              all == Custom(0, n, TRUE)
              most == Custom(0, n - 1, TRUE)
              last == Custom(2, 1, FALSE)
  <2>1. n \in Int /\ n - 1 \in Int
    BY DEF Least
  <2>2. /\ all \in Blocks(2, Instructions) /\ most \in Blocks(2, Instructions)
        /\ last \in Blocks(2, Instructions)
    BY <1>1, <2>1, Numbers, Zenon
  <2>3. Refill(left) = CASE n = 0 -> <<>>
                         [] n # 0 /\ n = left -> most \o last
                         [] OTHER -> all
    BY DEF Refill
  <2>. HIDE DEF n, all, most, last
  <2>. QED  BY <1>2, <1>3, <2>2, <2>3
<1>7. I2cReceiveMaster(at, size, p) \in Blocks(2, Instructions)
  <2>. DEFINE half == I2cFifo \div 2
              sent(i) == (i - 1) * half
              Round(i) == I2cReceive(at + sent(i), Least(size - sent(i), half), p.level)
                          \o (IF size > I2cFifo + sent(i) THEN Refill(size - (I2cFifo + sent(i))) ELSE <<>>)
              N == (size + half - 1) \div half
              rounds == [i \in 1..N |-> Round(i)]
  <2>1. half \in Nat \ {0}
    OBVIOUS
  <2>. HIDE DEF half
  <2>2. ASSUME NEW i \in Int PROVE Round(i) \in Blocks(2, Instructions)
    <3>1. sent(i) \in Int
      BY <2>1
    <3>. HIDE DEF sent
    <3>2. at + sent(i) \in Int /\ Least(size - sent(i), half) \in Int /\ size - (I2cFifo + sent(i)) \in Int
      BY <2>1, <3>1 DEF Least
    <3>3. I2cReceive(at + sent(i), Least(size - sent(i), half), p.level) \in Blocks(2, Instructions)
      BY <1>2, <3>2, I2cBlocks
    <3>4. Refill(size - (I2cFifo + sent(i))) \in Blocks(2, Instructions)
      BY <1>6, <3>2
    <3>5. (IF size > I2cFifo + sent(i) THEN Refill(size - (I2cFifo + sent(i))) ELSE <<>>) \in Blocks(2, Instructions)
      BY <1>2, <3>4
    <3>. QED  BY <1>3, <3>3, <3>5
  <2>3. I2cReceiveMaster(at, size, p) = Prefill(size) \o FlattenSeq(rounds)
    BY DEF I2cReceiveMaster, half
  <2>4. N \in Nat
    BY <2>1
  <2>. HIDE DEF N, Round
  <2>5. rounds \in Seq(Blocks(2, Instructions))
    BY <2>2, <2>4
  <2>. HIDE DEF rounds
  <2>6. Blocks(2, Instructions) \in SUBSET Seq(Instructions)
    BY DEF Blocks
  <2>7. FlattenSeq(rounds) \in Blocks(2, Instructions)
    BY <1>2, <1>3, <2>5, <2>6, FlattenClosed
  <2>. QED  BY <1>3, <1>5, <2>3, <2>7
<1>. QED  BY <1>4, <1>7

\* A request whose addresses are set again and again while it is served.
Master(r) == r.per.kind = "i2c" /\ r.per.master

\* How the program of any other request begins, and what it is made of.
Start(r) ==
  CASE r.op = "m2m" -> Mov("SAR", r.src) \o Mov("DAR", r.dst)
    [] r.op = "zero" -> Mov("DAR", r.dst)
    [] r.op \in {"m2r", "m2p"} -> Mov("DAR", r.dst) \o Mov("SAR", r.src)
    [] OTHER -> Mov("SAR", r.src) \o Mov("DAR", r.dst)
Side(r) ==
  CASE r.op = "m2m" -> Within
    [] r.op = "zero" -> Cleared
    [] r.op \in {"m2r", "m2p"} -> IF r.per.kind = "i2c" THEN Narrow ELSE Outward
    [] OTHER -> Inward

\* A count of registers whose bytes wrap round to none moves only the address of the register.
Addressed(r) == Transfer(r) \in {Mov("DAR", Register), Mov("SAR", Register)}

LEMMA RequestTypes ==
  ASSUME NEW r \in Requests
  PROVE  /\ r.n \in Nat /\ r.width \in Nat
         /\ r.op \in {"m2m", "zero", "m2r", "m2p", "r2m", "p2m"}
         /\ r.op \in {"m2m", "m2r", "m2p"} => r.src \in Nat
         /\ r.op \in {"m2m", "zero", "r2m", "p2m"} => r.dst \in Nat
         /\ r.op \in {"m2r", "m2p"} => r.dst = Register
         /\ r.op \in {"r2m", "p2m"} => r.src = Register
         /\ r.op \in {"m2p", "p2m"} => r.per \in Peripherals
         /\ r.op \notin {"m2p", "p2m"} => r.per.kind = "none"
<1>1. Words \subseteq Nat
  BY DEF Words
<1>2. /\ r.n \in Words /\ r.width \in Nat
      /\ CASE r.op = "m2m" -> r.dst \in Words /\ r.src \in Words
           [] r.op = "zero" -> r.dst \in Words
           [] r.op \in {"m2r", "m2p"} -> r.dst = Register /\ r.src \in Words
           [] r.op \in {"r2m", "p2m"} -> r.dst \in Words /\ r.src = Register
           [] OTHER -> FALSE
      /\ IF r.op \in {"m2p", "p2m"} THEN r.per \in Peripherals ELSE r.per.kind = "none"
  BY RequestsAssumption
<1>. HIDE RequestsAssumption
<1>. QED  BY <1>1, <1>2

\* The peripherals whose transfers are modelled.
LEMMA PeripheralTypes ==
  ASSUME NEW p \in Peripherals, p.kind # "other"
  PROVE  \/ p.kind = "i2c" /\ p \in I2cPeripherals
         \/ p.kind = "qspi" /\ p \in QspiPeripherals
         \/ p.kind = "uart" /\ p \in UartPeripherals
BY DEF Peripherals, I2cPeripherals, QspiPeripherals, UartPeripherals

\* What alt_dma_memory_to_register has accepted (2104-2166) has a width to divide by.
LEMMA RegisterCounts ==
  ASSUME NEW r \in Requests, r.n # 0, r.op \in {"m2r", "r2m"}, Verdict(r) = "success"
  PROVE  r.width \in {1, 2, 4, 8} /\ Size(r) \div r.width \in Nat
<1>1. r.width \in {1, 2, 4, 8}
  BY DEF Verdict, RegisterVerdict
<1>2. Size(r) \in Nat
  <2>1. r.n * r.width \in Nat
    BY RequestTypes
  <2>. QED  BY <2>1, AddrSpaceAssumption DEF Size, Wrap
<1>3. \A w \in {1, 2, 4, 8}, n \in Nat : n \div w \in Nat
  OBVIOUS
<1>. QED  BY <1>1, <1>2, <1>3

\* Registers have the shape, unless their bytes wrap round to none.
LEMMA RegisterTransfers ==
  ASSUME NEW r \in Requests, r.n # 0, r.op \in {"m2r", "r2m"}, Verdict(r) = "success"
  PROVE  Addressed(r) \/ Transfer(r) \in Headed(Start(r), Side(r))
<1>. DEFINE n == Size(r) \div r.width
<1>1. CASE r.op = "m2r"
  <2>1. Transfer(r) = ToRegister(r) /\ Side(r) = Outward
        /\ Start(r) = Mov("DAR", Register) \o Mov("SAR", r.src)
    BY <1>1, RequestTypes DEF Transfer, Side, Start
  <2>2. CASE Size(r) = 0
    <3>1. ToRegister(r) = Mov("DAR", Register) \o <<>>
      BY <2>2 DEF ToRegister
    <3>2. Mov("DAR", Register) \o <<>> = Mov("DAR", Register)
      BY DEF Mov
    <3>. QED  BY <2>1, <3>1, <3>2 DEF Addressed
  <2>3. CASE Size(r) # 0
    <3>1. ToRegister(r) = Mov("DAR", Register) \o ToRegisterSegment(r.src, r.width, n)
      BY <2>3 DEF ToRegister
    <3>2. ToRegisterSegment(r.src, r.width, n) \in Headed(Mov("SAR", r.src), Outward)
      BY <1>1, RegisterProgram, RegisterCounts, RequestTypes
    <3>3. r.src \in Int /\ Register \in Int
      BY <1>1, RequestTypes DEF Register
    <3>. HIDE DEF n
    <3>. QED  BY <2>1, <3>1, <3>2, <3>3, TwoMoves, KindsAreInstructions
  <2>. QED  BY <2>2, <2>3
<1>2. CASE r.op = "r2m"
  <2>1. Transfer(r) = FromRegister(r) /\ Side(r) = Inward
        /\ Start(r) = Mov("SAR", Register) \o Mov("DAR", r.dst)
    BY <1>2, RequestTypes DEF Transfer, Side, Start
  <2>2. CASE Size(r) = 0
    <3>1. FromRegister(r) = Mov("SAR", Register) \o <<>>
      BY <2>2 DEF FromRegister
    <3>2. Mov("SAR", Register) \o <<>> = Mov("SAR", Register)
      BY DEF Mov
    <3>. QED  BY <2>1, <3>1, <3>2 DEF Addressed
  <2>3. CASE Size(r) # 0
    <3>1. FromRegister(r) = Mov("SAR", Register) \o FromRegisterSegment(r.dst, r.width, n)
      BY <2>3 DEF FromRegister
    <3>2. FromRegisterSegment(r.dst, r.width, n) \in Headed(Mov("DAR", r.dst), Inward)
      BY <1>2, RegisterProgram, RegisterCounts, RequestTypes
    <3>3. r.dst \in Int /\ Register \in Int
      BY <1>2, RequestTypes DEF Register
    <3>. HIDE DEF n
    <3>. QED  BY <2>1, <3>1, <3>2, <3>3, TwoMoves, KindsAreInstructions
  <2>. QED  BY <2>2, <2>3
<1>. QED  BY <1>1, <1>2

\* So has each peripheral.
LEMMA PeripheralTransfers ==
  ASSUME NEW r \in Requests, r.n # 0, r.op \in {"m2p", "p2m"}, Verdict(r) = "success", ~Master(r)
  PROVE  Transfer(r) \in Headed(Start(r), Side(r))
<1>1. r.per \in Peripherals /\ r.per.kind # "other" /\ r.n \in Int
  BY RequestTypes DEF Verdict, PeriphVerdict
<1>2. CASE r.op = "m2p"
  <2>1. /\ Transfer(r) = ToPeriph(r) /\ r.src \in Int
        /\ Start(r) = Mov("DAR", Register) \o Mov("SAR", r.src)
        /\ Side(r) = IF r.per.kind = "i2c" THEN Narrow ELSE Outward
    <3>1. r.src \in Int /\ r.dst = Register
      BY <1>2, RequestTypes
    <3>2. Transfer(r) = ToPeriph(r)
      BY <1>2 DEF Transfer
    <3>3. Start(r) = Mov("DAR", r.dst) \o Mov("SAR", r.src)
      BY <1>2 DEF Start
    <3>4. Side(r) = IF r.per.kind = "i2c" THEN Narrow ELSE Outward
      BY <1>2 DEF Side
    <3>. QED  BY <3>1, <3>2, <3>3, <3>4
  <2>2. CASE r.per.kind = "i2c" /\ r.per \in I2cPeripherals
    <3>1. Transfer(r) = I2cSend(r.src, r.n, r.per.level) /\ r.per.level \in 0..255
      BY <2>1, <2>2 DEF ToPeriph, ToI2c, Master, I2cPeripherals
    <3>. QED  BY <1>1, <2>1, <2>2, <3>1, I2cSendProgram
  <2>3. CASE r.per.kind = "qspi" /\ r.per \in QspiPeripherals
    BY <1>1, <2>1, <2>3, QspiPrograms DEF ToPeriph
  <2>4. CASE r.per.kind = "uart" /\ r.per \in UartPeripherals
    BY <1>1, <2>1, <2>4, UartPrograms DEF ToPeriph
  <2>. QED  BY <1>1, <2>2, <2>3, <2>4, PeripheralTypes
<1>3. CASE r.op = "p2m"
  <2>1. /\ Transfer(r) = FromPeriph(r) /\ r.dst \in Int
        /\ Start(r) = Mov("SAR", Register) \o Mov("DAR", r.dst)
        /\ Side(r) = Inward
    <3>1. r.dst \in Int /\ r.src = Register
      BY <1>3, RequestTypes
    <3>2. Transfer(r) = FromPeriph(r)
      BY <1>3 DEF Transfer
    <3>3. Start(r) = Mov("SAR", r.src) \o Mov("DAR", r.dst)
      BY <1>3 DEF Start
    <3>4. Side(r) = Inward
      BY <1>3 DEF Side
    <3>. QED  BY <3>1, <3>2, <3>3, <3>4
  <2>2. CASE r.per.kind = "i2c" /\ r.per \in I2cPeripherals
    <3>1. Transfer(r) = I2cReceive(r.dst, r.n, r.per.level) /\ r.per.level \in 0..255
      BY <2>1, <2>2 DEF FromPeriph, FromI2c, Master, I2cPeripherals
    <3>. QED  BY <1>1, <2>1, <2>2, <3>1, I2cReceiveProgram, ZenonT(30)
  <2>3. CASE r.per.kind = "qspi" /\ r.per \in QspiPeripherals
    BY <1>1, <2>1, <2>3, QspiPrograms DEF FromPeriph
  <2>4. CASE r.per.kind = "uart" /\ r.per \in UartPeripherals
    BY <1>1, <2>1, <2>4, UartPrograms DEF FromPeriph
  <2>. QED  BY <1>1, <2>2, <2>3, <2>4, PeripheralTypes
<1>. QED  BY <1>2, <1>3

\* Every transfer but the I2C master's sets the addresses of its request and goes on with a body.
LEMMA TransferShape ==
  ASSUME NEW r \in Requests, r.n # 0, Verdict(r) = "success", ~Master(r)
  PROVE  Addressed(r) \/ Transfer(r) \in Headed(Start(r), Side(r))
<1>1. CASE r.op = "m2m"
  BY <1>1, CopyProgram, RequestTypes DEF Transfer, Start, Side
<1>2. CASE r.op = "zero"
  BY <1>2, ZeroProgram, RequestTypes DEF Transfer, Start, Side
<1>3. CASE r.op \in {"m2r", "r2m"}
  BY <1>3, RegisterTransfers
<1>4. CASE r.op \in {"m2p", "p2m"}
  BY <1>4, PeripheralTransfers
<1>. QED  BY <1>1, <1>2, <1>3, <1>4, RequestTypes

Move(reg, at) == [op |-> reg, at |-> at]

\* The addresses it sets are those of the request.
LEMMA StartMoves ==
  ASSUME NEW r \in Requests
  PROVE  /\ Start(r) \in Blocks(2, Instructions)
         /\ Start(r) \in Seq({Move("SAR", r.src), Move("DAR", r.dst)})
         /\ \E i \in 1..Len(Start(r)) : Start(r)[i] = Move("DAR", r.dst)
         /\ r.op # "zero" => \E i \in 1..Len(Start(r)) : Start(r)[i] = Move("SAR", r.src)
<1>. DEFINE s == Mov("SAR", r.src)
            d == Mov("DAR", r.dst)
            x == Move("SAR", r.src)
            y == Move("DAR", r.dst)
<1>1. Register \in Int
  BY DEF Register
<1>2. d \in Blocks(2, Instructions) /\ (r.op # "zero" => s \in Blocks(2, Instructions))
  <2>1. r.dst \in Int /\ (r.op # "zero" => r.src \in Int)
    BY <1>1, RequestTypes
  <2>. QED  BY <2>1, AnyBlocks
<1>3. s = <<x>> /\ d = <<y>>
  BY DEF Mov, Move
<1>4. Start(r) = IF r.op = "zero" THEN d ELSE IF r.op \in {"m2r", "m2p"} THEN d \o s ELSE s \o d
  BY RequestTypes DEF Start
<1>. HIDE DEF s, d, x, y
<1>5. Start(r) \in Blocks(2, Instructions)
  BY <1>2, <1>4, BlocksJoin
<1>9. ASSUME NEW a, NEW b
      PROVE  /\ <<a>> \o <<b>> \in Seq({a, b})
             /\ \E i \in 1..Len(<<a>> \o <<b>>) : (<<a>> \o <<b>>)[i] = a
             /\ \E i \in 1..Len(<<a>> \o <<b>>) : (<<a>> \o <<b>>)[i] = b
  <2>. DEFINE w == <<a>> \o <<b>>
  <2>1. w \in Seq({a, b})
    OBVIOUS
  <2>2. Len(w) = 2 /\ w[1] = a /\ w[2] = b
    OBVIOUS
  <2>. HIDE DEF w
  <2>3. 1 \in 1..Len(w) /\ 2 \in 1..Len(w)
    BY <2>2
  <2>. QED  BY <2>1, <2>2, <2>3 DEF w
<1>6. CASE r.op = "zero"
  <2>1. Start(r) = <<y>> /\ 1 \in 1..Len(<<y>>)
    BY <1>3, <1>4, <1>6
  <2>. QED  BY <1>5, <1>6, <2>1 DEF x, y
<1>7. CASE r.op \in {"m2r", "m2p"}
  <2>1. Start(r) = <<y>> \o <<x>>
    <3>. HIDE RequestsAssumption
    <3>. QED  BY <1>3, <1>4, <1>7
  <2>. QED  BY <1>5, <1>9, <2>1 DEF x, y
<1>8. CASE r.op \notin {"zero", "m2r", "m2p"}
  <2>1. Start(r) = <<x>> \o <<y>>
    <3>. HIDE RequestsAssumption
    <3>. QED  BY <1>3, <1>4, <1>8
  <2>. QED  BY <1>5, <1>9, <2>1 DEF x, y
<1>. QED  BY <1>6, <1>7, <1>8

\* Every transfer, the I2C master's too, opens and closes its loops in pairs.
LEMMA TransferIsBlock ==
  ASSUME NEW r \in Requests, r.n # 0, Verdict(r) = "success"
  PROVE  Transfer(r) \in Blocks(2, Instructions)
<1>1. CASE ~Master(r)
  <2>1. CASE Addressed(r)
    <3>1. Register \in Int
      BY DEF Register
    <3>. QED  BY <2>1, <3>1, AnyBlocks DEF Addressed
  <2>2. CASE Transfer(r) \in Headed(Start(r), Side(r))
    <3>1. Side(r) \subseteq Instructions
      BY KindsAreInstructions DEF Side
    <3>. QED  BY <2>2, <3>1, HeadedIsBlock, StartMoves
  <2>. QED  BY <1>1, <2>1, <2>2, TransferShape
<1>2. CASE Master(r)
  <2>1. r.op \in {"m2p", "p2m"} /\ r.per.kind = "i2c" /\ r.per \in I2cPeripherals /\ r.n \in Nat
    BY <1>2, RequestTypes, PeripheralTypes DEF Master
  <2>2. CASE r.op = "m2p"
    <3>1. Transfer(r) = I2cSendMaster(r.src, r.n, r.per) /\ r.src \in Int
      BY <1>2, <2>1, <2>2, RequestTypes DEF Transfer, ToPeriph, ToI2c, Master
    <3>. QED  BY <2>1, <3>1, I2cMasterBlocks
  <2>3. CASE r.op = "p2m"
    <3>1. Transfer(r) = I2cReceiveMaster(r.dst, r.n, r.per) /\ r.dst \in Int
      BY <1>2, <2>1, <2>3, RequestTypes DEF Transfer, FromPeriph, FromI2c, Master
    <3>. QED  BY <2>1, <3>1, I2cMasterBlocks
  <2>. QED  BY <2>1, <2>2, <2>3
<1>. QED  BY <1>1, <1>2

-----------------------------------------------------------------------------
(* Whole programs: the event (1555-1568) and DMAEND follow the transfer.   *)

LEMMA EndingProgram ==
  ASSUME NEW r \in Requests
  PROVE  /\ Signal(r) \in Seq(Closing) /\ Op("END") \in Seq(Closing)
         /\ Signal(r) \in Blocks(2, Instructions) /\ Op("END") \in Blocks(2, Instructions)
<1>1. ASSUME NEW op \in {"WMB", "SEV", "END"}
      PROVE  Op(op) \in Seq(Closing) /\ Op(op) \in Blocks(2, Instructions)
  <2>. DEFINE i == [op |-> op]
  <2>1. i \in Closing /\ i \in Instructions /\ op \notin {"LP", "LPEND"}
    BY DEF Closing, Instructions
  <2>2. Op(op) \in Blocks(2, Instructions)
    BY <2>1, OpBlock
  <2>3. Op(op) = <<i>>
    BY DEF Op
  <2>. HIDE DEF i
  <2>. QED  BY <2>1, <2>2, <2>3
<1>2. Signal(r) = IF r.evt THEN IF r.op = "m2m" THEN Op("WMB") \o Op("SEV") ELSE <<>> \o Op("SEV") ELSE <<>>
  BY DEF Signal
<1>3. /\ Op("WMB") \in Seq(Closing) /\ Op("SEV") \in Seq(Closing)
      /\ Op("WMB") \in Blocks(2, Instructions) /\ Op("SEV") \in Blocks(2, Instructions)
  BY <1>1
<1>4. /\ Op("WMB") \o Op("SEV") \in Seq(Closing) /\ <<>> \o Op("SEV") \in Seq(Closing)
      /\ Op("WMB") \o Op("SEV") \in Blocks(2, Instructions)
      /\ <<>> \o Op("SEV") \in Blocks(2, Instructions)
  BY <1>3, BlocksJoin, NoBlock
<1>. QED  BY <1>1, <1>2, <1>4, NoBlock

LEMMA LastOne ==
  ASSUME NEW S, NEW s \in Seq(S), NEW e
  PROVE  /\ Len(s \o <<e>>) = Len(s) + 1 /\ Len(s) \in Nat
         /\ (s \o <<e>>)[Len(s) + 1] = e
OBVIOUS

\* A program opens and closes its loops in pairs, two deep, and ends with DMAEND.
Formed(p) ==
  /\ p \in Blocks(2, Instructions)
  /\ Len(p) >= 1 /\ p[Len(p)].op = "END"

LEMMA ProgramFormed ==
  ASSUME NEW r \in Requests, Verdict(r) = "success"
  PROVE  Formed(Program(r))
<1>. DEFINE body == IF r.n = 0 THEN <<>> ELSE Transfer(r)
            most == body \o Signal(r)
<1>1. body \in Blocks(2, Instructions)
  <2>1. r.n # 0 => Transfer(r) \in Blocks(2, Instructions)
    BY TransferIsBlock
  <2>. QED  BY <2>1, NoBlock
<1>2. Program(r) = most \o Op("END")
  BY DEF Program
<1>. HIDE DEF body
<1>3. most \in Blocks(2, Instructions)
  BY <1>1, BlocksJoin, EndingProgram
<1>. HIDE DEF most
<1>4. Program(r) \in Blocks(2, Instructions)
  BY <1>2, <1>3, BlocksJoin, EndingProgram
<1>5. most \in Seq(Instructions) /\ Program(r) = most \o <<[op |-> "END"]>>
  BY <1>2, <1>3 DEF Blocks, Op
<1>6. /\ Len(Program(r)) = Len(most) + 1 /\ Len(most) \in Nat
      /\ Program(r)[Len(most) + 1] = [op |-> "END"]
  BY <1>5, LastOne
<1>. QED  BY <1>4, <1>6 DEF Formed

-----------------------------------------------------------------------------
(* A channel in its loops.                                                 *)

\* The loops that are open are those the program is inside of, and each is at its depth.
Frames == [start : Nat, left : Int]
InLoops(d) ==
  /\ Nesting(prog, 2, d)
  /\ Len(loops) = d[pc]
  /\ \A k \in 1..Len(loops) : loops[k].start \in 1..Len(prog) /\ d[loops[k].start] = k
LoopInv ==
  /\ loops \in Seq(Frames) /\ Len(loops) <= 2
  /\ phase = "idle" => loops = <<>> /\ pc = 1
  /\ phase = "run" => /\ Formed(prog) /\ pc \in 1..Len(prog)
                      /\ \E d : InLoops(d)

LEMMA NextInstruction ==
  ASSUME Formed(prog), pc \in 1..Len(prog), prog[pc].op # "END"
  PROVE  pc + 1 \in 1..Len(prog)
BY DEF Formed, Blocks

LEMMA LoopRequest ==
  ASSUME LoopInv, NEW r \in Requests, Request(r)
  PROVE  LoopInv'
<1>1. loops = <<>> /\ pc = 1 /\ UNCHANGED <<pc, loops>> /\ phase' \in {"ended", "refused", "run"}
  BY DEF Request, LoopInv, registers
<1>2. CASE phase' # "run"
  BY <1>1, <1>2 DEF LoopInv
<1>3. CASE phase' = "run"
  <2>1. prog' = Program(r) /\ Formed(prog')
    BY <1>3, ProgramFormed DEF Request
  <2>2. PICK d : Nesting(prog', 2, d)
    BY <2>1 DEF Formed, Blocks
  <2>3. 1 \in 1..Len(prog') /\ d[1] = 0
    BY <2>1, <2>2 DEF Formed, Nesting, Blocks
  <2>4. InLoops(d)'
    BY <1>1, <2>2, <2>3 DEF InLoops
  <2>. QED  BY <1>1, <1>3, <2>1, <2>3, <2>4 DEF LoopInv
<1>. QED  BY <1>2, <1>3

\* An instruction that is no loop leaves the loops as they are.
LEMMA LoopStraight ==
  ASSUME LoopInv, phase = "run", Continue, loops' = loops, prog[pc].op \notin {"LP", "LPEND", "END"}
  PROVE  LoopInv'
<1>1. pc' = pc + 1 /\ prog' = prog /\ phase' = phase /\ pc \in 1..Len(prog) /\ Formed(prog)
  BY DEF Continue, LoopInv
<1>2. pc' \in 1..Len(prog)
  BY <1>1, NextInstruction
<1>3. PICK d : InLoops(d)
  BY DEF LoopInv
<1>4. d[pc + 1] = d[pc]
  BY <1>1, <1>3 DEF InLoops, Nesting, After
<1>5. InLoops(d)'
  BY <1>1, <1>3, <1>4 DEF InLoops
<1>. QED  BY <1>1, <1>2, <1>5 DEF LoopInv

\* A loop that opens is one deeper.
LEMMA LoopOpens ==
  ASSUME LoopInv, Lp
  PROVE  LoopInv'
<1>1. /\ pc' = pc + 1 /\ prog' = prog /\ phase' = "run" /\ pc \in 1..Len(prog) /\ Formed(prog)
      /\ prog[pc].op = "LP" /\ loops' = Append(loops, [start |-> pc + 1, left |-> prog[pc].n])
  BY DEF Lp, At, Continue, LoopInv
<1>2. pc + 1 \in 1..Len(prog) /\ pc + 1 \in Nat
  BY <1>1, NextInstruction
<1>3. PICK d : InLoops(d)
  BY <1>1 DEF LoopInv, Lp, At
<1>4. d[pc + 1] = d[pc] + 1 /\ d[pc + 1] \in 0..2 /\ d[pc] \in Nat
  <2>1. Len(prog) \in Nat /\ pc + 1 \in 1..(Len(prog) + 1) /\ pc \in 1..(Len(prog) + 1)
    BY <1>1, <1>2 DEF Formed, Blocks
  <2>2. d \in [1..(Len(prog) + 1) -> 0..2] /\ d[pc + 1] = After("LP", d[pc])
    BY <1>1, <1>3 DEF InLoops, Nesting
  <2>3. d[pc] \in 0..2 /\ d[pc + 1] \in 0..2
    BY <2>1, <2>2
  <2>4. d[pc + 1] = d[pc] + 1
    BY <2>2 DEF After
  <2>. QED  BY <2>3, <2>4
<1>5. prog[pc].n \in Int
  <2>1. prog[pc] \in Instructions
    BY <1>1 DEF Formed, Blocks
  <2>. QED  BY <1>1, <2>1 DEF Instructions, Others, Copies, Clears, Closing, Moves, Ccrs
<1>. DEFINE frame == [start |-> pc + 1, left |-> prog[pc].n]
<1>6. frame \in Frames /\ frame.start = pc + 1
  BY <1>2, <1>5 DEF Frames
<1>7. loops \in Seq(Frames) /\ loops' = Append(loops, frame) /\ Len(loops) = d[pc]
  BY <1>1, <1>3 DEF LoopInv, InLoops
<1>. HIDE DEF frame
<1>8. /\ loops' \in Seq(Frames) /\ Len(loops') = Len(loops) + 1
      /\ loops'[Len(loops) + 1] = frame
      /\ \A k \in 1..Len(loops) : loops'[k] = loops[k]
  BY <1>6, <1>7
<1>9. InLoops(d)'
  <2>1. Len(loops') = d[pc']
    BY <1>1, <1>4, <1>7, <1>8
  <2>2. ASSUME NEW k \in 1..Len(loops') PROVE loops'[k].start \in 1..Len(prog) /\ d[loops'[k].start] = k
    <3>1. CASE k \in 1..Len(loops)
      BY <1>3, <1>8, <3>1 DEF InLoops
    <3>2. CASE k = Len(loops) + 1
      BY <1>2, <1>4, <1>6, <1>7, <1>8, <3>2
    <3>. QED  BY <1>7, <1>8, <3>1, <3>2
  <2>. QED  BY <1>1, <1>3, <2>1, <2>2 DEF InLoops
<1>10. Len(loops') <= 2
  BY <1>4, <1>7, <1>8
<1>. QED  BY <1>1, <1>2, <1>8, <1>9, <1>10 DEF LoopInv

LEMMA CountDown ==
  ASSUME NEW f \in Frames
  PROVE  [f EXCEPT !.left = @ - 1] \in Frames /\ [f EXCEPT !.left = @ - 1].start = f.start
BY DEF Frames

LEMMA WithoutLast ==
  ASSUME NEW S, NEW s \in Seq(S), Len(s) >= 1
  PROVE  /\ Front(s) \in Seq(S) /\ Len(Front(s)) = Len(s) - 1
         /\ \A i \in 1..Len(Front(s)) : Front(s)[i] = s[i]
<1>. DEFINE n == Len(s) - 1
<1>1. n \in Nat /\ 1 \in Int /\ \A i \in 1..n : s[i] \in S
  OBVIOUS
<1>. HIDE DEF n
<1>2. /\ SubSeq(s, 1, n) \in Seq(S)
      /\ Len(SubSeq(s, 1, n)) = IF 1 <= n THEN n - 1 + 1 ELSE 0
      /\ \A i \in 1..(n - 1 + 1) : SubSeq(s, 1, n)[i] = s[1 + i - 1]
  BY <1>1, SubSeqProperties
<1>3. Len(SubSeq(s, 1, n)) = n /\ \A i \in 1..n : SubSeq(s, 1, n)[i] = s[i]
  BY <1>1, <1>2
<1>. QED  BY <1>2, <1>3 DEF Front, n

LEMMA LoopCloses ==
  ASSUME LoopInv, LpEnd
  PROVE  LoopInv'
<1>1. prog' = prog /\ phase = "run" /\ phase' = "run" /\ pc \in 1..Len(prog) /\ Formed(prog)
      /\ prog[pc].op = "LPEND" /\ loops \in Seq(Frames) /\ Len(loops) <= 2
  BY DEF LpEnd, At, LoopInv
<1>2. PICK d : InLoops(d)
  BY <1>1 DEF LoopInv
<1>3. pc + 1 \in 1..Len(prog)
  BY <1>1, NextInstruction
<1>. DEFINE k == Len(loops)
<1>4. d[pc + 1] = k - 1 /\ k \in 1..2 /\ k \in 1..Len(loops)
  <2>1. Len(prog) \in Nat /\ pc + 1 \in 1..(Len(prog) + 1) /\ pc \in 1..(Len(prog) + 1)
    BY <1>1, <1>3 DEF Formed, Blocks
  <2>2. d[pc] \in 0..2 /\ d[pc + 1] \in 0..2 /\ d[pc + 1] = d[pc] - 1 /\ d[pc] = k
    BY <1>1, <1>2, <2>1 DEF InLoops, Nesting, After
  <2>3. \A x, y : x \in 0..2 /\ y \in 0..2 /\ y = x - 1 => x \in 1..2 /\ x \in 1..x
    OBVIOUS
  <2>. QED  BY <2>2, <2>3, Zenon
<1>5. \A i \in 1..Len(loops) : loops[i].start \in 1..Len(prog) /\ d[loops[i].start] = i
  BY <1>2 DEF InLoops
<1>6. CASE loops[k].left > 1 /\ loops' = [loops EXCEPT ![k].left = @ - 1] /\ pc' = loops[k].start
  <2>1. loops[k] \in Frames
    BY <1>1, <1>4
  <2>2. /\ Len(loops') = Len(loops) /\ loops' \in Seq(Frames)
        /\ \A i \in 1..Len(loops) : loops'[i].start = loops[i].start
    <3>. DEFINE frame == [loops[k] EXCEPT !.left = @ - 1]
    <3>1. frame \in Frames /\ frame.start = loops[k].start
      BY <2>1, CountDown
    <3>2. loops' = [loops EXCEPT ![k] = frame]
      BY <1>6
    <3>. HIDE DEF frame, k
    <3>3. /\ Len(loops') = Len(loops) /\ loops' \in Seq(Frames)
          /\ \A i \in 1..Len(loops) : loops'[i] = IF i = k THEN frame ELSE loops[i]
      BY <1>1, <1>4, <3>1, <3>2
    <3>. QED  BY <3>1, <3>3
  <2>3. pc' \in 1..Len(prog) /\ d[pc'] = k
    BY <1>4, <1>5, <1>6
  <2>4. InLoops(d)'
    BY <1>1, <1>2, <1>5, <2>2, <2>3 DEF InLoops
  <2>. QED  BY <1>1, <2>2, <2>3, <2>4 DEF LoopInv
<1>7. CASE loops' = Front(loops) /\ pc' = pc + 1
  <2>1. /\ loops' \in Seq(Frames) /\ Len(loops') = Len(loops) - 1
        /\ \A i \in 1..Len(loops') : loops'[i] = loops[i]
    BY <1>1, <1>4, <1>7, WithoutLast
  <2>2. InLoops(d)'
    <3>1. \A i \in 1..Len(loops') : i \in 1..Len(loops)
      BY <1>1, <1>4, <2>1
    <3>. QED  BY <1>1, <1>2, <1>4, <1>5, <1>7, <2>1, <3>1 DEF InLoops
  <2>. QED  BY <1>1, <1>3, <1>4, <1>7, <2>1, <2>2 DEF LoopInv
<1>. QED  BY <1>6, <1>7 DEF LpEnd

\* No step leaves the loops of the program.
LEMMA LoopStep == LoopInv /\ [Next]_vars => LoopInv'
<1>. SUFFICES ASSUME LoopInv, [Next]_vars PROVE LoopInv'
  OBVIOUS
<1>1. ASSUME NEW r \in Requests, Request(r) PROVE LoopInv'
  BY <1>1, LoopRequest
<1>2. CASE \/ MovSar \/ MovDar \/ MovCcr \/ WaitForPeripheral
           \/ Load \/ Store \/ StoreZero \/ Barrier \/ SendEvent
  <2>1. phase = "run" /\ Continue /\ loops' = loops /\ prog[pc].op \notin {"LP", "LPEND", "END"}
    BY <1>2 DEF MovSar, MovDar, MovCcr, WaitForPeripheral, Load, Store, StoreZero,
                Barrier, SendEvent, At
  <2>. QED  BY <2>1, LoopStraight
<1>3. CASE Lp
  BY <1>3, LoopOpens
<1>4. CASE LpEnd
  BY <1>4, LoopCloses
<1>5. CASE Land
  <2>1. UNCHANGED <<phase, prog, pc, loops>>
    BY <1>5 DEF Land, registers
  <2>. QED  BY <2>1 DEF LoopInv, InLoops
<1>6. CASE Starve \/ End
  <2>1. phase' \in {"starved", "ended"} /\ UNCHANGED loops
    BY <1>6 DEF Starve, End, registers
  <2>. QED  BY <2>1 DEF LoopInv
<1>7. CASE Over
  <2>1. phase' = "idle" /\ loops' = <<>> /\ pc' = 1
    BY <1>7 DEF Over, Blank
  <2>. QED  BY <2>1 DEF LoopInv
<1>8. CASE UNCHANGED vars
  <2>1. UNCHANGED <<phase, prog, pc, loops>>
    BY <1>8 DEF vars, registers
  <2>. QED  BY <2>1 DEF LoopInv, InLoops
<1>. QED  BY <1>1, <1>2, <1>3, <1>4, <1>5, <1>6, <1>7, <1>8 DEF Next, Execute

\* A channel never has more loops open than its two counters, whatever the request and the
\* length of it: alt_dma.c nests one loop in another where a count exceeds 256 (1704-1726,
\* 1969-1989, 2327-2347, 4239-4260) and where a UART burst is longer than 16 (4743-4803).
THEOREM TwoCounters == Spec => []TwoLoops
<1>1. Init => LoopInv
  BY DEF Init, LoopInv
<1>2. LoopInv => TwoLoops
  BY DEF LoopInv, TwoLoops
<1>. QED  BY <1>1, <1>2, LoopStep, PTL DEF Spec

-----------------------------------------------------------------------------
(* Runs of consecutive bytes.                                              *)

\* The bytes of the data from d on: more of them behind, and some taken from the front.
Run(s, d) == s \in Seq(Int) /\ \A i \in 1..Len(s) : s[i] = d + i - 1

LEMMA RunGrows ==
  ASSUME NEW d \in Nat, NEW s, Run(s, d), NEW t, Run(t, d + Len(s))
  PROVE  Run(s \o t, d) /\ Len(s \o t) = Len(s) + Len(t)
<1>1. /\ s \in Seq(Int) /\ t \in Seq(Int) /\ Len(s) \in Nat /\ Len(t) \in Nat
      /\ \A i \in 1..Len(s) : s[i] = d + i - 1
      /\ \A i \in 1..Len(t) : t[i] = d + Len(s) + i - 1
  BY DEF Run
<1>2. /\ s \o t \in Seq(Int) /\ Len(s \o t) = Len(s) + Len(t)
      /\ \A i \in 1..Len(s) + Len(t) : (s \o t)[i] = IF i <= Len(s) THEN s[i] ELSE t[i - Len(s)]
  BY <1>1, ConcatProperties
<1>3. ASSUME NEW i \in 1..Len(s \o t) PROVE (s \o t)[i] = d + i - 1
  <2>1. CASE i <= Len(s)
    <3>1. i \in 1..Len(s) /\ (s \o t)[i] = s[i]
      BY <1>1, <1>2, <2>1
    <3>. QED  BY <1>1, <3>1
  <2>2. CASE i > Len(s)
    <3>. DEFINE j == i - Len(s)
    <3>1. j \in 1..Len(t) /\ (s \o t)[i] = t[j] /\ i = j + Len(s)
      BY <1>1, <1>2, <2>2
    <3>. HIDE DEF j
    <3>2. t[j] = d + Len(s) + j - 1
      BY <1>1, <3>1
    <3>. QED  BY <1>1, <3>1, <3>2
  <2>. QED  BY <1>1, <1>2, <2>1, <2>2
<1>. QED  BY <1>2, <1>3 DEF Run

LEMMA RunShrinks ==
  ASSUME NEW d \in Nat, NEW s, Run(s, d), NEW n \in Nat, n <= Len(s)
  PROVE  /\ Run(SubSeq(s, n + 1, Len(s)), d + n)
         /\ Len(SubSeq(s, n + 1, Len(s))) = Len(s) - n
<1>. DEFINE m == n + 1
            l == Len(s)
            t == SubSeq(s, m, l)
<1>1. /\ s \in Seq(Int) /\ l \in Nat /\ m \in Nat /\ \A i \in m..l : s[i] \in Int
      /\ \A i \in 1..l : s[i] = d + i - 1
  BY DEF Run
<1>2. /\ t \in Seq(Int) /\ Len(t) = IF m <= l THEN l - m + 1 ELSE 0
      /\ \A i \in 1..(l - m + 1) : t[i] = s[m + i - 1]
  <2>. HIDE DEF m, l
  <2>. QED  BY <1>1, SubSeqProperties
<1>. HIDE DEF t
<1>3. Len(t) = l - n
  BY <1>1, <1>2
<1>4. ASSUME NEW i \in 1..Len(t) PROVE t[i] = d + n + i - 1
  <2>. DEFINE j == m + i - 1
  <2>1. t[i] = s[j] /\ j \in 1..l /\ j = n + i
    <3>1. i \in 1..(l - m + 1) /\ j \in 1..l /\ j = n + i
      BY <1>1, <1>3
    <3>2. t[i] = s[m + i - 1]
      <4>. HIDE DEF m, l
      <4>. QED  BY <1>2, <3>1
    <3>. QED  BY <3>1, <3>2
  <2>. HIDE DEF j
  <2>2. s[j] = d + j - 1
    BY <1>1, <2>1
  <2>. QED  BY <1>1, <1>3, <2>1, <2>2
<1>. QED  BY <1>2, <1>3, <1>4 DEF Run, t

=============================================================================
