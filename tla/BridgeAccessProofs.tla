------------------------- MODULE BridgeAccessProofs -------------------------
(***************************************************************************)
(* Theorems about BridgeAccess, for every offset and every length a user   *)
(* may type and every content of the registers.                            *)
(***************************************************************************)
EXTENDS BridgeAccess, TLAPS

RegisterNames ==
  {"stat", "silid", "bootinfo", "hpsinfo", "gbl", "indiv", "module", "wdt0", "wdt1", "clock"}

LEMMA NamesAreRegisters == DOMAIN Registers = RegisterNames
BY SMT DEF Registers, RegisterNames

LEMMA ReadingsKnown ==
  /\ Len(Readings) = 13
  /\ \A i \in 1..13 : Readings[i].reg \in DOMAIN Registers
<1>1. Len(Readings) = 13
  BY DEF Readings
<1>2. \A i \in 1..13 : Readings[i].reg \in RegisterNames
  BY DEF Readings, Reading, RegisterNames
<1>. QED  BY <1>1, <1>2, NamesAreRegisters

LEMMA SpaceIsPositive == AddressSpace \in Nat \ {0}
BY SMT DEF AddressSpace
LEMMA WordsAre == \A x : x \in Words <=> x \in Nat /\ x < AddressSpace
BY SpaceIsPositive DEF Words
LEMMA Space == \A x : x \in Words <=> x \in Nat /\ x < 1073741824
BY WordsAre, SMT DEF AddressSpace

LEMMA Bases ==
  /\ Base("lw") = 1070071808 /\ LastOffset("lw") = 524287
  /\ Base("hf") = 805306368 /\ LastOffset("hf") = 251658239
  /\ Base("mpu") = 0 /\ LastOffset("mpu") = 1073741823
BY SMT DEF Base, LastOffset, AddressSpace

LEMMA PlusWords ==
  ASSUME NEW x \in Words, NEW y \in Words
  PROVE  /\ Plus(x, y) \in Words
         /\ Plus(x, y) = IF x + y < 1073741824 THEN x + y ELSE x + y - 1073741824
BY Space, SMT DEF Plus, AddressSpace

\* Masking an address by the page keeps it on the page of the mapping.
Onto(b, a) == PageOf(b) * PageSize + (a % PageSize)
LEMMA OnPage ==
  ASSUME NEW b \in Words, NEW a \in Words
  PROVE  /\ Onto(b, a) \in Words
         /\ PageOf(Onto(b, a)) = PageOf(b)
         /\ PageSize * PageOf(b) <= Onto(b, a) /\ Onto(b, a) < PageSize * PageOf(b) + PageSize
BY Space, SMT DEF Onto, PageOf, PageSize

\* The bridges begin and end with a page, so what is on the page of an address inside is inside.
LEMMA PageInWindow ==
  ASSUME NEW s \in {"lw", "hf", "mpu"}, NEW w \in Words, NEW x \in Words,
         PageOf(x) = PageOf(Plus(Base(s), w))
  PROVE  InWindow(s, x) <=> w <= LastOffset(s)
<1>1. InWindow(s, x) <=> Base(s) <= x /\ x <= Base(s) + LastOffset(s)
  BY DEF InWindow
<1>2. CASE s = "lw"
  <2>1. Plus(Base(s), w) = IF w < 3670016 THEN 1070071808 + w ELSE w - 3670016
    <3>1. Base(s) = 1070071808 /\ Base(s) \in Words
      BY <1>2, Bases, Space, SMT
    <3>2. w \in Nat
      BY Space, SMT
    <3>3. Plus(Base(s), w) = IF Base(s) + w < 1073741824 THEN Base(s) + w ELSE Base(s) + w - 1073741824
      BY <3>1, PlusWords, SMT
    <3>. QED  BY <3>1, <3>2, <3>3, SMT
  <2>. QED  BY <1>1, <1>2, <2>1, Bases, Space, SMT DEF PageOf, PageSize
<1>3. CASE s = "hf"
  <2>1. Plus(Base(s), w) = IF w < 268435456 THEN 805306368 + w ELSE w - 268435456
    BY <1>3, Bases, PlusWords, Space, SMT
  <2>. QED  BY <1>1, <1>3, <2>1, Bases, Space, SMT DEF PageOf, PageSize
<1>4. CASE s = "mpu"
  BY <1>1, <1>4, Bases, Space, SMT
<1>. QED  BY <1>2, <1>3, <1>4

LEMMA PagesAreMapped ==
  \A r \in DOMAIN Registers : Registers[r] \in Words
    /\ \E i \in 1..5 : PageOf(Registers[r]) = PageOf(Registers[Maps[i]])
<1>. SUFFICES ASSUME NEW r \in RegisterNames
              PROVE  Registers[r] \in Words
                     /\ \E i \in 1..5 : PageOf(Registers[r]) = PageOf(Registers[Maps[i]])
  BY NamesAreRegisters
<1>1. Registers[r] \in Words
  BY Space, SMT DEF Registers, RegisterNames
<1>2. CASE r \in {"stat", "silid", "wdt0", "wdt1", "clock"}
  <2>1. \E i \in 1..5 : Maps[i] = r
    BY <1>2, SMT DEF Maps
  <2>. QED  BY <1>1, <2>1
<1>3. CASE r \in {"bootinfo", "hpsinfo", "gbl", "indiv", "module"}
  <2>1. PageOf(Registers[r]) = PageOf(Registers["silid"])
    BY <1>3, SMT DEF Registers, PageOf, PageSize
  <2>2. Maps[2] = "silid"
    BY SMT DEF Maps
  <2>. QED  BY <1>1, <2>1, <2>2
<1>. QED  BY <1>2, <1>3 DEF RegisterNames

LEMMA OntoItself == \A a \in Words : Onto(a, a) = a
BY Space, SMT DEF Onto, PageOf, PageSize

-----------------------------------------------------------------------------
\* What is known of an accepted command line.
LEMMA BridgeRequest ==
  ASSUME NEW q \in Requests, q.tool # "status", Accepted(q)
  PROVE  \/ /\ q.space \in {"lw", "hf", "mpu"} /\ q.text.w \in Words
            /\ Address(q) = Plus(Base(q.space), q.text.w)
            /\ q.tool = "write" => q.text.w <= LastOffset(IF q.space = "lw" THEN "hf" ELSE q.space)
            /\ q.tool = "read" => q.text.w <= LastOffset(q.space)
            /\ q.tool \in {"write", "read", "dump"}
         \/ q.tool = "write" /\ q.space = "gpo" /\ Address(q) = 0
         \/ q.tool = "read" /\ q.space = "gpi" /\ Address(q) = GeneralPurpose("gpi")
<1>1. 0 \in Words
  BY Space, SMT
<1>2. \A t \in Texts : t.w \in Words
  <2>. TAKE t \in Texts
  <2>1. t.w \in Offsets \/ t.w = 0
    <3>1. CASE t \in [ok : {TRUE}, w : Offsets, odd : BOOLEAN]
      BY <3>1
    <3>2. CASE t = [ok |-> TRUE, w |-> 0, odd |-> FALSE]
      BY <3>2
    <3>3. CASE t \in [ok : {FALSE}, w : Offsets, odd : {FALSE}]
      BY <3>3
    <3>. QED  BY <3>1, <3>2, <3>3 DEF Texts
  <2>. QED  BY <1>1, <2>1, OffsetsAssumption
<1>3. CASE q \in [tool : {"write"}, space : {"lw", "hf", "mpu", "gpo"}, text : Texts, value : Values]
  BY <1>2, <1>3 DEF Accepted, WriteAccepted, Address, WriteAddress, Aligned
<1>4. CASE q \in [tool : {"read"}, space : {"lw", "hf", "mpu", "gpi"}, text : Texts, refresh : BOOLEAN]
  BY <1>2, <1>4 DEF Accepted, ReadAccepted, Address, ReadAddress, Aligned
<1>5. CASE q \in [tool : {"dump"}, space : {"lw", "hf", "mpu"}, text : Texts, end : EndTexts]
  BY <1>2, <1>5 DEF Accepted, Address
<1>. QED  BY <1>3, <1>4, <1>5 DEF Requests

LEMMA RequestAddress ==
  ASSUME NEW q \in Requests, q.tool # "status", Accepted(q)
  PROVE  Address(q) \in Words /\ PageOf(Address(q)) \in Nat
<1>1. Address(q) \in Words
  <2>1. 0 \in Words /\ GeneralPurpose("gpi") \in Words
    BY Space, SMT DEF GeneralPurpose
  <2>2. \A s \in {"lw", "hf", "mpu"} : Base(s) \in Words
    BY Space, Bases, SMT
  <2>. QED  BY <2>1, <2>2, BridgeRequest, PlusWords
<1>. QED  BY <1>1, WordsAre DEF PageOf, PageSize

LEMMA RequestLength ==
  ASSUME run \in Requests
  PROVE  Length \in Nat
<1>1. CASE run.tool = "dump"
  <2>1. run.end \in EndTexts
    BY <1>1 DEF Requests
  <2>2. run.end.w \in Ends \/ run.end.w = 0
    BY <2>1 DEF EndTexts
  <2>3. run.end.w \in Nat
    BY <2>2, EndsAssumption, WordsAre
  <2>. QED  BY <1>1, <2>3 DEF Length
<1>. QED  BY <1>1 DEF Length

-----------------------------------------------------------------------------
\* Where an access goes, once a command line is accepted.
Reach ==
  /\ run \in Requests
  /\ stage \in {"open", "map", "access", "unmap"} \/ accesses # {} => Accepted(run)
  /\ \A x \in accesses :
       /\ x.says \in Words
       /\ run.tool = "status" => \E r \in DOMAIN Registers : x.says = Registers[r] /\ x.at = x.says
       /\ run.tool # "status" => x.at = Onto(Address(run), x.says)
       /\ run.tool \in {"write", "read"} => x.at = Address(run)

\* Which pages are mapped while there is something to access.
Pages ==
  /\ stage \in {"check", "open", "map"} => accesses = {}
  /\ run.tool # "status" /\ stage \in {"access", "unmap"} => PageOf(Address(run)) \in mapped
  /\ run.tool = "status" =>
       /\ stage \in {"check", "open"} => count = 0
       /\ stage = "map" =>
            count \in 0..4 /\ \A i \in 1..count : PageOf(Registers[Maps[i]]) \in mapped
       /\ stage = "access" => count \in 0..12
       /\ stage \in {"access", "unmap"} =>
            \A i \in 1..5 : PageOf(Registers[Maps[i]]) \in mapped

Progress ==
  /\ stage \in {"check", "open", "map", "access", "unmap", "done"}
  /\ count \in Nat

IInv == Progress /\ Reach /\ Pages

LEMMA InitOK == Init => IInv
BY DEF Init, IInv, Progress, Reach, Pages

\* The steps that reach nothing.
LEMMA QuietOK ==
  ASSUME IInv, Check \/ \E works \in BOOLEAN : Open(works) \/ Unmap(works)
  PROVE  IInv'
<1>1. CASE Check
  BY <1>1 DEF Check, Goto, Finish, IInv, Progress, Reach, Pages
<1>2. ASSUME NEW works \in BOOLEAN, Open(works) PROVE IInv'
  BY <1>2 DEF Open, Goto, Finish, IInv, Progress, Reach, Pages
<1>3. ASSUME NEW works \in BOOLEAN, Unmap(works) PROVE IInv'
  BY <1>3 DEF Unmap, Goto, Finish, IInv, Progress, Reach, Pages
<1>. QED  BY <1>1, <1>2, <1>3

\* A mapping begins with the page of the address, whatever its length.
LEMMA MapOK ==
  ASSUME IInv, NEW works \in BOOLEAN, Map(works)
  PROVE  IInv'
<1>1. CASE ~(works /\ opened /\ Length > 0)
  BY <1>1 DEF Map, Goto, Finish, IInv, Progress, Reach, Pages
<1>2. CASE works /\ opened /\ Length > 0
  <2>1. Accepted(run) /\ run \in Requests /\ run.tool # "status"
    BY DEF Map, IInv, Reach
  <2>2. PageOf(Address(run)) \in Nat
    BY <2>1, RequestAddress
  <2>3. (Length - 1) \div PageSize \in Nat
    BY <1>2, <2>1, RequestLength DEF PageSize
  <2>4. PageOf(Address(run)) \in mapped'
    BY <1>2, <2>2, <2>3 DEF Map
  <2>. QED  BY <1>2, <2>1, <2>4 DEF Map, Goto, IInv, Progress, Reach, Pages
<1>. QED  BY <1>1, <1>2

\* FPGA-status has all five pages when it begins to read.
LEMMA MapNextOK ==
  ASSUME IInv, NEW works \in BOOLEAN, MapNext(works)
  PROVE  IInv'
<1>1. CASE ~works
  BY <1>1 DEF MapNext, Goto, Finish, IInv, Progress, Reach, Pages
<1>2. CASE works
  <2>1. count \in 0..4 /\ \A i \in 1..count : PageOf(Registers[Maps[i]]) \in mapped
    BY DEF MapNext, IInv, Pages
  <2>2. Len(Maps) = 5
    BY DEF Maps
  <2>3. /\ count' = (count + 1) % 5
        /\ mapped' = mapped \cup {PageOf(Registers[Maps[count + 1]])}
        /\ stage' = IF count' = 0 THEN "access" ELSE "map"
        /\ UNCHANGED <<run, accesses>> /\ run.tool = "status" /\ stage = "map"
    BY <1>2, <2>2 DEF MapNext, Goto
  <2>4. \A i \in 1..(count + 1) : PageOf(Registers[Maps[i]]) \in mapped'
    BY <2>1, <2>3
  <2>5. CASE count = 4
    BY <2>1, <2>3, <2>4, <2>5 DEF IInv, Progress, Reach, Pages
  <2>6. CASE count # 4
    <3>1. count' = count + 1 /\ count' \in 1..4
      BY <2>1, <2>3, <2>6
    <3>. QED  BY <2>3, <2>4, <3>1 DEF IInv, Progress, Reach, Pages
  <2>. QED  BY <2>5, <2>6
<1>. QED  BY <1>1, <1>2

\* A register is read or written at its address.
LEMMA RegisterOK ==
  ASSUME IInv, WriteRegister \/ ReadRegister
  PROVE  IInv'
<1>1. /\ Accepted(run) /\ run \in Requests /\ run.tool \in {"write", "read"}
      /\ UNCHANGED <<run, mapped>> /\ accesses' = Itself /\ stage = "access"
      /\ stage' \in {"access", "unmap"} /\ count' \in Nat
  BY DEF WriteRegister, ReadRegister, Goto, IInv, Progress, Reach
<1>2. Address(run) \in Words
  BY <1>1, RequestAddress
<1>3. Onto(Address(run), Address(run)) = Address(run)
  BY <1>2, OntoItself
<1>4. Reach'
  BY <1>1, <1>2, <1>3 DEF Reach, Itself, Address
<1>5. Progress' /\ Pages'
  BY <1>1 DEF IInv, Progress, Pages, Address
<1>. QED  BY <1>4, <1>5 DEF IInv

\* A row is read from the first page.
LEMMA RowOK ==
  ASSUME IInv, ShowRow
  PROVE  IInv'
<1>1. /\ Accepted(run) /\ run \in Requests /\ run.tool = "dump"
      /\ UNCHANGED <<run, mapped>> /\ stage = "access"
      /\ stage' \in {"access", "unmap"} /\ count' \in Nat /\ count \in Nat
  BY DEF ShowRow, Goto, IInv, Progress, Reach
<1>2. Address(run) \in Words
  BY <1>1, RequestAddress
<1>3. \A x \in accesses' : x.says \in Words /\ x.at = Onto(Address(run), x.says)
  <2>. TAKE x \in accesses'
  <2>1. PICK i \in 0..3 : x = [says |-> Plus(Address(run), 4 * count + i),
                               at |-> Reached(Plus(Address(run), 4 * count + i))]
    BY DEF ShowRow
  <2>2. Plus(Address(run), 4 * count + i) \in Words
    BY <1>1, <1>2, SpaceIsPositive, WordsAre DEF Plus
  <2>. QED  BY <2>1, <2>2 DEF Reached, Onto
<1>4. Reach'
  BY <1>1, <1>3 DEF Reach, Address
<1>5. Progress' /\ Pages'
  BY <1>1 DEF IInv, Progress, Pages, Address
<1>. QED  BY <1>4, <1>5 DEF IInv

LEMMA StatusOK ==
  ASSUME IInv, ReadStatus
  PROVE  IInv'
<1>1. /\ count \in 0..12 /\ run.tool = "status"
      /\ UNCHANGED <<run, mapped>> /\ stage = "access" /\ count' = count + 1
      /\ stage' = IF count + 1 < 13 THEN "access" ELSE "unmap"
  BY ReadingsKnown DEF ReadStatus, Goto, IInv, Pages
<1>2. PICK r \in DOMAIN Registers : accesses' = {[says |-> Registers[r], at |-> Registers[r]]}
  <2>1. Readings[count + 1].reg \in DOMAIN Registers
    BY <1>1, ReadingsKnown
  <2>. QED  BY <2>1 DEF ReadStatus
<1>3. Reach'
  BY <1>1, <1>2, PagesAreMapped DEF IInv, Reach
<1>4. Progress' /\ Pages'
  BY <1>1 DEF IInv, Progress, Pages
<1>. QED  BY <1>3, <1>4 DEF IInv

LEMMA NextOK == IInv /\ [Next]_vars => IInv'
<1>. SUFFICES ASSUME IInv, [Next]_vars PROVE IInv'
  OBVIOUS
<1>1. CASE Tool
  BY <1>1, QuietOK, MapOK, MapNextOK, RegisterOK, RowOK, StatusOK DEF Tool
<1>2. CASE UNCHANGED vars
  BY <1>2 DEF vars, IInv, Progress, Reach, Pages, Address
<1>. QED  BY <1>1, <1>2 DEF Next

LEMMA Inductive == Spec => []IInv
BY InitOK, NextOK, PTL DEF Spec

-----------------------------------------------------------------------------
\* The tools reach nothing outside the bridge or register they were asked for, except in
\* exactly the cases of Slips: whatever the offset, the length and the row.
THEOREM AccessesInWindow == Spec => []AccessInWindow
<1>1. IInv => AccessInWindow
  <2>. SUFFICES ASSUME IInv, NEW x \in accesses PROVE InWindow(run.space, x.at) <=> ~Slips
    BY DEF AccessInWindow
  <2>1. run \in Requests /\ Accepted(run) /\ x.says \in Words
    BY DEF IInv, Reach
  <2>2. CASE run.tool = "status"
    <3>1. run.space = "status"
      BY <2>1, <2>2 DEF Requests
    <3>2. \E r \in DOMAIN Registers : x.at = Registers[r]
      BY <2>2 DEF IInv, Reach
    <3>. QED  BY <2>2, <3>1, <3>2 DEF InWindow, Slips
  <2>3. CASE run.tool # "status"
    <3>1. x.at = Onto(Address(run), x.says)
      BY <2>3 DEF IInv, Reach
    <3>2. x.at \in Words /\ PageOf(x.at) = PageOf(Address(run))
      BY <2>1, <2>3, <3>1, RequestAddress, OnPage
    <3>3. CASE run.space \in {"lw", "hf", "mpu"}
      <4>1. /\ run.text.w \in Words /\ Address(run) = Plus(Base(run.space), run.text.w)
            /\ run.tool = "write" => run.text.w <= LastOffset(IF run.space = "lw" THEN "hf" ELSE run.space)
            /\ run.tool = "read" => run.text.w <= LastOffset(run.space)
            /\ run.tool \in {"write", "read", "dump"}
        BY <2>1, <2>3, <3>3, BridgeRequest
      <4>2. InWindow(run.space, x.at) <=> run.text.w <= LastOffset(run.space)
        BY <3>2, <3>3, <4>1, PageInWindow
      <4>3. run.text.w \in Nat /\ run.text.w <= LastOffset("mpu")
        BY <4>1, Bases, Space, SMT
      <4>. QED  BY <3>3, <4>1, <4>2, <4>3, Bases, SMT DEF Slips
    <3>4. CASE run.space \notin {"lw", "hf", "mpu"}
      <4>1. CASE run.tool = "write" /\ run.space = "gpo" /\ Address(run) = 0
        <5>1. PageOf(x.at) # PageOf(GeneralPurpose("gpo"))
          BY <3>2, <4>1, SMT DEF PageOf, PageSize, GeneralPurpose
        <5>. QED  BY <4>1, <5>1 DEF InWindow, Slips
      <4>2. CASE run.tool = "read" /\ run.space = "gpi" /\ Address(run) = GeneralPurpose("gpi")
        <5>1. x.at = Address(run)
          BY <4>2 DEF IInv, Reach
        <5>. QED  BY <4>2, <5>1 DEF InWindow, Slips
      <4>. QED  BY <2>1, <2>3, <3>4, <4>1, <4>2, BridgeRequest
    <3>. QED  BY <3>3, <3>4
  <2>. QED  BY <2>2, <2>3
<1>. QED  BY <1>1, Inductive, PTL

\* No access leaves the pages that are mapped for it.
THEOREM AllAccessesAreMapped == Spec => []AccessesAreMapped
<1>1. IInv => AccessesAreMapped
  <2>. SUFFICES ASSUME IInv, stage # "done", NEW x \in accesses PROVE PageOf(x.at) \in mapped
    BY DEF AccessesAreMapped
  <2>1. stage \in {"access", "unmap"} /\ run \in Requests /\ Accepted(run) /\ x.says \in Words
    BY DEF IInv, Progress, Reach, Pages
  <2>2. CASE run.tool = "status"
    BY <2>1, <2>2, PagesAreMapped DEF IInv, Reach, Pages
  <2>3. CASE run.tool # "status"
    BY <2>1, <2>3, RequestAddress, OnPage DEF IInv, Reach, Pages
  <2>. QED  BY <2>2, <2>3
<1>. QED  BY <1>1, Inductive, PTL

-----------------------------------------------------------------------------
\* What was printed and written so far says how far the tool came.
Outcome ==
  /\ opened \in BOOLEAN /\ printed \subseteq {-2, -1, 1}
  /\ stage = "check" => opened = FALSE
  /\ stage # "done" => printed = {}
  /\ bits # {} => run.tool = "write" /\ stage \in {"unmap", "done"}
  /\ (run.tool = "write" /\ stage = "unmap") \/ 1 \in printed => bits \in Written(run.value)
  /\ 1 \in printed => run.tool = "write"
  /\ -1 \in printed => opened = FALSE /\ bits = {}
  /\ bits # {} /\ stage = "done" => 1 \in printed

LEMMA CodesDiffer == 1 # -1 /\ 1 # -2 /\ -1 # -2
OBVIOUS

LEMMA OutcomeStep == Outcome /\ [Next]_vars => Outcome'
<1>. SUFFICES ASSUME Outcome, [Next]_vars PROVE Outcome'
  OBVIOUS
<1>1. CASE Check
  BY <1>1, CodesDiffer DEF Check, Goto, Finish, Outcome
<1>2. ASSUME NEW works \in BOOLEAN, Open(works) PROVE Outcome'
  BY <1>2, CodesDiffer DEF Open, Goto, Finish, Outcome
<1>3. ASSUME NEW works \in BOOLEAN, Map(works) PROVE Outcome'
  BY <1>3, CodesDiffer DEF Map, Goto, Finish, Outcome
<1>4. ASSUME NEW works \in BOOLEAN, MapNext(works) PROVE Outcome'
  BY <1>4, CodesDiffer DEF MapNext, Goto, Finish, Outcome
<1>5. ASSUME NEW works \in BOOLEAN, Unmap(works) PROVE Outcome'
  BY <1>5, CodesDiffer DEF Unmap, Goto, Finish, Outcome
<1>6. CASE WriteRegister
  BY <1>6 DEF WriteRegister, Goto, Outcome
<1>7. CASE ReadRegister
  BY <1>7 DEF ReadRegister, Goto, Outcome
<1>8. CASE ShowRow
  BY <1>8 DEF ShowRow, Goto, Outcome
<1>9. CASE ReadStatus
  BY <1>9 DEF ReadStatus, Goto, Outcome
<1>10. CASE UNCHANGED vars
  BY <1>10 DEF vars, Outcome
<1>. QED
  BY <1>1, <1>2, <1>3, <1>4, <1>5, <1>6, <1>7, <1>8, <1>9, <1>10 DEF Next, Tool

LEMMA OutcomeHolds == Spec => []Outcome
<1>1. Init => Outcome
  BY DEF Init, Outcome
<1>. QED  BY <1>1, OutcomeStep, PTL DEF Spec

\* A tool prints code 1 after a write of what was asked for and after nothing else, and an
\* input error only before the driver is opened (writeBridge 241-430).
THEOREM ReportsAreTrue == Spec => []ReportsWhatItDid
<1>1. Outcome => ReportsWhatItDid
  <2>. SUFFICES ASSUME Outcome PROVE ReportsWhatItDid
    OBVIOUS
  <2>1. -1 \in printed => ~opened /\ bits = {}
    BY DEF Outcome
  <2>2. bits # {} /\ stage = "done" => 1 \in printed
    BY DEF Outcome
  <2>3. 1 \in printed => bits \in Written(run.value)
    BY DEF Outcome
  <2>. QED  BY <2>1, <2>2, <2>3 DEF ReportsWhatItDid, Written
<1>. QED  BY <1>1, OutcomeHolds, PTL

-----------------------------------------------------------------------------
\* What the first n readings show of the registers f.
LinesUpTo(n, f) == UNION {Shown(Readings[i], f[Readings[i].reg]) : i \in 1..n}

\* FPGA-status has shown the readings it has taken, and nothing when it stopped before.
Displayed ==
  run.tool = "status" =>
    /\ stage \in {"check", "open", "map"} => shown = {}
    /\ stage = "access" => shown = LinesUpTo(count, run.file)
    /\ stage = "unmap" => shown = LinesUpTo(13, run.file)
    /\ stage = "done" => shown = IF printed = {} THEN LinesUpTo(13, run.file) ELSE {}

LEMMA OneMore ==
  ASSUME NEW n \in Nat, NEW f
  PROVE  LinesUpTo(n + 1, f) = LinesUpTo(n, f) \cup Shown(Readings[n + 1], f[Readings[n + 1].reg])
<1>1. 1..(n + 1) = 1..n \cup {n + 1}
  OBVIOUS
<1>. QED  BY <1>1 DEF LinesUpTo

LEMMA DisplayedStep == IInv /\ Outcome /\ Displayed /\ [Next]_vars => Displayed'
<1>. SUFFICES ASSUME IInv, Outcome, Displayed, [Next]_vars, run.tool = "status", run' = run
              PROVE  Displayed'
  BY DEF Displayed, Next, Tool, Check, Open, Map, MapNext, Unmap, WriteRegister,
         ReadRegister, ShowRow, ReadStatus, vars
<1>1. CASE Check
  BY <1>1 DEF Check, Goto, Finish, Displayed, Accepted
<1>2. ASSUME NEW works \in BOOLEAN, Open(works) PROVE Displayed'
  BY <1>2 DEF Open, Goto, Finish, Displayed
<1>3. ASSUME NEW works \in BOOLEAN, Map(works) PROVE Displayed'
  BY <1>3 DEF Map
<1>4. ASSUME NEW works \in BOOLEAN, MapNext(works) PROVE Displayed'
  <2>1. LinesUpTo(0, run.file) = {}
    BY DEF LinesUpTo
  <2>. QED  BY <1>4, <2>1 DEF MapNext, Goto, Finish, Displayed
<1>5. ASSUME NEW works \in BOOLEAN, Unmap(works) PROVE Displayed'
  BY <1>5 DEF Unmap, Goto, Finish, Displayed, Outcome
<1>6. CASE ReadStatus
  <2>1. /\ count \in 0..12 /\ stage = "access" /\ count' = count + 1
        /\ stage' = IF count + 1 < 13 THEN "access" ELSE "unmap"
        /\ shown' = shown \cup Shown(Readings[count + 1], run.file[Readings[count + 1].reg])
    BY <1>6, ReadingsKnown DEF ReadStatus, Goto, IInv, Pages
  <2>2. shown' = LinesUpTo(count + 1, run.file)
    <3>1. shown = LinesUpTo(count, run.file)
      BY <2>1 DEF Displayed
    <3>. QED  BY <2>1, <3>1, OneMore
  <2>3. stage' # "done" /\ (stage' = "unmap" => count + 1 = 13)
    BY <2>1
  <2>. QED  BY <2>1, <2>2, <2>3 DEF Displayed
<1>7. CASE UNCHANGED vars
  BY <1>7 DEF vars, Displayed
<1>. QED
  BY <1>1, <1>2, <1>3, <1>4, <1>5, <1>6, <1>7
  DEF Next, Tool, WriteRegister, ReadRegister, ShowRow

LEMMA DisplayedHolds == Spec => []Displayed
<1>1. Init => Displayed
  BY DEF Init, Displayed
<1>. QED  BY <1>1, DisplayedStep, Inductive, OutcomeHolds, PTL DEF Spec

\* The lines of reading i that say [Y] or nothing.
Plain(i, f) ==
  {line \in Shown(Readings[i], f[Readings[i].reg]) : line[1] \notin {"msel", "state"}}

LEMMA ReadingsInOrder ==
  /\ Readings[1] = Reading("msel", "stat", 3..7)
  /\ Readings[2] = Reading("state", "stat", 0..2)
  /\ Readings[3] = Reading("bsel", "bootinfo", 0..2)
  /\ Readings[4] = Reading("can", "hpsinfo", {0})
  /\ Readings[5] = Reading("dualcore", "hpsinfo", {0})
  /\ Readings[6] = Reading("rev", "silid", 0..15)
  /\ Readings[7] = Reading("id", "silid", 16..31)
  /\ Readings[8] = Reading("wdt0", "wdt0", 0..31)
  /\ Readings[9] = Reading("wdt1", "wdt1", 0..31)
  /\ Readings[10] = Reading("gbl", "gbl", {0})
  /\ Readings[11] = Reading("indiv", "indiv", 0..7)
  /\ Readings[12] = Reading("module", "module", 0..4)
  /\ Readings[13] = Reading("clock", "clock", 0..2)
BY DEF Readings

LEMMA PlainLines ==
  ASSUME NEW f, \A r \in RegisterNames : f[r] \subseteq 0..31
  PROVE  /\ \A i \in {1, 2, 3, 6, 7} : Plain(i, f) = {}
         /\ Plain(4, f) = {<<"can", b>> : b \in f["hpsinfo"] \cap {0}}
         /\ Plain(5, f) = {<<"dualcore", b>> : b \in f["hpsinfo"] \cap {0}}
         /\ Plain(10, f) = {<<"gbl", b>> : b \in f["gbl"] \cap {0}}
         /\ Plain(11, f) = {<<"indiv", b>> : b \in f["indiv"] \cap {0, 1, 2, 3, 4, 6, 7}}
         /\ Plain(12, f) = {<<"module", b>> : b \in f["module"] \cap 0..3}
         /\ Plain(13, f) = {<<"clock", b>> : b \in f["clock"] \cap {0, 2}}
         /\ Plain(8, f) = IF f["wdt0"] \cap {0, 1} = {0} THEN {<<"wdt0", 0>>} ELSE {}
         /\ Plain(9, f) = IF f["wdt1"] \cap {0, 1} = {0} THEN {<<"wdt1", 0>>} ELSE {}
<1>1. Plain(1, f) = {}
  BY ReadingsInOrder DEF Plain, Reading, Shown, LinesOf, CodesOf, Kept, WatchdogShown, IndivLines, ModuleLines, ClockLines, OtherLines, RegisterNames
<1>2. Plain(2, f) = {}
  BY ReadingsInOrder DEF Plain, Reading, Shown, LinesOf, CodesOf, Kept, WatchdogShown, IndivLines, ModuleLines, ClockLines, OtherLines, RegisterNames
<1>3. Plain(3, f) = {}
  BY ReadingsInOrder DEF Plain, Reading, Shown, LinesOf, CodesOf, Kept, WatchdogShown, IndivLines, ModuleLines, ClockLines, OtherLines, RegisterNames
<1>4. Plain(4, f) = {<<"can", b>> : b \in f["hpsinfo"] \cap {0}}
  BY ReadingsInOrder DEF Plain, Reading, Shown, LinesOf, CodesOf, Kept, WatchdogShown, IndivLines, ModuleLines, ClockLines, OtherLines, RegisterNames
<1>5. Plain(5, f) = {<<"dualcore", b>> : b \in f["hpsinfo"] \cap {0}}
  BY ReadingsInOrder DEF Plain, Reading, Shown, LinesOf, CodesOf, Kept, WatchdogShown, IndivLines, ModuleLines, ClockLines, OtherLines, RegisterNames
<1>6. Plain(6, f) = {}
  BY ReadingsInOrder DEF Plain, Reading, Shown, LinesOf, CodesOf, Kept, WatchdogShown, IndivLines, ModuleLines, ClockLines, OtherLines, RegisterNames
<1>7. Plain(7, f) = {}
  BY ReadingsInOrder DEF Plain, Reading, Shown, LinesOf, CodesOf, Kept, WatchdogShown, IndivLines, ModuleLines, ClockLines, OtherLines, RegisterNames
<1>8. Plain(8, f) = IF f["wdt0"] \cap {0, 1} = {0} THEN {<<"wdt0", 0>>} ELSE {}
  BY ReadingsInOrder DEF Plain, Reading, Shown, LinesOf, CodesOf, Kept, WatchdogShown, IndivLines, ModuleLines, ClockLines, OtherLines, RegisterNames
<1>9. Plain(9, f) = IF f["wdt1"] \cap {0, 1} = {0} THEN {<<"wdt1", 0>>} ELSE {}
  BY ReadingsInOrder DEF Plain, Reading, Shown, LinesOf, CodesOf, Kept, WatchdogShown, IndivLines, ModuleLines, ClockLines, OtherLines, RegisterNames
<1>10. Plain(10, f) = {<<"gbl", b>> : b \in f["gbl"] \cap {0}}
  BY ReadingsInOrder DEF Plain, Reading, Shown, LinesOf, CodesOf, Kept, WatchdogShown, IndivLines, ModuleLines, ClockLines, OtherLines, RegisterNames
<1>11. Plain(11, f) = {<<"indiv", b>> : b \in f["indiv"] \cap {0, 1, 2, 3, 4, 6, 7}}
  BY ReadingsInOrder DEF Plain, Reading, Shown, LinesOf, CodesOf, Kept, WatchdogShown, IndivLines, ModuleLines, ClockLines, OtherLines, RegisterNames
<1>12. Plain(12, f) = {<<"module", b>> : b \in f["module"] \cap 0..3}
  BY ReadingsInOrder DEF Plain, Reading, Shown, LinesOf, CodesOf, Kept, WatchdogShown, IndivLines, ModuleLines, ClockLines, OtherLines, RegisterNames
<1>13. Plain(13, f) = {<<"clock", b>> : b \in f["clock"] \cap {0, 2}}
  BY ReadingsInOrder DEF Plain, Reading, Shown, LinesOf, CodesOf, Kept, WatchdogShown, IndivLines, ModuleLines, ClockLines, OtherLines, RegisterNames
<1>. QED
  BY <1>1, <1>2, <1>3, <1>4, <1>5, <1>6, <1>7, <1>8, <1>9, <1>10, <1>11, <1>12, <1>13

LEMMA AllLines ==
  ASSUME NEW f, \A r \in RegisterNames : f[r] \subseteq 0..31
  PROVE  {line \in LinesUpTo(13, f) : line[1] \notin {"msel", "state"}} = YesLines(f)
<1>1. {line \in LinesUpTo(13, f) : line[1] \notin {"msel", "state"}} = UNION {Plain(i, f) : i \in 1..13}
  BY DEF LinesUpTo, Plain
<1>2. UNION {Plain(i, f) : i \in 1..13} =
        Plain(4, f) \cup Plain(5, f) \cup Plain(8, f) \cup Plain(9, f) \cup Plain(10, f)
          \cup Plain(11, f) \cup Plain(12, f) \cup Plain(13, f)
  <2>1. \A line : line \in UNION {Plain(i, f) : i \in 1..13} =>
          \E i \in {4, 5, 8, 9, 10, 11, 12, 13} : line \in Plain(i, f)
    <3>1. \A i \in 1..13 : i \in {1, 2, 3, 6, 7} \/ i \in {4, 5, 8, 9, 10, 11, 12, 13}
      OBVIOUS
    <3>2. \A i \in {1, 2, 3, 6, 7} : Plain(i, f) = {}
      BY PlainLines
    <3>. QED  BY <3>1, <3>2
  <2>2. \A i \in {4, 5, 8, 9, 10, 11, 12, 13} : i \in 1..13
    OBVIOUS
  <2>. QED  BY <2>1, <2>2
<1>3. Plain(4, f) \cup Plain(5, f) = {<<name, b>> : name \in {"can", "dualcore"}, b \in f["hpsinfo"] \cap {0}}
  BY PlainLines
<1>4. Plain(8, f) \cup Plain(9, f) = {<<w, 0>> : w \in {v \in {"wdt0", "wdt1"} : f[v] \cap {0, 1} = {0}}}
  BY PlainLines
<1>5. /\ Plain(10, f) = {<<"gbl", b>> : b \in f["gbl"] \cap {0}}
      /\ Plain(11, f) = {<<"indiv", b>> : b \in f["indiv"] \cap {0, 1, 2, 3, 4, 6, 7}}
      /\ Plain(12, f) = {<<"module", b>> : b \in f["module"] \cap 0..3}
      /\ Plain(13, f) = {<<"clock", b>> : b \in f["clock"] \cap {0, 2}}
  BY PlainLines
<1>. QED  BY <1>1, <1>2, <1>3, <1>4, <1>5 DEF YesLines

LEMMA FileOfStatus ==
  ASSUME run \in Requests, run.tool = "status"
  PROVE  \A r \in RegisterNames : run.file[r] \subseteq 0..31
<1>1. run.file \in Files
  BY DEF Requests
<1>. QED  BY <1>1, FilesAssumption, NamesAreRegisters

\* FPGA-status shows [Y] on just the lines whose bit is set in the registers, with the
\* exceptions of YesLines, whatever the registers hold; or nothing (FPGA-status main 524-590).
THEOREM StatusIsTrue == Spec => []ShowsTheRegisters
<1>1. IInv /\ Displayed => ShowsTheRegisters
  <2>. SUFFICES ASSUME IInv, Displayed, run.tool = "status", stage = "done"
                PROVE  {line \in shown : line[1] \notin {"msel", "state"}} =
                         IF printed = {} THEN YesLines(run.file) ELSE {}
    BY DEF ShowsTheRegisters
  <2>1. CASE printed = {}
    <3>1. shown = LinesUpTo(13, run.file)
      BY <2>1 DEF Displayed
    <3>2. \A r \in RegisterNames : run.file[r] \subseteq 0..31
      BY FileOfStatus DEF IInv, Reach
    <3>. QED  BY <2>1, <3>1, <3>2, AllLines
  <2>2. CASE printed # {}
    <3>1. shown = {}
      BY <2>2 DEF Displayed
    <3>. QED  BY <2>2, <3>1
  <2>. QED  BY <2>1, <2>2
<1>. QED  BY <1>1, Inductive, DisplayedHolds, PTL

-----------------------------------------------------------------------------
\* The rest of the type invariant.
Kinds ==
  /\ \A p \in mapped : p \in Nat
  /\ bits \subseteq 0..31
  /\ \A line \in shown : \E i \in DOMAIN Readings : line[1] = Readings[i].name

LEMMA PagesAreNumbers == \A r \in DOMAIN Registers : PageOf(Registers[r]) \in Nat
<1>. SUFFICES ASSUME NEW r \in DOMAIN Registers PROVE PageOf(Registers[r]) \in Nat
  OBVIOUS
<1>1. Registers[r] \in Nat
  BY PagesAreMapped, WordsAre
<1>. QED  BY <1>1 DEF PageOf, PageSize

LEMMA WrittenBits ==
  ASSUME NEW q \in Requests, q.tool = "write", Accepted(q), NEW b \in Written(q.value)
  PROVE  b \subseteq 0..31
<1>1. q.value \in Values /\ ValueAccepted(q.value)
  BY DEF Requests, Accepted, WriteAccepted
<1>2. CASE q.value.kind = "word"
  BY <1>2 DEF Written
<1>3. CASE q.value.kind = "bit"
  <2>1. q.value.pos \in {0, 31, 32}
    BY <1>1, <1>3 DEF Values, ValueAccepted
  <2>. QED  BY <1>3, <2>1 DEF Written
<1>. QED  BY <1>1, <1>2, <1>3 DEF ValueAccepted

LEMMA MapsKnown == Len(Maps) = 5 /\ \A i \in 1..5 : Maps[i] \in DOMAIN Registers
<1>1. \A i \in 1..5 : Maps[i] \in RegisterNames
  BY DEF Maps, RegisterNames
<1>. QED  BY <1>1, NamesAreRegisters DEF Maps

LEMMA KindsStep == IInv /\ Kinds /\ [Next]_vars => Kinds'
<1>. SUFFICES ASSUME IInv, Kinds, [Next]_vars PROVE Kinds'
  OBVIOUS
<1>1. CASE Check
  BY <1>1 DEF Check, Kinds
<1>2. ASSUME NEW works \in BOOLEAN, Open(works) \/ Unmap(works) PROVE Kinds'
  BY <1>2 DEF Open, Unmap, Kinds
<1>3. ASSUME NEW works \in BOOLEAN, Map(works) PROVE Kinds'
  <2>1. run \in Requests /\ Accepted(run) /\ run.tool # "status"
    BY <1>3 DEF Map, IInv, Reach
  <2>2. PageOf(Address(run)) \in Nat
    BY <2>1, RequestAddress
  <2>3. UNCHANGED <<bits, shown>>
        /\ (mapped' = mapped \/
              mapped' = PageOf(Address(run))..(PageOf(Address(run)) + (Length - 1) \div PageSize))
    BY <1>3 DEF Map
  <2>4. (Length - 1) \div PageSize \in Int
    BY <2>1, RequestLength DEF PageSize
  <2>5. \A p \in mapped' : p \in Nat
    BY <2>2, <2>3, <2>4 DEF Kinds
  <2>. QED  BY <2>3, <2>5 DEF Kinds
<1>4. ASSUME NEW works \in BOOLEAN, MapNext(works) PROVE Kinds'
  <2>1. count \in 0..4
    BY <1>4 DEF MapNext, IInv, Pages
  <2>2. Maps[count + 1] \in DOMAIN Registers
    BY <2>1, MapsKnown
  <2>3. PageOf(Registers[Maps[count + 1]]) \in Nat
    BY <2>2, PagesAreNumbers
  <2>. QED  BY <1>4, <2>3 DEF MapNext, Kinds
<1>5. CASE WriteRegister
  <2>1. run \in Requests /\ Accepted(run) /\ run.tool = "write" /\ bits' \in Written(run.value)
    BY <1>5 DEF WriteRegister, IInv, Reach
  <2>. QED  BY <1>5, <2>1, WrittenBits DEF WriteRegister, Kinds
<1>6. CASE ReadRegister \/ ShowRow
  BY <1>6 DEF ReadRegister, ShowRow, Kinds
<1>7. CASE ReadStatus
  <2>1. count + 1 \in 1..13 /\ DOMAIN Readings = 1..13
    <3>1. count \in 0..12
      BY <1>7 DEF ReadStatus, IInv, Pages
    <3>. QED  BY <3>1 DEF Readings
  <2>. DEFINE r == Readings[count + 1]
  <2>2. \A line \in Shown(r, run.file[r.reg]) : line[1] = r.name
    BY DEF Shown, LinesOf, CodesOf
  <2>. HIDE DEF r
  <2>3. shown' = shown \cup Shown(r, run.file[r.reg]) /\ UNCHANGED <<mapped, bits>>
    BY <1>7 DEF ReadStatus, r
  <2>4. \E i \in DOMAIN Readings : r.name = Readings[i].name
    BY <2>1 DEF r
  <2>. QED  BY <2>2, <2>3, <2>4 DEF Kinds
<1>8. CASE UNCHANGED vars
  BY <1>8 DEF vars, Kinds
<1>. QED  BY <1>1, <1>2, <1>3, <1>4, <1>5, <1>6, <1>7, <1>8 DEF Next, Tool

\* The type invariant: the addresses reached are words of the 32 bit space, though the
\* code adds and masks them without a test (dumpBridge 309-320).
THEOREM BridgeTypes == Spec => []TypeOK
<1>1. Init => Kinds
  BY DEF Init, Kinds
<1>2. IInv /\ Outcome /\ Kinds => TypeOK
  <2>. SUFFICES ASSUME IInv, Outcome, Kinds PROVE TypeOK
    OBVIOUS
  <2>1. run \in Requests /\ opened \in BOOLEAN /\ printed \subseteq {-2, -1, 1}
    BY DEF IInv, Reach, Outcome
  <2>2. ASSUME NEW x \in accesses PROVE x.says \in Words /\ x.at \in Words
    <3>1. x.says \in Words /\ Accepted(run)
      BY DEF IInv, Reach
    <3>2. run.tool = "status" => x.at = x.says
      BY DEF IInv, Reach
    <3>3. run.tool # "status" => x.at \in Words
      BY <2>1, <3>1, RequestAddress, OnPage DEF IInv, Reach
    <3>. QED  BY <3>1, <3>2, <3>3
  <2>. QED  BY <2>1, <2>2 DEF TypeOK, IInv, Progress, Kinds
<1>. QED  BY <1>1, <1>2, KindsStep, Inductive, OutcomeHolds, PTL DEF Spec

=============================================================================
