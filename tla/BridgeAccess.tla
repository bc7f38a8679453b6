---------------------------- MODULE BridgeAccess ----------------------------
(***************************************************************************)
(* FPGA-writeBridge, FPGA-readBridge, FPGA-dumpBridge and FPGA-status:     *)
(* what of a command line is accepted, which physical addresses come of    *)
(* it, and what is read, written and reported through mappings of /dev/mem *)
(* that the kernel may refuse.                                             *)
(*                                                                         *)
(* Addresses are counted in words of four bytes and pages of 1024 words,   *)
(* so that 2^32 bytes are 2^30 words.                                      *)
(***************************************************************************)
EXTENDS Integers, FpgaStatus

CONSTANTS
  Offsets,    \* word offsets a user may type
  Ends,       \* lengths of a dump a user may type, in words
  Refreshes,  \* REFRECHMODE_MAX_COUNT, 300 in the code
  Files       \* contents the registers FPGA-status reads may have

AddressSpace == 1073741824
Words == 0..(AddressSpace - 1)
\* Mutant of Plus: addresses are kept in 64 bits.
PlusWide(a, b) == a + b

Plus(a, b) == (a + b) % AddressSpace

ASSUME OffsetsAssumption == Offsets \subseteq Words
ASSUME EndsAssumption == Ends \subseteq Words
ASSUME RefreshesAssumption == Refreshes \in Nat \ {0}
ASSUME FilesAssumption ==
  \A f \in Files : DOMAIN f = DOMAIN Registers /\ \A r \in DOMAIN f : f[r] \subseteq 0..31

PageSize == 1024
PageOf(a) == a \div PageSize
MaxRow == 280

VARIABLES
  run,       \* the command line being carried out
  stage,     \* what the tool does next
  opened,    \* /dev/mem was opened
  mapped,    \* pages that are mapped
  count,     \* pages mapped for FPGA-status, then registers read or rows shown
  accesses,  \* [says, at]: the address an access stands for and the one it reaches
  bits,      \* bits of the register at this address the tool wrote
  shown,     \* lines FPGA-status shows
  printed    \* results, as a text or a code of -b: 1, -1 input error, -2 driver error

vars == <<run, stage, opened, mapped, count, accesses, bits, shown, printed>>

-----------------------------------------------------------------------------
\* A text is accepted or not, and its digits are read as a number all the same: a "0" or
\* an "x" and one more character are cut off before the check and not before the reading.
Texts ==
  [ok : {TRUE}, w : Offsets, odd : BOOLEAN] \cup
  {[ok |-> TRUE, w |-> 0, odd |-> FALSE]} \cup
  [ok : {FALSE}, w : Offsets, odd : {FALSE}]
EndTexts == [ok : {TRUE}, w : Ends, odd : BOOLEAN] \cup [ok : {FALSE}, w : {0}, odd : {FALSE}]
Values ==
  [kind : {"word", "wide", "bad"}] \cup
  [kind : {"bit"}, pos : {0, 31, 32, 33}, set : {0, 1, 2}]

Requests ==
  [tool : {"write"}, space : {"lw", "hf", "mpu", "gpo"}, text : Texts, value : Values] \cup
  [tool : {"read"}, space : {"lw", "hf", "mpu", "gpi"}, text : Texts, refresh : BOOLEAN] \cup
  [tool : {"dump"}, space : {"lw", "hf", "mpu"}, text : Texts, end : EndTexts] \cup
  [tool : {"status"}, space : {"status"}, file : Files]

\* LWHPSFPGA_OFST, HPSFPGA_OFST, GPO and GPI, and the last offset of the bridges.
Base(s) == CASE s = "lw" -> 1070071808 [] s = "hf" -> 805306368 [] OTHER -> 0
GeneralPurpose(s) == IF s = "gpo" THEN 1071388676 ELSE 1071388677
LastOffset(s) == CASE s = "lw" -> 524287 [] s = "hf" -> 251658239 [] OTHER -> AddressSpace - 1

Aligned(t) == t.ok /\ ~t.odd

ValueAccepted(v) ==
  IF v.kind = "bit" THEN v.pos <= 32 /\ v.set \in {0, 1} ELSE v.kind = "word"

\* -lw leaves address_space at that of the larger bridge.
WriteAccepted(q) ==
  /\ \/ q.space = "gpo"
     \/ Aligned(q.text) /\ q.text.w <= LastOffset(IF q.space = "lw" THEN "hf" ELSE q.space)
  /\ ValueAccepted(q.value)
\* -gpo: the address is computed once more, from the offset that was not given.
WriteAddress(q) == IF q.space = "gpo" THEN 0 ELSE Plus(Base(q.space), q.text.w)

\* Mutant of ReadAccepted: the lightweight bridge is checked as the larger one.
ReadAcceptedAsLarge(q) ==
  \/ q.space = "gpi"
  \/ Aligned(q.text) /\ q.text.w <= LastOffset(IF q.space = "lw" THEN "hf" ELSE q.space)

ReadAccepted(q) ==
  \/ q.space = "gpi"
  \/ Aligned(q.text) /\ q.text.w <= LastOffset(q.space)
ReadAddress(q) ==
  IF q.space = "gpi" THEN GeneralPurpose("gpi") ELSE Plus(Base(q.space), q.text.w)

\* One text that is accepted is enough.  -lw is checked as the whole address space.
DumpAccepted(q) ==
  /\ q.text.ok \/ q.end.ok
  /\ q.end.w <= MaxRow * 4 /\ ~q.end.odd /\ ~q.text.odd
  /\ q.space = "hf" => Plus(q.text.w, q.end.w) <= LastOffset("hf")

Accepted(q) ==
  \/ q.tool = "write" /\ WriteAccepted(q)
  \/ q.tool = "read" /\ ReadAccepted(q)
  \/ q.tool = "dump" /\ DumpAccepted(q)
  \/ q.tool = "status"
Address(q) == CASE q.tool = "write" -> WriteAddress(q)
                [] q.tool = "read" -> ReadAddress(q)
                [] OTHER -> Plus(Base(q.space), q.text.w)

-----------------------------------------------------------------------------
Init ==
  /\ run \in Requests /\ stage = "check" /\ opened = FALSE /\ mapped = {}
  /\ count = 0 /\ accesses = {} /\ bits = {} /\ shown = {} /\ printed = {}

Goto(s) == stage' = s
Finish(code) == Goto("done") /\ printed' = printed \cup code

Check ==
  /\ stage = "check"
  /\ IF Accepted(run) THEN Goto("open") /\ UNCHANGED printed ELSE Finish({-1})
  /\ UNCHANGED <<run, opened, mapped, count, accesses, bits, shown>>

\* A dump that cannot open the driver goes on to map it.
Open(works) ==
  /\ stage = "open" /\ opened' = works
  /\ IF works \/ run.tool = "dump" THEN Goto("map") /\ UNCHANGED printed ELSE Finish({-2})
  /\ UNCHANGED <<run, mapped, count, accesses, bits, shown>>

\* Mutant of Map: the result is not looked at.
MapAnyhow(works) ==
  /\ stage = "map" /\ run.tool # "status" /\ Goto("access")
  /\ mapped' = IF works /\ opened THEN {PageOf(Address(run))} ELSE {}
  /\ UNCHANGED <<run, opened, count, accesses, bits, shown, printed>>

\* The mapping starts with the page of the address; the kernel rounds its length up to
\* whole pages, and refuses one of no length or without a file.
Length == IF run.tool = "dump" THEN run.end.w ELSE 1
Map(works) ==
  /\ stage = "map" /\ run.tool # "status"
  /\ IF works /\ opened /\ Length > 0
     THEN /\ mapped' = PageOf(Address(run))..(PageOf(Address(run)) + (Length - 1) \div PageSize)
          /\ Goto("access") /\ UNCHANGED printed
     ELSE Finish({-2}) /\ UNCHANGED mapped
  /\ UNCHANGED <<run, opened, count, accesses, bits, shown>>

\* FPGA-status maps five pages, one after the other, and reads nothing before the last.
MapNext(works) ==
  /\ stage = "map" /\ run.tool = "status"
  /\ IF works
     THEN /\ mapped' = mapped \cup {PageOf(Registers[Maps[count + 1]])}
          /\ count' = (count + 1) % Len(Maps)
          /\ Goto(IF count' = 0 THEN "access" ELSE "map") /\ UNCHANGED printed
     ELSE Finish({-2}) /\ UNCHANGED <<mapped, count>>
  /\ UNCHANGED <<run, opened, accesses, bits, shown>>

Itself == {[says |-> Address(run), at |-> Address(run)]}

\* Mutant of Written: the register is set to the bit.
WrittenWhole(v) == {0..31}

\* 1 << 32 is undefined: no bit where the shift takes eight bits of the count, as on ARM,
\* bit 0 where it takes five.
Written(v) ==
  IF v.kind = "word" THEN {0..31} ELSE IF v.pos = 32 THEN {{}, {0}} ELSE {{v.pos}}
WriteRegister ==
  /\ stage = "access" /\ run.tool = "write" /\ Goto("unmap")
  /\ accesses' = Itself
  /\ bits' \in Written(run.value)
  /\ UNCHANGED <<run, opened, mapped, count, shown, printed>>

\* Mutant of ReadRegister: the refreshes are not counted.
ReadRegisterForever ==
  /\ stage = "access" /\ run.tool = "read"
  /\ accesses' = Itself
  /\ Goto(IF run.refresh THEN "access" ELSE "unmap")
  /\ UNCHANGED <<run, opened, mapped, count, bits, shown, printed>>

ReadRegister ==
  /\ stage = "access" /\ run.tool = "read"
  /\ accesses' = Itself
  /\ count' = count + 1
  /\ Goto(IF run.refresh /\ count' < Refreshes THEN "access" ELSE "unmap")
  /\ UNCHANGED <<run, opened, mapped, bits, shown, printed>>

\* A row is four words; its addresses are masked by the page and added to the mapping.
Reached(a) == PageOf(Address(run)) * PageSize + (a % PageSize)
ShowRow ==
  /\ stage = "access" /\ run.tool = "dump"
  /\ accesses' = {[says |-> a, at |-> Reached(a)] :
                    a \in {Plus(Address(run), 4 * count + i) : i \in 0..3}}
  /\ count' = count + 1
  /\ Goto(IF 4 * count' <= run.end.w THEN "access" ELSE "unmap")
  /\ UNCHANGED <<run, opened, mapped, bits, shown, printed>>

\* Each register is read by its own function, from the page mapped for its block.
ReadStatus ==
  /\ stage = "access" /\ run.tool = "status"
  /\ LET r == Readings[count + 1]
     IN  /\ accesses' = {[says |-> Registers[r.reg], at |-> Registers[r.reg]]}
         /\ shown' = shown \cup Shown(r, run.file[r.reg])
  /\ count' = count + 1
  /\ Goto(IF count' < Len(Readings) THEN "access" ELSE "unmap")
  /\ UNCHANGED <<run, opened, mapped, bits, printed>>

\* The mapping goes when the process ends, if not here; FPGA-status ignores what comes of it.
Unmap(works) ==
  /\ stage = "unmap" /\ mapped' = {}
  /\ Finish((IF works \/ run.tool = "status" THEN {} ELSE {-2}) \cup (IF run.tool = "write" THEN {1} ELSE {}))
  /\ UNCHANGED <<run, opened, count, accesses, bits, shown>>

Tool ==
  \/ Check
  \/ \E works \in BOOLEAN : Open(works) \/ Map(works) \/ MapNext(works) \/ Unmap(works)
  \/ WriteRegister \/ ReadRegister \/ ShowRow \/ ReadStatus
Next == Tool \/ (stage = "done" /\ UNCHANGED vars)

Spec == Init /\ [][Next]_vars /\ WF_vars(Tool)

-----------------------------------------------------------------------------
(* Properties.                                                             *)

TypeOK ==
  /\ run \in Requests
  /\ stage \in {"check", "open", "map", "access", "unmap", "done"}
  /\ opened \in BOOLEAN
  /\ \A p \in mapped : p \in Nat
  /\ count \in Nat
  /\ \A x \in accesses : x.says \in Words /\ x.at \in Words
  /\ bits \subseteq 0..31
  /\ \A line \in shown : \E i \in DOMAIN Readings : line[1] = Readings[i].name
  /\ printed \subseteq {-2, -1, 1}

InWindow(s, a) == CASE s \in {"gpo", "gpi"} -> a = GeneralPurpose(s)
                    [] s = "status" -> \E r \in DOMAIN Registers : a = Registers[r]
                    [] OTHER -> Base(s) <= a /\ a <= Base(s) + LastOffset(s)

\* What the tools reach that the user did not name: a write, or a dump, with -lw beyond
\* the lightweight bridge (writeBridge 196-206, dumpBridge 200-221), a dump with -hf whose
\* start and length wrap around (dumpBridge 191), and -gpo, which is address 0 (writeBridge 311).
Slips ==
  \/ run.tool \in {"write", "dump"} /\ run.space = "lw" /\ run.text.w > LastOffset("lw")
  \/ run.tool = "dump" /\ run.space = "hf" /\ run.text.w > LastOffset("hf")
  \/ run.space = "gpo"

\* A tool reaches nothing outside the bridge or register it was asked for, but for just these.
AccessInWindow == \A x \in accesses : InWindow(run.space, x.at) <=> ~Slips

\* dumpBridge 295-296 and 312-313: the words of a row are those at the address that is
\* shown for the row in the column "Address".
ShowsItsAddress == run.tool = "dump" => \A x \in accesses : x.at = x.says

\* No access leaves the pages that are mapped: the mask keeps a dump on the first of them,
\* whatever the length, and no tool goes on without a mapping (dumpBridge 267-320).
AccessesAreMapped ==
  stage # "done" => \A x \in accesses : PageOf(x.at) \in mapped

\* Code 1 is printed by a write that has written just the bits asked for, or by one of
\* bit 32, and a tool that prints an input error has not opened the driver (writeBridge 241-430).
ReportsWhatItDid ==
  /\ 1 \in printed =>
       IF run.value.kind = "word" THEN bits = 0..31
       ELSE IF run.value.pos = 32 THEN bits \subseteq {0} ELSE bits = {run.value.pos}
  /\ -1 \in printed => ~opened /\ bits = {}
  /\ bits # {} /\ stage = "done" => 1 \in printed

\* When FPGA-status ends it has shown a line as [Y] just if the bit of that line was set,
\* except that the SD/MMC line, whose bit is masked out, is always [N] (590, 276) and the
\* CAN line says what the dual-core line says (524); and nothing if a page was not mapped.
YesLines(f) ==
  {<<"indiv", b>> : b \in f["indiv"] \cap {0, 1, 2, 3, 4, 6, 7}} \cup
  {<<"module", b>> : b \in f["module"] \cap 0..3} \cup
  {<<"clock", b>> : b \in f["clock"] \cap {0, 2}} \cup
  {<<"gbl", b>> : b \in f["gbl"] \cap {0}} \cup
  {<<name, b>> : name \in {"can", "dualcore"}, b \in f["hpsinfo"] \cap {0}} \cup
  {<<w, 0>> : w \in {v \in {"wdt0", "wdt1"} : f[v] \cap {0, 1} = {0}}}
ShowsTheRegisters ==
  run.tool = "status" /\ stage = "done" =>
    {line \in shown : line[1] \notin {"msel", "state"}} =
      IF printed = {} THEN YesLines(run.file) ELSE {}

\* Every tool comes to its end, refreshing and row after row (readBridge 262-324, dumpBridge 301).
RunsEnd == <>(stage = "done")

=============================================================================
