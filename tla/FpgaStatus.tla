----------------------------- MODULE FpgaStatus -----------------------------
(***************************************************************************)
(* What FPGA-status reads and shows: the registers it takes, in the order  *)
(* of main, the bits it keeps of each, and the lines it makes of them.  A  *)
(* register is the set of its bits that are 1; addresses count words.      *)
(***************************************************************************)
EXTENDS Integers, Sequences

\* Registers by the word they are at: FPGA manager, system manager, watchdogs, clocks.
Registers ==
  [stat |-> 1071388672, silid |-> 1072963584, bootinfo |-> 1072963589, hpsinfo |-> 1072963590,
   gbl |-> 1072963592, indiv |-> 1072963593, module |-> 1072963594,
   wdt0 |-> 1072957440, wdt1 |-> 1072958464, clock |-> 1072959488]

\* The pages initMemRegs maps, by the register each begins with, in order.
Maps == <<"stat", "silid", "wdt0", "wdt1", "clock">>

\* What main reads, in order: the reading, its register and the bits its function keeps.
Reading(name, reg, bits) == [name |-> name, reg |-> reg, bits |-> bits]
Readings ==
  <<Reading("msel", "stat", 3..7), Reading("state", "stat", 0..2),
    Reading("bsel", "bootinfo", 0..2),
    Reading("can", "hpsinfo", {0}), Reading("dualcore", "hpsinfo", {0}),
    Reading("rev", "silid", 0..15), Reading("id", "silid", 16..31),
    Reading("wdt0", "wdt0", 0..31), Reading("wdt1", "wdt1", 0..31),
    Reading("gbl", "gbl", {0}), Reading("indiv", "indiv", 0..7),
    Reading("module", "module", 0..4), Reading("clock", "clock", 0..2)>>

-----------------------------------------------------------------------------
\* The lines shown with [Y], by reading and bit; a watchdog takes two bits.
IndivLines == {<<"indiv", b>> : b \in {0, 1, 2, 3, 4, 6, 7}}
ModuleLines == {<<"module", b>> : b \in {0, 1, 2, 3, 5}}
ClockLines == {<<"clock", b>> : b \in {0, 2}}
OtherLines == {<<"can", 0>>, <<"dualcore", 0>>, <<"gbl", 0>>}
WatchdogShown(value) == 0 \in value /\ 1 \notin value

\* Mutant of Kept: every mask is one bit too short.
KeptShort(r, value) == {b \in value \cap r.bits : b + 1 \in r.bits}

\* Value of the register as its reading keeps it.
Kept(r, value) == value \cap r.bits
LinesOf(r, value) ==
  IF r.name \in {"wdt0", "wdt1"}
  THEN IF WatchdogShown(Kept(r, value)) THEN {<<r.name, 0>>} ELSE {}
  ELSE {<<r.name, b>> : b \in Kept(r, value)}
         \cap (IndivLines \cup ModuleLines \cup ClockLines \cup OtherLines)

\* The codes that are shown with a text of their own: bits of the register that are set.
KnownMsel == {{}, {3}, {4}, {5}, {3, 5}, {4, 5}, {6}, {3, 6}, {4, 6}, {5, 6}, {3, 5, 6}, {4, 5, 6}}
KnownState == {{}, {0}, {1}, {0, 1}, {2}, {0, 2}}
CodesOf(r, value) ==
  CASE r.name = "msel" -> {<<"msel", Kept(r, value) \in KnownMsel>>}
    [] r.name = "state" -> {<<"state", Kept(r, value) \in KnownState>>}
    [] OTHER -> {}

Shown(r, value) == LinesOf(r, value) \cup CodesOf(r, value)

=============================================================================
