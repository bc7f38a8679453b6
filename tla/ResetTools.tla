----------------------------- MODULE ResetTools -----------------------------
(***************************************************************************)
(* FPGA-reset, and FPGA-writeConfig with the resets it ends with.  Both    *)
(* set and clear single bits of HPS registers by running FPGA-writeBridge  *)
(* -b as a child process, which reads the register, changes one bit and    *)
(* writes it back; FPGA-writeConfig takes and gives back control of the    *)
(* FPGA manager in the same two accesses, and its driver writes CTRL from  *)
(* a copy.  Nothing keeps two tools apart between the read and the write,  *)
(* and nobody looks at what the child returned.                            *)
(*                                                                         *)
(* A register is the set of its bits that are 1; of CTRL only EN, bit 0,   *)
(* and NCONFIGPULL, bit 2.  What the driver does to the other bits and to  *)
(* the fabric is in FpgaManager, and beside a fabric clear in FpgaBeside.  *)
(***************************************************************************)
EXTENDS Integers

CONSTANTS
  Tools,     \* processes that may run FPGA-reset or FPGA-writeConfig
  Uses,      \* Uses[p]: the resets the user asks of p, over all of its runs
  TakeTurns, \* users run no two tools at a time that write the same register
  MaxFaults  \* bound on kills, failing children and power losses

Resets == {"fwr", "fcr", "lwr", "hfr", "fhr"}
Ops == Resets \cup {"ffc"}
\* Mutant of ConfigResets: the loop over the bridges ends one too early.
ConfigResetsShort == {"fcr", "lwr", "hfr"}

ConfigResets == {"fcr", "lwr", "hfr", "fhr"}

\* "config" stands for FPGA-writeConfig.
ASSUME UsesAssumption == Uses \in [Tools -> SUBSET (Ops \cup {"config"})]
ASSUME TakeTurnsAssumption == TakeTurns \in BOOLEAN
ASSUME MaxFaultsAssumption == MaxFaults \in Nat

VARIABLES
  regs,    \* the registers
  mode,    \* STAT.MODE of the FPGA manager, as state2str numbers it
  kind,    \* which program each tool runs
  todo,    \* resets it has still to perform
  doing,   \* the one it performs, or "config"
  stage,   \* where in that reset it is
  res,     \* the configuration has succeeded
  loaded,  \* the child, or the tool itself, has read the register ...
  copy,    \* ... and this is what it read
  failed,  \* the run of a tool was killed, or a child of it failed
  faults   \* faults so far

toolVars == <<kind, todo, doing, stage, res, loaded, copy, failed>>
vars == <<regs, mode, toolVars, faults>>

\* FPGA manager CTRL, BRGMODRST and MISCMODRST.
Registers == {"ctl", "brg", "misc"}

ChildStages == {"set", "clear", "enable", "pull", "disable"}
WriteStages == ChildStages \cup {"take", "give"}
DriverWrites == {"step1", "step3", "step5", "step8", "step11"}
Stages == WriteStages \cup DriverWrites \cup
  {"idle", "next", "wait", "report", "check", "guard", "ctl_read", "step13", "over"}

TypeOK ==
  /\ regs \in [Registers -> SUBSET Nat]
  /\ mode \in 0..5
  /\ kind \in [Tools -> {"reset", "config"}]
  /\ todo \in [Tools -> SUBSET Ops]
  /\ doing \in [Tools -> Ops \cup {"config"}]
  /\ stage \in [Tools -> Stages]
  /\ res \in [Tools -> BOOLEAN]
  /\ loaded \in [Tools -> BOOLEAN]
  /\ copy \in [Tools -> SUBSET Nat]
  /\ failed \in [Tools -> BOOLEAN]
  /\ faults \in 0..MaxFaults

\* The fabric runs; the boot loader left the bridges all open or all in reset.
Init ==
  /\ \E bridges \in {{}, {0, 1, 2}} :
       regs = [r \in Registers |-> IF r = "brg" THEN bridges ELSE {}]
  /\ mode = 4
  /\ kind = [p \in Tools |-> "reset"]
  /\ todo = [p \in Tools |-> {}]
  /\ doing = [p \in Tools |-> "ffc"]
  /\ stage = [p \in Tools |-> "idle"]
  /\ res = [p \in Tools |-> FALSE]
  /\ loaded = [p \in Tools |-> FALSE]
  /\ copy = [p \in Tools |-> {}]
  /\ failed = [p \in Tools |-> FALSE]
  /\ faults = 0

\* The order in which main performs what the flags ask for.
Rank(k, o) ==
  IF k = "config"
  THEN CASE o = "lwr" -> 1 [] o = "hfr" -> 2 [] o = "fhr" -> 3 [] OTHER -> 4
  ELSE CASE o = "ffc" -> 1 [] o = "fwr" -> 2 [] o = "fcr" -> 3
         [] o = "lwr" -> 4 [] o = "hfr" -> 5 [] OTHER -> 6

\* Register a reset or the manager is controlled by, and the bit a reset toggles.
ResetReg(o) == IF o \in {"fwr", "fcr"} THEN "misc"
               ELSE IF o \in {"ffc", "config"} THEN "ctl" ELSE "brg"
\* Mutant of ResetBit: the bits are counted from one.
ResetBitFromOne(o) == CASE o = "fwr" -> 5 [] o = "fcr" -> 6
                        [] o = "lwr" -> 0 [] o = "hfr" -> -1 [] OTHER -> 1

ResetBit(o) == CASE o = "fwr" -> 6 [] o = "fcr" -> 7
                 [] o = "lwr" -> 1 [] o = "hfr" -> 0 [] OTHER -> 2

\* Mutant of TargetBit: every release was copied from that of bit 0.
TargetBitCopied(s, o) == IF s \in {"enable", "disable", "take", "give", "clear"} THEN 0
                         ELSE IF s = "pull" THEN 2 ELSE ResetBit(o)

\* Mutant of TargetBit: the last command of a fabric clear has the bit of the one before.
TargetBitRepeated(s, o) == IF s \in {"enable", "take", "give"} THEN 0
                           ELSE IF s \in {"pull", "disable"} THEN 2 ELSE ResetBit(o)

\* Bit that is written in a stage, what is made of it, and what comes after.
TargetBit(s, o) == IF s \in {"enable", "disable", "take", "give"} THEN 0
                   ELSE IF s \in {"pull", "step3", "step5"} THEN 2 ELSE ResetBit(o)
SetsBit(s) == s \in {"set", "enable", "pull", "take"}
After(s) == CASE s = "set" -> "wait"     [] s = "clear" -> "report"
              [] s = "enable" -> "pull"  [] s = "pull" -> "disable"
              [] s = "take" -> "guard"   [] s = "give" -> "over"
              [] OTHER -> "check"

Goto(p, s) == stage' = [stage EXCEPT ![p] = s]

Exit(p) ==
  /\ Goto(p, "idle")
  /\ kind' = [kind EXCEPT ![p] = "reset"]
  /\ doing' = [doing EXCEPT ![p] = "ffc"]
  /\ res' = [res EXCEPT ![p] = FALSE]

Fault ==
  /\ faults < MaxFaults
  /\ faults' = faults + 1

\* Registers that the run of a tool may still write.
InUse(p) ==
  IF kind[p] = "config" THEN Registers
  ELSE {ResetReg(o) : o \in todo[p] \cup IF stage[p] \in {"idle", "next"} THEN {} ELSE {doing[p]}}

\* No two tools have a register in use.
Apart == \A p, q \in Tools : p # q => InUse(p) \cap InUse(q) = {}

-----------------------------------------------------------------------------
\* The user runs a tool: FPGA-reset with some of its flags, or FPGA-writeConfig,
\* which first takes control of the FPGA manager (alt_fpga_control_enable).
Begin(p) ==
  /\ stage[p] = "idle"
  /\ \/ /\ \E flags \in SUBSET (Uses[p] \cap Ops) : todo' = [todo EXCEPT ![p] = flags]
        /\ Goto(p, "next")
        /\ UNCHANGED <<kind, doing>>
     \/ /\ "config" \in Uses[p]
        /\ kind' = [kind EXCEPT ![p] = "config"]
        /\ doing' = [doing EXCEPT ![p] = "config"]
        /\ Goto(p, "take")
        /\ UNCHANGED todo
  /\ TakeTurns => Apart'
  /\ failed' = [failed EXCEPT ![p] = FALSE]
  /\ UNCHANGED <<regs, mode, res, loaded, copy, faults>>

NextReset(p) ==
  /\ stage[p] = "next"
  /\ \E o \in todo[p] :
       /\ \A q \in todo[p] : Rank(kind[p], o) <= Rank(kind[p], q)
       /\ todo' = [todo EXCEPT ![p] = @ \ {o}]
       /\ doing' = [doing EXCEPT ![p] = o]
       /\ Goto(p, IF o = "ffc" THEN "enable" ELSE "set")
  /\ UNCHANGED <<regs, mode, kind, res, loaded, copy, failed, faults>>

\* FPGA-writeConfig gives control back whatever has become of the configuration.
GiveBack(p) ==
  /\ stage[p] = "next" /\ kind[p] = "config" /\ todo[p] = {}
  /\ doing' = [doing EXCEPT ![p] = "config"]
  /\ Goto(p, "give")
  /\ UNCHANGED <<regs, mode, kind, todo, res, loaded, copy, failed, faults>>

End(p) ==
  /\ \/ stage[p] = "next" /\ kind[p] = "reset" /\ todo[p] = {}
     \/ stage[p] = "over"
  /\ Exit(p)
  /\ failed' = [failed EXCEPT ![p] = FALSE]
  /\ UNCHANGED <<regs, mode, todo, loaded, copy, faults>>

-----------------------------------------------------------------------------
\* alt_fpga_configure, as far as EN and NCONFIGPULL go.  It is called for -f and -r,
\* and refuses to work without control or power.
Guard(p) ==
  /\ stage[p] = "guard"
  /\ \/ 0 \in regs["ctl"] /\ mode # 0 /\ Goto(p, "ctl_read")
     \/ Goto(p, "next")
  /\ UNCHANGED <<regs, mode, kind, todo, doing, res, loaded, copy, failed, faults>>

CtlRead(p) ==
  /\ stage[p] = "ctl_read"
  /\ loaded' = [loaded EXCEPT ![p] = TRUE]
  /\ copy' = [copy EXCEPT ![p] = regs["ctl"]]
  /\ Goto(p, "step1")
  /\ UNCHANGED <<regs, mode, kind, todo, doing, res, failed, faults>>

\* What ctrl_reg is changed to in the step, and the next step that writes it.
CtrlReg(p) == CASE stage[p] = "step3" -> copy[p] \cup {2}
                [] stage[p] = "step5" -> copy[p] \ {2}
                [] OTHER -> copy[p]
AfterDriver(s) == CASE s = "step1" -> "step3" [] s = "step3" -> "step5"
                    [] s = "step5" -> "step8" [] s = "step8" -> "step11" [] OTHER -> "step13"
DriverWrite(p) ==
  /\ stage[p] \in DriverWrites
  /\ regs' = [regs EXCEPT !["ctl"] = CtrlReg(p)]
  /\ copy' = [copy EXCEPT ![p] = CtrlReg(p)]
  /\ Goto(p, AfterDriver(stage[p]))
  /\ UNCHANGED <<mode, kind, todo, doing, res, loaded, failed, faults>>

\* The call returns: because MSEL is none of the known modes, Step 4 or 6 timed out,
\* or the data phase, Step 12 or 13 failed; or because the fabric runs.
DriverReturns(p) ==
  /\ \/ /\ stage[p] \in {"step1", "step8", "step13"}
        /\ UNCHANGED <<todo, res>>
     \/ /\ stage[p] = "step13" /\ mode = 4
        /\ todo' = [todo EXCEPT ![p] = ConfigResets]
        /\ res' = [res EXCEPT ![p] = TRUE]
  /\ loaded' = [loaded EXCEPT ![p] = FALSE]
  /\ copy' = [copy EXCEPT ![p] = {}]
  /\ Goto(p, "next")
  /\ UNCHANGED <<regs, mode, kind, doing, failed, faults>>

-----------------------------------------------------------------------------
\* FPGA-writeBridge -mpu <register> -b <bit> <value>, in its two accesses; and those
\* of alt_fpga_control_enable and alt_fpga_control_disable.
ChildRead(p) ==
  /\ stage[p] \in WriteStages
  /\ ~loaded[p]
  /\ loaded' = [loaded EXCEPT ![p] = TRUE]
  /\ copy' = [copy EXCEPT ![p] = regs[ResetReg(doing[p])]]
  /\ UNCHANGED <<regs, mode, kind, todo, doing, stage, res, failed, faults>>

\* Mutant of ChildWrite: the other bits of the register are written as zero.
ChildWriteAlone(p) ==
  /\ stage[p] \in WriteStages
  /\ loaded[p]
  /\ regs' = [regs EXCEPT ![ResetReg(doing[p])] =
                IF SetsBit(stage[p]) THEN {TargetBit(stage[p], doing[p])} ELSE {}]
  /\ loaded' = [loaded EXCEPT ![p] = FALSE]
  /\ copy' = [copy EXCEPT ![p] = {}]
  /\ Goto(p, After(stage[p]))
  /\ UNCHANGED <<mode, kind, todo, doing, res, failed, faults>>

\* Mutant of ChildWrite: the value argument of -b is taken as 1 whatever it is.
ChildWriteAlwaysSets(p) ==
  /\ stage[p] \in WriteStages
  /\ loaded[p]
  /\ regs' = [regs EXCEPT ![ResetReg(doing[p])] = copy[p] \cup {TargetBit(stage[p], doing[p])}]
  /\ loaded' = [loaded EXCEPT ![p] = FALSE]
  /\ copy' = [copy EXCEPT ![p] = {}]
  /\ Goto(p, After(stage[p]))
  /\ UNCHANGED <<mode, kind, todo, doing, res, failed, faults>>

ChildWrite(p) ==
  LET bit == TargetBit(stage[p], doing[p])
  IN  /\ stage[p] \in WriteStages
      /\ loaded[p]
      /\ regs' = [regs EXCEPT ![ResetReg(doing[p])] =
                    IF SetsBit(stage[p]) THEN copy[p] \cup {bit} ELSE copy[p] \ {bit}]
      /\ loaded' = [loaded EXCEPT ![p] = FALSE]
      /\ copy' = [copy EXCEPT ![p] = {}]
      /\ Goto(p, After(stage[p]))
      /\ UNCHANGED <<mode, kind, todo, doing, res, failed, faults>>

\* The child could not be run, could not open /dev/mem or map it, or was killed.
ChildFails(p) ==
  /\ stage[p] \in ChildStages
  /\ loaded' = [loaded EXCEPT ![p] = FALSE]
  /\ copy' = [copy EXCEPT ![p] = {}]
  /\ failed' = [failed EXCEPT ![p] = TRUE]
  /\ Fault
  /\ Goto(p, After(stage[p]))
  /\ UNCHANGED <<regs, mode, kind, todo, doing, res>>

\* The 50 ms for which the reset is held.
Wait(p) ==
  /\ stage[p] = "wait"
  /\ Goto(p, "clear")
  /\ UNCHANGED <<regs, mode, kind, todo, doing, res, loaded, copy, failed, faults>>

\* "[SUCCESS] Reset performed", whatever became of the children.
Report(p) ==
  /\ stage[p] = "report"
  /\ Goto(p, "next")
  /\ UNCHANGED <<regs, mode, kind, todo, doing, res, loaded, copy, failed, faults>>

\* !readState()==0x01 is (!readState())==1: it only tells state 0 from the rest.
ClearAccepted == mode # 0

\* The end of performFPGAfabricClear; main ignores what it returns.
Check(p) ==
  /\ stage[p] = "check"
  /\ Goto(p, "next")
  /\ UNCHANGED <<regs, mode, kind, todo, doing, res, loaded, copy, failed, faults>>

\* A tool is killed, with its child.
Kill(p) ==
  /\ stage[p] # "idle"
  /\ Exit(p)
  /\ failed' = [failed EXCEPT ![p] = TRUE]
  /\ todo' = [todo EXCEPT ![p] = {}]
  /\ loaded' = [loaded EXCEPT ![p] = FALSE]
  /\ copy' = [copy EXCEPT ![p] = {}]
  /\ Fault
  /\ UNCHANGED <<regs, mode>>

\* The fabric follows nCONFIG and its supply in its own time; while CTRL.EN is
\* 0 the board's pins drive nCONFIG, high or low.
FabricMoves ==
  /\ \/ /\ 2 \in regs["ctl"] \/ 0 \notin regs["ctl"]
        /\ mode \notin {0, 1} /\ mode' = 1
     \/ /\ 2 \notin regs["ctl"] \/ 0 \notin regs["ctl"]
        /\ mode \in 1..3 /\ mode' = mode + 1
     \/ mode = 0 /\ mode' = 5
     \/ mode = 5 /\ mode' = 1
  /\ UNCHANGED <<regs, toolVars, faults>>

PowerLoss ==
  /\ mode # 0
  /\ mode' = 0
  /\ Fault
  /\ UNCHANGED <<regs, toolVars>>

Run(p) ==
  \/ NextReset(p) \/ GiveBack(p) \/ End(p)
  \/ Guard(p) \/ CtlRead(p) \/ DriverWrite(p) \/ DriverReturns(p)
  \/ ChildRead(p) \/ ChildWrite(p) \/ ChildFails(p)
  \/ Wait(p) \/ Report(p) \/ Check(p)

Next ==
  \/ \E p \in Tools : Begin(p) \/ Run(p) \/ Kill(p)
  \/ FabricMoves \/ PowerLoss

\* A tool that runs is scheduled; users, kills and the fabric owe nothing.
Fairness == \A p \in Tools : WF_vars(Run(p))

Spec == Init /\ [][Next]_vars /\ Fairness

-----------------------------------------------------------------------------
HoldsReset(p) == ResetBit(doing[p]) \in regs[ResetReg(doing[p])]

\* Unless a child failed, a reset that is reported as performed was asserted when
\* its 50 ms began and when they ended, and has been released since.
ResetIsAPulse ==
  \A p \in Tools : ~failed[p] =>
    /\ (stage[p] \in {"wait", "clear"} => HoldsReset(p))
    /\ (stage[p] = "report" => ~HoldsReset(p))

\* A step changes no bit but the one its tool means to write: neither the resets of
\* other bridges nor a bit another tool wrote since the register was read.
OnlyItsBit ==
  [][\A r \in Registers, b \in 0..7 :
       ((b \in regs[r]) # (b \in regs[r]')) =>
         \E p \in Tools :
           /\ stage[p] \in WriteStages \cup {"step3", "step5"} /\ stage'[p] # stage[p]
           /\ ResetReg(doing[p]) = r /\ TargetBit(stage[p], doing[p]) = b]_vars

\* Unless a child failed, FPGA-reset -ffc ends with nCONFIG pulled and the HPS
\* no longer in control of the configuration block.
ClearHoldsConfig ==
  \A p \in Tools : (stage[p] = "check" /\ ~failed[p]) =>
    2 \in regs["ctl"] /\ 0 \notin regs["ctl"]

\* An FPGA-writeConfig that was not killed ends without control of the manager; if it
\* succeeded and no child failed, nCONFIG is released and fabric and bridges are out of
\* reset, whatever the boot loader or a tool that was killed had left asserted.
BackInService ==
  \A p \in Tools : stage[p] = "over" =>
    /\ 0 \notin regs["ctl"]
    /\ (res[p] /\ ~failed[p]) =>
         2 \notin regs["ctl"] /\ 7 \notin regs["misc"] /\ regs["brg"] \cap 0..2 = {}

\* A bridge or the fabric that is put into reset is let out of it again, unless
\* the tool is killed or a child fails.
ResetReleased ==
  \A p \in Tools :
    (stage[p] = "wait") ~>
      ((stage[p] = "report" /\ ~HoldsReset(p)) \/ failed[p])

\* FPGA-reset/main.cpp:120 and 130: success is only reported for a fabric that
\* is in reset state.
ClearMeansReset ==
  \A p \in Tools : (stage[p] = "check" /\ ClearAccepted /\ ~failed[p]) => mode = 1

=============================================================================
