-------------------------- MODULE ResetToolsProofs --------------------------
(***************************************************************************)
(* Theorems about ResetTools, for any number of tools, runs and faults.    *)
(* Tools are only kept apart by the registers they use, so all but the     *)
(* type theorem assume TakeTurns: nobody starts a tool while another uses  *)
(* a register it writes.  The run reset_shared shows what happens without. *)
(***************************************************************************)
EXTENDS ResetTools, TLAPS

ClearStages == {"enable", "pull", "disable", "check"}
ResetStages == {"set", "wait", "clear", "report"}
CopyStages == DriverWrites \cup {"step13"}
ConfigStages == CopyStages \cup {"take", "guard", "ctl_read", "give", "over"}

\* A tool does what it was asked for, and a configuration only has its own resets.
AskedFor(p) ==
  /\ stage[p] \in ClearStages => doing[p] = "ffc" /\ kind[p] = "reset"
  /\ stage[p] \in ResetStages => doing[p] \in Resets
  /\ stage[p] \in ConfigStages => doing[p] = "config" /\ kind[p] = "config"
  /\ stage[p] \in ConfigStages \cup {"idle"} => todo[p] = {}
  /\ stage[p] = "idle" => kind[p] = "reset"
  /\ kind[p] = "config" => todo[p] \subseteq ConfigResets
  /\ res[p] => kind[p] = "config" /\ stage[p] \in ResetStages \cup {"next", "give", "over"}

\* What a child, or the tool itself, has read is still what the register holds.
CopyIsFresh(p) ==
  /\ loaded[p] => stage[p] \in WriteStages \cup CopyStages
  /\ stage[p] \in CopyStages => loaded[p]
  /\ loaded[p] => copy[p] = regs[ResetReg(doing[p])]

\* What the commands of a reset and of a fabric clear have achieved so far.
Progress(p) == ~failed[p] =>
  /\ stage[p] \in {"wait", "clear"} => HoldsReset(p)
  /\ stage[p] = "report" => ~HoldsReset(p)
  /\ stage[p] \in {"disable", "check"} => 2 \in regs["ctl"]
  /\ stage[p] = "check" => 0 \notin regs["ctl"]

\* And those of a configuration: what is not to be reset any more is out of reset.
Released(o) == ResetBit(o) \notin regs[ResetReg(o)]
OutOfReset(p) ==
  /\ stage[p] \in {"step8", "step11", "step13"} => 2 \notin regs["ctl"]
  /\ stage[p] = "over" => 0 \notin regs["ctl"]
  /\ res[p] => 2 \notin regs["ctl"]
  /\ res[p] /\ ~failed[p] =>
       \A o \in ConfigResets :
         \/ o \in todo[p] \/ Released(o)
         \/ doing[p] = o /\ stage[p] \in {"set", "wait", "clear"}

ToolInv(p) == AskedFor(p) /\ CopyIsFresh(p) /\ Progress(p) /\ OutOfReset(p)

IInv == TypeOK /\ Apart /\ \A p \in Tools : ToolInv(p)

LEMMA TargetType ==
  ASSUME NEW s \in Stages, NEW o \in Ops \cup {"config"}
  PROVE  /\ ResetReg(o) \in Registers /\ TargetBit(s, o) \in Nat
         /\ o # "config" => ResetBit(o) \in Nat
BY DEF Ops, Resets, Registers, ResetReg, TargetBit, ResetBit

LEMMA AfterType ==
  ASSUME NEW s \in WriteStages
  PROVE  After(s) \in {"wait", "report", "pull", "disable", "check", "guard", "over"}
BY DEF WriteStages, ChildStages, After

\* The writes of a child and of the driver keep every variable in its type.
LEMMA WriteType ==
  ASSUME TypeOK, NEW p \in Tools, ChildWrite(p) \/ DriverWrite(p)
  PROVE  TypeOK'
<1>1. stage[p] \in Stages /\ doing[p] \in Ops \cup {"config"} /\ copy[p] \in SUBSET Nat
  BY DEF TypeOK
<1>2. TargetBit(stage[p], doing[p]) \in Nat
  BY <1>1, TargetType
<1>3. CASE ChildWrite(p)
  <2>1. copy[p] \cup {TargetBit(stage[p], doing[p])} \in SUBSET Nat
    BY <1>1, <1>2
  <2>2. copy[p] \ {TargetBit(stage[p], doing[p])} \in SUBSET Nat
    BY <1>1
  <2>3. regs' \in [Registers -> SUBSET Nat]
    BY <1>3, <2>1, <2>2 DEF ChildWrite, TypeOK
  <2>4. stage' \in [Tools -> Stages]
    BY <1>3, <1>1, AfterType DEF ChildWrite, Goto, TypeOK, Stages, WriteStages, ChildStages
  <2>. QED  BY <1>3, <2>3, <2>4 DEF ChildWrite, TypeOK
<1>4. CASE DriverWrite(p)
  <2>1. CtrlReg(p) \in SUBSET Nat
    BY <1>1 DEF CtrlReg
  <2>2. AfterDriver(stage[p]) \in Stages
    BY DEF AfterDriver, Stages, DriverWrites
  <2>. QED  BY <1>4, <2>1, <2>2 DEF DriverWrite, Goto, TypeOK
<1>. QED  BY <1>3, <1>4

LEMMA InitTypeOK == Init => TypeOK
BY MaxFaultsAssumption DEF Init, TypeOK, Registers, Ops, Stages

\* Steps of a tool that write no register.
Quiet(p) ==
  \/ Begin(p) \/ NextReset(p) \/ GiveBack(p) \/ End(p)
  \/ Guard(p) \/ CtlRead(p) \/ DriverReturns(p)
  \/ ChildRead(p) \/ ChildFails(p) \/ Wait(p) \/ Report(p) \/ Check(p) \/ Kill(p)

LEMMA NextSteps ==
  Next <=> \/ \E p \in Tools : Quiet(p) \/ ChildWrite(p) \/ DriverWrite(p)
           \/ FabricMoves \/ PowerLoss
BY DEF Next, Run, Quiet

LEMMA QuietType ==
  ASSUME TypeOK, NEW p \in Tools, Quiet(p)
  PROVE  TypeOK'
<1>1. CASE Begin(p)
  <2>1. \A flags \in SUBSET (Uses[p] \cap Ops) : flags \in SUBSET Ops
    BY UsesAssumption
  <2>2. todo' \in [Tools -> SUBSET Ops]
    BY <1>1, <2>1 DEF Begin, TypeOK
  <2>3. stage' \in [Tools -> Stages] /\ kind' \in [Tools -> {"reset", "config"}]
        /\ doing' \in [Tools -> Ops \cup {"config"}]
    BY <1>1 DEF Begin, Goto, TypeOK, Stages, WriteStages
  <2>. QED  BY <1>1, <2>2, <2>3 DEF Begin, TypeOK
<1>2. CASE NextReset(p) \/ GiveBack(p)
  BY <1>2
  DEF NextReset, GiveBack, Goto, TypeOK, Stages, WriteStages, ChildStages, Ops
<1>3. CASE End(p)
  BY <1>3 DEF End, Exit, Goto, TypeOK, Stages, Ops
<1>4. CASE Guard(p)
  BY <1>4 DEF Guard, Goto, TypeOK, Stages
<1>5. CASE CtlRead(p)
  BY <1>5 DEF CtlRead, Goto, TypeOK, Stages, Registers, DriverWrites
<1>6. CASE DriverReturns(p)
  <2>1. ConfigResets \in SUBSET Ops
    BY DEF ConfigResets, Ops, Resets
  <2>2. todo' \in [Tools -> SUBSET Ops] /\ res' \in [Tools -> BOOLEAN]
    BY <1>6, <2>1 DEF DriverReturns, TypeOK
  <2>3. /\ loaded' \in [Tools -> BOOLEAN] /\ copy' \in [Tools -> SUBSET Nat]
        /\ stage' \in [Tools -> Stages]
    BY <1>6 DEF DriverReturns, Goto, TypeOK, Stages
  <2>. QED  BY <1>6, <2>2, <2>3 DEF DriverReturns, TypeOK
<1>7. CASE ChildRead(p)
  <2>1. ResetReg(doing[p]) \in Registers
    BY TargetType DEF TypeOK
  <2>. QED  BY <1>7, <2>1 DEF ChildRead, TypeOK
<1>8. CASE ChildFails(p)
  BY <1>8, AfterType, MaxFaultsAssumption
  DEF ChildFails, Fault, Goto, TypeOK, Stages, WriteStages, ChildStages
<1>9. CASE Kill(p)
  BY <1>9, MaxFaultsAssumption DEF Kill, Exit, Fault, Goto, TypeOK, Stages, Ops
<1>10. CASE Wait(p) \/ Report(p) \/ Check(p)
  BY <1>10 DEF Wait, Report, Check, Goto, TypeOK, Stages, WriteStages, ChildStages
<1>. QED
  BY <1>1, <1>2, <1>3, <1>4, <1>5, <1>6, <1>7, <1>8, <1>9, <1>10 DEF Quiet

LEMMA NextTypeOK == TypeOK /\ [Next]_vars => TypeOK'
<1>. SUFFICES ASSUME TypeOK, [Next]_vars PROVE TypeOK'
  OBVIOUS
<1>1. CASE UNCHANGED vars
  BY <1>1 DEF vars, toolVars, TypeOK
<1>2. CASE FabricMoves
  BY <1>2 DEF FabricMoves, toolVars, TypeOK
<1>3. CASE PowerLoss
  BY <1>3, MaxFaultsAssumption DEF PowerLoss, Fault, toolVars, TypeOK
<1>. QED  BY <1>1, <1>2, <1>3, QuietType, WriteType, NextSteps

\* Every variable of the reset tools stays in its type.
THEOREM TypeCorrect == Spec => []TypeOK
BY InitTypeOK, NextTypeOK, PTL DEF Spec
-----------------------------------------------------------------------------
\* A register a tool works on, or has to leave as it is, is in use by it.
LEMMA UsedRegisters ==
  ASSUME TypeOK, NEW p \in Tools, AskedFor(p)
  PROVE  /\ stage[p] \notin {"idle", "next"} => ResetReg(doing[p]) \in InUse(p)
         /\ stage[p] \in ConfigStages \/ res[p] => InUse(p) = Registers
<1>1. ResetReg(doing[p]) \in Registers
  BY TargetType DEF TypeOK
<1>. QED  BY <1>1 DEF InUse, AskedFor

\* What is true of a tool stays true while its own variables do not change and
\* nobody writes a register of its.
LEMMA Frame ==
  ASSUME TypeOK, NEW p \in Tools, ToolInv(p),
         kind'[p] = kind[p], todo'[p] = todo[p], doing'[p] = doing[p],
         stage'[p] = stage[p], res'[p] = res[p], loaded'[p] = loaded[p],
         copy'[p] = copy[p], failed'[p] = failed[p],
         \A r \in InUse(p) : regs'[r] = regs[r]
  PROVE  ToolInv(p)'
<1>1. AskedFor(p)'
  BY DEF ToolInv, AskedFor
<1>2. stage[p] \notin {"idle", "next"} => regs'[ResetReg(doing[p])] = regs[ResetReg(doing[p])]
  BY UsedRegisters DEF ToolInv
<1>3. CopyIsFresh(p)'
  BY <1>2
  DEF ToolInv, CopyIsFresh, WriteStages, ChildStages, CopyStages, DriverWrites
<1>4. Progress(p)'
  <2>1. stage[p] \in ClearStages => ResetReg(doing[p]) = "ctl"
    BY DEF ToolInv, AskedFor, ResetReg
  <2>. QED
    BY <1>2, <2>1 DEF ToolInv, Progress, HoldsReset, ClearStages
<1>5. OutOfReset(p)'
  <2>1. CASE stage[p] \in ConfigStages \/ res[p]
    <3>1. InUse(p) = Registers
      BY <2>1, UsedRegisters DEF ToolInv
    <3>2. regs'["ctl"] = regs["ctl"]
      BY <3>1 DEF Registers
    <3>3. \A o \in ConfigResets : Released(o) => Released(o)'
      BY <3>1 DEF Released, Registers, ResetReg, ConfigResets
    <3>. QED  BY <3>2, <3>3 DEF ToolInv, OutOfReset
  <2>2. CASE ~(stage[p] \in ConfigStages \/ res[p])
    BY <2>2 DEF OutOfReset, ConfigStages, CopyStages, DriverWrites
  <2>. QED  BY <2>1, <2>2
<1>. QED  BY <1>1, <1>3, <1>4, <1>5 DEF ToolInv

\* Steps of a tool that write no register.
LEMMA QuietStep ==
  ASSUME IInv, NEW p \in Tools, Quiet(p)
  PROVE  ToolInv(p)'
<1>. USE DEF ToolInv, AskedFor, CopyIsFresh, Progress, OutOfReset, Released,
             ClearStages, ResetStages, ConfigStages, CopyStages, DriverWrites,
             WriteStages, ChildStages
<1>1. ToolInv(p) /\ TypeOK
  BY DEF IInv
<1>2. CASE Begin(p)
  BY <1>1, <1>2 DEF Begin, Goto, TypeOK
<1>3. CASE NextReset(p)
  BY <1>1, <1>3 DEF NextReset, Goto, TypeOK, Ops, Resets, ConfigResets
<1>4. CASE GiveBack(p)
  BY <1>1, <1>4 DEF GiveBack, Goto, TypeOK
<1>5. CASE End(p)
  BY <1>1, <1>5 DEF End, Exit, Goto, TypeOK
<1>6. CASE Guard(p)
  BY <1>1, <1>6 DEF Guard, Goto, TypeOK
<1>7. CASE CtlRead(p)
  BY <1>1, <1>7 DEF CtlRead, Goto, TypeOK, ResetReg
<1>8. CASE DriverReturns(p)
  BY <1>1, <1>8 DEF DriverReturns, Goto, TypeOK
<1>9. CASE ChildRead(p)
  BY <1>1, <1>9 DEF ChildRead, TypeOK, HoldsReset
<1>10. CASE ChildFails(p)
  BY <1>1, <1>10 DEF ChildFails, Goto, After, TypeOK
<1>11. CASE Wait(p) \/ Report(p) \/ Check(p)
  BY <1>1, <1>11 DEF Wait, Report, Check, Goto, TypeOK, HoldsReset
<1>12. CASE Kill(p)
  BY <1>1, <1>12 DEF Kill, Exit, Goto, TypeOK
<1>. QED
  BY <1>2, <1>3, <1>4, <1>5, <1>6, <1>7, <1>8, <1>9, <1>10, <1>11, <1>12 DEF Quiet

\* The write of a child or of the control commands, for the tool that runs it.
LEMMA WriteStep ==
  ASSUME IInv, NEW p \in Tools, ChildWrite(p)
  PROVE  ToolInv(p)'
<1> DEFINE r == ResetReg(doing[p])
           b == TargetBit(stage[p], doing[p])
<1>1. ToolInv(p) /\ TypeOK /\ stage[p] \in WriteStages /\ loaded[p] /\ r \in Registers
  BY TargetType DEF IInv, ChildWrite, TypeOK
<1>2. /\ regs' = [regs EXCEPT ![r] = IF SetsBit(stage[p]) THEN regs[r] \cup {b}
                                                          ELSE regs[r] \ {b}]
      /\ kind'[p] = kind[p] /\ doing'[p] = doing[p] /\ todo'[p] = todo[p]
      /\ res'[p] = res[p] /\ failed'[p] = failed[p]
      /\ stage'[p] = After(stage[p]) /\ ~loaded'[p]
  BY <1>1 DEF ChildWrite, Goto, TypeOK, ToolInv, CopyIsFresh
<1>3. regs'[r] = IF SetsBit(stage[p]) THEN regs[r] \cup {b} ELSE regs[r] \ {b}
  BY <1>1, <1>2 DEF TypeOK
<1>4. AskedFor(p)'
  BY <1>1, <1>2
  DEF ToolInv, AskedFor, After, WriteStages, ChildStages, ClearStages, ResetStages,
      ConfigStages, CopyStages, DriverWrites
<1>5. CopyIsFresh(p)'
  BY <1>1, <1>2 DEF CopyIsFresh, After, WriteStages, ChildStages, CopyStages, DriverWrites
<1>6. Progress(p)'
  <2>1. CASE stage[p] \in {"set", "clear"}
    <3>1. b = ResetBit(doing[p])
      BY <2>1 DEF TargetBit
    <3>2. ResetBit(doing[p]) \in regs'[r] <=> stage[p] = "set"
      BY <1>3, <2>1, <3>1 DEF SetsBit
    <3>3. HoldsReset(p)' <=> stage[p] = "set"
      BY <1>2, <3>2 DEF HoldsReset
    <3>4. stage'[p] = IF stage[p] = "set" THEN "wait" ELSE "report"
      BY <1>2, <2>1 DEF After
    <3>. QED  BY <3>3, <3>4 DEF Progress
  <2>2. CASE stage[p] \in {"enable", "pull", "disable"}
    <3>1. r = "ctl"
      BY <1>1, <2>2 DEF ToolInv, AskedFor, ResetReg, ClearStages
    <3>. QED
      BY <1>1, <1>2, <1>3, <2>2, <3>1 DEF ToolInv, Progress, After, SetsBit, TargetBit
  <2>3. CASE stage[p] \in {"take", "give"}
    BY <1>2, <2>3 DEF Progress, After
  <2>. QED  BY <1>1, <2>1, <2>2, <2>3 DEF WriteStages, ChildStages
<1>7. OutOfReset(p)'
  <2>1. stage'[p] \notin {"step8", "step11", "step13"}
    BY <1>1, <1>2 DEF After, WriteStages, ChildStages
  <2>2. stage'[p] = "over" => 0 \notin regs'["ctl"]
    <3>1. stage'[p] = "over" => stage[p] = "give"
      BY <1>1, <1>2 DEF After, WriteStages, ChildStages
    <3>2. stage[p] = "give" => r = "ctl" /\ b = 0 /\ ~SetsBit(stage[p])
      BY <1>1 DEF ToolInv, AskedFor, ConfigStages, ResetReg, TargetBit, SetsBit
    <3>. QED  BY <1>3, <3>1, <3>2
  <2>3. res[p] => stage[p] \in {"set", "clear", "give"} /\ doing[p] # "ffc"
    BY <1>1
    DEF ToolInv, AskedFor, WriteStages, ChildStages, ResetStages, ConfigStages, Resets
  <2>4. res[p] => 2 \notin regs'["ctl"]
    <3>1. res[p] /\ r = "ctl" => stage[p] = "give"
      BY <1>1, <2>3 DEF ToolInv, AskedFor, ResetStages, ResetReg, Resets
    <3>2. stage[p] = "give" => ~SetsBit(stage[p])
      BY DEF SetsBit
    <3>3. r # "ctl" => regs'["ctl"] = regs["ctl"]
      BY <1>1, <1>2 DEF TypeOK, Registers
    <3>. QED  BY <1>1, <1>3, <3>1, <3>2, <3>3 DEF ToolInv, OutOfReset
  <2>5. ASSUME res[p], ~failed[p], NEW o \in ConfigResets
        PROVE  \/ o \in todo'[p] \/ Released(o)'
               \/ doing'[p] = o /\ stage'[p] \in {"set", "wait", "clear"}
    <3>1. ResetReg(o) \in Registers \ {"ctl"} /\ ResetBit(o) \in Nat
      BY DEF ConfigResets, ResetReg, ResetBit, Registers
    <3>2. CASE doing[p] = o
      <4>1. stage[p] \in {"set", "clear"} /\ b = ResetBit(o)
        BY <1>1, <2>3, <2>5, <3>2
        DEF TargetBit, ConfigResets, ToolInv, AskedFor, ConfigStages
      <4>. QED  BY <1>2, <1>3, <3>2, <4>1 DEF After, SetsBit, Released
    <3>3. CASE doing[p] # o
      <4>1. Released(o) => Released(o)'
        <5>1. CASE r # ResetReg(o)
          BY <1>1, <1>2, <3>1, <5>1 DEF Released, TypeOK
        <5>2. CASE r = ResetReg(o)
          <6>1. doing[p] \in Resets /\ stage[p] \in {"set", "clear"}
            BY <1>1, <2>3, <2>5, <3>1, <5>2
            DEF ToolInv, AskedFor, ResetStages, ConfigStages, ResetReg
          <6>2. b # ResetBit(o)
            BY <3>3, <5>2, <6>1 DEF TargetBit, ResetBit, ResetReg, Resets, ConfigResets
          <6>. QED  BY <1>3, <5>2, <6>2 DEF Released
        <5>. QED  BY <5>1, <5>2
      <4>. QED  BY <1>1, <1>2, <2>5, <3>3, <4>1 DEF ToolInv, OutOfReset
    <3>. QED  BY <3>2, <3>3
  <2>. QED  BY <1>2, <2>1, <2>2, <2>4, <2>5 DEF OutOfReset
<1>. QED  BY <1>4, <1>5, <1>6, <1>7 DEF ToolInv

\* A write of the driver, for the tool it runs in.
LEMMA DriverStep ==
  ASSUME IInv, NEW p \in Tools, DriverWrite(p)
  PROVE  ToolInv(p)'
<1>1. /\ ToolInv(p) /\ TypeOK /\ stage[p] \in DriverWrites /\ loaded[p]
      /\ doing[p] = "config" /\ ~res[p] /\ copy[p] = regs["ctl"]
  BY DEF IInv, ToolInv, AskedFor, CopyIsFresh, DriverWrite, CopyStages, ConfigStages,
         ResetStages, DriverWrites, ResetReg
<1>2. /\ regs'["ctl"] = CtrlReg(p) /\ copy'[p] = CtrlReg(p)
      /\ kind'[p] = kind[p] /\ doing'[p] = doing[p] /\ todo'[p] = todo[p]
      /\ res'[p] = res[p] /\ failed'[p] = failed[p] /\ loaded'[p] = loaded[p]
      /\ stage'[p] = AfterDriver(stage[p])
  BY <1>1 DEF DriverWrite, Goto, TypeOK, Registers
<1>3. stage'[p] \in CopyStages
  BY <1>1, <1>2 DEF AfterDriver, CopyStages, DriverWrites
<1>4. AskedFor(p)'
  BY <1>1, <1>2, <1>3
  DEF ToolInv, AskedFor, ConfigStages, CopyStages, DriverWrites, ClearStages, ResetStages
<1>5. CopyIsFresh(p)'
  BY <1>1, <1>2, <1>3 DEF CopyIsFresh, ResetReg
<1>6. Progress(p)'
  BY <1>3 DEF Progress, CopyStages, DriverWrites
<1>7. OutOfReset(p)'
  <2>1. stage'[p] = "step8" => stage[p] = "step5"
    BY <1>1, <1>2 DEF AfterDriver, DriverWrites
  <2>2. stage'[p] \in {"step11", "step13"} => stage[p] \in {"step8", "step11"}
    BY <1>1, <1>2 DEF AfterDriver, DriverWrites
  <2>3. stage'[p] # "over"
    BY <1>3 DEF CopyStages, DriverWrites
  <2>. QED
    BY <1>1, <1>2, <2>1, <2>2, <2>3 DEF ToolInv, OutOfReset, CtrlReg
<1>. QED  BY <1>4, <1>5, <1>6, <1>7 DEF ToolInv

\* The one register that a write of a tool changes, which is one it uses.
LEMMA WritesItsRegister ==
  ASSUME IInv, NEW p \in Tools, ChildWrite(p) \/ DriverWrite(p)
  PROVE  /\ ResetReg(doing[p]) \in Registers \cap InUse(p)
         /\ \A r \in Registers : r # ResetReg(doing[p]) => regs'[r] = regs[r]
<1>1. ResetReg(doing[p]) \in InUse(p)
  BY UsedRegisters
  DEF IInv, ToolInv, ChildWrite, DriverWrite, WriteStages, ChildStages, DriverWrites
<1>2. ResetReg(doing[p]) \in Registers
  BY TargetType DEF IInv, TypeOK
<1>3. DriverWrite(p) => ResetReg(doing[p]) = "ctl"
  BY DEF IInv, ToolInv, AskedFor, DriverWrite, ConfigStages, CopyStages, ResetReg
<1>4. \A r \in Registers : r # ResetReg(doing[p]) => regs'[r] = regs[r]
  BY <1>2, <1>3 DEF ChildWrite, DriverWrite, IInv, TypeOK
<1>. QED  BY <1>1, <1>2, <1>4

\* A run never comes to use a register that it did not use from its beginning.
LEMMA InUseShrinks ==
  ASSUME IInv, NEW p \in Tools,
         (Quiet(p) /\ ~Begin(p)) \/ ChildWrite(p) \/ DriverWrite(p)
  PROVE  InUse(p)' \subseteq InUse(p)
<1>1. AskedFor(p) /\ TypeOK
  BY DEF IInv, ToolInv
<1>2. CASE NextReset(p)
  BY <1>1, <1>2 DEF NextReset, Goto, TypeOK, InUse
<1>3. CASE End(p) \/ Kill(p)
  BY <1>1, <1>3 DEF End, Kill, Exit, Goto, TypeOK, InUse, AskedFor, ConfigStages
<1>4. CASE GiveBack(p) \/ Guard(p) \/ CtlRead(p) \/ DriverReturns(p) \/ DriverWrite(p)
  <2>1. kind[p] = "config"
    BY <1>1, <1>4
    DEF GiveBack, Guard, CtlRead, DriverReturns, DriverWrite, AskedFor, ConfigStages,
        CopyStages, DriverWrites
  <2>2. kind' = kind
    BY <1>4 DEF GiveBack, Guard, CtlRead, DriverReturns, DriverWrite
  <2>. QED  BY <2>1, <2>2 DEF InUse
<1>5. CASE ChildRead(p) \/ ChildWrite(p) \/ ChildFails(p) \/ Wait(p) \/ Report(p) \/ Check(p)
  <2>1. stage[p] \notin {"idle", "next"} /\ kind' = kind /\ todo' = todo /\ doing' = doing
    BY <1>5
    DEF ChildRead, ChildWrite, ChildFails, Wait, Report, Check, WriteStages, ChildStages
  <2>. QED  BY <2>1 DEF InUse
<1>. QED  BY <1>2, <1>3, <1>4, <1>5 DEF Quiet

\* Tools that take turns use different registers, from one step to the next.
LEMMA NextApart ==
  ASSUME TakeTurns, IInv, [Next]_vars
  PROVE  Apart'
<1>1. ASSUME \A p \in Tools : InUse(p)' \subseteq InUse(p)
      PROVE  Apart'
  BY <1>1 DEF IInv, Apart
<1>2. CASE UNCHANGED toolVars
  BY <1>1, <1>2 DEF toolVars, InUse
<1>3. ASSUME NEW p \in Tools, Quiet(p) \/ ChildWrite(p) \/ DriverWrite(p)
      PROVE  Apart'
  <2>1. CASE Begin(p)
    BY <2>1 DEF Begin
  <2>2. CASE ~Begin(p)
    <3>1. InUse(p)' \subseteq InUse(p)
      BY <1>3, <2>2, InUseShrinks
    <3>2. ASSUME NEW q \in Tools, q # p
          PROVE  InUse(q)' \subseteq InUse(q)
      <4>1. kind'[q] = kind[q] /\ todo'[q] = todo[q] /\ doing'[q] = doing[q]
            /\ stage'[q] = stage[q]
        BY <1>3, <3>2
        DEF IInv, TypeOK, Quiet, Begin, NextReset, GiveBack, End, Exit, Guard, CtlRead,
            DriverReturns, DriverWrite, ChildRead, ChildWrite, ChildFails, Wait, Report,
            Check, Kill, Goto
      <4>. QED  BY <4>1 DEF InUse
    <3>. QED  BY <1>1, <3>1, <3>2
  <2>. QED  BY <2>1, <2>2
<1>. QED
  BY <1>2, <1>3, NextSteps DEF FabricMoves, PowerLoss, vars

LEMMA InitIInv == Init => IInv
<1>1. Init => Apart
  BY DEF Init, Apart, InUse
<1>. QED
  BY <1>1, InitTypeOK
  DEF Init, IInv, ToolInv, AskedFor, CopyIsFresh, Progress, OutOfReset,
      ClearStages, ResetStages, ConfigStages, CopyStages, DriverWrites

LEMMA NextIInv ==
  ASSUME TakeTurns, IInv, [Next]_vars
  PROVE  IInv'
<1>1. TypeOK'
  BY NextTypeOK DEF IInv
<1>2. ASSUME UNCHANGED <<regs, toolVars>>
      PROVE  \A p \in Tools : ToolInv(p)'
  BY <1>2, Frame DEF IInv, toolVars
<1>3. ASSUME NEW p \in Tools, Quiet(p)
      PROVE  \A q \in Tools : ToolInv(q)'
  <2>. TAKE q \in Tools
  <2>1. CASE q = p
    BY <1>3, <2>1, QuietStep
  <2>2. CASE q # p
    <3>1. /\ regs' = regs /\ kind'[q] = kind[q]
          /\ todo'[q] = todo[q] /\ doing'[q] = doing[q] /\ stage'[q] = stage[q]
          /\ res'[q] = res[q] /\ loaded'[q] = loaded[q] /\ copy'[q] = copy[q]
          /\ failed'[q] = failed[q]
      BY <1>3, <2>2
      DEF IInv, TypeOK, Quiet, Begin, NextReset, GiveBack, End, Exit, Guard, CtlRead,
          DriverReturns, ChildRead, ChildFails, Wait, Report, Check, Kill, Goto
    <3>. QED  BY <3>1, Frame DEF IInv
  <2>. QED  BY <2>1, <2>2
<1>4. ASSUME NEW p \in Tools, ChildWrite(p) \/ DriverWrite(p)
      PROVE  \A q \in Tools : ToolInv(q)'
  <2>. TAKE q \in Tools
  <2>1. CASE q = p
    BY <1>4, <2>1, WriteStep, DriverStep
  <2>2. CASE q # p
    <3>1. /\ kind'[q] = kind[q] /\ todo'[q] = todo[q] /\ doing'[q] = doing[q]
          /\ stage'[q] = stage[q] /\ res'[q] = res[q] /\ loaded'[q] = loaded[q]
          /\ copy'[q] = copy[q] /\ failed'[q] = failed[q]
      BY <1>4, <2>2 DEF IInv, TypeOK, ChildWrite, DriverWrite, Goto
    <3>2. InUse(q) \cap InUse(p) = {}
      BY <2>2 DEF IInv, Apart
    <3>3. InUse(q) \subseteq Registers
      BY UsesAssumption, TargetType
      DEF IInv, TypeOK, InUse, Registers, ResetReg
    <3>4. \A r \in InUse(q) : regs'[r] = regs[r]
      BY <1>4, <3>2, <3>3, WritesItsRegister
    <3>. QED  BY <3>1, <3>4, Frame DEF IInv
  <2>. QED  BY <2>1, <2>2
<1>. QED
  BY <1>1, <1>2, <1>3, <1>4, NextSteps, NextApart
  DEF IInv, FabricMoves, PowerLoss, vars

\* Tools that take turns at each register do not disturb each
\* other: every reset reported as performed was one (performHPStoFPGAReset).
THEOREM ResetsArePulses ==
  ASSUME TakeTurns
  PROVE  Spec => []ResetIsAPulse
<1>1. IInv => ResetIsAPulse
  BY DEF IInv, ToolInv, Progress, ResetIsAPulse
<1>2. IInv /\ [Next]_vars => IInv'
  BY NextIInv
<1>. QED  BY <1>1, <1>2, InitIInv, PTL DEF Spec

\* Where tools take turns at CTRL, FPGA-writeConfig among them, a fabric clear none
\* of whose children failed ends with nCONFIG pulled and the manager out of control
\* of the fabric (performFPGAfabricClear).
THEOREM ClearsHoldConfig ==
  ASSUME TakeTurns
  PROVE  Spec => []ClearHoldsConfig
<1>1. IInv => ClearHoldsConfig
  BY DEF IInv, ToolInv, Progress, ClearHoldsConfig
<1>2. IInv /\ [Next]_vars => IInv'
  BY NextIInv
<1>. QED  BY <1>1, <1>2, InitIInv, PTL DEF Spec

\* Where tools take turns at each register, an FPGA-writeConfig gives CTRL back, and one
\* that succeeded with all its children leaves nCONFIG, fabric and bridges released,
\* whatever tools and kills came before it (main and writeFPGAconfig).
THEOREM ConfigEndsInService ==
  ASSUME TakeTurns
  PROVE  Spec => []BackInService
<1>1. IInv => BackInService
  <2>. SUFFICES ASSUME IInv, NEW p \in Tools, stage[p] = "over"
                PROVE  /\ 0 \notin regs["ctl"]
                       /\ (res[p] /\ ~failed[p]) =>
                            /\ 2 \notin regs["ctl"] /\ 7 \notin regs["misc"]
                            /\ regs["brg"] \cap 0..2 = {}
    BY DEF BackInService
  <2>1. OutOfReset(p) /\ todo[p] = {}
    BY DEF IInv, ToolInv, AskedFor, ConfigStages
  <2>2. ASSUME res[p], ~failed[p], NEW o \in ConfigResets
        PROVE  Released(o)
    BY <2>1, <2>2 DEF OutOfReset
  <2>3. ASSUME res[p], ~failed[p]
        PROVE  7 \notin regs["misc"] /\ 1 \notin regs["brg"]
               /\ 0 \notin regs["brg"] /\ 2 \notin regs["brg"]
    <3>1. Released("fcr") /\ Released("lwr") /\ Released("hfr") /\ Released("fhr")
      BY <2>2, <2>3 DEF ConfigResets
    <3>. QED  BY <3>1 DEF Released, ResetBit, ResetReg
  <2>4. 0..2 = {0, 1, 2}
    OBVIOUS
  <2>. QED  BY <2>1, <2>3, <2>4 DEF OutOfReset
<1>2. IInv /\ [Next]_vars => IInv'
  BY NextIInv
<1>. QED  BY <1>1, <1>2, InitIInv, PTL DEF Spec

\* And no step of theirs changes a bit it was not asked to change.
THEOREM NoLostUpdate ==
  ASSUME TakeTurns
  PROVE  Spec => OnlyItsBit
<1> DEFINE Touches(r, b) ==
      \E p \in Tools :
        /\ stage[p] \in WriteStages \cup {"step3", "step5"} /\ stage'[p] # stage[p]
        /\ ResetReg(doing[p]) = r /\ TargetBit(stage[p], doing[p]) = b
<1>1. ASSUME IInv, [Next]_vars, NEW r \in Registers, NEW b \in 0..7,
             (b \in regs[r]) # (b \in regs[r]')
      PROVE  Touches(r, b)
  <2>1. PICK p \in Tools : ChildWrite(p) \/ DriverWrite(p)
    <3>1. regs' # regs
      BY <1>1
    <3>. QED
      BY <1>1, <3>1, NextSteps
      DEF vars, FabricMoves, PowerLoss, Quiet, Begin, NextReset, GiveBack, End, Guard,
          CtlRead, DriverReturns, ChildRead, ChildFails, Wait, Report, Check, Kill
  <2>2. /\ ResetReg(doing[p]) = r /\ loaded[p] /\ copy[p] = regs[r]
        /\ stage[p] \in Stages
    <3>1. loaded[p]
      BY <1>1, <2>1 DEF ChildWrite, DriverWrite, IInv, ToolInv, CopyIsFresh, CopyStages
    <3>. QED
      BY <1>1, <2>1, <3>1, WritesItsRegister DEF IInv, ToolInv, CopyIsFresh, TypeOK
  <2>3. CASE ChildWrite(p)
    <3>1. stage[p] \in WriteStages /\ TargetBit(stage[p], doing[p]) = b
      BY <1>1, <2>2, <2>3 DEF ChildWrite, IInv, TypeOK
    <3>2. stage'[p] # stage[p]
      BY <1>1, <2>3 DEF ChildWrite, Goto, After, WriteStages, ChildStages, IInv, TypeOK
    <3>. QED  BY <2>2, <3>1, <3>2
  <2>4. CASE DriverWrite(p)
    <3>1. r = "ctl" /\ regs'[r] = CtrlReg(p)
      BY <1>1, <2>2, <2>4
      DEF DriverWrite, IInv, ToolInv, AskedFor, TypeOK, ConfigStages, CopyStages, ResetReg,
          Registers
    <3>2. stage[p] \in {"step3", "step5"} /\ b = 2
      BY <1>1, <2>2, <3>1 DEF CtrlReg
    <3>3. stage'[p] # stage[p] /\ TargetBit(stage[p], doing[p]) = b
      BY <1>1, <2>4, <3>2 DEF DriverWrite, Goto, AfterDriver, TargetBit, IInv, TypeOK
    <3>. QED  BY <2>2, <3>2, <3>3
  <2>. QED  BY <2>1, <2>3, <2>4
<1>2. IInv /\ [Next]_vars => IInv'
  BY NextIInv
<1>3. IInv /\ [Next]_vars =>
        \A r \in Registers, b \in 0..7 :
          ((b \in regs[r]) # (b \in regs[r]')) => Touches(r, b)
  BY <1>1
<1>. QED  BY <1>2, <1>3, InitIInv, PTL DEF Spec, OnlyItsBit

=============================================================================
