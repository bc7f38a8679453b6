------------------------- MODULE FpgaManagerProofs -------------------------
(***************************************************************************)
(* Theorems about FpgaManager, for every set of tools, every image size    *)
(* and every timeout.                                                      *)
(***************************************************************************)
EXTENDS FpgaManager, TLAPS

\* The buffer handed to writeaxi, and what is left of data_limit beside it.
BeforeData ==
  Locations \ {"step9", "axi", "step10", "step11", "dclk_stat", "dclk_clear",
               "dclk_count", "dclk_poll", "dclk_ack", "step13"}

BufferInv ==
  \A p \in Tools :
    /\ left[p] <= len[p]
    /\ pc[p] \in BeforeData => base[p] = 0 /\ len[p] = 0
    /\ At(p, "step9") =>
         /\ limit[p] + base[p] + len[p] = DataLimit
         /\ job[p].op = "configure" => base[p] = 0 /\ len[p] = 0
    /\ At(p, "axi") =>
         /\ limit[p] + base[p] = DataLimit
         /\ len[p] <= limit[p]

TypeInv == TypeOK /\ BufferInv

LEMMA RatioType ==
  ASSUME NEW m \in Nat
  PROVE  CdRatio(m) \in CdRatios /\ CfgWidth(m) \in {16, 32}
BY DEF CdRatios, CdRatio, CfgWidth

LEMMA BootImageType == BootImage \in Seq(Word)
<1>1. ASSUME NEW i \in 1..ImageWords
      PROVE  [call |-> 0, off |-> 4 * (i - 1), n |-> 4] \in Word
  BY <1>1, ImageWordsAssumption DEF Word
<1>. QED  BY <1>1, ImageWordsAssumption DEF BootImage

LEMMA InitTypeInv == Init => TypeInv
<1>. SUFFICES ASSUME Init PROVE TypeInv
  OBVIOUS
<1>1. FabricTypeOK
  <2>1. ctl \in CtlReg /\ dclk \in DclkCounter /\ msel \in MselPins
    BY DEF Init, FabricInit, CtlReg, CdRatios, DclkCounter
  <2>2. powered \in BOOLEAN
    BY DEF Init, FabricInit
  <2>3. mode \in Modes
    BY DEF Init, FabricInit, Modes
  <2>5. mon \in Monitor
    <3>1. MonitorLow \in Monitor
      BY DEF Monitor, MonitorLow
    <3>2. [confDone |-> TRUE, nStatus |-> TRUE, crcError |-> FALSE] \in Monitor
      BY DEF Monitor
    <3>. QED  BY <3>1, <3>2 DEF Init, FabricInit
  <2>4. cram \in Seq(Word)
    <3>1. cram = BootImage \/ cram = <<>>
      BY DEF Init, FabricInit
    <3>2. <<>> \in Seq(Word)
      OBVIOUS
    <3>. QED  BY <3>1, <3>2, BootImageType
  <2>. QED  BY <2>1, <2>2, <2>3, <2>4, <2>5 DEF FabricTypeOK
<1>2. TypeOK
  BY <1>1, BoundsAssumption DEF Init, TypeOK, Locations, ResetReg, CtlReg, CdRatios
<1>3. BufferInv
  BY DEF Init, BufferInv, At
<1>. QED  BY <1>2, <1>3 DEF TypeInv

LEMMA CtlUpdates ==
  ASSUME NEW r \in CtlReg, NEW b \in BOOLEAN
  PROVE  /\ [r EXCEPT !.en = b] \in CtlReg
         /\ [r EXCEPT !.nconfigpull = b] \in CtlReg
         /\ [r EXCEPT !.axicfgen = b] \in CtlReg
         /\ \A ratio \in CdRatios, width \in {16, 32} :
              [r EXCEPT !.cdratio = ratio, !.cfgwdth = width, !.nce = FALSE] \in CtlReg
BY DEF CtlReg, CdRatios

LEMMA ResetRegType == ResetReg \in CtlReg
BY DEF ResetReg, CtlReg, CdRatios

LEMMA DclkUpdates ==
  ASSUME NEW d \in DclkCounter, NEW id \in Nat
  PROVE  [d EXCEPT !.run = id] \in DclkCounter /\ [d EXCEPT !.done = 0] \in DclkCounter
BY DEF DclkCounter

LEMMA FeedKeepsType ==
  ASSUME cram \in Seq(Word), NEW w \in Word, FeedWord(w)
  PROVE  cram' \in Seq(Word)
BY DEF FeedWord

-----------------------------------------------------------------------------
\* The moves the actions of a tool are made of.

LEMMA MoveTypeInv ==
  ASSUME TypeInv, FabricTypeOK', NEW p \in Tools,
         NEW l \in Locations \ {"step9", "axi"},
         l \in BeforeData => pc[p] \in BeforeData,
         Goto(p, l), UNCHANGED <<callVars, localVars, result>>
  PROVE  TypeInv'
<1>1. TypeOK'
  BY DEF TypeInv, TypeOK, Goto, callVars, localVars
<1>2. BufferInv'
  BY DEF TypeInv, TypeOK, BufferInv, BeforeData, Locations, At, Goto, callVars, localVars
<1>. QED  BY <1>1, <1>2 DEF TypeInv

LEMMA ReturnTypeInv ==
  ASSUME TypeInv, FabricTypeOK', NEW p \in Tools,
         NEW st \in Status \cup {None}, Return(p, st)
  PROVE  TypeInv'
<1>1. TypeOK'
  BY ResetRegType
  DEF TypeInv, TypeOK, Goto, Return, DropLocals, callVars, Locations, None
<1>2. BufferInv'
  BY ResetRegType
  DEF TypeInv, TypeOK, BufferInv, BeforeData, Locations, At, Goto, Return, DropLocals, callVars
<1>. QED  BY <1>1, <1>2 DEF TypeInv

LEMMA DropTypeInv ==
  ASSUME TypeInv, FabricTypeOK', NEW p \in Tools,
         NEW l \in BeforeData, Goto(p, l), DropLocals(p), UNCHANGED callVars,
         result' \in [Tools -> Status \cup {None}]
  PROVE  TypeInv'
<1>1. TypeOK'
  BY ResetRegType
  DEF TypeInv, TypeOK, Goto, DropLocals, callVars, BeforeData, None
<1>2. BufferInv'
  BY ResetRegType
  DEF TypeInv, TypeOK, BufferInv, BeforeData, Locations, At, Goto, DropLocals, callVars
<1>. QED  BY <1>1, <1>2 DEF TypeInv

LEMMA PollAgainTypeInv ==
  ASSUME TypeInv, FabricTypeOK', NEW p \in Tools,
         PollAgain(p)
  PROVE  TypeInv'
<1>1. TypeOK'
  BY DEF TypeInv, TypeOK, Goto, PollAgain, callVars
<1>2. BufferInv'
  BY DEF TypeInv, TypeOK, BufferInv, BeforeData, Locations, At, Goto, PollAgain, callVars
<1>. QED  BY <1>1, <1>2 DEF TypeInv

LEMMA EndDataTypeInv ==
  ASSUME TypeInv, FabricTypeOK', NEW p \in Tools,
         NEW st \in Status, EndData(p, st)
  PROVE  TypeInv'
<1>1. TypeOK'
  BY DEF TypeInv, TypeOK, Goto, EndData, callVars, Locations
<1>2. BufferInv'
  BY DEF TypeInv, TypeOK, BufferInv, BeforeData, Locations, At, Goto, EndData, callVars
<1>. QED  BY <1>1, <1>2 DEF TypeInv

LEMMA CallWriteAxiTypeInv ==
  ASSUME TypeInv, FabricTypeOK', NEW p \in Tools,
         NEW b \in Nat, NEW n \in Nat, CallWriteAxi(p, b, n),
         limit[p] + b = DataLimit, n <= limit[p]
  PROVE  TypeInv'
<1>1. TypeOK'
  BY DEF TypeInv, TypeOK, Goto, CallWriteAxi, callVars, Locations
<1>2. BufferInv'
  BY DEF TypeInv, TypeOK, BufferInv, BeforeData, Locations, At, Goto, CallWriteAxi, callVars
<1>. QED  BY <1>1, <1>2 DEF TypeInv

LEMMA BeginStep10TypeInv ==
  ASSUME TypeInv, FabricTypeOK', NEW p \in Tools,
         BeginStep10(p)
  PROVE  TypeInv'
<1>1. TypeOK'
  BY BoundsAssumption
  DEF TypeInv, TypeOK, Goto, BeginStep10, callVars, Locations
<1>2. BufferInv'
  BY BoundsAssumption
  DEF TypeInv, TypeOK, BufferInv, BeforeData, Locations, At, Goto, BeginStep10, callVars
<1>. QED  BY <1>1, <1>2 DEF TypeInv

LEMMA RegTypeInv ==
  ASSUME TypeInv, FabricTypeOK', NEW p \in Tools,
         NEW r \in CtlReg, NEW l \in BeforeData,
         pc[p] \in BeforeData, reg' = [reg EXCEPT ![p] = r],
         timeout' \in [Tools -> Nat], Goto(p, l),
         UNCHANGED <<callVars, status, dataStatus, limit, base, len, left, result>>
  PROVE  TypeInv'
<1>1. TypeOK'
  BY DEF TypeInv, TypeOK, Goto, callVars, BeforeData
<1>2. BufferInv'
  BY DEF TypeInv, TypeOK, BufferInv, BeforeData, Locations, At, Goto, callVars
<1>. QED  BY <1>1, <1>2 DEF TypeInv

-----------------------------------------------------------------------------
\* One lemma per group of actions.

LEMMA FabricUnchanged ==
  ASSUME TypeInv, UNCHANGED fabricVars
  PROVE  FabricTypeOK'
BY DEF TypeInv, TypeOK, FabricTypeOK, fabricVars

LEMMA CtlWritten ==
  ASSUME TypeInv, NEW r \in CtlReg, WriteCtl(r),
         UNCHANGED <<powered, mode, mon, cram, dclk, msel>>
  PROVE  FabricTypeOK'
BY DEF TypeInv, TypeOK, FabricTypeOK, WriteCtl

LEMMA ReadCtlTypeInv ==
  ASSUME TypeInv, NEW p \in Tools, NEW from \in BeforeData, NEW to \in BeforeData,
         ReadCtlForUpdate(p, from, to)
  PROVE  TypeInv'
<1>1. FabricTypeOK' /\ ctl \in CtlReg /\ pc[p] \in BeforeData
  BY FabricUnchanged DEF TypeInv, TypeOK, FabricTypeOK, ReadCtlForUpdate, At
<1>2. timeout' \in [Tools -> Nat]
  BY DEF TypeInv, TypeOK, ReadCtlForUpdate
<1>. QED  BY <1>1, <1>2, RegTypeInv DEF ReadCtlForUpdate

LEMMA WriteBackTypeInv ==
  ASSUME TypeInv, NEW p \in Tools, NEW r \in CtlReg, NEW l \in BeforeData,
         WriteCtlBack(p, r), Goto(p, l), result' \in [Tools -> Status \cup {None}]
  PROVE  TypeInv'
<1>1. FabricTypeOK'
  BY CtlWritten DEF WriteCtlBack
<1>. QED  BY <1>1, DropTypeInv DEF WriteCtlBack

LEMMA ClientTypeInv ==
  ASSUME TypeInv, NEW p \in Tools, Client(p)
  PROVE  TypeInv'
<1>1. CASE Start(p)
  <2>1. FabricTypeOK'
    BY <1>1, FabricUnchanged DEF Start
  <2>. QED  BY <1>1, <2>1, MoveTypeInv DEF Start, At, Locations, BeforeData
<1>2. CASE Call(p)
  <2>1. FabricTypeOK'
    BY <1>2, FabricUnchanged DEF Call
  <2>2. TypeOK'
    BY <1>2, <2>1, BoundsAssumption
    DEF Call, TypeInv, TypeOK, Goto, localVars, Locations, None
  <2>3. BufferInv'
    BY <1>2 DEF Call, TypeInv, TypeOK, BufferInv, BeforeData, Locations, At, Goto, localVars
  <2>. QED  BY <2>2, <2>3 DEF TypeInv
<1>3. CASE Finish(p)
  <2>1. FabricTypeOK'
    BY <1>3, FabricUnchanged DEF Finish
  <2>. QED  BY <1>3, <2>1, MoveTypeInv DEF Finish, At, Locations, BeforeData
<1>4. CASE Kill(p)
  <2>1. FabricTypeOK' /\ result' \in [Tools -> Status \cup {None}]
    BY <1>4, FabricUnchanged DEF Kill, TypeInv, TypeOK
  <2>. QED  BY <1>4, <2>1, DropTypeInv DEF Kill, Locations, BeforeData
<1>. QED  BY <1>1, <1>2, <1>3, <1>4 DEF Client

LEMMA ControlTypeInv ==
  ASSUME TypeInv, NEW p \in Tools, Control(p)
  PROVE  TypeInv'
<1>1. reg[p] \in CtlReg
  BY DEF TypeInv, TypeOK
<1>2. CASE EnableRead(p)
  BY <1>2, ReadCtlTypeInv DEF EnableRead, BeforeData, Locations
<1>3. CASE DisableRead(p)
  BY <1>3, ReadCtlTypeInv DEF DisableRead, BeforeData, Locations
<1>4. CASE EnableWrite(p)
  <2>1. result' \in [Tools -> Status \cup {None}]
    BY <1>4 DEF EnableWrite, TypeInv, TypeOK
  <2>. QED
    BY <1>1, <1>4, <2>1, CtlUpdates, WriteBackTypeInv DEF EnableWrite, BeforeData, Locations
<1>5. CASE DisableWrite(p)
  <2>1. result' \in [Tools -> Status \cup {None}]
    BY <1>5 DEF DisableWrite, TypeInv, TypeOK
  <2>. QED
    BY <1>1, <1>5, <2>1, CtlUpdates, WriteBackTypeInv DEF DisableWrite, BeforeData, Locations
<1>. QED  BY <1>2, <1>3, <1>4, <1>5 DEF Control

LEMMA GuardTypeInv ==
  ASSUME TypeInv, NEW p \in Tools,
         GuardEnabled(p) \/ GuardPower(p) \/ PullRead(p) \/ PullWrite(p)
  PROVE  TypeInv'
<1>. USE DEF BeforeData, Locations
<1>1. CASE GuardEnabled(p)
  <2>1. FabricTypeOK' /\ pc[p] \in BeforeData
    BY <1>1, FabricUnchanged DEF GuardEnabled, At
  <2>2. CASE Goto(p, "guard_power") /\ UNCHANGED <<callVars, localVars, result>>
    BY <2>1, <2>2, MoveTypeInv
  <2>3. CASE Return(p, "NO_SOC_CTRL")
    BY <2>1, <2>3, ReturnTypeInv DEF Status
  <2>. QED  BY <1>1, <2>2, <2>3 DEF GuardEnabled
<1>2. CASE GuardPower(p)
  <2>1. FabricTypeOK' /\ pc[p] \in BeforeData
    BY <1>2, FabricUnchanged DEF GuardPower, At
  <2>2. CASE /\ Goto(p, IF IsConfigure(p) THEN "ctl_read" ELSE "pull_read")
             /\ UNCHANGED <<callVars, localVars, result>>
    BY <2>1, <2>2, MoveTypeInv
  <2>3. CASE Return(p, "PWR_OFF")
    BY <2>1, <2>3, ReturnTypeInv DEF Status
  <2>. QED  BY <1>2, <2>2, <2>3 DEF GuardPower
<1>3. CASE PullRead(p)
  BY <1>3, ReadCtlTypeInv DEF PullRead
<1>4. CASE PullWrite(p)
  <2>1. result' \in [Tools -> Status \cup {None}] /\ reg[p] \in CtlReg
    BY <1>4 DEF PullWrite, TypeInv, TypeOK, Status
  <2>2. (job[p].op = "assert") \in BOOLEAN
    OBVIOUS
  <2>3. [reg[p] EXCEPT !.nconfigpull = (job[p].op = "assert")] \in CtlReg
    BY <2>1, <2>2, CtlUpdates
  <2>. QED  BY <1>4, <2>1, <2>3, WriteBackTypeInv DEF PullWrite
<1>. QED  BY <1>1, <1>2, <1>3, <1>4

LEMMA SetUpTypeInv ==
  ASSUME TypeInv, NEW p \in Tools,
         CtlRead(p) \/ Step1(p) \/ Step3(p) \/ Step4(p) \/ Step5(p) \/ Step6(p) \/ Step8(p)
  PROVE  TypeInv'
<1>. USE DEF BeforeData, Locations
<1>1. reg[p] \in CtlReg /\ timeout \in [Tools -> Nat]
  BY DEF TypeInv, TypeOK
<1>2. CASE CtlRead(p)
  BY <1>2, ReadCtlTypeInv DEF CtlRead
<1>3. CASE Step1(p)
  <2>1. CASE ~KnownMsel(msel)
    <3>1. FabricTypeOK' /\ Return(p, "ERROR")
      BY <1>3, <2>1, FabricUnchanged DEF Step1
    <3>. QED  BY <3>1, ReturnTypeInv DEF Status
  <2>2. CASE KnownMsel(msel)
    <3> DEFINE r == [reg[p] EXCEPT !.cdratio = CdRatio(msel),
                                   !.cfgwdth = CfgWidth(msel), !.nce = FALSE]
    <3>1. r \in CtlReg
      <4>1. msel \in Nat
        BY MselAssumption DEF MselCodes, TypeInv, TypeOK, FabricTypeOK
      <4>. QED  BY <1>1, <4>1, RatioType, CtlUpdates
    <3>2. WriteCtrlReg(p, r) /\ Goto(p, "step3") /\ pc[p] \in BeforeData
          /\ UNCHANGED <<timeout, status, dataStatus, limit, base, len, left, result>>
      BY <1>3, <2>2 DEF Step1, At
    <3> HIDE DEF r
    <3>3. FabricTypeOK'
      BY <3>1, <3>2, CtlWritten DEF WriteCtrlReg
    <3>. QED  BY <1>1, <3>1, <3>2, <3>3, RegTypeInv DEF WriteCtrlReg
  <2>. QED  BY <2>1, <2>2
<1>4. CASE Step3(p)
  <2>1. WriteCtrlReg(p, [reg[p] EXCEPT !.nconfigpull = TRUE])
    BY <1>4 DEF Step3
  <2>2. FabricTypeOK'
    BY <1>1, <2>1, CtlUpdates, CtlWritten DEF WriteCtrlReg
  <2>3. timeout' \in [Tools -> Nat]
    BY <1>1, <1>4, BoundsAssumption DEF Step3
  <2>. QED
    BY <1>1, <1>4, <2>1, <2>2, <2>3, CtlUpdates, RegTypeInv DEF Step3, WriteCtrlReg, At
<1>5. CASE Step4(p)
  <2>1. FabricTypeOK'
    BY <1>5, FabricUnchanged DEF Step4
  <2>2. CASE PollAgain(p)
    BY <2>1, <2>2, PollAgainTypeInv
  <2>3. CASE /\ Goto(p, "step5")
             /\ \E st \in {"SUCCESS", "TMO"} : status' = [status EXCEPT ![p] = st]
             /\ UNCHANGED <<callVars, reg, timeout, dataStatus, limit, base, len, left, result>>
    <3>1. TypeOK'
      BY <2>1, <2>3 DEF TypeInv, TypeOK, Goto, callVars, Status
    <3>2. BufferInv'
      BY <1>5, <2>3 DEF Step4, TypeInv, TypeOK, BufferInv, Goto, At, callVars
    <3>. QED  BY <3>1, <3>2 DEF TypeInv
  <2>. QED  BY <1>5, <2>2, <2>3 DEF Step4
<1>6. CASE Step5(p)
  <2> DEFINE r == [reg[p] EXCEPT !.nconfigpull = FALSE]
  <2>1. r \in CtlReg
    BY <1>1, CtlUpdates
  <2> HIDE DEF r
  <2>2. CASE /\ WriteCtrlReg(p, r)
             /\ timeout' = [timeout EXCEPT ![p] = StateTimeout]
             /\ Goto(p, "step6") /\ pc[p] = "step5"
             /\ UNCHANGED <<status, dataStatus, limit, base, len, left, result>>
    <3>1. FabricTypeOK' /\ timeout' \in [Tools -> Nat]
      BY <1>1, <2>1, <2>2, BoundsAssumption, CtlWritten DEF WriteCtrlReg
    <3>. QED  BY <2>1, <2>2, <3>1, RegTypeInv DEF WriteCtrlReg
  <2>3. CASE /\ WriteCtl(r)
             /\ Return(p, "CFG")
             /\ UNCHANGED <<powered, mode, mon, cram, dclk, msel>>
    BY <2>1, <2>3, CtlWritten, ReturnTypeInv DEF Status
  <2>. QED  BY <1>6, <2>2, <2>3 DEF Step5, At, r
<1>7. CASE Step6(p)
  <2>1. FabricTypeOK' /\ pc[p] = "step6"
    BY <1>7, FabricUnchanged DEF Step6, At
  <2>2. CASE PollAgain(p)
    BY <2>1, <2>2, PollAgainTypeInv
  <2>3. CASE Return(p, "CFG")
    BY <2>1, <2>3, ReturnTypeInv DEF Status
  <2>4. CASE Goto(p, "step8") /\ UNCHANGED <<callVars, localVars, result>>
    BY <2>1, <2>4, MoveTypeInv
  <2>. QED  BY <1>7, <2>2, <2>3, <2>4 DEF Step6
<1>8. CASE Step8(p)
  <2>1. [reg[p] EXCEPT !.axicfgen = TRUE] \in CtlReg
    BY <1>1, CtlUpdates
  <2>2. FabricTypeOK'
    BY <1>8, <2>1, CtlWritten DEF Step8, WriteCtrlReg
  <2>3. TypeOK'
    BY <1>8, <2>1, <2>2, BoundsAssumption
    DEF Step8, WriteCtrlReg, TypeInv, TypeOK, Goto, callVars
  <2>4. BufferInv'
    BY <1>8, BoundsAssumption
    DEF Step8, WriteCtrlReg, TypeInv, TypeOK, BufferInv, Goto, At, callVars
  <2>. QED  BY <2>3, <2>4 DEF TypeInv
<1>. QED  BY <1>2, <1>3, <1>4, <1>5, <1>6, <1>7, <1>8

LEMMA DataTypeInv ==
  ASSUME TypeInv, NEW p \in Tools,
         Step9Full(p) \/ Step9Stream(p) \/ AxiWord(p) \/ AxiTail(p) \/ AxiReturn(p) \/ Step10(p)
  PROVE  TypeInv'
<1>1. /\ base[p] \in Nat /\ len[p] \in Nat /\ left[p] \in Nat /\ limit[p] \in Nat
      /\ call[p] \in Nat /\ left[p] <= len[p] /\ DataLimit \in Nat
  BY BoundsAssumption DEF TypeInv, TypeOK, BufferInv
<1>2. CASE Step9Full(p)
  <2>1. FabricTypeOK' /\ pc[p] = "step9" /\ job[p].op = "configure"
    BY <1>2, FabricUnchanged DEF Step9Full, At
  <2>2. CASE EndData(p, "CFG")
    BY <2>1, <2>2, EndDataTypeInv DEF Status
  <2>3. CASE job[p].len <= limit[p] /\ CallWriteAxi(p, 0, job[p].len)
    <3>1. job[p] \in [op : Ops, len : Nat]
      <4>1. job[p] \in Jobs \cup {NoJob}
        BY DEF TypeInv, TypeOK
      <4>2. job[p] # NoJob
        BY <2>1 DEF NoJob
      <4>. QED  BY <4>1, <4>2, JobsAssumption
    <3>2. job[p].len \in Nat
      BY <3>1
    <3>3. limit[p] + 0 = DataLimit
      BY <1>1, <2>1 DEF TypeInv, BufferInv, At
    <3>. QED  BY <2>1, <2>3, <3>2, <3>3, CallWriteAxiTypeInv
  <2>. QED  BY <1>2, <2>2, <2>3 DEF Step9Full
<1>3. CASE Step9Stream(p)
  <2>1. FabricTypeOK' /\ pc[p] = "step9"
    BY <1>3, FabricUnchanged DEF Step9Stream, At
  <2>2. CASE EndData(p, "CFG_STM")
    BY <2>1, <2>2, EndDataTypeInv DEF Status
  <2>3. CASE BeginStep10(p)
    BY <2>1, <2>3, BeginStep10TypeInv
  <2>4. ASSUME NEW c \in StreamReturns, c \in 1..ChunkSize, c <= limit[p],
               CallWriteAxi(p, base[p] + len[p], c)
        PROVE  TypeInv'
    <3>1. c \in Nat /\ base[p] + len[p] \in Nat
      BY <1>1, <2>4, StreamAssumption
    <3>2. limit[p] + (base[p] + len[p]) = DataLimit
      BY <1>1, <2>1 DEF TypeInv, BufferInv, At
    <3>. QED  BY <2>1, <2>4, <3>1, <3>2, CallWriteAxiTypeInv
  <2>. QED  BY <1>3, <2>2, <2>3, <2>4 DEF Step9Stream
<1>4. ASSUME NEW w \in Word, AxiWrite(p, w), NEW rest \in 0..left[p],
             left' = [left EXCEPT ![p] = rest]
      PROVE  TypeInv'
  <2>1. FabricTypeOK'
    BY <1>4, FeedKeepsType DEF AxiWrite, TypeInv, TypeOK, FabricTypeOK
  <2>2. TypeOK'
    BY <1>1, <1>4, <2>1 DEF AxiWrite, TypeInv, TypeOK, callVars
  <2>3. BufferInv'
    BY <1>1, <1>4 DEF AxiWrite, TypeInv, TypeOK, BufferInv, At, callVars
  <2>. QED  BY <2>2, <2>3 DEF TypeInv
<1>5. CASE AxiWord(p)
  <2>1. [call |-> call[p], off |-> base[p] + (len[p] - left[p]), n |-> 4] \in Word
    BY <1>1 DEF Word
  <2>2. left[p] - 4 \in 0..left[p] /\ left' = [left EXCEPT ![p] = left[p] - 4]
    BY <1>1, <1>5 DEF AxiWord
  <2>. QED  BY <1>4, <1>5, <2>1, <2>2 DEF AxiWord
<1>6. CASE AxiTail(p)
  <2>1. [call |-> call[p], off |-> base[p] + (left[p] - (left[p] % 4)), n |-> left[p]] \in Word
    BY <1>1, <1>6 DEF AxiTail, Word
  <2>2. 0 \in 0..left[p]
    BY <1>1
  <2>. QED  BY <1>4, <1>6, <2>1, <2>2 DEF AxiTail
<1>7. CASE AxiReturn(p)
  <2>1. FabricTypeOK' /\ pc[p] = "axi"
    BY <1>7, FabricUnchanged DEF AxiReturn, At
  <2>2. CASE BeginStep10(p)
    BY <2>1, <2>2, BeginStep10TypeInv
  <2>3. CASE /\ limit' = [limit EXCEPT ![p] = @ - len[p]]
             /\ Goto(p, "step9") /\ job[p].op = "istream"
             /\ UNCHANGED <<callVars, reg, timeout, status, dataStatus, base, len, left, result>>
    <3>1. limit[p] + base[p] = DataLimit /\ len[p] <= limit[p]
      BY <2>1 DEF TypeInv, BufferInv, At
    <3>2. TypeOK'
      BY <1>1, <2>1, <2>3, <3>1 DEF TypeInv, TypeOK, Goto, callVars, Locations
    <3>3. BufferInv'
      BY <1>1, <2>3, <3>1
      DEF TypeInv, TypeOK, BufferInv, BeforeData, Locations, At, Goto, callVars
    <3>. QED  BY <3>2, <3>3 DEF TypeInv
  <2>. QED  BY <1>7, <2>2, <2>3 DEF AxiReturn
<1>8. CASE Step10(p)
  <2>1. FabricTypeOK'
    BY <1>8, FabricUnchanged DEF Step10
  <2>2. CASE PollAgain(p)
    BY <2>1, <2>2, PollAgainTypeInv
  <2>3. ASSUME NEW st \in {"SUCCESS", "CFG", "CRC"}, EndData(p, st)
        PROVE  TypeInv'
    BY <2>1, <2>3, EndDataTypeInv DEF Status
  <2>. QED  BY <1>8, <2>2, <2>3 DEF Step10
<1>. QED  BY <1>2, <1>3, <1>5, <1>6, <1>7, <1>8

LEMMA EndTypeInv ==
  ASSUME TypeInv, NEW p \in Tools,
         \/ Step11(p) \/ DclkStat(p) \/ DclkClear(p) \/ DclkCount(p) \/ DclkPoll(p)
         \/ DclkAck(p) \/ Step13(p)
  PROVE  TypeInv'
<1>. USE DEF BeforeData, Locations
<1>1. /\ reg[p] \in CtlReg /\ dclk \in DclkCounter /\ call[p] \in Nat
      /\ dataStatus[p] \in Status \cup {None} /\ LateError(p) \in Status \cup {None}
  BY BoundsAssumption DEF TypeInv, TypeOK, FabricTypeOK, LateError, Status
<1>2. CASE Step11(p)
  <2>1. [reg[p] EXCEPT !.axicfgen = FALSE] \in CtlReg
    BY <1>1, CtlUpdates
  <2>2. FabricTypeOK'
    BY <1>2, <2>1, CtlWritten DEF Step11, WriteCtrlReg
  <2>3. TypeOK'
    BY <1>2, <2>1, <2>2 DEF Step11, WriteCtrlReg, TypeInv, TypeOK, Goto, callVars
  <2>4. BufferInv'
    BY <1>2 DEF Step11, WriteCtrlReg, TypeInv, TypeOK, BufferInv, Goto, At, callVars
  <2>. QED  BY <2>3, <2>4 DEF TypeInv
<1>3. CASE DclkStat(p)
  <2>1. FabricTypeOK'
    BY <1>3, FabricUnchanged DEF DclkStat
  <2>. QED  BY <1>3, <2>1, MoveTypeInv DEF DclkStat
<1>4. ASSUME NEW d \in DclkCounter, dclk' = d,
             UNCHANGED <<ctl, powered, mode, mon, cram, msel>>
      PROVE  FabricTypeOK'
  BY <1>4 DEF TypeInv, TypeOK, FabricTypeOK
<1>5. CASE DclkClear(p)
  <2>1. FabricTypeOK'
    BY <1>1, <1>4, <1>5, DclkUpdates DEF DclkClear, ClearDclkDone
  <2>. QED  BY <1>5, <2>1, MoveTypeInv DEF DclkClear
<1>6. ASSUME FabricTypeOK', NEW l \in {"dclk_poll", "step13"}, Goto(p, l),
             timeout' \in [Tools -> Nat],
             UNCHANGED <<callVars, reg, status, dataStatus, limit, base, len, left, result>>
      PROVE  TypeInv'
  <2>1. TypeOK'
    BY <1>6 DEF TypeInv, TypeOK, Goto, callVars
  <2>2. BufferInv'
    BY <1>6 DEF TypeInv, TypeOK, BufferInv, Goto, At, callVars
  <2>. QED  BY <2>1, <2>2 DEF TypeInv
<1>7. CASE DclkCount(p)
  <2>1. FabricTypeOK'
    BY <1>1, <1>4, <1>7, DclkUpdates DEF DclkCount, StartDclk
  <2>2. timeout' \in [Tools -> Nat]
    BY <1>7, BoundsAssumption DEF DclkCount, TypeInv, TypeOK
  <2>. QED  BY <1>6, <1>7, <2>1, <2>2 DEF DclkCount
<1>8. CASE DclkAck(p)
  <2>1. FabricTypeOK'
    BY <1>1, <1>4, <1>8, DclkUpdates DEF DclkAck, ClearDclkDone
  <2>2. timeout' \in [Tools -> Nat]
    BY <1>8, BoundsAssumption DEF DclkAck, TypeInv, TypeOK
  <2>. QED  BY <1>6, <1>8, <2>1, <2>2 DEF DclkAck
<1>9. CASE DclkPoll(p)
  <2>1. FabricTypeOK' /\ pc[p] = "dclk_poll"
    BY <1>9, FabricUnchanged DEF DclkPoll, At
  <2>2. CASE PollAgain(p)
    BY <2>1, <2>2, PollAgainTypeInv
  <2>3. CASE Return(p, LateError(p))
    BY <1>1, <2>1, <2>3, ReturnTypeInv
  <2>4. CASE Goto(p, "dclk_ack") /\ UNCHANGED <<callVars, localVars, result>>
    BY <2>1, <2>4, MoveTypeInv
  <2>. QED  BY <1>9, <2>2, <2>3, <2>4 DEF DclkPoll
<1>10. CASE Step13(p)
  <2>1. FabricTypeOK'
    BY <1>10, FabricUnchanged DEF Step13
  <2>2. CASE PollAgain(p)
    BY <2>1, <2>2, PollAgainTypeInv
  <2>3. ASSUME NEW st \in Status \cup {None}, Return(p, st)
        PROVE  TypeInv'
    BY <2>1, <2>3, ReturnTypeInv
  <2>. QED  BY <1>1, <1>10, <2>2, <2>3 DEF Step13
<1>. QED  BY <1>2, <1>3, <1>5, <1>7, <1>8, <1>9, <1>10

LEMMA FabricTypeInv == ASSUME TypeInv, Fabric PROVE TypeInv'
<1>1. FabricTypeOK
  BY DEF TypeInv, TypeOK
<1>2. MonitorLow \in Monitor /\ <<>> \in Seq(Word)
  BY DEF MonitorLow, Monitor
<1>3. FabricTypeOK'
  <2>. USE DEF FabricTypeOK
  <2>1. CASE PowerLoss
    BY <1>1, <1>2, <2>1 DEF PowerLoss, Modes
  <2>2. CASE PowerUp
    BY <1>1, <2>2 DEF PowerUp, Modes
  <2>3. CASE EnterReset
    BY <1>1, <1>2, <2>3 DEF EnterReset, Modes
  <2>4. CASE EnterCfg
    BY <1>1, <2>4 DEF EnterCfg, Modes, Monitor
  <2>5. CASE RaiseConfDone
    BY <1>1, <2>5 DEF RaiseConfDone, Monitor
  <2>6. CASE FlagError
    BY <1>1, <2>6 DEF FlagError, Monitor
  <2>7. CASE EnterInit \/ EnterUser
    BY <1>1, <2>7 DEF EnterInit, EnterUser, Modes
  <2>8. CASE DclkDone
    BY <1>1, <2>8 DEF DclkDone, DclkCounter
  <2>. QED
    BY <2>1, <2>2, <2>3, <2>4, <2>5, <2>6, <2>7, <2>8 DEF Fabric, FabricNext
<1>4. TypeOK'
  BY <1>3 DEF Fabric, toolVars, callVars, localVars, TypeInv, TypeOK
<1>5. BufferInv'
  BY DEF Fabric, toolVars, callVars, localVars, TypeInv, BufferInv, At
<1>. QED  BY <1>4, <1>5 DEF TypeInv

-----------------------------------------------------------------------------
LEMMA NextTypeInv == TypeInv /\ [Next]_vars => TypeInv'
<1>. SUFFICES ASSUME TypeInv, [Next]_vars PROVE TypeInv'
  OBVIOUS
<1>1. CASE UNCHANGED vars
  BY <1>1 DEF vars, fabricVars, toolVars, callVars, localVars, TypeInv, TypeOK,
              FabricTypeOK, BufferInv, At
<1>2. CASE Fabric
  BY <1>2, FabricTypeInv
<1>3. ASSUME NEW p \in Tools, Client(p) \/ Control(p) \/ InCall(p)
      PROVE  TypeInv'
  BY <1>3, ClientTypeInv, ControlTypeInv, GuardTypeInv, SetUpTypeInv, DataTypeInv, EndTypeInv
  DEF InCall
<1>. QED  BY <1>1, <1>2, <1>3 DEF Next

\* The driver keeps every variable in its type, for any number of tools.
THEOREM TypeCorrect == Spec => []TypeOK
<1>1. TypeInv => TypeOK
  BY DEF TypeInv
<1>. QED  BY <1>1, InitTypeInv, NextTypeInv, PTL DEF Spec

\* No call hands the data port more than data_limit bytes, for any stream, any
\* chunk size and any number of tools (alt_fpga_internal_configure_idata).
THEOREM LimitRespected == Spec => []WithinDataLimit
<1>1. TypeInv => WithinDataLimit
  BY BoundsAssumption DEF TypeInv, TypeOK, BufferInv, WithinDataLimit, At
<1>. QED  BY <1>1, InitTypeInv, NextTypeInv, PTL DEF Spec

-----------------------------------------------------------------------------
(* While only one tool uses the driver: the cached ctrl_reg is then the    *)
(* register, so no write of CTRL undoes another.  The run fpga_control     *)
(* shows that the code does nothing to ensure it.                          *)

SoleTool == \A p, q \in Tools : p = q

\* Where ctrl_reg, or a read-modify-write, holds what CTRL holds.
Cached == {"enable_write", "disable_write", "pull_write", "step1", "step3", "step4",
           "step5", "step6", "step8", "step9", "axi", "step10", "step11", "dclk_stat",
           "dclk_clear", "dclk_count", "dclk_poll", "dclk_ack", "step13"}

\* The driver once it has seen EN set.
InControl == DriverLocations \ {"guard_en"}

Feeding == {"step9", "axi", "step10", "step11"}
Closing == {"dclk_stat", "dclk_clear", "dclk_count", "dclk_poll", "dclk_ack", "step13"}
Released == {"step6", "step8"} \cup Feeding \cup Closing
Programmed == {"step3", "step4", "step5"} \cup Released

SetUp(r) == ~r.nce /\ r.cdratio = CdRatio(msel) /\ r.cfgwdth = CfgWidth(msel)

CtlInv(p) ==
  /\ pc[p] \in Cached => reg[p] = ctl
  /\ pc[p] \in InControl => ctl.en
  /\ pc[p] \in Programmed => SetUp(ctl)
  /\ pc[p] \in Released => ~ctl.nconfigpull
  /\ pc[p] \in Feeding => ctl.axicfgen
  /\ pc[p] \in Closing => ~ctl.axicfgen

\* A call has no result yet while it runs, and leaves CTRL as HandsBackFabric
\* says when it has one, until the next call begins.
ResultInv(p) ==
  /\ pc[p] \in DriverLocations => result[p] = None
  /\ pc[p] \in {"pull_read", "pull_write"} => ~IsConfigure(p)
  /\ (pc[p] \notin DriverLocations /\ IsConfigure(p) /\ result[p] \notin Refused) =>
       /\ ~ctl.nconfigpull
       /\ result[p] \in {"SUCCESS", "CRC", "CFG_STM"} => ~ctl.axicfgen
       /\ At(p, "idle") => ctl.en

\* What is so of a tool as long as nobody else writes CTRL.
ToolInv(p) == CtlInv(p) /\ ResultInv(p)

SoleInv == TypeInv /\ \A p \in Tools : ToolInv(p)

-----------------------------------------------------------------------------
LEMMA CtlFields ==
  ASSUME NEW r \in CtlReg, NEW b \in BOOLEAN
  PROVE  /\ [r EXCEPT !.en = b].en = b
         /\ [r EXCEPT !.en = b].nconfigpull = r.nconfigpull
         /\ [r EXCEPT !.en = b].axicfgen = r.axicfgen
         /\ [r EXCEPT !.nconfigpull = b].nconfigpull = b
         /\ [r EXCEPT !.nconfigpull = b].en = r.en
         /\ [r EXCEPT !.nconfigpull = b].axicfgen = r.axicfgen
         /\ SetUp(r) => SetUp([r EXCEPT !.nconfigpull = b])
         /\ [r EXCEPT !.axicfgen = b].axicfgen = b
         /\ [r EXCEPT !.axicfgen = b].en = r.en
         /\ [r EXCEPT !.axicfgen = b].nconfigpull = r.nconfigpull
         /\ SetUp(r) => SetUp([r EXCEPT !.axicfgen = b])
BY DEF CtlReg, SetUp

LEMMA SetUpWritten ==
  ASSUME NEW r \in CtlReg
  PROVE  LET s == [r EXCEPT !.cdratio = CdRatio(msel), !.cfgwdth = CfgWidth(msel), !.nce = FALSE]
         IN  SetUp(s) /\ s.en = r.en
BY DEF CtlReg, SetUp

\* What the moves of the actions do to the variables of the tool that makes them.
LEMMA MoveFacts ==
  ASSUME TypeInv, NEW p \in Tools, NEW l, Goto(p, l)
  PROVE  pc'[p] = l
BY DEF TypeInv, TypeOK, Goto

LEMMA ReturnFacts ==
  ASSUME TypeInv, NEW p \in Tools, NEW st, Return(p, st)
  PROVE  pc'[p] = "idle" /\ result'[p] = st /\ job' = job
BY DEF TypeInv, TypeOK, Return, Goto, callVars

\* The invariant of a tool that is at a location outside the driver, which neither holds
\* a cached register nor has words to write.
LEMMA AtRest ==
  ASSUME NEW p \in Tools, pc'[p] \in {"off", "enable_read", "idle", "disable_read"},
         (IsConfigure(p)' /\ result'[p] \notin Refused) =>
           /\ ~ctl'.nconfigpull
           /\ result'[p] \in {"SUCCESS", "CRC", "CFG_STM"} => ~ctl'.axicfgen
           /\ pc'[p] = "idle" => ctl'.en
  PROVE  ToolInv(p)'
BY DEF ToolInv, CtlInv, ResultInv, At, InControl, Locations, Feeding, Closing, Released,
       Programmed, Cached, DriverLocations

\* ... and of a tool inside the driver that has not touched CTRL yet.
LEMMA AtGuard ==
  ASSUME NEW p \in Tools, pc'[p] \in {"guard_en", "guard_power", "pull_read", "ctl_read"},
         pc'[p] # "guard_en" => ctl'.en,
         result'[p] = None, pc'[p] = "pull_read" => ~IsConfigure(p)'
  PROVE  ToolInv(p)'
BY DEF ToolInv, CtlInv, ResultInv, InControl, Locations, Feeding, Closing, Released,
       Programmed, Cached, DriverLocations

LEMMA CallReturns ==
  ASSUME TypeInv, NEW p \in Tools, NEW st, Return(p, st),
         (IsConfigure(p) /\ st \notin Refused) =>
           /\ ~ctl'.nconfigpull
           /\ st \in {"SUCCESS", "CRC", "CFG_STM"} => ~ctl'.axicfgen
           /\ ctl'.en
  PROVE  ToolInv(p)'
<1>1. pc'[p] = "idle" /\ result'[p] = st /\ job' = job
  BY ReturnFacts
<1>. QED  BY <1>1, AtRest DEF IsConfigure

\* A call begins with nothing taken from CTRL.
LEMMA CallSole ==
  ASSUME TypeInv, NEW p \in Tools, Call(p)
  PROVE  ToolInv(p)'
<1>1. pc'[p] = "guard_en" /\ result'[p] = None
  BY MoveFacts DEF Call, TypeInv, TypeOK
<1>. QED  BY <1>1, AtGuard

LEMMA ClientSole ==
  ASSUME TypeInv, NEW p \in Tools, ToolInv(p), Client(p)
  PROVE  ToolInv(p)'
<1>. USE DEF InControl, Locations, DriverLocations
<1>1. CASE Start(p) \/ Finish(p)
  <2>1. /\ pc'[p] \in {"enable_read", "disable_read"} /\ pc[p] \in {"off", "idle"}
        /\ ctl' = ctl /\ result' = result /\ job' = job
    BY <1>1, MoveFacts DEF Start, Finish, At, fabricVars, callVars
  <2>. QED  BY <2>1, AtRest DEF ToolInv, ResultInv, IsConfigure
<1>2. CASE Call(p)
  BY <1>2, CallSole
<1>3. CASE Kill(p)
  <2>1. pc'[p] = "off" /\ ctl' = ctl /\ result' = result /\ job' = job
    BY <1>3, MoveFacts DEF Kill, At, fabricVars, callVars
  <2>. QED  BY <2>1, AtRest DEF ToolInv, ResultInv, IsConfigure, Refused
<1>. QED  BY <1>1, <1>2, <1>3 DEF Client

LEMMA ReadFacts ==
  ASSUME TypeInv, NEW p \in Tools, NEW from, NEW to, ReadCtlForUpdate(p, from, to)
  PROVE  /\ pc[p] = from /\ pc'[p] = to /\ reg'[p] = ctl /\ ctl' = ctl
         /\ result' = result /\ job' = job
BY MoveFacts DEF TypeInv, TypeOK, ReadCtlForUpdate, At, fabricVars, callVars

LEMMA WriteBackFacts ==
  ASSUME TypeInv, NEW p \in Tools, NEW r, WriteCtlBack(p, r)
  PROVE  ctl' = r /\ job' = job
BY DEF WriteCtlBack, WriteCtl, callVars

LEMMA ControlSole ==
  ASSUME TypeInv, NEW p \in Tools, ToolInv(p), Control(p)
  PROVE  ToolInv(p)'
<1>. USE DEF InControl, Locations, DriverLocations, Feeding, Closing, Released, Programmed, Cached
<1>1. TypeInv /\ ToolInv(p) /\ ctl \in CtlReg
  BY DEF TypeInv, TypeOK, FabricTypeOK
<1>2. CASE EnableRead(p) \/ DisableRead(p)
  <2>1. /\ pc'[p] \in {"enable_write", "disable_write"} /\ pc[p] \notin DriverLocations
        /\ pc'[p] = "disable_write" => pc[p] = "disable_read"
        /\ reg'[p] = ctl /\ ctl' = ctl /\ result' = result /\ job' = job
    BY <1>1, <1>2, ReadFacts DEF EnableRead, DisableRead
  <2>2. CtlInv(p)'
    BY <1>1, <2>1 DEF ToolInv, CtlInv
  <2>3. ResultInv(p)'
    BY <1>1, <2>1 DEF ToolInv, ResultInv, IsConfigure, At
  <2>. QED  BY <2>2, <2>3 DEF ToolInv
<1>3. CASE EnableWrite(p)
  <2>1. /\ pc[p] = "enable_write" /\ pc'[p] = "idle" /\ result' = result /\ job' = job
        /\ ctl' = [reg[p] EXCEPT !.en = TRUE]
    BY <1>1, <1>3, MoveFacts, WriteBackFacts DEF EnableWrite, At
  <2>2. ctl' = [ctl EXCEPT !.en = TRUE]
    BY <1>1, <2>1 DEF ToolInv, CtlInv
  <2>3. ctl'.en /\ ctl'.nconfigpull = ctl.nconfigpull /\ ctl'.axicfgen = ctl.axicfgen
    BY <1>1, <2>2, CtlFields
  <2>. QED  BY <1>1, <2>1, <2>3, AtRest DEF ToolInv, ResultInv, IsConfigure
<1>4. CASE DisableWrite(p)
  <2>1. /\ pc[p] = "disable_write" /\ pc'[p] = "off" /\ result' = result /\ job' = job
        /\ ctl' = [reg[p] EXCEPT !.en = FALSE]
    BY <1>1, <1>4, MoveFacts, WriteBackFacts DEF DisableWrite, At
  <2>2. ctl' = [ctl EXCEPT !.en = FALSE]
    BY <1>1, <2>1 DEF ToolInv, CtlInv
  <2>3. ctl'.nconfigpull = ctl.nconfigpull /\ ctl'.axicfgen = ctl.axicfgen
    BY <1>1, <2>2, CtlFields
  <2>. QED  BY <1>1, <2>1, <2>3, AtRest DEF ToolInv, ResultInv, IsConfigure
<1>. QED  BY <1>2, <1>3, <1>4 DEF Control

LEMMA GuardSole ==
  ASSUME TypeInv, NEW p \in Tools, ToolInv(p),
         GuardEnabled(p) \/ GuardPower(p) \/ PullRead(p) \/ PullWrite(p) \/ CtlRead(p)
  PROVE  ToolInv(p)'
<1>. USE DEF InControl, Locations, DriverLocations
<1>1. TypeInv /\ ToolInv(p) /\ ctl \in CtlReg
  BY DEF TypeInv, TypeOK, FabricTypeOK
<1>2. CASE GuardEnabled(p)
  <2>1. pc[p] = "guard_en" /\ ctl' = ctl
    BY <1>2 DEF GuardEnabled, At, fabricVars
  <2>2. CASE ctl.en /\ Goto(p, "guard_power") /\ UNCHANGED <<callVars, localVars, result>>
    <3>1. pc'[p] = "guard_power" /\ result' = result
      BY <1>1, <2>2, MoveFacts
    <3>. QED  BY <1>1, <2>1, <2>2, <3>1, AtGuard DEF ToolInv, ResultInv
  <2>3. CASE Return(p, "NO_SOC_CTRL")
    BY <2>3, CallReturns DEF Refused
  <2>. QED  BY <1>2, <2>2, <2>3 DEF GuardEnabled
<1>3. CASE GuardPower(p)
  <2>1. pc[p] = "guard_power" /\ ctl' = ctl /\ ctl.en
    BY <1>1, <1>3 DEF GuardPower, At, fabricVars, ToolInv, CtlInv
  <2>2. CASE Return(p, "PWR_OFF")
    BY <2>1, <2>2, CallReturns DEF Refused
  <2>3. CASE /\ Goto(p, IF IsConfigure(p) THEN "ctl_read" ELSE "pull_read")
             /\ UNCHANGED <<callVars, localVars, result>>
    <3>1. /\ pc'[p] = (IF IsConfigure(p) THEN "ctl_read" ELSE "pull_read")
          /\ result' = result /\ job' = job
      BY <1>1, <2>3, MoveFacts DEF callVars
    <3>. QED  BY <1>1, <2>1, <3>1, AtGuard DEF ToolInv, ResultInv, IsConfigure
  <2>. QED  BY <1>3, <2>2, <2>3 DEF GuardPower
<1>4. CASE PullRead(p)
  <2>1. /\ pc[p] = "pull_read" /\ pc'[p] = "pull_write" /\ reg'[p] = ctl /\ ctl' = ctl
        /\ result' = result /\ job' = job
    BY <1>1, <1>4, ReadFacts DEF PullRead
  <2>2. CtlInv(p)'
    BY <1>1, <2>1 DEF ToolInv, CtlInv, Feeding, Closing, Released, Programmed
  <2>3. ResultInv(p)'
    BY <1>1, <2>1 DEF ToolInv, ResultInv, IsConfigure
  <2>. QED  BY <2>2, <2>3 DEF ToolInv
<1>5. CASE PullWrite(p)
  <2>1. /\ pc[p] = "pull_write" /\ pc'[p] = "idle" /\ job' = job
        /\ ctl' = [reg[p] EXCEPT !.nconfigpull = (job[p].op = "assert")]
    BY <1>1, <1>5, MoveFacts, WriteBackFacts DEF PullWrite, At
  <2>2. reg[p] = ctl /\ ctl.en /\ ~IsConfigure(p)
    BY <1>1, <2>1 DEF ToolInv, CtlInv, ResultInv, Cached
  <2>3. ctl'.en
    BY <1>1, <2>1, <2>2 DEF CtlReg
  <2>. QED  BY <2>1, <2>2, <2>3, AtRest DEF IsConfigure
<1>6. CASE CtlRead(p)
  <2>1. /\ pc[p] = "ctl_read" /\ pc'[p] = "step1" /\ reg'[p] = ctl /\ ctl' = ctl
        /\ result' = result /\ job' = job
    BY <1>1, <1>6, ReadFacts DEF CtlRead
  <2>2. CtlInv(p)'
    BY <1>1, <2>1 DEF ToolInv, CtlInv, Feeding, Closing, Released, Programmed
  <2>3. ResultInv(p)'
    BY <1>1, <2>1 DEF ToolInv, ResultInv
  <2>. QED  BY <2>2, <2>3 DEF ToolInv
<1>. QED  BY <1>2, <1>3, <1>4, <1>5, <1>6

LEMMA PollSole ==
  ASSUME TypeInv, NEW p \in Tools, ToolInv(p), PollAgain(p), UNCHANGED fabricVars
  PROVE  ToolInv(p)'
<1>1. /\ pc' = pc /\ reg' = reg /\ ctl' = ctl /\ msel' = msel
      /\ result' = result /\ job' = job
  BY DEF PollAgain, callVars, fabricVars
<1>2. CtlInv(p)'
  BY <1>1 DEF ToolInv, CtlInv, SetUp
<1>3. ResultInv(p)'
  BY <1>1 DEF ToolInv, ResultInv, IsConfigure, At
<1>. QED  BY <1>2, <1>3 DEF ToolInv

\* A step from one location inside alt_fpga_internal_configure to the next one
\* that leaves CTRL as the location it comes to demands.
LEMMA NextStep ==
  ASSUME NEW p \in Tools, pc'[p] \in Programmed, result'[p] = None,
         reg'[p] = ctl', ctl'.en, SetUp(ctl)',
         pc'[p] \in Released => ~ctl'.nconfigpull,
         pc'[p] \in Feeding => ctl'.axicfgen,
         pc'[p] \in Closing => ~ctl'.axicfgen
  PROVE  ToolInv(p)'
BY DEF ToolInv, CtlInv, ResultInv, Locations, DriverLocations, Feeding, Closing, Released,
       Programmed

LEMMA WriteRegFacts ==
  ASSUME TypeInv, NEW p \in Tools, NEW r, WriteCtrlReg(p, r)
  PROVE  ctl' = r /\ reg'[p] = r /\ (SetUp(r) => SetUp(ctl)')
BY DEF TypeInv, TypeOK, WriteCtrlReg, WriteCtl, SetUp

\* What holds before a step of alt_fpga_internal_configure.
LEMMA Before ==
  ASSUME TypeInv, NEW p \in Tools, ToolInv(p), pc[p] \in Programmed \cup {"step1"}
  PROVE  /\ ctl \in CtlReg /\ reg[p] = ctl /\ ctl.en /\ result[p] = None
         /\ pc[p] \in Programmed => SetUp(ctl)
         /\ pc[p] \in Released => ~ctl.nconfigpull
         /\ pc[p] \in Feeding => ctl.axicfgen
         /\ pc[p] \in Closing => ~ctl.axicfgen
BY DEF TypeInv, TypeOK, FabricTypeOK, ToolInv, CtlInv, ResultInv, Cached, InControl,
       Locations, DriverLocations, Feeding, Closing, Released, Programmed

\* A step that leaves CTRL alone and goes on within a part of the function.
LEMMA KeepsCtl ==
  ASSUME TypeInv, NEW p \in Tools, ToolInv(p),
         \/ pc[p] \in Feeding /\ pc'[p] \in Feeding
         \/ pc[p] \in Closing /\ pc'[p] \in Closing
         \/ pc[p] = "step4" /\ pc'[p] = "step5"
         \/ pc[p] = "step6" /\ pc'[p] = "step8",
         UNCHANGED <<ctl, msel, reg, result>>
  PROVE  ToolInv(p)'
<1>. USE DEF Feeding, Closing, Released, Programmed
<1>1. /\ reg[p] = ctl /\ ctl.en /\ result[p] = None /\ SetUp(ctl)
      /\ pc[p] \in Released => ~ctl.nconfigpull
      /\ pc[p] \in Feeding => ctl.axicfgen
      /\ pc[p] \in Closing => ~ctl.axicfgen
  BY Before
<1>2. SetUp(ctl)'
  BY <1>1 DEF SetUp
<1>. QED  BY <1>1, <1>2, NextStep

LEMMA SetUpSole ==
  ASSUME TypeInv, NEW p \in Tools, ToolInv(p),
         Step1(p) \/ Step3(p) \/ Step4(p) \/ Step5(p) \/ Step6(p) \/ Step8(p)
  PROVE  ToolInv(p)'
<1>. USE DEF Feeding, Closing, Released, Programmed
<1>1. CASE Step1(p)
  <2> DEFINE r == [reg[p] EXCEPT !.cdratio = CdRatio(msel), !.cfgwdth = CfgWidth(msel),
                                 !.nce = FALSE]
  <2>0. pc[p] = "step1"
    BY <1>1 DEF Step1, At
  <2>1. reg[p] = ctl /\ ctl.en /\ result[p] = None /\ ctl \in CtlReg
    BY <2>0, Before
  <2>2. CASE UNCHANGED fabricVars /\ Return(p, "ERROR")
    BY <2>2, CallReturns DEF Refused
  <2>3. CASE WriteCtrlReg(p, r) /\ Goto(p, "step3") /\ result' = result
    <3>1. SetUp(r) /\ r.en = ctl.en
      BY <2>1, SetUpWritten
    <3>. HIDE DEF r
    <3>2. ctl' = r /\ reg'[p] = r /\ SetUp(ctl)' /\ pc'[p] = "step3"
      BY <2>3, <3>1, WriteRegFacts, MoveFacts
    <3>. QED  BY <2>1, <2>3, <3>1, <3>2, NextStep
  <2>. QED  BY <1>1, <2>2, <2>3 DEF Step1
<1>2. CASE Step3(p)
  <2> DEFINE r == [reg[p] EXCEPT !.nconfigpull = TRUE]
  <2>0. pc[p] = "step3"
    BY <1>2 DEF Step3, At
  <2>1. reg[p] = ctl /\ ctl.en /\ SetUp(ctl) /\ result[p] = None /\ ctl \in CtlReg
    BY <2>0, Before
  <2>2. WriteCtrlReg(p, r) /\ Goto(p, "step4") /\ result' = result
    BY <1>2 DEF Step3
  <2>3. r.en /\ SetUp(r)
    BY <2>1 DEF CtlReg, SetUp
  <2>. HIDE DEF r
  <2>4. ctl' = r /\ reg'[p] = r /\ SetUp(ctl)' /\ pc'[p] = "step4"
    BY <2>2, <2>3, WriteRegFacts, MoveFacts
  <2>. QED  BY <2>1, <2>2, <2>3, <2>4, NextStep
<1>3. CASE Step4(p)
  <2>1. UNCHANGED fabricVars /\ pc[p] = "step4"
    BY <1>3 DEF Step4, At
  <2>2. CASE PollAgain(p)
    BY <2>1, <2>2, PollSole
  <2>3. CASE Goto(p, "step5") /\ UNCHANGED <<callVars, reg, result>>
    <3>1. pc'[p] = "step5" /\ UNCHANGED <<ctl, msel, reg, result>>
      BY <2>1, <2>3, MoveFacts DEF fabricVars
    <3>. QED  BY <2>1, <3>1, KeepsCtl
  <2>. QED  BY <1>3, <2>2, <2>3 DEF Step4
<1>4. CASE Step5(p)
  <2> DEFINE r == [reg[p] EXCEPT !.nconfigpull = FALSE]
  <2>0. pc[p] = "step5"
    BY <1>4 DEF Step5, At
  <2>1. reg[p] = ctl /\ ctl.en /\ SetUp(ctl) /\ result[p] = None /\ ctl \in CtlReg
    BY <2>0, Before
  <2>2. r.en /\ ~r.nconfigpull /\ SetUp(r)
    BY <2>1 DEF CtlReg, SetUp
  <2>3. CASE WriteCtrlReg(p, r) /\ Goto(p, "step6") /\ result' = result
    <3>. HIDE DEF r
    <3>1. ctl' = r /\ reg'[p] = r /\ SetUp(ctl)' /\ pc'[p] = "step6"
      BY <2>2, <2>3, WriteRegFacts, MoveFacts
    <3>. QED  BY <2>1, <2>2, <2>3, <3>1, NextStep
  <2>4. CASE WriteCtl(r) /\ Return(p, "CFG")
    <3>1. ctl' = r
      BY <2>4 DEF WriteCtl
    <3>. QED  BY <2>2, <2>4, <3>1, CallReturns
  <2>. QED  BY <1>4, <2>3, <2>4 DEF Step5
<1>5. CASE Step6(p)
  <2>1. UNCHANGED fabricVars /\ pc[p] = "step6"
    BY <1>5 DEF Step6, At
  <2>2. CASE PollAgain(p)
    BY <2>1, <2>2, PollSole
  <2>3. CASE Return(p, "CFG")
    <3>1. ctl' = ctl /\ ctl.en /\ ~ctl.nconfigpull
      BY <2>1, Before DEF fabricVars
    <3>. QED  BY <2>3, <3>1, CallReturns
  <2>4. CASE Goto(p, "step8") /\ UNCHANGED <<callVars, localVars, result>>
    <3>1. pc'[p] = "step8" /\ UNCHANGED <<ctl, msel, reg, result>>
      BY <2>1, <2>4, MoveFacts DEF localVars, fabricVars
    <3>. QED  BY <2>1, <3>1, KeepsCtl
  <2>. QED  BY <1>5, <2>2, <2>3, <2>4 DEF Step6
<1>6. CASE Step8(p)
  <2> DEFINE r == [reg[p] EXCEPT !.axicfgen = TRUE]
  <2>0. pc[p] = "step8"
    BY <1>6 DEF Step8, At
  <2>1. /\ reg[p] = ctl /\ ctl.en /\ SetUp(ctl) /\ result[p] = None
        /\ ctl \in CtlReg /\ ~ctl.nconfigpull
    BY <2>0, Before
  <2>2. WriteCtrlReg(p, r) /\ Goto(p, "step9") /\ result' = result
    BY <1>6 DEF Step8
  <2>3. r.en /\ ~r.nconfigpull /\ r.axicfgen /\ SetUp(r)
    BY <2>1 DEF CtlReg, SetUp
  <2>. HIDE DEF r
  <2>4. ctl' = r /\ reg'[p] = r /\ SetUp(ctl)' /\ pc'[p] = "step9"
    BY <2>2, <2>3, WriteRegFacts, MoveFacts
  <2>. QED  BY <2>1, <2>2, <2>3, <2>4, NextStep
<1>. QED  BY <1>1, <1>2, <1>3, <1>4, <1>5, <1>6

-----------------------------------------------------------------------------
LEMMA DataSole ==
  ASSUME TypeInv, NEW p \in Tools, ToolInv(p),
         \/ Step9Full(p) \/ Step9Stream(p)
         \/ AxiWord(p) \/ AxiTail(p) \/ AxiReturn(p) \/ Step10(p)
  PROVE  ToolInv(p)'
<1>1. CASE Step10(p) /\ PollAgain(p)
  BY <1>1, PollSole DEF Step10
<1>2. CASE ~PollAgain(p)
  <2>1. /\ pc[p] \in Feeding /\ pc'[p] \in Feeding
        /\ UNCHANGED <<ctl, msel, reg, result>>
    <3>. USE DEF TypeInv, TypeOK, At, Goto, fabricVars, callVars, localVars, Feeding
    <3>1. CASE Step9Full(p) \/ Step9Stream(p)
      BY <3>1 DEF Step9Full, Step9Stream, EndData, BeginStep10, CallWriteAxi
    <3>2. CASE AxiWord(p) \/ AxiTail(p)
      BY <3>2 DEF AxiWord, AxiTail, AxiWrite
    <3>3. CASE AxiReturn(p)
      BY <3>3 DEF AxiReturn, BeginStep10
    <3>4. CASE Step10(p)
      BY <1>2, <3>4 DEF Step10, EndData
    <3>. QED  BY <3>1, <3>2, <3>3, <3>4
  <2>. QED  BY <2>1, KeepsCtl
<1>3. PollAgain(p) => pc' = pc /\ timeout' # timeout
  BY DEF PollAgain, TypeInv, TypeOK
<1>4. CASE PollAgain(p) /\ ~Step10(p)
  BY <1>3, <1>4
  DEF Step9Full, Step9Stream, AxiWord, AxiTail, AxiReturn, AxiWrite, EndData, BeginStep10,
      CallWriteAxi, Goto, At, TypeInv, TypeOK, localVars, callVars
<1>. QED  BY <1>1, <1>2, <1>4

LEMMA EndSole ==
  ASSUME TypeInv, NEW p \in Tools, ToolInv(p),
         \/ Step11(p) \/ DclkStat(p) \/ DclkClear(p) \/ DclkCount(p)
         \/ DclkPoll(p) \/ DclkAck(p) \/ Step13(p)
  PROVE  ToolInv(p)'
<1>. USE DEF Feeding, Closing
<1>1. CASE Step11(p)
  <2> DEFINE r == [reg[p] EXCEPT !.axicfgen = FALSE]
  <2>0. pc[p] = "step11"
    BY <1>1 DEF Step11, At
  <2>1. /\ reg[p] = ctl /\ ctl.en /\ SetUp(ctl) /\ result[p] = None
        /\ ctl \in CtlReg /\ ~ctl.nconfigpull
    BY <2>0, Before DEF Released, Programmed
  <2>2. WriteCtrlReg(p, r) /\ Goto(p, "dclk_stat") /\ result' = result
    BY <1>1 DEF Step11
  <2>3. r.en /\ ~r.nconfigpull /\ ~r.axicfgen /\ SetUp(r)
    BY <2>1 DEF CtlReg, SetUp
  <2>. HIDE DEF r
  <2>4. ctl' = r /\ reg'[p] = r /\ SetUp(ctl)' /\ pc'[p] = "dclk_stat"
    BY <2>2, <2>3, WriteRegFacts, MoveFacts
  <2>. QED  BY <2>1, <2>2, <2>3, <2>4, NextStep DEF Released, Programmed
<1>2. CASE DclkStat(p) \/ DclkClear(p) \/ DclkCount(p) \/ DclkAck(p)
  <2>1. pc[p] \in Closing /\ pc'[p] \in Closing /\ UNCHANGED <<ctl, msel, reg, result>>
    BY <1>2
    DEF DclkStat, DclkClear, DclkCount, DclkAck, At, Goto, TypeInv, TypeOK,
        fabricVars, callVars, localVars
  <2>. QED  BY <2>1, KeepsCtl
<1>3. CASE DclkPoll(p) \/ Step13(p)
  <2>1. pc[p] \in Closing /\ UNCHANGED fabricVars
    BY <1>3 DEF DclkPoll, Step13, At
  <2>2. ctl.en /\ ~ctl.nconfigpull /\ ~ctl.axicfgen /\ ctl' = ctl
    BY <2>1, Before DEF Released, Programmed, fabricVars
  <2>3. CASE PollAgain(p)
    BY <2>1, <2>3, PollSole
  <2>4. CASE \E st : Return(p, st)
    BY <2>2, <2>4, CallReturns
  <2>5. CASE Goto(p, "dclk_ack") /\ UNCHANGED <<callVars, localVars, result>>
    <3>1. pc'[p] \in Closing /\ UNCHANGED <<ctl, msel, reg, result>>
      BY <2>1, <2>5, MoveFacts DEF callVars, localVars, fabricVars
    <3>. QED  BY <2>1, <3>1, KeepsCtl
  <2>. QED  BY <1>3, <2>3, <2>4, <2>5 DEF DclkPoll, Step13
<1>. QED  BY <1>1, <1>2, <1>3

LEMMA ToolSole ==
  ASSUME TypeInv, NEW p \in Tools, ToolInv(p), Client(p) \/ Control(p) \/ InCall(p)
  PROVE  ToolInv(p)'
BY ClientSole, ControlSole, GuardSole, SetUpSole, DataSole, EndSole DEF InCall

-----------------------------------------------------------------------------
\* Steps that change nothing a tool relies on.
LEMMA StaysSole ==
  ASSUME NEW p \in Tools, ToolInv(p), UNCHANGED <<ctl, msel, pc, reg, result, job>>
  PROVE  ToolInv(p)'
<1>1. CtlInv(p)'
  BY DEF ToolInv, CtlInv, SetUp
<1>2. ResultInv(p)'
  BY DEF ToolInv, ResultInv, IsConfigure, At
<1>. QED  BY <1>1, <1>2 DEF ToolInv

\* Steps of the fabric change none of the registers and only ever clear it.
LEMMA FabricMoves ==
  ASSUME FabricNext
  PROVE  /\ ctl' = ctl /\ msel' = msel
         /\ cram' = cram \/ cram' = <<>>
BY DEF FabricNext, PowerLoss, PowerUp, EnterReset, EnterCfg, RaiseConfDone, FlagError,
       EnterInit, EnterUser, DclkDone

LEMMA InitSole == Init => SoleInv
<1>. SUFFICES ASSUME Init PROVE SoleInv
  OBVIOUS
<1>1. ASSUME NEW p \in Tools PROVE ToolInv(p)
  BY DEF Init, ToolInv, CtlInv, ResultInv, Cached, InControl, Locations,
         DriverLocations, Feeding, Closing, Released, Programmed, Refused
<1>. QED  BY <1>1, InitTypeInv DEF SoleInv

LEMMA NextSole ==
  ASSUME SoleTool
  PROVE  SoleInv /\ [Next]_vars => SoleInv'
<1>. SUFFICES ASSUME SoleInv, [Next]_vars PROVE SoleInv'
  OBVIOUS
<1>1. TypeInv'
  BY NextTypeInv DEF SoleInv
<1>2. CASE Fabric \/ UNCHANGED vars
  <2>1. UNCHANGED <<ctl, msel, pc, reg, result, job>>
    BY <1>2, FabricMoves DEF Fabric, vars, fabricVars, toolVars, callVars, localVars
  <2>. QED  BY <1>1, <2>1, StaysSole DEF SoleInv
<1>3. ASSUME NEW p \in Tools, Client(p) \/ Control(p) \/ InCall(p)
      PROVE  SoleInv'
  <2>1. ToolInv(p)'
    BY <1>3, ToolSole DEF SoleInv
  <2>2. \A q \in Tools : q = p
    BY DEF SoleTool
  <2>. QED  BY <1>1, <2>1, <2>2 DEF SoleInv
<1>. QED  BY <1>2, <1>3 DEF Next

\* The words go in through an open data path: from Step 8 to Step 11 CTRL holds
\* what the driver's cached ctrl_reg says, as long as one tool uses the driver.
THEOREM SoleDataPathOpen ==
  ASSUME SoleTool
  PROVE  Spec => []DataPathOpen
<1>1. ASSUME SoleInv, NEW p \in Tools, pc[p] \in Feeding
      PROVE  /\ ctl.en /\ ctl.axicfgen /\ ~ctl.nconfigpull /\ SetUp(ctl)
  BY <1>1, Before DEF SoleInv, Released, Programmed
<1>2. SoleInv => DataPathOpen
  BY <1>1 DEF DataPathOpen, SetUp, Feeding
<1>. QED  BY <1>2, InitSole, NextSole, PTL DEF Spec

\* How a configuration call that was not refused can return.
LEMMA Exits ==
  ASSUME TypeInv, NEW p \in Tools, ToolInv(p), Client(p) \/ Control(p) \/ InCall(p),
         pc[p] \in DriverLocations, pc'[p] = "idle",
         IsConfigure(p), result'[p] \notin Refused
  PROVE  \/ pc[p] \in Closing /\ ctl' = ctl
         \/ pc[p] = "step6" /\ ctl' = ctl
         \/ pc[p] = "step5" /\ ctl' = [reg[p] EXCEPT !.nconfigpull = FALSE]
<1>. USE DEF At, TypeInv, TypeOK
<1>1. CASE Client(p) \/ Control(p)
  BY <1>1
  DEF Client, Start, Call, Finish, Kill, Control, EnableRead, EnableWrite, DisableRead,
      DisableWrite, ReadCtlForUpdate, Goto, DriverLocations, Locations
<1>2. CASE GuardEnabled(p) \/ GuardPower(p)
  BY <1>2, ReturnFacts DEF GuardEnabled, GuardPower, Goto, Refused
<1>3. CASE PullRead(p) \/ PullWrite(p) \/ CtlRead(p)
  BY <1>3, ReadFacts DEF PullRead, PullWrite, CtlRead, ToolInv, ResultInv
<1>4. CASE Step1(p)
  BY <1>4, ReturnFacts DEF Step1, Goto, Refused
<1>5. CASE Step3(p) \/ Step4(p) \/ Step8(p)
  BY <1>5 DEF Step3, Step4, Step8, PollAgain, Goto
<1>6. CASE Step5(p)
  <2>1. pc[p] = "step5"
    BY <1>6 DEF Step5
  <2>2. CASE status[p] = "SUCCESS"
    BY <1>6, <2>2 DEF Step5, Goto
  <2>3. CASE status[p] # "SUCCESS"
    BY <1>6, <2>1, <2>3 DEF Step5, WriteCtl
  <2>. QED  BY <2>2, <2>3
<1>7. CASE Step6(p)
  BY <1>7 DEF Step6, fabricVars
<1>8. CASE Step9Full(p) \/ Step9Stream(p)
  BY <1>8 DEF Step9Full, Step9Stream, EndData, CallWriteAxi, BeginStep10, Goto
<1>9. CASE AxiWord(p) \/ AxiTail(p) \/ AxiReturn(p)
  BY <1>9 DEF AxiWord, AxiTail, AxiReturn, AxiWrite, BeginStep10, Goto
<1>10. CASE Step10(p)
  BY <1>10 DEF Step10, EndData, PollAgain, Goto
<1>11. CASE Step11(p)
  BY <1>11 DEF Step11, Goto
<1>12. CASE DclkStat(p) \/ DclkClear(p) \/ DclkCount(p) \/ DclkAck(p)
  BY <1>12 DEF DclkStat, DclkClear, DclkCount, DclkAck, Goto
<1>13. CASE DclkPoll(p) \/ Step13(p)
  BY <1>13 DEF DclkPoll, Step13, Closing, fabricVars
<1>. QED
  BY <1>1, <1>2, <1>3, <1>4, <1>5, <1>6, <1>7, <1>8, <1>9, <1>10, <1>11, <1>12, <1>13
  DEF InCall

\* Every configuration call that is not refused returns with nCONFIG released, the HPS
\* in control, and AXICFGEN clear unless it failed in Step 4 or 6 and had found it set
\* (alt_fpga_internal_configure), as long as one tool uses the driver.
THEOREM SoleHandsBack ==
  ASSUME SoleTool
  PROVE  Spec => HandsBackFabric
<1> DEFINE Returns(p) == /\ pc[p] \in DriverLocations /\ pc'[p] = "idle"
                         /\ IsConfigure(p) /\ result'[p] \notin Refused
           Closed(p) == /\ ctl'.en /\ ~ctl'.nconfigpull
                        /\ ctl'.axicfgen => pc[p] \in {"step5", "step6"} /\ reg[p].axicfgen
<1>1. ASSUME SoleInv, [Next]_vars, NEW p \in Tools, Returns(p)
      PROVE  Closed(p)
  <2>1. Client(p) \/ Control(p) \/ InCall(p)
    <3>1. pc' # pc
      BY <1>1 DEF DriverLocations
    <3>2. ~UNCHANGED vars /\ ~Fabric
      BY <3>1 DEF vars, Fabric, toolVars, callVars
    <3>. QED  BY <1>1, <3>2 DEF Next, SoleTool
  <2>2. TypeInv /\ ToolInv(p)
    BY <1>1 DEF SoleInv
  <2>3. \/ pc[p] \in Closing /\ ctl' = ctl
        \/ pc[p] = "step6" /\ ctl' = ctl
        \/ pc[p] = "step5" /\ ctl' = [reg[p] EXCEPT !.nconfigpull = FALSE]
    BY <1>1, <2>1, <2>2, Exits
  <2>4. /\ ctl \in CtlReg /\ reg[p] = ctl /\ ctl.en
        /\ pc[p] \in Released => ~ctl.nconfigpull
        /\ pc[p] \in Closing => ~ctl.axicfgen
    BY <2>2, <2>3, Before DEF Programmed, Released
  <2>5. CASE pc[p] = "step5"
    <3>1. ctl' = [ctl EXCEPT !.nconfigpull = FALSE]
      BY <2>3, <2>4, <2>5 DEF Closing
    <3>. QED  BY <2>4, <2>5, <3>1, CtlFields
  <2>6. CASE pc[p] # "step5"
    BY <2>3, <2>4, <2>6 DEF Released
  <2>. QED  BY <2>5, <2>6
<1>2. SoleInv /\ [Next]_vars => \A p \in Tools : Returns(p) => Closed(p)
  BY <1>1
<1>. QED  BY <1>2, InitSole, NextSole, PTL DEF Spec, HandsBackFabric

=============================================================================
