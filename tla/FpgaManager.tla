---------------------------- MODULE FpgaManager ----------------------------
(***************************************************************************)
(* The FPGA manager driver of FPGA-writeConfig (alt_fpga_manager.c, built  *)
(* without DMA) and the client that calls it, one action per access to a   *)
(* hardware register.  Tools run at the same time on the same registers;   *)
(* nothing in the code keeps them apart, and any of them may be killed     *)
(* between two accesses and be started again.                              *)
(*                                                                         *)
(* pc[p] names the next access of tool p, after the step numbers of        *)
(* alt_fpga_internal_configure.  "idle" is the client between two calls of *)
(* the driver, "off" a tool that is not running.                           *)
(***************************************************************************)
EXTENDS FpgaFabric, Integers

CONSTANTS
  Tools,          \* processes that use the driver
  Jobs,           \* calls a client makes: [op, len], len in bytes
  StreamReturns,  \* values the istream callback may return
  ChunkSize,      \* ISTREAM_CHUNK_SIZE, bytes
  DataLimit,      \* data_limit, bytes
  StateTimeout,   \* _ALT_FPGA_TMO_STATE
  ConfigTimeout,  \* _ALT_FPGA_TMO_CONFIG
  DclkTimeout,    \* _ALT_FPGA_TMO_DCLK_CONST + 4 * _ALT_FPGA_TMO_DCLK_MUL
  MaxCalls        \* bound on the calls made, to keep the labels finite

Ops == {"configure", "istream", "assert", "deassert"}

ASSUME JobsAssumption == Jobs \subseteq [op : Ops, len : Nat]
ASSUME StreamAssumption ==
  /\ StreamReturns \subseteq Int
  /\ ChunkSize \in Nat
ASSUME BoundsAssumption ==
  /\ DataLimit \in Nat
  /\ StateTimeout \in Nat
  /\ ConfigTimeout \in Nat
  /\ DclkTimeout \in Nat
  /\ MaxCalls \in Nat

VARIABLES
  pc,          \* the next register access of each tool
  calls,       \* how many calls have been made; the last one's label
  call,        \* label of the call each tool is in
  job,         \* arguments of that call
  reg,         \* ctrl_reg, and the value a read-modify-write has read
  timeout,     \* the timeout counter of the polling loop
  status,      \* local status of alt_fpga_internal_configure
  dataStatus,  \* data_status
  limit,       \* data_limit in alt_fpga_internal_configure_idata
  base,        \* offset in the image of the buffer given to writeaxi
  len,         \* its length in bytes
  left,        \* cfg_buf_len in alt_fpga_internal_writeaxi
  result       \* what the last call returned

localVars == <<reg, timeout, status, dataStatus, limit, base, len, left>>
callVars  == <<calls, call, job>>
toolVars  == <<pc, callVars, localVars, result>>
vars      == <<fabricVars, toolVars>>

Status == {"SUCCESS", "ERROR", "TMO", "NO_SOC_CTRL", "PWR_OFF",
           "CFG", "CFG_STM", "CRC"}
None == "none"

Locations ==
  {"off", "enable_read", "enable_write", "idle",
   "guard_en", "guard_power", "pull_read", "pull_write",
   "ctl_read", "step1", "step3", "step4", "step5", "step6", "step8",
   "step9", "axi", "step10", "step11",
   "dclk_stat", "dclk_clear", "dclk_count", "dclk_poll", "dclk_ack", "step13",
   "disable_read", "disable_write"}

NoJob == [op |-> "none", len |-> 0]
ResetReg == [en |-> FALSE, nce |-> FALSE, nconfigpull |-> FALSE,
             axicfgen |-> FALSE, cdratio |-> 1, cfgwdth |-> 32]

TypeOK ==
  /\ FabricTypeOK
  /\ pc \in [Tools -> Locations]
  /\ calls \in 0..MaxCalls
  /\ call \in [Tools -> 0..MaxCalls]
  /\ job \in [Tools -> Jobs \cup {NoJob}]
  /\ reg \in [Tools -> CtlReg]
  /\ timeout \in [Tools -> Nat]
  /\ status \in [Tools -> Status \cup {None}]
  /\ dataStatus \in [Tools -> Status \cup {None}]
  /\ limit \in [Tools -> Nat]
  /\ base \in [Tools -> Nat]
  /\ len \in [Tools -> Nat]
  /\ left \in [Tools -> Nat]
  /\ result \in [Tools -> Status \cup {None}]

Init ==
  /\ FabricInit
  /\ pc = [p \in Tools |-> "off"]
  /\ calls = 0
  /\ call = [p \in Tools |-> 0]
  /\ job = [p \in Tools |-> NoJob]
  /\ reg = [p \in Tools |-> ResetReg]
  /\ timeout = [p \in Tools |-> 0]
  /\ status = [p \in Tools |-> None]
  /\ dataStatus = [p \in Tools |-> None]
  /\ limit = [p \in Tools |-> 0]
  /\ base = [p \in Tools |-> 0]
  /\ len = [p \in Tools |-> 0]
  /\ left = [p \in Tools |-> 0]
  /\ result = [p \in Tools |-> None]

Goto(p, location) == pc' = [pc EXCEPT ![p] = location]
At(p, location) == pc[p] = location

\* The call returns st to the client; its local variables are gone.
DropLocals(p) ==
  /\ reg' = [reg EXCEPT ![p] = ResetReg]
  /\ timeout' = [timeout EXCEPT ![p] = 0]
  /\ status' = [status EXCEPT ![p] = None]
  /\ dataStatus' = [dataStatus EXCEPT ![p] = None]
  /\ limit' = [limit EXCEPT ![p] = 0]
  /\ base' = [base EXCEPT ![p] = 0]
  /\ len' = [len EXCEPT ![p] = 0]
  /\ left' = [left EXCEPT ![p] = 0]

Return(p, st) ==
  /\ Goto(p, "idle")
  /\ result' = [result EXCEPT ![p] = st]
  /\ DropLocals(p)
  /\ UNCHANGED callVars

-----------------------------------------------------------------------------
\* The client: taking and giving back control, and the calls in between.

Start(p) ==
  /\ At(p, "off")
  /\ Goto(p, "enable_read")
  /\ UNCHANGED <<fabricVars, callVars, localVars, result>>

ReadCtlForUpdate(p, from, to) ==
  /\ At(p, from)
  /\ reg' = [reg EXCEPT ![p] = ctl]
  /\ Goto(p, to)
  /\ UNCHANGED <<fabricVars, callVars, timeout, status, dataStatus, limit,
                 base, len, left, result>>

\* Second half of alt_setbits_word / alt_clrbits_word on CTRL.
WriteCtlBack(p, value) ==
  /\ WriteCtl(value)
  /\ DropLocals(p)
  /\ UNCHANGED <<powered, mode, mon, cram, dclk, msel, callVars>>

EnableRead(p) == ReadCtlForUpdate(p, "enable_read", "enable_write")

EnableWrite(p) ==
  /\ At(p, "enable_write")
  /\ WriteCtlBack(p, [reg[p] EXCEPT !.en = TRUE])
  /\ Goto(p, "idle")
  /\ UNCHANGED result

DisableRead(p) == ReadCtlForUpdate(p, "disable_read", "disable_write")

DisableWrite(p) ==
  /\ At(p, "disable_write")
  /\ WriteCtlBack(p, [reg[p] EXCEPT !.en = FALSE])
  /\ Goto(p, "off")
  /\ UNCHANGED result

\* The client makes a call of the driver, its first or a retry.
Call(p) ==
  /\ At(p, "idle")
  /\ calls < MaxCalls
  /\ calls' = calls + 1
  /\ call' = [call EXCEPT ![p] = calls + 1]
  /\ \E j \in Jobs : job' = [job EXCEPT ![p] = j]
  /\ result' = [result EXCEPT ![p] = None]
  /\ Goto(p, "guard_en")
  /\ UNCHANGED <<fabricVars, localVars>>

Finish(p) ==
  /\ At(p, "idle")
  /\ Goto(p, "disable_read")
  /\ UNCHANGED <<fabricVars, callVars, localVars, result>>

\* The tool is killed; the registers keep what it wrote last.
Kill(p) ==
  /\ pc[p] # "off"
  /\ Goto(p, "off")
  /\ DropLocals(p)
  /\ UNCHANGED <<fabricVars, callVars, result>>

-----------------------------------------------------------------------------
\* The checks every call begins with.

IsConfigure(p) == job[p].op \in {"configure", "istream"}

GuardEnabled(p) ==
  /\ At(p, "guard_en")
  /\ \/ /\ ctl.en
        /\ Goto(p, "guard_power")
        /\ UNCHANGED <<callVars, localVars, result>>
     \/ ~ctl.en /\ Return(p, "NO_SOC_CTRL")
  /\ UNCHANGED fabricVars

GuardPower(p) ==
  /\ At(p, "guard_power")
  /\ \/ /\ powered
        /\ Goto(p, IF IsConfigure(p) THEN "ctl_read" ELSE "pull_read")
        /\ UNCHANGED <<callVars, localVars, result>>
     \/ ~powered /\ Return(p, "PWR_OFF")
  /\ UNCHANGED fabricVars

-----------------------------------------------------------------------------
\* alt_fpga_reset_assert and alt_fpga_reset_deassert.

PullRead(p) == ReadCtlForUpdate(p, "pull_read", "pull_write")

PullWrite(p) ==
  /\ At(p, "pull_write")
  /\ WriteCtlBack(p, [reg[p] EXCEPT !.nconfigpull = (job[p].op = "assert")])
  /\ Goto(p, "idle")
  /\ result' = [result EXCEPT ![p] = "SUCCESS"]

-----------------------------------------------------------------------------
\* alt_fpga_internal_configure, Steps 1 to 8.

Pp16 == {0, 1, 2, 4, 5, 6}
Pp32 == {8, 9, 10, 12, 13, 14}
KnownMsel(m) == m \in Pp16 \cup Pp32
CfgWidth(m) == IF m \in Pp16 THEN 16 ELSE 32
CdRatio(m) ==
  CASE m \in {1, 5} -> 2
    [] m \in {2, 6, 9, 13} -> 4
    [] m \in {10, 14} -> 8
    [] OTHER -> 1

CtlRead(p) == ReadCtlForUpdate(p, "ctl_read", "step1")

\* Mutant of WriteCtrlReg: the register is written, the cached ctrl_reg is not.
WriteCtrlRegUncached(p, value) ==
  /\ WriteCtl(value)
  /\ UNCHANGED reg
  /\ UNCHANGED <<powered, mode, mon, cram, dclk, msel, callVars>>

\* One write of CTRL with ctrl_reg changed to value, then on to the next step.
WriteCtrlReg(p, value) ==
  /\ WriteCtl(value)
  /\ reg' = [reg EXCEPT ![p] = value]
  /\ UNCHANGED <<powered, mode, mon, cram, dclk, msel, callVars>>

Step1(p) ==
  /\ At(p, "step1")
  /\ \/ /\ KnownMsel(msel)
        /\ WriteCtrlReg(p, [reg[p] EXCEPT !.cdratio = CdRatio(msel),
                                          !.cfgwdth = CfgWidth(msel),
                                          !.nce = FALSE])
        /\ Goto(p, "step3")
        /\ UNCHANGED <<timeout, status, dataStatus, limit, base, len, left, result>>
     \/ /\ ~KnownMsel(msel)
        /\ Return(p, "ERROR")
        /\ UNCHANGED fabricVars

Step3(p) ==
  /\ At(p, "step3")
  /\ WriteCtrlReg(p, [reg[p] EXCEPT !.nconfigpull = TRUE])
  /\ timeout' = [timeout EXCEPT ![p] = StateTimeout]
  /\ Goto(p, "step4")
  /\ UNCHANGED <<status, dataStatus, limit, base, len, left, result>>

\* alt_fpga_state_get() = expected.  Its two reads are one step: the fabric
\* only ever moves by itself, and a state read after POWER_ON was seen low or
\* just before it falls is never the expected one.
FpgaStateIs(expected) == powered /\ mode = expected

\* Mutant of PollAgain: the counter is tested but never counts down.
PollForever(p) ==
  /\ timeout[p] > 0
  /\ UNCHANGED <<pc, callVars, localVars, result>>

\* One turn of a do { } while (timeout--) loop that did not find what it waits for.
PollAgain(p) ==
  /\ timeout[p] > 0
  /\ timeout' = [timeout EXCEPT ![p] = @ - 1]
  /\ UNCHANGED <<pc, callVars, reg, status, dataStatus, limit, base, len, left, result>>

TimedOut(p) == timeout[p] = 0

\* wait_for_fpga_state(RESET) ends with st; Step 5 comes next either way.
Step4(p) ==
  /\ At(p, "step4")
  /\ \/ ~FpgaStateIs("reset") /\ PollAgain(p)
     \/ \E st \in {"SUCCESS", "TMO"} :
          /\ IF st = "SUCCESS" THEN FpgaStateIs("reset")
                               ELSE ~FpgaStateIs("reset") /\ TimedOut(p)
          /\ status' = [status EXCEPT ![p] = st]
          /\ Goto(p, "step5")
          /\ UNCHANGED <<callVars, reg, timeout, dataStatus, limit, base, len, left, result>>
  /\ UNCHANGED fabricVars

\* Mutant of Step5: the fabric is taken to be in reset whatever Step 4 found.
Step5Unchecked(p) ==
  /\ At(p, "step5")
  /\ WriteCtrlReg(p, [reg[p] EXCEPT !.nconfigpull = FALSE])
  /\ timeout' = [timeout EXCEPT ![p] = StateTimeout]
  /\ Goto(p, "step6")
  /\ UNCHANGED <<status, dataStatus, limit, base, len, left, result>>

\* Mutant of Step5: the error exit comes before nCONFIG is released.
Step5KeepsPull(p) ==
  /\ At(p, "step5")
  /\ \/ /\ status[p] = "SUCCESS"
        /\ Step5Unchecked(p)
     \/ /\ status[p] # "SUCCESS"
        /\ Return(p, "CFG")
        /\ UNCHANGED fabricVars

Step5(p) ==
  /\ At(p, "step5")
  /\ LET value == [reg[p] EXCEPT !.nconfigpull = FALSE]
     IN  \/ /\ status[p] = "SUCCESS"
            /\ WriteCtrlReg(p, value)
            /\ timeout' = [timeout EXCEPT ![p] = StateTimeout]
            /\ Goto(p, "step6")
            /\ UNCHANGED <<status, dataStatus, limit, base, len, left, result>>
         \/ /\ status[p] # "SUCCESS"
            /\ WriteCtl(value)
            /\ Return(p, "CFG")
            /\ UNCHANGED <<powered, mode, mon, cram, dclk, msel>>

\* Step 7 acknowledges the nSTATUS interrupt, which nothing here looks at.
Step6(p) ==
  /\ At(p, "step6")
  /\ \/ ~FpgaStateIs("cfg") /\ PollAgain(p)
     \/ ~FpgaStateIs("cfg") /\ TimedOut(p) /\ Return(p, "CFG")
     \/ /\ FpgaStateIs("cfg")
        /\ Goto(p, "step8")
        /\ UNCHANGED <<callVars, localVars, result>>
  /\ UNCHANGED fabricVars

Step8(p) ==
  /\ At(p, "step8")
  /\ WriteCtrlReg(p, [reg[p] EXCEPT !.axicfgen = TRUE])
  /\ limit' = [limit EXCEPT ![p] = DataLimit]
  /\ Goto(p, "step9")
  /\ UNCHANGED <<timeout, status, dataStatus, base, len, left, result>>

-----------------------------------------------------------------------------
\* alt_fpga_internal_configure_idata, Steps 9 and 10.

\* The data phase ends with data_status st; Step 11 comes next.
EndData(p, st) ==
  /\ dataStatus' = [dataStatus EXCEPT ![p] = st]
  /\ Goto(p, "step11")
  /\ UNCHANGED <<callVars, reg, timeout, status, limit, base, len, left, result>>

\* writeaxi is called with n bytes that begin at offset b of the image.
CallWriteAxi(p, b, n) ==
  /\ base' = [base EXCEPT ![p] = b]
  /\ len' = [len EXCEPT ![p] = n]
  /\ left' = [left EXCEPT ![p] = n]
  /\ Goto(p, "axi")
  /\ UNCHANGED <<callVars, reg, timeout, status, dataStatus, limit, result>>

BeginStep10(p) ==
  /\ timeout' = [timeout EXCEPT ![p] = ConfigTimeout]
  /\ Goto(p, "step10")
  /\ UNCHANGED <<callVars, reg, status, dataStatus, limit, base, len, left, result>>

Step9Full(p) ==
  /\ At(p, "step9")
  /\ job[p].op = "configure"
  /\ \/ job[p].len > limit[p] /\ EndData(p, "CFG")
     \/ job[p].len <= limit[p] /\ CallWriteAxi(p, 0, job[p].len)
  /\ UNCHANGED fabricVars

\* The callback returned c; a negative c is above sizeof(buffer) as unsigned.
Step9Stream(p) ==
  /\ At(p, "step9")
  /\ job[p].op = "istream"
  /\ \E c \in StreamReturns :
       \/ (c > ChunkSize \/ c < 0) /\ EndData(p, "CFG_STM")
       \/ c = 0 /\ BeginStep10(p)
       \/ c \in 1..ChunkSize /\ c > limit[p] /\ EndData(p, "CFG_STM")
       \/ c \in 1..ChunkSize /\ c <= limit[p] /\ CallWriteAxi(p, base[p] + len[p], c)
  /\ UNCHANGED fabricVars

AxiWrite(p, w) ==
  /\ FeedWord(w)
  /\ UNCHANGED <<ctl, powered, mode, mon, dclk, msel>>
  /\ UNCHANGED <<pc, callVars, reg, timeout, status, dataStatus, limit, base, len, result>>

\* Mutant of AxiWord: one word too many when bytes are left over.
AxiWordPastEnd(p) ==
  /\ At(p, "axi")
  /\ left[p] > 0
  /\ left' = [left EXCEPT ![p] = @ - 4]
  /\ AxiWrite(p, [call |-> call[p], off |-> base[p] + (len[p] - left[p]), n |-> 4])

\* Mutant of AxiWord: every chunk of a stream is sent from the first one's start.
AxiWordNoBase(p) ==
  /\ At(p, "axi")
  /\ left[p] >= 4
  /\ left' = [left EXCEPT ![p] = @ - 4]
  /\ AxiWrite(p, [call |-> call[p], off |-> len[p] - left[p], n |-> 4])

AxiWord(p) ==
  /\ At(p, "axi")
  /\ left[p] >= 4
  /\ left' = [left EXCEPT ![p] = @ - 4]
  /\ AxiWrite(p, [call |-> call[p], off |-> base[p] + (len[p] - left[p]), n |-> 4])

\* The last one to three bytes, read at cfg_buf + (cfg_buf_len & ~3).
AxiTail(p) ==
  /\ At(p, "axi")
  /\ left[p] \in 1..3
  /\ left' = [left EXCEPT ![p] = 0]
  /\ AxiWrite(p, [call |-> call[p], off |-> base[p] + (left[p] - (left[p] % 4)), n |-> left[p]])

\* Mutant of AxiReturn: data_limit is not lowered by what was sent.
AxiReturnNoLimit(p) ==
  /\ At(p, "axi")
  /\ left[p] = 0
  /\ \/ job[p].op = "configure" /\ BeginStep10(p)
     \/ job[p].op = "istream" /\ Goto(p, "step9") /\ UNCHANGED <<callVars, localVars, result>>
  /\ UNCHANGED fabricVars

AxiReturn(p) ==
  /\ At(p, "axi")
  /\ left[p] = 0
  /\ \/ job[p].op = "configure" /\ BeginStep10(p)
     \/ /\ job[p].op = "istream"
        /\ limit' = [limit EXCEPT ![p] = @ - len[p]]
        /\ Goto(p, "step9")
        /\ UNCHANGED <<callVars, reg, timeout, status, dataStatus, base, len, left, result>>
  /\ UNCHANGED fabricVars

\* wait_for_config_done; a timeout is reported as ALT_E_FPGA_CFG.
Step10(p) ==
  /\ At(p, "step10")
  /\ LET settled == mon.confDone = mon.nStatus
     IN  \/ mon.crcError /\ EndData(p, "CRC")
         \/ /\ ~mon.crcError /\ settled
            /\ EndData(p, IF mon.confDone THEN "SUCCESS" ELSE "CFG")
         \/ ~mon.crcError /\ ~settled /\ PollAgain(p)
         \/ ~mon.crcError /\ ~settled /\ TimedOut(p) /\ EndData(p, "CFG")
  /\ UNCHANGED fabricVars

-----------------------------------------------------------------------------
\* alt_fpga_internal_configure, Steps 11 to 13.

\* Mutant of Step11: AXICFGEN stays set.
Step11Skipped(p) ==
  /\ At(p, "step11")
  /\ Goto(p, "dclk_stat")
  /\ UNCHANGED <<fabricVars, callVars, localVars, result>>

Step11(p) ==
  /\ At(p, "step11")
  /\ WriteCtrlReg(p, [reg[p] EXCEPT !.axicfgen = FALSE])
  /\ Goto(p, "dclk_stat")
  /\ UNCHANGED <<timeout, status, dataStatus, limit, base, len, left, result>>

\* The first access of dclk_set_and_wait_clear: is an old count flagged done?
DclkStat(p) ==
  /\ At(p, "dclk_stat")
  /\ Goto(p, IF dclk.done # 0 THEN "dclk_clear" ELSE "dclk_count")
  /\ UNCHANGED <<fabricVars, callVars, localVars, result>>

DclkClear(p) ==
  /\ At(p, "dclk_clear")
  /\ ClearDclkDone
  /\ Goto(p, "dclk_count")
  /\ UNCHANGED <<ctl, powered, mode, mon, cram, msel, callVars, localVars, result>>

DclkCount(p) ==
  /\ At(p, "dclk_count")
  /\ StartDclk(call[p])
  /\ timeout' = [timeout EXCEPT ![p] = DclkTimeout]
  /\ Goto(p, "dclk_poll")
  /\ UNCHANGED <<ctl, powered, mode, mon, cram, msel, callVars, result>>
  /\ UNCHANGED <<reg, status, dataStatus, limit, base, len, left>>

\* Mutant of LateError: a late timeout does not replace the data phase's success.
LateErrorLost(p) == dataStatus[p]

\* What a call returns when a step after the data phase times out.
LateError(p) == IF dataStatus[p] # "SUCCESS" THEN dataStatus[p] ELSE "CFG"

DclkPoll(p) ==
  /\ At(p, "dclk_poll")
  /\ \/ /\ dclk.done # 0
        /\ Goto(p, "dclk_ack")
        /\ UNCHANGED <<callVars, localVars, result>>
     \/ dclk.done = 0 /\ PollAgain(p)
     \/ dclk.done = 0 /\ TimedOut(p) /\ Return(p, LateError(p))
  /\ UNCHANGED fabricVars

DclkAck(p) ==
  /\ At(p, "dclk_ack")
  /\ ClearDclkDone
  /\ timeout' = [timeout EXCEPT ![p] = StateTimeout]
  /\ Goto(p, "step13")
  /\ UNCHANGED <<ctl, powered, mode, mon, cram, msel, callVars, result>>
  /\ UNCHANGED <<reg, status, dataStatus, limit, base, len, left>>

Step13(p) ==
  /\ At(p, "step13")
  /\ \/ FpgaStateIs("user") /\ Return(p, dataStatus[p])
     \/ ~FpgaStateIs("user") /\ PollAgain(p)
     \/ ~FpgaStateIs("user") /\ TimedOut(p) /\ Return(p, LateError(p))
  /\ UNCHANGED fabricVars

-----------------------------------------------------------------------------
\* Steps the driver takes by itself once it has been called.
InCall(p) ==
  \/ GuardEnabled(p) \/ GuardPower(p)
  \/ PullRead(p) \/ PullWrite(p)
  \/ CtlRead(p) \/ Step1(p) \/ Step3(p) \/ Step4(p) \/ Step5(p) \/ Step6(p) \/ Step8(p)
  \/ Step9Full(p) \/ Step9Stream(p)
  \/ AxiWord(p) \/ AxiTail(p) \/ AxiReturn(p)
  \/ Step10(p) \/ Step11(p)
  \/ DclkStat(p) \/ DclkClear(p) \/ DclkCount(p) \/ DclkPoll(p) \/ DclkAck(p)
  \/ Step13(p)

Control(p) ==
  EnableRead(p) \/ EnableWrite(p) \/ DisableRead(p) \/ DisableWrite(p)

Client(p) == Start(p) \/ Call(p) \/ Finish(p) \/ Kill(p)

Fabric == FabricNext /\ UNCHANGED toolVars

Next ==
  \/ \E p \in Tools : Client(p) \/ Control(p) \/ InCall(p)
  \/ Fabric

\* The scheduler keeps running a tool that is inside the driver; nothing is
\* assumed of the fabric, the client or the user.
Fairness == \A p \in Tools : WF_vars(InCall(p) \/ Control(p))

Spec == Init /\ [][Next]_vars

FairSpec == Spec /\ Fairness

-----------------------------------------------------------------------------
\* What the driver is for.

\* Bytes of the image the call of p has handed to writeaxi, or will.
ImageBytes(p) == IF job[p].op = "istream" THEN base[p] + len[p] ELSE job[p].len

\* The i-th word of an image of the given length, written by the call id.
ImageWord(id, bytes, i) ==
  LET rest == bytes - 4 * (i - 1)
  IN  [call |-> id, off |-> 4 * (i - 1), n |-> IF rest < 4 THEN rest ELSE 4]

\* The fabric holds exactly that image.
Holds(id, bytes) ==
  /\ Len(cram) = ImageWords
  /\ \A i \in 1..ImageWords : cram[i] = ImageWord(id, bytes, i)

\* A configuration call (alt_fpga_configure, alt_fpga_istream_configure) that
\* returns ALT_E_SUCCESS has seen the fabric in user mode, running the words of
\* its own image, all of them and in order: no earlier image that survived a
\* reset the fabric missed, no remainder of a load that lost its power half way.
SuccessMeansConfigured ==
  [][\A p \in Tools :
       (At(p, "step13") /\ result'[p] = "SUCCESS") =>
         mode = "user" /\ Holds(call[p], ImageBytes(p))]_vars

\* Between Step 8 and Step 11 the registers let the words in, at the width and
\* clock ratio of the MSEL pins: what the cached ctrl_reg assumes is still so.
DataPathOpen ==
  \A p \in Tools :
    pc[p] \in {"step9", "axi", "step10", "step11"} =>
      /\ ctl.en /\ ctl.axicfgen /\ ~ctl.nconfigpull /\ ~ctl.nce
      /\ ctl.cdratio = CdRatio(msel) /\ ctl.cfgwdth = CfgWidth(msel)

\* The fabric never holds words of two calls: a load that was killed, or that
\* failed, is wiped before the next call's first word is taken.
NoMixedImage ==
  \A i, j \in 1..Len(cram) : cram[i].call = cram[j].call

DriverLocations ==
  Locations \ {"off", "idle", "enable_read", "enable_write",
               "disable_read", "disable_write"}

Refused == {None, "NO_SOC_CTRL", "PWR_OFF", "ERROR"}

\* Unless a call was refused before its first write, it returns with nCONFIG
\* released and the HPS still in control, and with the data port closed: every call
\* that reached Step 8 has cleared AXICFGEN, whatever its data phase and the steps
\* after it ended with.  The port can only be open after a call that failed in Step
\* 4 or 6, and then a tool that was killed had left it open before the call.
HandsBackFabric ==
  [][\A p \in Tools :
       (/\ pc[p] \in DriverLocations /\ pc'[p] = "idle"
        /\ IsConfigure(p) /\ result'[p] \notin Refused) =>
         /\ ctl'.en /\ ~ctl'.nconfigpull
         /\ ctl'.axicfgen => pc[p] \in {"step5", "step6"} /\ reg[p].axicfgen]_vars

\* No call hands the data port more than data_limit bytes, however long the
\* stream is and however often its callback is asked again.
WithinDataLimit ==
  \A p \in Tools : At(p, "axi") => base[p] + len[p] <= DataLimit

\* Every call returns, or its tool is killed, whatever the fabric does and
\* even if the stream never ends.
CallsReturn ==
  \A p \in Tools : (pc[p] \in DriverLocations) ~> (pc[p] \in {"idle", "off"})

\* A call that pulled nCONFIG low lets go of it, unless its tool is killed.
ReleasesReset ==
  \A p \in Tools : At(p, "step4") ~> (~ctl.nconfigpull \/ At(p, "off"))

\* alt_fpga_manager.h:105-109: taking control fails while another device on the
\* system controls the control block, so two tools are never both in control.
ControlIsExclusive ==
  \A p, q \in Tools :
    (pc[p] \in DriverLocations \cup {"idle"} /\ pc[q] \in DriverLocations \cup {"idle"})
      => p = q

\* alt_fpga_manager.c:246-248: a count left over from an earlier call is not
\* taken for this one's, so the wait in Step 12 ends with this call's count.
DclkWaitIsFresh ==
  [][\A p \in Tools :
       (At(p, "dclk_poll") /\ pc'[p] = "dclk_ack") => dclk.done = call[p]]_vars

=============================================================================
