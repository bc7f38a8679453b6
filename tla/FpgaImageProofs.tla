--------------------------- MODULE FpgaImageProofs ---------------------------
(***************************************************************************)
(* What the fabric holds, followed from one call to the next: the first    *)
(* part holds whatever is written to CTRL, the second part needs the data  *)
(* path that SoleInv shows to be open.  From both follow what a            *)
(* successful configuration means and the contract of the driver.          *)
(***************************************************************************)
EXTENDS FpgaManagerProofs, FpgaContract

\* A file is made of whole words, or reaches beyond the image.  The run fpga_tail
\* shows what becomes of a shorter file with a tail.
WholeFiles ==
  \A j \in Jobs : j.op = "configure" => j.len % 4 = 0 \/ j.len >= 4 * ImageWords

\* A stream comes in chunks of whole words.
WholeChunks == \A c \in StreamReturns \cap (1..ChunkSize) : c % 4 = 0

\* Before nCONFIG has emptied the fabric, while it is empty, and from the first word on.
Pending == {"guard_en", "guard_power", "ctl_read", "step1", "step3", "step4", "step5"}
Emptied == {"step6", "step8"}
Loading == Feeding \cup Closing
Ended == {"step11"} \cup Closing
Configuring == {"ctl_read", "step1", "step3", "step4", "step5"} \cup Emptied \cup Loading

\* Only a fabric that is being configured or was configured holds words.
FabricInv ==
  /\ mode \notin {"cfg", "init", "user"} => cram = <<>>
  /\ ~powered => mode = "powerup"
  /\ Len(cram) <= ImageWords
  /\ mode \in {"init", "user"} \/ mon.confDone => Len(cram) = ImageWords
  /\ NoMixedImage
  /\ \A i \in 1..Len(cram) : cram[i].call <= calls

\* The words in the fabric are of an earlier call, then gone, then of this call.
CallInv(p) ==
  /\ call[p] <= calls
  /\ pc[p] \in DriverLocations => result[p] = None
  /\ pc[p] \in Configuring => IsConfigure(p)
  /\ pc[p] \in {"pull_read", "pull_write"} => ~IsConfigure(p)
  /\ pc[p] \in Pending => \A i \in 1..Len(cram) : cram[i].call # call[p]
  /\ pc[p] = "step5" /\ status[p] = "SUCCESS" => cram = <<>>
  /\ pc[p] \in Emptied => cram = <<>>
  /\ pc[p] \in Loading => \A i \in 1..Len(cram) : cram[i].call = call[p]
  /\ pc[p] \in Ended => dataStatus[p] \in Status

\* The buffer of writeaxi is the file, or a chunk, and goes out in whole words but for its tail.
BufInv(p) ==
  /\ pc[p] = "step9" => left[p] = 0
  /\ pc[p] \in Loading /\ job[p].op = "configure" => base[p] = 0 /\ len[p] <= job[p].len
  /\ pc[p] = "axi" =>
       /\ left[p] = 0 \/ left[p] % 4 = len[p] % 4
       /\ job[p].op = "configure" => len[p] = job[p].len
       /\ job[p].op # "configure" => len[p] \in StreamReturns \cap (1..ChunkSize)

\* Bytes this call has written to the data port.
Sent(p) == base[p] + (len[p] - left[p])

\* With the data path open no word is lost before the fabric has its image or
\* refuses it: the fabric holds the first words of the image and nothing else.
Exact(p) ==
  pc[p] \in Loading =>
    /\ \A i \in 1..Len(cram) : cram[i].n = 4 /\ cram[i].off = 4 * (i - 1)
    /\ 4 * Len(cram) <= Sent(p)
    /\ pc[p] \in {"step9", "axi"} =>
         cram = <<>> \/ ~mon.nStatus \/ Len(cram) = ImageWords \/ 4 * Len(cram) = Sent(p)

ImageInv == TypeInv /\ FabricInv /\ \A p \in Tools : CallInv(p) /\ BufInv(p)

-----------------------------------------------------------------------------
\* The kinds of steps a tool can take, as far as the fabric's content goes.

\* A word is written to the data port: a whole one, or the tail of the buffer.
Writes(p, w) ==
  /\ FeedWord(w)
  /\ w.call = call[p]
  /\ pc[p] = "axi"
  /\ \/ w.n = 4 /\ w.off = Sent(p) /\ left[p] >= 4 /\ left' = [left EXCEPT ![p] = left[p] - 4]
     \/ w.n = left[p] /\ left[p] \in 1..3 /\ left' = [left EXCEPT ![p] = 0]
  /\ UNCHANGED <<pc, calls, call, job, result, status, dataStatus, base, len>>
  /\ UNCHANGED <<powered, mode, mon>>

\* The tool stays, or ends up, where it has no part in what the fabric holds.  A call
\* that ends there was killed or returns a status, SUCCESS only from user mode.
Rests(p) ==
  /\ pc'[p] \notin Pending \cup Configuring
  /\ pc'[p] \in {"pull_read", "pull_write"} => ~IsConfigure(p)
  /\ UNCHANGED <<calls, call, job>>
  /\ \/ result' = result /\ (pc[p] \in DriverLocations <=> pc'[p] \in DriverLocations)
     \/ pc'[p] = "off" /\ result' = result
     \/ /\ pc[p] \in DriverLocations /\ pc'[p] = "idle"
        /\ result'[p] \in Status
        /\ (IsConfigure(p) /\ result'[p] = "SUCCESS") => pc[p] = "step13" /\ mode = "user"

Prepares(p) ==
  /\ pc[p] \in Pending /\ pc'[p] \in Pending
  /\ UNCHANGED <<calls, call, job, result>>
  /\ pc'[p] \in Configuring => IsConfigure(p)
  /\ (pc'[p] = "step5" /\ status'[p] = "SUCCESS") => mode = "reset"

Empties(p) ==
  /\ pc[p] \in {"step5", "step6"} /\ pc'[p] \in Emptied
  /\ pc[p] = "step5" => status[p] = "SUCCESS"
  /\ UNCHANGED <<calls, call, job, result>>

Opens(p) ==
  /\ pc[p] = "step8" /\ pc'[p] = "step9"
  /\ UNCHANGED <<calls, call, job, result, base, len, left>>

\* The buffer is given to writeaxi.
Fills(p) ==
  /\ pc[p] = "step9" /\ pc'[p] = "axi"
  /\ \/ /\ job[p].op = "configure"
        /\ base' = [base EXCEPT ![p] = 0]
        /\ len' = [len EXCEPT ![p] = job[p].len]
        /\ left' = [left EXCEPT ![p] = job[p].len]
     \/ /\ job[p].op # "configure"
        /\ base' = [base EXCEPT ![p] = base[p] + len[p]]
        /\ \E c \in StreamReturns \cap (1..ChunkSize) :
             len' = [len EXCEPT ![p] = c] /\ left' = [left EXCEPT ![p] = c]
  /\ UNCHANGED <<calls, call, job, result>>

\* Any other step between Step 9 and the return.
Runs(p) ==
  /\ pc[p] \in Loading /\ pc'[p] \in Loading \ {"axi"}
  /\ pc'[p] = "step9" => pc[p] \in {"step9", "axi"} /\ left[p] = 0
  /\ pc'[p] \in Ended => dataStatus'[p] \in Status \/ (pc[p] \in Ended /\ dataStatus' = dataStatus)
  /\ UNCHANGED <<calls, call, job, result, base, len, left>>

Quiet(p) ==
  /\ UNCHANGED <<powered, mode, mon, cram>>
  /\ \/ Rests(p) \/ Call(p) \/ Prepares(p) \/ Empties(p) \/ Opens(p) \/ Fills(p) \/ Runs(p)

LEMMA ReturnRests ==
  ASSUME TypeInv, NEW p \in Tools, pc[p] \in DriverLocations, NEW st \in Status, Return(p, st),
         (IsConfigure(p) /\ st = "SUCCESS") => pc[p] = "step13" /\ mode = "user"
  PROVE  Rests(p)
<1>1. pc'[p] = "idle" /\ result'[p] = st /\ UNCHANGED <<calls, call, job>>
  BY ReturnFacts DEF Return, callVars
<1>. QED  BY <1>1 DEF Rests, Pending, Configuring, Emptied, Loading, Feeding, Closing

LEMMA ClientKinds ==
  ASSUME TypeInv, NEW p \in Tools, Client(p) \/ Control(p)
  PROVE  Quiet(p)
<1>. USE DEF Pending, Configuring, Emptied, Loading, Feeding, Closing, DriverLocations, Locations,
             TypeInv, TypeOK, Goto, At, callVars
<1>1. CASE Call(p)
  BY <1>1 DEF Call, Quiet, fabricVars
<1>2. CASE Start(p) \/ Finish(p) \/ Kill(p)
  BY <1>2 DEF Start, Finish, Kill, Quiet, Rests, fabricVars
<1>3. CASE Control(p)
  BY <1>3 DEF Control, EnableRead, EnableWrite, DisableRead, DisableWrite, ReadCtlForUpdate,
              WriteCtlBack, Quiet, Rests, fabricVars
<1>. QED  BY <1>1, <1>2, <1>3 DEF Client

LEMMA GuardKinds ==
  ASSUME TypeInv, NEW p \in Tools, CallInv(p),
         GuardEnabled(p) \/ GuardPower(p) \/ PullRead(p) \/ PullWrite(p) \/ CtlRead(p)
  PROVE  Quiet(p)
<1>. USE DEF Pending, Configuring, Emptied, Loading, Feeding, Closing, DriverLocations, Locations
<1>1. CASE GuardEnabled(p) \/ GuardPower(p)
  <2>1. /\ UNCHANGED <<powered, mode, mon, cram>> /\ pc[p] \in {"guard_en", "guard_power"}
    BY <1>1 DEF GuardEnabled, GuardPower, fabricVars, At
  <2>2. CASE Return(p, "NO_SOC_CTRL") \/ Return(p, "PWR_OFF")
    BY <2>1, <2>2, ReturnRests DEF Quiet, Status
  <2>3. CASE Goto(p, "guard_power") /\ UNCHANGED <<callVars, localVars, result>>
    BY <2>1, <2>3, MoveFacts DEF Quiet, Prepares, callVars
  <2>4. CASE /\ Goto(p, IF IsConfigure(p) THEN "ctl_read" ELSE "pull_read")
             /\ UNCHANGED <<callVars, localVars, result>>
    BY <2>1, <2>4, MoveFacts DEF Quiet, Prepares, Rests, callVars
  <2>. QED  BY <1>1, <2>2, <2>3, <2>4 DEF GuardEnabled, GuardPower
<1>2. CASE PullRead(p)
  BY <1>2 DEF PullRead, ReadCtlForUpdate, Quiet, Rests, CallInv, fabricVars, TypeInv, TypeOK, Goto, At,
              callVars
<1>3. CASE PullWrite(p)
  <2>1. pc[p] = "pull_write" /\ pc'[p] = "idle" /\ result'[p] = "SUCCESS"
    BY <1>3 DEF PullWrite, WriteCtlBack, TypeInv, TypeOK, Goto, At
  <2>2. UNCHANGED <<powered, mode, mon, cram, calls, call, job>>
    BY <1>3 DEF PullWrite, WriteCtlBack, callVars
  <2>. QED  BY <2>1, <2>2 DEF Quiet, Rests, CallInv, Status
<1>4. CASE CtlRead(p)
  BY <1>4 DEF CtlRead, ReadCtlForUpdate, Quiet, Prepares, CallInv, fabricVars, TypeInv, TypeOK,
              Goto, At, callVars
<1>. QED  BY <1>1, <1>2, <1>3, <1>4

LEMMA SetUpKinds ==
  ASSUME TypeInv, NEW p \in Tools, CallInv(p),
         Step1(p) \/ Step3(p) \/ Step4(p) \/ Step5(p) \/ Step6(p) \/ Step8(p)
  PROVE  Quiet(p)
<1>. USE DEF Pending, Configuring, Emptied, Loading, Feeding, Closing, DriverLocations, Locations
<1>1. /\ pc[p] \in {"step1", "step3", "step4", "step5", "step6", "step8"}
      /\ UNCHANGED <<powered, mode, mon, cram>>
  BY DEF Step1, Step3, Step4, Step5, Step6, Step8, WriteCtrlReg, fabricVars, At
<1>2. IsConfigure(p)
  BY <1>1 DEF CallInv
<1>3. ASSUME NEW st \in {"ERROR", "CFG"}, Return(p, st)
      PROVE  Quiet(p)
  BY <1>1, <1>3, ReturnRests DEF Quiet, Status
<1>4. CASE PollAgain(p) /\ pc[p] \in {"step4", "step6"}
  BY <1>1, <1>2, <1>4 DEF PollAgain, Quiet, Prepares, Empties, callVars
<1>. USE DEF TypeInv, TypeOK, Goto, At, callVars, localVars
<1>5. CASE Step1(p)
  BY <1>1, <1>2, <1>3, <1>5 DEF Step1, WriteCtrlReg, Quiet, Prepares
<1>6. CASE Step3(p)
  BY <1>1, <1>2, <1>6 DEF Step3, WriteCtrlReg, Quiet, Prepares
<1>7. CASE Step4(p)
  BY <1>1, <1>2, <1>4, <1>7 DEF Step4, FpgaStateIs, Quiet, Prepares
<1>8. CASE Step5(p)
  BY <1>1, <1>2, <1>3, <1>8 DEF Step5, WriteCtrlReg, Quiet, Empties
<1>9. CASE Step6(p)
  BY <1>1, <1>2, <1>3, <1>4, <1>9 DEF Step6, Quiet, Empties
<1>10. CASE Step8(p)
  BY <1>1, <1>2, <1>10 DEF Step8, WriteCtrlReg, Quiet, Opens
<1>. QED  BY <1>5, <1>6, <1>7, <1>8, <1>9, <1>10

\* The three ways out of Steps 9 and 10, and the polling between them.
LEMMA EndDataRuns ==
  ASSUME TypeInv, NEW p \in Tools, NEW st \in Status, EndData(p, st), pc[p] \in Loading
  PROVE  Runs(p)
BY DEF EndData, Runs, Ended, Loading, Feeding, Closing, TypeInv, TypeOK, Goto, callVars

LEMMA BeginStep10Runs ==
  ASSUME TypeInv, NEW p \in Tools, BeginStep10(p), pc[p] \in Loading
  PROVE  Runs(p)
BY DEF BeginStep10, Runs, Ended, Loading, Feeding, Closing, TypeInv, TypeOK, Goto, callVars

LEMMA PollRuns ==
  ASSUME NEW p \in Tools, PollAgain(p), pc[p] \in {"step10"} \cup Closing
  PROVE  Runs(p)
BY DEF PollAgain, Runs, Ended, Loading, Feeding, Closing, callVars

LEMMA DataKinds ==
  ASSUME TypeInv, NEW p \in Tools, CallInv(p),
         Step9Full(p) \/ Step9Stream(p) \/ AxiReturn(p) \/ Step10(p)
  PROVE  Quiet(p)
<1>1. UNCHANGED <<powered, mode, mon, cram>> /\ pc[p] \in Loading
  BY DEF Step9Full, Step9Stream, AxiReturn, Step10, fabricVars, At, Loading, Feeding
<1>2. CASE Step9Full(p)
  BY <1>1, <1>2, EndDataRuns
  DEF Step9Full, CallWriteAxi, Quiet, Fills, Status, Goto, At, TypeInv, TypeOK, callVars
<1>3. CASE Step9Stream(p)
  BY <1>1, <1>3, EndDataRuns, BeginStep10Runs
  DEF Step9Stream, CallWriteAxi, Quiet, Fills, Status, Goto, At, TypeInv, TypeOK, callVars
<1>4. CASE AxiReturn(p)
  BY <1>1, <1>4, BeginStep10Runs
  DEF AxiReturn, Quiet, Runs, Goto, At, TypeInv, TypeOK, callVars, Ended, Loading, Feeding, Closing
<1>5. CASE Step10(p)
  <2>1. pc[p] \in {"step10"} \cup Closing
    BY <1>5 DEF Step10, At
  <2>2. Runs(p)
    BY <1>1, <1>5, <2>1, EndDataRuns, PollRuns DEF Step10, Status
  <2>. QED  BY <1>1, <2>2 DEF Quiet
<1>. QED  BY <1>2, <1>3, <1>4, <1>5

LEMMA EndKinds ==
  ASSUME TypeInv, NEW p \in Tools, CallInv(p),
         \/ Step11(p) \/ DclkStat(p) \/ DclkClear(p) \/ DclkCount(p)
         \/ DclkPoll(p) \/ DclkAck(p) \/ Step13(p)
  PROVE  Quiet(p)
<1>1. UNCHANGED <<powered, mode, mon, cram>> /\ pc[p] \in Ended
  BY DEF Step11, DclkStat, DclkClear, DclkCount, DclkPoll, DclkAck, Step13, WriteCtrlReg,
         fabricVars, At, Ended, Closing
<1>2. CASE Step11(p) \/ DclkStat(p) \/ DclkClear(p) \/ DclkCount(p) \/ DclkAck(p)
  <2>1. Runs(p)
    BY <1>1, <1>2
    DEF Step11, DclkStat, DclkClear, DclkCount, DclkAck, WriteCtrlReg, Runs, Goto, At,
        TypeInv, TypeOK, callVars, localVars, Ended, Loading, Feeding, Closing
  <2>. QED  BY <1>1, <2>1 DEF Quiet
<1>3. CASE DclkPoll(p) \/ Step13(p)
  <2>1. /\ pc[p] \in {"step10"} \cup Closing /\ pc[p] \in DriverLocations
        /\ dataStatus[p] \in Status /\ LateError(p) \in Status \ {"SUCCESS"}
    BY <1>1, <1>3
    DEF DclkPoll, Step13, At, CallInv, Ended, Closing, LateError, Status, DriverLocations, Locations
  <2>2. CASE PollAgain(p)
    BY <1>1, <2>1, <2>2, PollRuns DEF Quiet
  <2>3. CASE Return(p, LateError(p))
    BY <1>1, <2>1, <2>3, ReturnRests DEF Quiet
  <2>4. CASE pc[p] = "step13" /\ FpgaStateIs("user") /\ Return(p, dataStatus[p])
    BY <1>1, <2>1, <2>4, ReturnRests DEF Quiet, FpgaStateIs
  <2>5. CASE Goto(p, "dclk_ack") /\ UNCHANGED <<callVars, localVars, result>>
    BY <1>1, <2>5, MoveFacts DEF Quiet, Runs, Ended, Loading, Feeding, Closing, callVars, localVars
  <2>. QED  BY <1>3, <2>2, <2>3, <2>4, <2>5 DEF DclkPoll, Step13, At
<1>. QED  BY <1>2, <1>3

LEMMA WriteKinds ==
  ASSUME TypeInv, NEW p \in Tools, AxiWord(p) \/ AxiTail(p)
  PROVE  \E w \in Word : Writes(p, w)
<1>1. /\ base[p] \in Nat /\ len[p] \in Nat /\ left[p] \in Nat /\ call[p] \in Nat
      /\ left[p] <= len[p]
  BY DEF TypeInv, TypeOK, BufferInv
<1>2. CASE AxiWord(p)
  <2> DEFINE w == [call |-> call[p], off |-> base[p] + (len[p] - left[p]), n |-> 4]
  <2>1. w \in Word
    BY <1>1 DEF Word
  <2>2. Writes(p, w)
    BY <1>1, <1>2 DEF AxiWord, AxiWrite, Writes, Sent, callVars, At
  <2>. QED  BY <2>1, <2>2
<1>3. CASE AxiTail(p)
  <2> DEFINE w == [call |-> call[p], off |-> base[p] + (left[p] - (left[p] % 4)), n |-> left[p]]
  <2>1. w \in Word
    BY <1>1, <1>3 DEF AxiTail, Word
  <2>2. Writes(p, w)
    BY <1>1, <1>3 DEF AxiTail, AxiWrite, Writes, callVars, At
  <2>. QED  BY <2>1, <2>2
<1>. QED  BY <1>2, <1>3

\* Every step of a tool is of one of these kinds.
LEMMA Kinds ==
  ASSUME TypeInv, NEW p \in Tools, CallInv(p), Client(p) \/ Control(p) \/ InCall(p)
  PROVE  Quiet(p) \/ \E w \in Word : Writes(p, w)
BY ClientKinds, GuardKinds, SetUpKinds, DataKinds, EndKinds, WriteKinds DEF InCall

-----------------------------------------------------------------------------
\* What each kind of step makes of the invariants.

LEMMA CallFacts ==
  ASSUME TypeInv, NEW p \in Tools, Call(p)
  PROVE  /\ pc'[p] = "guard_en" /\ call'[p] = calls + 1 /\ calls' = calls + 1 /\ calls \in Nat
         /\ result'[p] = None
BY DEF Call, Goto, TypeInv, TypeOK

LEMMA QuietFabric ==
  ASSUME TypeInv, FabricInv, NEW p \in Tools, Quiet(p)
  PROVE  FabricInv'
<1>1. UNCHANGED <<powered, mode, mon, cram>> /\ cram \in Seq(Word)
  BY DEF Quiet, TypeInv, TypeOK, FabricTypeOK
<1>2. calls \in Nat /\ (calls' = calls \/ calls' = calls + 1)
  BY CallFacts DEF Quiet, Rests, Prepares, Empties, Opens, Fills, Runs, TypeInv, TypeOK
<1>3. ASSUME NEW i \in 1..Len(cram) PROVE cram[i].call <= calls'
  <2>1. cram[i] \in Word /\ cram[i].call <= calls
    BY <1>1 DEF FabricInv
  <2>2. cram[i].call \in Nat
    BY <2>1 DEF Word
  <2>. QED  BY <1>2, <2>1, <2>2
<1>4. NoMixedImage'
  BY <1>1 DEF FabricInv, NoMixedImage
<1>. QED  BY <1>1, <1>3, <1>4 DEF FabricInv

LEMMA QuietCall ==
  ASSUME TypeInv, FabricInv, NEW p \in Tools, CallInv(p), Quiet(p)
  PROVE  CallInv(p)'
<1>. USE DEF Pending, Configuring, Emptied, Loading, Feeding, Closing, Ended, DriverLocations,
             Locations
<1>1. cram' = cram /\ cram \in Seq(Word)
  BY DEF Quiet, TypeInv, TypeOK, FabricTypeOK
<1>2. CASE Rests(p)
  BY <1>1, <1>2 DEF Rests, CallInv, IsConfigure
<1>3. CASE Call(p)
  <2>1. /\ pc'[p] = "guard_en" /\ call'[p] = calls + 1 /\ calls' = calls + 1 /\ calls \in Nat
        /\ result'[p] = None
    BY <1>3, CallFacts
  <2>2. \A i \in 1..Len(cram) : cram[i].call # calls + 1
    BY <1>1, <2>1 DEF FabricInv, Word
  <2>. QED  BY <1>1, <2>1, <2>2 DEF CallInv
<1>4. CASE Prepares(p)
  <2>1. (pc'[p] = "step5" /\ status'[p] = "SUCCESS") => cram = <<>>
    BY <1>4 DEF Prepares, FabricInv
  <2>. QED  BY <1>1, <1>4, <2>1 DEF Prepares, CallInv, IsConfigure
<1>5. CASE Empties(p)
  BY <1>1, <1>5 DEF Empties, CallInv, IsConfigure
<1>6. CASE Opens(p)
  BY <1>1, <1>6 DEF Opens, CallInv, IsConfigure
<1>7. CASE Fills(p)
  BY <1>1, <1>7 DEF Fills, CallInv, IsConfigure
<1>8. CASE Runs(p)
  BY <1>1, <1>8 DEF Runs, CallInv, IsConfigure
<1>. QED  BY <1>2, <1>3, <1>4, <1>5, <1>6, <1>7, <1>8 DEF Quiet

LEMMA JobType ==
  ASSUME TypeInv, NEW p \in Tools, IsConfigure(p)
  PROVE  job[p] \in Jobs /\ job[p].len \in Nat /\ job[p].op \in Ops
<1>1. job[p] \in Jobs
  BY DEF TypeInv, TypeOK, IsConfigure, NoJob
<1>2. job[p] \in [op : Ops, len : Nat]
  BY <1>1, JobsAssumption
<1>. QED  BY <1>1, <1>2

LEMMA QuietBuf ==
  ASSUME TypeInv, NEW p \in Tools, CallInv(p), BufInv(p), Quiet(p)
  PROVE  BufInv(p)'
<1>. USE DEF Pending, Configuring, Emptied, Loading, Feeding, Closing, Ended
<1>1. /\ base[p] \in Nat /\ len[p] \in Nat /\ left[p] \in Nat /\ left[p] <= len[p]
      /\ pc[p] \in BeforeData => base[p] = 0 /\ len[p] = 0
      /\ pc[p] = "step9" /\ job[p].op = "configure" => base[p] = 0 /\ len[p] = 0
  BY DEF TypeInv, TypeOK, BufferInv, At
<1>2. CASE Rests(p) \/ Call(p) \/ Prepares(p) \/ Empties(p)
  BY <1>2, CallFacts DEF Rests, Prepares, Empties, BufInv
<1>3. CASE Opens(p)
  <2>1. pc[p] \in BeforeData /\ IsConfigure(p)
    BY <1>3 DEF Opens, BeforeData, Locations, CallInv
  <2>2. job[p].len \in Nat
    BY <2>1, JobType
  <2>. QED  BY <1>1, <1>3, <2>1, <2>2 DEF Opens, BufInv
<1>4. CASE Fills(p)
  <2>1. IsConfigure(p)
    BY <1>4 DEF Fills, CallInv
  <2>2. job[p].len \in Nat
    BY <2>1, JobType
  <2>3. CASE job[p].op = "configure"
    <3>1. /\ pc'[p] = "axi" /\ job' = job
          /\ base'[p] = 0 /\ len'[p] = job[p].len /\ left'[p] = job[p].len
      BY <1>4, <2>3 DEF Fills, TypeInv, TypeOK
    <3>. QED  BY <2>2, <2>3, <3>1 DEF BufInv
  <2>4. CASE job[p].op # "configure"
    <3>1. PICK c \in StreamReturns \cap (1..ChunkSize) :
            len' = [len EXCEPT ![p] = c] /\ left' = [left EXCEPT ![p] = c]
      BY <1>4, <2>4 DEF Fills
    <3>2. pc'[p] = "axi" /\ job' = job /\ len'[p] = c /\ left'[p] = c
      BY <1>4, <3>1 DEF Fills, TypeInv, TypeOK
    <3>. QED  BY <2>4, <3>2 DEF BufInv
  <2>. QED  BY <2>3, <2>4
<1>5. CASE Runs(p)
  BY <1>5 DEF Runs, BufInv
<1>. QED  BY <1>2, <1>3, <1>4, <1>5 DEF Quiet

\* A tool that does not write words has sent what it had sent.
LEMMA QuietSent ==
  ASSUME TypeInv, NEW p \in Tools, BufInv(p), Quiet(p), pc'[p] \in Loading, pc[p] \in Loading
  PROVE  /\ Sent(p)' = Sent(p)
         /\ pc'[p] \in {"step9", "axi"} => pc[p] \in {"step9", "axi"}
<1>. USE DEF Pending, Configuring, Emptied, Loading, Feeding, Closing, Ended
<1>1. /\ base[p] \in Nat /\ len[p] \in Nat /\ left[p] \in Nat
      /\ pc[p] = "step9" /\ job[p].op = "configure" => base[p] = 0 /\ len[p] = 0
      /\ pc[p] = "step9" => left[p] = 0
  BY DEF TypeInv, TypeOK, BufferInv, BufInv, At
<1>2. Fills(p) \/ Runs(p)
  BY CallFacts DEF Quiet, Rests, Prepares, Empties, Opens
<1>3. CASE Runs(p)
  BY <1>3 DEF Runs, Sent
<1>4. CASE Fills(p)
  <2>1. pc[p] = "step9" /\ job' = job
    BY <1>4 DEF Fills
  <2>2. CASE job[p].op = "configure"
    <3>1. base'[p] = 0 /\ len'[p] = job[p].len /\ left'[p] = job[p].len
      BY <1>4, <2>2 DEF Fills, TypeInv, TypeOK
    <3>2. job[p].len \in Nat
      BY <2>2, JobType DEF IsConfigure
    <3>. QED  BY <1>1, <2>1, <2>2, <3>1, <3>2 DEF Sent
  <2>3. CASE job[p].op # "configure"
    <3>1. PICK c \in StreamReturns \cap (1..ChunkSize) :
            len' = [len EXCEPT ![p] = c] /\ left' = [left EXCEPT ![p] = c]
      BY <1>4, <2>3 DEF Fills
    <3>2. base'[p] = base[p] + len[p] /\ len'[p] = c /\ left'[p] = c /\ c \in Nat
      BY <1>4, <2>3, <3>1, StreamAssumption DEF Fills, TypeInv, TypeOK
    <3>. QED  BY <1>1, <2>1, <3>2 DEF Sent
  <2>. QED  BY <2>2, <2>3
<1>. QED  BY <1>2, <1>3, <1>4

\* The first word of a call goes into an empty fabric, nothing sent before it.
LEMMA OpensEmpty ==
  ASSUME TypeInv, NEW p \in Tools, CallInv(p), Quiet(p), pc'[p] \in Loading, pc[p] \notin Loading
  PROVE  cram' = <<>> /\ Sent(p)' = 0
<1>. USE DEF Pending, Configuring, Emptied, Loading, Feeding, Closing, Ended
<1>1. Opens(p) /\ cram' = cram
  BY CallFacts DEF Quiet, Rests, Prepares, Empties, Fills, Runs
<1>2. base[p] = 0 /\ len[p] = 0 /\ left[p] \in Nat /\ left[p] <= len[p]
  BY <1>1 DEF Opens, TypeInv, TypeOK, BufferInv, BeforeData, Locations
<1>. QED  BY <1>1, <1>2 DEF Opens, CallInv, Sent

-----------------------------------------------------------------------------
\* Writes to the data port.

LEMMA WriteFacts ==
  ASSUME TypeInv, NEW p \in Tools, NEW w \in Word, Writes(p, w)
  PROVE  /\ cram \in Seq(Word) /\ cram' \in Seq(Word)
         /\ \/ cram' = cram /\ ~TakesWord(w)
            \/ /\ TakesWord(w) /\ Len(cram') = Len(cram) + 1
               /\ cram'[Len(cram) + 1] = w
               /\ \A i \in 1..Len(cram) : cram'[i] = cram[i]
         /\ base[p] \in Nat /\ len[p] \in Nat /\ left[p] \in Nat /\ left[p] <= len[p]
         /\ Sent(p) \in Nat /\ calls \in Nat /\ call[p] \in Nat
<1>1. cram \in Seq(Word)
  BY DEF TypeInv, TypeOK, FabricTypeOK
<1>2. base[p] \in Nat /\ len[p] \in Nat /\ left[p] \in Nat /\ left[p] <= len[p]
      /\ calls \in Nat /\ call[p] \in Nat
  BY DEF TypeInv, TypeOK, BufferInv
<1>3. CASE TakesWord(w)
  <2>1. cram' = Append(cram, w)
    BY <1>3 DEF Writes, FeedWord
  <2>. QED  BY <1>1, <1>2, <1>3, <2>1 DEF Sent
<1>4. CASE ~TakesWord(w)
  BY <1>1, <1>2, <1>4 DEF Writes, FeedWord, Sent
<1>. QED  BY <1>3, <1>4

LEMMA WriteSent ==
  ASSUME TypeInv, NEW p \in Tools, NEW w \in Word, Writes(p, w)
  PROVE  \/ w.n = 4 /\ w.off = Sent(p) /\ Sent(p)' = Sent(p) + 4
         \/ left[p] \in 1..3 /\ w.n = left[p] /\ Sent(p)' = Sent(p) + left[p]
<1>1. base[p] \in Nat /\ len[p] \in Nat /\ left[p] \in Nat
  BY DEF TypeInv, TypeOK
<1>2. CASE w.n = 4 /\ w.off = Sent(p) /\ left[p] >= 4 /\ left' = [left EXCEPT ![p] = left[p] - 4]
  <2>1. base' = base /\ len' = len /\ left'[p] = left[p] - 4
    BY <1>2 DEF Writes, TypeInv, TypeOK
  <2>. QED  BY <1>1, <1>2, <2>1 DEF Sent
<1>3. CASE w.n = left[p] /\ left[p] \in 1..3 /\ left' = [left EXCEPT ![p] = 0]
  <2>1. base' = base /\ len' = len /\ left'[p] = 0
    BY <1>3 DEF Writes, TypeInv, TypeOK
  <2>. QED  BY <1>1, <1>3, <2>1 DEF Sent
<1>. QED  BY <1>2, <1>3 DEF Writes

LEMMA WriteFabric ==
  ASSUME TypeInv, FabricInv, NEW p \in Tools, CallInv(p), NEW w \in Word, Writes(p, w)
  PROVE  FabricInv'
<1>1. UNCHANGED <<powered, mode, mon, calls>> /\ pc[p] \in Loading /\ w.call = call[p]
  BY DEF Writes, Loading, Feeding
<1>2. CASE cram' = cram
  BY <1>1, <1>2 DEF FabricInv, NoMixedImage
<1>3. CASE cram' # cram
  <2>1. /\ TakesWord(w) /\ Len(cram') = Len(cram) + 1
        /\ cram'[Len(cram) + 1] = w
        /\ \A i \in 1..Len(cram) : cram'[i] = cram[i]
        /\ Len(cram) \in Nat
    BY <1>3, WriteFacts
  <2>2. \A i \in 1..Len(cram) : cram[i].call = call[p]
    BY <1>1 DEF CallInv
  <2>3. \A i \in 1..Len(cram') : cram'[i].call = call[p]
    BY <1>1, <2>1, <2>2
  <2>4. mode = "cfg" /\ Len(cram) # ImageWords /\ Len(cram') <= ImageWords
    BY <2>1, ImageWordsAssumption DEF TakesWord
  <2>5. ~mon.confDone
    BY <2>4 DEF FabricInv
  <2>6. call[p] <= calls
    BY DEF CallInv
  <2>. QED  BY <1>1, <2>3, <2>4, <2>5, <2>6 DEF FabricInv, NoMixedImage
<1>. QED  BY <1>2, <1>3

LEMMA WriteCall ==
  ASSUME TypeInv, NEW p \in Tools, CallInv(p), NEW w \in Word, Writes(p, w)
  PROVE  CallInv(p)'
<1>. USE DEF Pending, Configuring, Emptied, Loading, Feeding, Closing, Ended
<1>1. UNCHANGED <<pc, calls, call, job, result, status, dataStatus>> /\ pc[p] = "axi"
      /\ w.call = call[p]
  BY DEF Writes
<1>2. \A i \in 1..Len(cram) : cram[i].call = call[p]
  BY <1>1 DEF CallInv
<1>3. \A i \in 1..Len(cram') : cram'[i].call = call[p]
  BY <1>1, <1>2, WriteFacts
<1>. QED  BY <1>1, <1>3 DEF CallInv, IsConfigure

LEMMA WriteBuf ==
  ASSUME TypeInv, NEW p \in Tools, BufInv(p), NEW w \in Word, Writes(p, w)
  PROVE  BufInv(p)'
<1>1. UNCHANGED <<pc, job, base, len>> /\ pc[p] = "axi"
  BY DEF Writes
<1>2. left[p] \in Nat /\ len[p] \in Nat
  BY DEF TypeInv, TypeOK
<1>3. left'[p] = 0 \/ (left[p] >= 4 /\ left'[p] = left[p] - 4)
  BY DEF Writes, TypeInv, TypeOK
<1>4. left'[p] = 0 \/ left'[p] % 4 = len[p] % 4
  BY <1>1, <1>2, <1>3 DEF BufInv
<1>. QED  BY <1>1, <1>4 DEF BufInv

-----------------------------------------------------------------------------
\* Steps of the fabric, and those of a user that leave fabric and tools alone.

FabricAlone ==
  /\ UNCHANGED toolVars
  /\ FabricNext \/ UNCHANGED <<powered, mode, mon, cram>>

LEMMA AloneMoves ==
  ASSUME TypeInv, FabricInv, FabricAlone
  PROVE  cram' = <<>> \/ (cram' = cram /\ (mon'.nStatus => mon.nStatus))
<1>0. mon \in Monitor
  BY DEF TypeInv, TypeOK, FabricTypeOK
<1>1. CASE UNCHANGED <<powered, mode, mon, cram>>
  <2>1. cram' = cram /\ mon'.nStatus = mon.nStatus
    BY <1>1
  <2>. QED  BY <2>1
<1>2. CASE PowerLoss \/ EnterReset
  BY <1>2 DEF PowerLoss, EnterReset
<1>3. CASE EnterCfg
  <2>1. cram' = cram /\ mode = "reset"
    BY <1>3 DEF EnterCfg
  <2>2. cram = <<>>
    BY <2>1 DEF FabricInv
  <2>. QED  BY <2>1, <2>2
<1>4. CASE FlagError
  <2>1. cram' = cram /\ mon'.nStatus = FALSE
    BY <1>4 DEF FlagError
  <2>. QED  BY <2>1
<1>5. CASE PowerUp \/ RaiseConfDone \/ EnterInit \/ EnterUser \/ DclkDone
  <2>1. cram' = cram /\ mon'.nStatus = mon.nStatus
    BY <1>0, <1>5 DEF Monitor, PowerUp, RaiseConfDone, EnterInit, EnterUser, DclkDone
  <2>. QED  BY <2>1
<1>. QED  BY <1>1, <1>2, <1>3, <1>4, <1>5 DEF FabricAlone, FabricNext

LEMMA AloneFabric ==
  ASSUME TypeInv, FabricInv, FabricAlone
  PROVE  FabricInv'
<1>. USE ImageWordsAssumption DEF FabricInv, NoMixedImage
<1>1. calls' = calls /\ mon \in Monitor
  BY DEF FabricAlone, toolVars, callVars, TypeInv, TypeOK, FabricTypeOK
<1>2. CASE UNCHANGED <<powered, mode, mon, cram>>
  BY <1>1, <1>2
<1>3. CASE PowerLoss
  BY <1>1, <1>3 DEF PowerLoss, MonitorLow
<1>4. CASE PowerUp
  BY <1>1, <1>4 DEF PowerUp
<1>5. CASE EnterReset
  BY <1>1, <1>5 DEF EnterReset, MonitorLow
<1>6. CASE EnterCfg
  <2>1. cram = <<>> /\ mon'.confDone = mon.confDone /\ powered
    BY <1>1, <1>6 DEF EnterCfg, Monitor
  <2>. QED  BY <1>1, <1>6, <2>1 DEF EnterCfg
<1>7. CASE RaiseConfDone
  <2>1. mode = "cfg" /\ powered /\ Len(cram) = ImageWords
    BY <1>7 DEF RaiseConfDone
  <2>. QED  BY <1>1, <1>7, <2>1 DEF RaiseConfDone
<1>8. CASE FlagError
  BY <1>1, <1>8 DEF FlagError
<1>9. CASE EnterInit \/ EnterUser
  BY <1>1, <1>9 DEF EnterInit, EnterUser
<1>10. CASE DclkDone
  BY <1>1, <1>10 DEF DclkDone
<1>. QED
  BY <1>2, <1>3, <1>4, <1>5, <1>6, <1>7, <1>8, <1>9, <1>10 DEF FabricAlone, FabricNext

LEMMA AloneTool ==
  ASSUME TypeInv, FabricInv, FabricAlone, NEW p \in Tools, CallInv(p), BufInv(p)
  PROVE  CallInv(p)' /\ BufInv(p)'
<1>1. cram' = cram \/ cram' = <<>>
  BY AloneMoves
<1>2. UNCHANGED <<pc, calls, call, job, status, dataStatus, base, len, left, result>>
  BY DEF FabricAlone, toolVars, callVars, localVars
<1>3. CallInv(p)'
  BY <1>1, <1>2 DEF CallInv, IsConfigure
<1>4. BufInv(p)'
  BY <1>2 DEF BufInv
<1>. QED  BY <1>3, <1>4

LEMMA ToolImage ==
  ASSUME TypeInv, FabricInv, NEW p \in Tools, CallInv(p), BufInv(p),
         Client(p) \/ Control(p) \/ InCall(p)
  PROVE  FabricInv' /\ CallInv(p)' /\ BufInv(p)'
BY Kinds, QuietFabric, QuietCall, QuietBuf, WriteFabric, WriteCall, WriteBuf

LEMMA InitImage == Init => ImageInv
<1>. SUFFICES ASSUME Init PROVE ImageInv
  OBVIOUS
<1>1. FabricInv
  <2>1. CASE cram = BootImage /\ mode = "user" /\ powered = TRUE
    <3>1. Len(cram) = ImageWords /\ \A i \in 1..Len(cram) : cram[i].call = 0
      BY <2>1, ImageWordsAssumption DEF BootImage
    <3>. QED  BY <2>1, <3>1, ImageWordsAssumption DEF FabricInv, NoMixedImage, Init
  <2>2. CASE cram = <<>> /\ mon = MonitorLow
    BY <2>2, ImageWordsAssumption DEF FabricInv, NoMixedImage, Init, FabricInit, MonitorLow
  <2>. QED  BY <2>1, <2>2 DEF Init, FabricInit
<1>2. ASSUME NEW p \in Tools PROVE CallInv(p) /\ BufInv(p)
  BY DEF Init, CallInv, BufInv, DriverLocations, Locations, Configuring, Pending, Emptied,
         Loading, Feeding, Closing, Ended
<1>. QED  BY <1>1, <1>2, InitTypeInv DEF ImageInv

LEMMA NextImage ==
  ASSUME SoleTool
  PROVE  ImageInv /\ [Next]_vars => ImageInv'
<1>. SUFFICES ASSUME ImageInv, [Next]_vars PROVE ImageInv'
  OBVIOUS
<1>1. TypeInv'
  BY NextTypeInv DEF ImageInv
<1>2. CASE Fabric \/ UNCHANGED vars
  <2>1. FabricAlone
    BY <1>2 DEF Fabric, FabricAlone, vars, fabricVars
  <2>. QED  BY <1>1, <2>1, AloneFabric, AloneTool DEF ImageInv
<1>3. ASSUME NEW p \in Tools, Client(p) \/ Control(p) \/ InCall(p)
      PROVE  ImageInv'
  <2>1. \A q \in Tools : q = p
    BY DEF SoleTool
  <2>. QED  BY <1>1, <1>3, <2>1, ToolImage DEF ImageInv
<1>. QED  BY <1>2, <1>3 DEF Next

\* The words of two calls never mix in the fabric, however a load was cut short,
\* as long as one tool uses the driver.
THEOREM SoleImage ==
  ASSUME SoleTool
  PROVE  Spec => []NoMixedImage
<1>1. ImageInv => NoMixedImage
  BY DEF ImageInv, FabricInv
<1>. QED  BY <1>1, InitImage, NextImage, PTL DEF Spec

-----------------------------------------------------------------------------
\* From here on the data path is open: the tool's invariants of SoleInv hold too.

LEMMA SentFacts ==
  ASSUME TypeInv, NEW p \in Tools, BufInv(p), IsConfigure(p), pc[p] \in Loading
  PROVE  Sent(p) \in Nat /\ ImageBytes(p) \in Nat /\ Sent(p) <= ImageBytes(p)
<1>1. /\ base[p] \in Nat /\ len[p] \in Nat /\ left[p] \in Nat /\ left[p] <= len[p]
      /\ job[p].len \in Nat
  BY JobType DEF TypeInv, TypeOK, BufferInv
<1>2. job[p].op = "configure" => base[p] = 0 /\ len[p] <= job[p].len
  BY DEF BufInv
<1>. QED  BY <1>1, <1>2 DEF Sent, ImageBytes, IsConfigure

LEMMA QuietExact ==
  ASSUME TypeInv, NEW p \in Tools, CallInv(p), BufInv(p), Exact(p), Quiet(p)
  PROVE  Exact(p)'
<1>1. CASE pc'[p] \notin Loading
  BY <1>1 DEF Exact
<1>2. CASE pc'[p] \in Loading /\ pc[p] \notin Loading
  BY <1>2, OpensEmpty DEF Exact
<1>3. CASE pc'[p] \in Loading /\ pc[p] \in Loading
  <2>1. cram' = cram /\ mon' = mon
    BY DEF Quiet
  <2>. QED  BY <1>3, <2>1, QuietSent DEF Exact
<1>. QED  BY <1>1, <1>2, <1>3

LEMMA AloneExact ==
  ASSUME TypeInv, FabricInv, FabricAlone, NEW p \in Tools, CallInv(p), BufInv(p), Exact(p)
  PROVE  Exact(p)'
<1>1. /\ cram' = <<>> \/ (cram' = cram /\ (mon'.nStatus => mon.nStatus))
      /\ pc' = pc /\ Sent(p)' = Sent(p)
  BY AloneMoves DEF FabricAlone, toolVars, localVars, Sent
<1>2. CASE pc[p] \in Loading
  <2>1. Sent(p) \in Nat
    BY <1>2, SentFacts DEF CallInv, Configuring
  <2>2. CASE cram' = <<>>
    BY <1>1, <2>1, <2>2 DEF Exact
  <2>3. CASE cram' = cram /\ (mon'.nStatus => mon.nStatus)
    BY <1>1, <1>2, <2>3 DEF Exact
  <2>. QED  BY <1>1, <2>2, <2>3
<1>. QED  BY <1>1, <1>2 DEF Exact

\* The tail of a buffer is the tail of a file.
LEMMA TailOfFile ==
  ASSUME TypeInv, NEW p \in Tools, CallInv(p), BufInv(p), WholeChunks,
         pc[p] = "axi", left[p] \in 1..3
  PROVE  /\ job[p].op = "configure" /\ job[p] \in Jobs /\ job[p].len \in Nat
         /\ job[p].len % 4 # 0
         /\ Sent(p) = job[p].len - left[p]
<1>1. IsConfigure(p) /\ len[p] \in Nat
  BY DEF CallInv, Configuring, Loading, Feeding, TypeInv, TypeOK
<1>2. left[p] % 4 = len[p] % 4 /\ left[p] % 4 # 0
  BY DEF BufInv
<1>3. job[p].op = "configure"
  BY <1>1, <1>2 DEF BufInv, WholeChunks
<1>4. base[p] = 0 /\ len[p] = job[p].len
  BY <1>3 DEF BufInv, Loading, Feeding
<1>. QED  BY <1>1, <1>2, <1>3, <1>4, JobType DEF Sent

\* A word that comes through the open data path and is not taken was not needed.
LEMMA NotTaken ==
  ASSUME TypeInv, FabricInv, NEW p \in Tools, CtlInv(p), NEW w \in Word, Writes(p, w),
         ~TakesWord(w), cram # <<>>
  PROVE  ~mon.nStatus \/ Len(cram) = ImageWords
<1>1. ctl.en /\ ctl.axicfgen
  BY DEF Writes, CtlInv, InControl, DriverLocations, Locations, Feeding
<1>2. mode \in {"cfg", "init", "user"}
  BY DEF FabricInv
<1>3. CASE mode = "cfg"
  <2>1. mon.nStatus => ~(Len(cram) < ImageWords)
    BY <1>1, <1>3 DEF TakesWord
  <2>2. Len(cram) <= ImageWords
    BY DEF FabricInv
  <2>3. Len(cram) \in Nat
    BY WriteFacts
  <2>. QED  BY <2>1, <2>2, <2>3, ImageWordsAssumption
<1>4. CASE mode \in {"init", "user"}
  BY <1>4 DEF FabricInv
<1>. QED  BY <1>2, <1>3, <1>4

LEMMA WriteExact ==
  ASSUME TypeInv, FabricInv, NEW p \in Tools, CallInv(p), BufInv(p), CtlInv(p), Exact(p),
         WholeFiles, WholeChunks, NEW w \in Word, Writes(p, w)
  PROVE  Exact(p)'
<1>. USE DEF Loading, Feeding
<1>1. /\ pc[p] = "axi" /\ pc'[p] = "axi" /\ mon' = mon
      /\ Len(cram) \in Nat /\ Sent(p) \in Nat /\ ImageWords \in Nat
  BY WriteFacts, ImageWordsAssumption DEF Writes
<1>2. /\ \A i \in 1..Len(cram) : cram[i].n = 4 /\ cram[i].off = 4 * (i - 1)
      /\ 4 * Len(cram) <= Sent(p)
      /\ cram = <<>> \/ ~mon.nStatus \/ Len(cram) = ImageWords \/ 4 * Len(cram) = Sent(p)
  BY <1>1 DEF Exact
<1>3. Sent(p)' \in Nat /\ Sent(p)' >= Sent(p)
  BY <1>1, WriteSent
<1>4. CASE cram' = cram /\ ~TakesWord(w)
  <2>1. cram = <<>> \/ ~mon.nStatus \/ Len(cram) = ImageWords
    BY <1>4, NotTaken
  <2>. QED  BY <1>1, <1>2, <1>3, <1>4, <2>1 DEF Exact
<1>5. CASE /\ TakesWord(w) /\ Len(cram') = Len(cram) + 1
           /\ cram'[Len(cram) + 1] = w
           /\ \A i \in 1..Len(cram) : cram'[i] = cram[i]
  <2>1. mon.nStatus /\ Len(cram) < ImageWords /\ (cram = <<>> => w.off = 0 /\ w.n = 4)
    BY <1>5 DEF TakesWord
  <2>2. cram # <<>> => 4 * Len(cram) = Sent(p)
    BY <1>1, <1>2, <2>1
  <2>3. CASE left[p] \in 1..3 /\ w.n = left[p]
    <3>1. /\ job[p].op = "configure" /\ job[p] \in Jobs /\ job[p].len \in Nat
          /\ job[p].len % 4 # 0 /\ Sent(p) = job[p].len - left[p]
      BY <1>1, <2>3, TailOfFile
    <3>2. job[p].len >= 4 * ImageWords
      BY <3>1 DEF WholeFiles
    <3>3. cram # <<>>
      BY <2>1, <2>3
    <3>. QED  BY <1>1, <2>1, <2>2, <2>3, <3>1, <3>2, <3>3
  <2>4. CASE w.n = 4 /\ w.off = Sent(p) /\ Sent(p)' = Sent(p) + 4
    <3>1. 4 * Len(cram) = Sent(p)
      <4>1. CASE cram = <<>>
        BY <2>1, <2>4, <4>1
      <4>. QED  BY <2>2, <4>1
    <3>2. ASSUME NEW i \in 1..Len(cram')
          PROVE  cram'[i].n = 4 /\ cram'[i].off = 4 * (i - 1)
      <4>1. CASE i = Len(cram) + 1
        BY <1>1, <1>5, <2>4, <3>1, <4>1
      <4>2. CASE i \in 1..Len(cram)
        BY <1>2, <1>5, <4>2
      <4>. QED  BY <1>1, <1>5, <4>1, <4>2
    <3>. QED  BY <1>1, <1>5, <2>4, <3>1, <3>2 DEF Exact
  <2>. QED  BY <2>3, <2>4, WriteSent
<1>. QED  BY <1>4, <1>5, WriteFacts

\* Everything that is so of the one tool of an instance, and of the fabric.
WholeInv == SoleInv /\ ImageInv /\ \A p \in Tools : Exact(p)

LEMMA InitWhole == Init => WholeInv
<1>1. ASSUME Init, NEW p \in Tools PROVE Exact(p)
  BY <1>1 DEF Init, Exact, Loading, Feeding, Closing
<1>. QED  BY <1>1, InitSole, InitImage DEF WholeInv

LEMMA NextWhole ==
  ASSUME SoleTool, WholeFiles, WholeChunks
  PROVE  WholeInv /\ [Next]_vars => WholeInv'
<1>. SUFFICES ASSUME WholeInv, [Next]_vars PROVE WholeInv'
  OBVIOUS
<1>1. SoleInv' /\ ImageInv'
  BY NextSole, NextImage DEF WholeInv
<1>2. ASSUME NEW p \in Tools
      PROVE  TypeInv /\ FabricInv /\ CallInv(p) /\ BufInv(p) /\ CtlInv(p) /\ Exact(p)
  BY DEF WholeInv, SoleInv, ImageInv, ToolInv
<1>3. CASE Fabric \/ UNCHANGED vars
  <2>1. FabricAlone
    BY <1>3 DEF Fabric, FabricAlone, vars, fabricVars
  <2>. QED  BY <1>1, <1>2, <2>1, AloneExact DEF WholeInv
<1>4. ASSUME NEW p \in Tools, Client(p) \/ Control(p) \/ InCall(p)
      PROVE  WholeInv'
  <2>1. \A q \in Tools : q = p
    BY DEF SoleTool
  <2>2. Exact(p)'
    BY <1>2, <1>4, Kinds, QuietExact, WriteExact
  <2>. QED  BY <1>1, <2>1, <2>2 DEF WholeInv
<1>. QED  BY <1>3, <1>4 DEF Next

\* A full fabric holds the image of the call that filled it.
LEMMA FullHolds ==
  ASSUME TypeInv, NEW p \in Tools, CallInv(p), BufInv(p), Exact(p), pc[p] \in Loading
  PROVE  Holds(call[p], ImageBytes(p)) <=> Len(cram) = ImageWords
<1>1. /\ IsConfigure(p) /\ cram \in Seq(Word)
      /\ \A i \in 1..Len(cram) : cram[i].call = call[p]
  BY DEF CallInv, Configuring, TypeInv, TypeOK, FabricTypeOK
<1>2. Sent(p) \in Nat /\ ImageBytes(p) \in Nat /\ Sent(p) <= ImageBytes(p)
  BY <1>1, SentFacts
<1>3. ASSUME Len(cram) = ImageWords, NEW i \in 1..ImageWords
      PROVE  cram[i] = ImageWord(call[p], ImageBytes(p), i)
  <2>1. cram[i].n = 4 /\ cram[i].off = 4 * (i - 1) /\ 4 * ImageWords <= ImageBytes(p)
    BY <1>2, <1>3, ImageWordsAssumption DEF Exact
  <2>2. ~(ImageBytes(p) - 4 * (i - 1) < 4)
    BY <1>2, <2>1, ImageWordsAssumption
  <2>3. cram[i] \in Word /\ cram[i].call = call[p]
    BY <1>1, <1>3
  <2>4. cram[i] = [call |-> call[p], off |-> 4 * (i - 1), n |-> 4]
    BY <2>1, <2>3 DEF Word
  <2>. QED  BY <2>2, <2>4 DEF ImageWord
<1>. QED  BY <1>3 DEF Holds

\* A step that ends a configuration with success was taken in user mode, at Step 13.
LEMMA Succeeds ==
  ASSUME SoleTool, ImageInv, Next, NEW p \in Tools, pc[p] = "step13", result'[p] = "SUCCESS"
  PROVE  mode = "user"
<1>1. result[p] = None /\ IsConfigure(p)
  BY DEF ImageInv, CallInv, DriverLocations, Locations, Configuring, Loading, Closing
<1>2. result'[p] # result[p]
  BY <1>1 DEF None
<1>3. Client(p) \/ Control(p) \/ InCall(p)
  BY <1>2 DEF Next, SoleTool, Fabric, toolVars
<1>4. Quiet(p)
  BY <1>2, <1>3, Kinds DEF ImageInv, Writes
<1>5. Rests(p)
  BY <1>2, <1>4, CallFacts DEF Quiet, Prepares, Empties, Opens, Fills, Runs, ImageInv, None
<1>. QED  BY <1>1, <1>2, <1>5 DEF Rests

\* A configuration call of the one tool returns ALT_E_SUCCESS only while the fabric
\* runs the whole image of that call, for every image size, file, stream and timeout.
THEOREM SoleSuccess ==
  ASSUME SoleTool, WholeFiles, WholeChunks
  PROVE  Spec => SuccessMeansConfigured
<1>1. WholeInv /\ [Next]_vars =>
        [\A p \in Tools :
           (At(p, "step13") /\ result'[p] = "SUCCESS") =>
             mode = "user" /\ Holds(call[p], ImageBytes(p))]_vars
  <2>. SUFFICES ASSUME WholeInv, Next, NEW p \in Tools, At(p, "step13"), result'[p] = "SUCCESS"
                PROVE  mode = "user" /\ Holds(call[p], ImageBytes(p))
    OBVIOUS
  <2>1. pc[p] = "step13" /\ pc[p] \in Loading
    BY DEF At, Loading, Closing
  <2>2. mode = "user"
    BY <2>1, Succeeds DEF WholeInv
  <2>3. Len(cram) = ImageWords
    BY <2>2 DEF WholeInv, ImageInv, FabricInv
  <2>. QED  BY <2>1, <2>2, <2>3, FullHolds DEF WholeInv, ImageInv
<1>. QED  BY <1>1, InitWhole, NextWhole, PTL DEF Spec, SuccessMeansConfigured

-----------------------------------------------------------------------------
\* The contract, step by step.

Outcome == IF IsConfigure(Sole) THEN result[Sole] ELSE None

LEMMA SoleTaken ==
  ASSUME SoleTool, Tools # {}
  PROVE  Sole \in Tools /\ \A p \in Tools : p = Sole
BY DEF Sole, SoleTool

\* What the contract sees, in terms of the invariants.
View ==
  /\ cram = <<>> => CallImage = "blank"
  /\ (cram # <<>> /\ (CallPhase # "busy" \/ pc[Sole] \in Pending)) => CallImage = "old"
  /\ (cram # <<>> /\ pc[Sole] \in Loading) =>
       CallImage = IF Len(cram) = ImageWords THEN "whole" ELSE "part"
  /\ CallPhase = "busy" <=> IsConfigure(Sole) /\ pc[Sole] \in DriverLocations
  /\ CallPhase = "busy" => Outcome = None
  /\ (CallPhase = "busy" /\ pc[Sole] \notin Pending \cup Loading) => cram = <<>>

LEMMA Seen ==
  ASSUME Sole \in Tools
  PROVE  WholeInv => View
<1>. SUFFICES ASSUME WholeInv PROVE View
  OBVIOUS
<1>1. /\ TypeInv /\ CallInv(Sole) /\ BufInv(Sole) /\ Exact(Sole) /\ cram \in Seq(Word)
  BY DEF WholeInv, ImageInv, TypeInv, TypeOK, FabricTypeOK
<1>2. CallPhase = "busy" <=> IsConfigure(Sole) /\ pc[Sole] \in DriverLocations
  BY DEF CallPhase
<1>3. cram # <<>> => 1 \in 1..Len(cram)
  BY <1>1
<1>4. (cram # <<>> /\ (CallPhase # "busy" \/ pc[Sole] \in Pending)) => CallImage = "old"
  BY <1>1, <1>3 DEF CallImage, CallInv
<1>5. ASSUME cram # <<>>, pc[Sole] \in Loading
      PROVE  CallImage = IF Len(cram) = ImageWords THEN "whole" ELSE "part"
  <2>1. CallPhase = "busy" /\ cram[1].call = call[Sole]
    BY <1>1, <1>2, <1>3, <1>5
    DEF CallInv, Configuring, Loading, Feeding, Closing, DriverLocations, Locations
  <2>2. Holds(call[Sole], ImageBytes(Sole)) <=> Len(cram) = ImageWords
    BY <1>1, <1>5, FullHolds
  <2>. QED  BY <1>5, <2>1, <2>2 DEF CallImage
<1>6. CallPhase = "busy" => Outcome = None
  BY <1>1, <1>2 DEF Outcome, CallInv
<1>7. (CallPhase = "busy" /\ pc[Sole] \notin Pending \cup Loading) => cram = <<>>
  BY <1>1, <1>2 DEF CallInv, DriverLocations, Locations, Pending, Loading, Feeding, Closing, Emptied
<1>. QED  BY <1>2, <1>4, <1>5, <1>6, <1>7 DEF CallImage, View

LEMMA SeenNext ==
  ASSUME Sole \in Tools
  PROVE  WholeInv' => View'
<1>1. WholeInv => View
  BY Seen
<1>. QED  BY <1>1, PTL

LEMMA ContractInit ==
  ASSUME Sole \in Tools
  PROVE  Init => Contract!Init
BY DEF Init, Contract!Init, Contract!NoOutcome, CallPhase, CallImage, IsConfigure, NoJob, None

\* Nothing the caller sees changes while its call has no words in the fabric.
LEMMA ContractStays ==
  ASSUME WholeInv, WholeInv', Sole \in Tools, UNCHANGED <<cram, job, result>>,
         pc[Sole] \in DriverLocations <=> pc'[Sole] \in DriverLocations,
         \/ pc[Sole] \in Loading /\ pc'[Sole] \in Loading
         \/ pc[Sole] \notin Loading /\ pc'[Sole] \notin Loading
         \/ cram = <<>>
  PROVE  UNCHANGED <<CallPhase, Outcome, CallImage>>
<1>1. CallPhase' = CallPhase /\ Outcome' = Outcome
  BY DEF CallPhase, Outcome, IsConfigure
<1>2. CallImage' = CallImage
  <2>1. CASE cram = <<>>
    BY <2>1 DEF CallImage
  <2>2. CASE cram # <<>> /\ pc[Sole] \in Loading /\ pc'[Sole] \in Loading
    BY <2>2, Seen, SeenNext DEF View
  <2>3. CASE cram # <<>> /\ pc[Sole] \notin Loading /\ pc'[Sole] \notin Loading
    BY <1>1, <2>3, Seen, SeenNext DEF View
  <2>. QED  BY <2>1, <2>2, <2>3
<1>. QED  BY <1>1, <1>2

\* The caller's view after a step that leaves the fabric alone and ends the call.
LEMMA ContractAges ==
  ASSUME WholeInv, WholeInv', Sole \in Tools, cram' = cram, CallPhase' # "busy"
  PROVE  /\ CallImage' = Contract!Aged(CallImage)
         /\ CallPhase # "busy" => CallImage' = CallImage
<1>1. View /\ View'
  BY Seen, SeenNext
<1>2. CASE cram = <<>>
  BY <1>1, <1>2 DEF View, Contract!Aged
<1>3. CASE cram # <<>>
  <2>1. CallImage' = "old" /\ CallImage # "blank"
    BY <1>1, <1>3 DEF View, CallImage
  <2>2. CallPhase # "busy" => CallImage = "old"
    BY <1>1, <1>3 DEF View
  <2>. QED  BY <2>1, <2>2 DEF Contract!Aged
<1>. QED  BY <1>2, <1>3

LEMMA ContractRests ==
  ASSUME WholeInv, WholeInv', Sole \in Tools, Rests(Sole), cram' = cram, mode' = mode
  PROVE  [Contract!Next]_(Contract!contractVars)
<1>. USE DEF Outcome
<1>1. /\ View /\ View' /\ CallInv(Sole) /\ job' = job
      /\ IsConfigure(Sole)' <=> IsConfigure(Sole)
  BY Seen, SeenNext DEF WholeInv, ImageInv, Rests, IsConfigure
<1>2. CASE result' = result /\ (pc[Sole] \in DriverLocations <=> pc'[Sole] \in DriverLocations)
  <2>1. pc[Sole] \notin Loading /\ pc'[Sole] \notin Loading
    BY <1>1, <1>2
    DEF Rests, CallInv, Configuring, Pending, Emptied, Loading, Feeding, Closing,
        DriverLocations, Locations
  <2>. QED  BY <1>1, <1>2, <2>1, ContractStays DEF Contract!contractVars
<1>3. CASE ~IsConfigure(Sole)
  <2>1. CallPhase = "none" /\ CallPhase' = "none"
    BY <1>1, <1>3 DEF CallPhase
  <2>. QED  BY <1>1, <1>3, <2>1, ContractAges DEF Contract!contractVars, Rests
<1>4. CASE /\ pc[Sole] \in DriverLocations /\ IsConfigure(Sole)
           /\ pc'[Sole] = "off" /\ result' = result
  <2>1. CallPhase = "busy" /\ result[Sole] = None
    BY <1>1, <1>4 DEF View, CallInv
  <2>2. CallPhase' = "none" /\ Outcome' = None
    BY <1>1, <1>4, <2>1 DEF CallPhase, DriverLocations
  <2>3. Contract!Abort
    BY <1>1, <1>4, <2>1, <2>2, ContractAges
    DEF Contract!Abort, Contract!NoOutcome, Rests, None
  <2>. QED  BY <2>3 DEF Contract!Next
<1>5. CASE /\ pc[Sole] \in DriverLocations /\ IsConfigure(Sole)
           /\ pc'[Sole] = "idle" /\ result'[Sole] \in Status
           /\ result'[Sole] = "SUCCESS" => pc[Sole] = "step13" /\ mode = "user"
  <2>1. CallPhase = "busy"
    BY <1>1, <1>5 DEF View
  <2>2. CallPhase' = "done" /\ Outcome' = result'[Sole]
    BY <1>1, <1>5 DEF CallPhase, DriverLocations, Status, None
  <2>3. CallImage' = Contract!Aged(CallImage)
    BY <1>1, <2>2, ContractAges DEF Rests
  <2>4. CASE result'[Sole] = "SUCCESS"
    <3>1. Len(cram) = ImageWords /\ cram # <<>> /\ pc[Sole] \in Loading
      BY <1>5, <2>4, ImageWordsAssumption
      DEF WholeInv, ImageInv, FabricInv, Loading, Closing
    <3>2. CallImage = "whole"
      BY <1>1, <3>1 DEF View
    <3>3. Contract!Succeed
      BY <1>1, <2>1, <2>2, <2>3, <2>4, <3>2 DEF Contract!Succeed, Contract!Success
    <3>. QED  BY <3>3 DEF Contract!Next
  <2>5. CASE result'[Sole] # "SUCCESS"
    <3>1. Contract!Fail
      BY <1>1, <1>5, <2>1, <2>2, <2>3, <2>5 DEF Contract!Fail
    <3>. QED  BY <3>1 DEF Contract!Next
  <2>. QED  BY <2>4, <2>5
<1>. QED  BY <1>2, <1>3, <1>4, <1>5 DEF Rests, DriverLocations

LEMMA ContractBegins ==
  ASSUME WholeInv, WholeInv', Sole \in Tools, Call(Sole), cram' = cram
  PROVE  Contract!Next
<1>. USE DEF Outcome
<1>1. /\ View /\ View' /\ TypeInv
  BY Seen, SeenNext DEF WholeInv, ImageInv
<1>2. pc[Sole] = "idle" /\ pc'[Sole] = "guard_en" /\ result'[Sole] = None
  BY <1>1, CallFacts DEF Call, At
<1>3. CallPhase # "busy"
  BY <1>1, <1>2 DEF View, DriverLocations
<1>4. CallPhase' \in {"busy", "none"} /\ Outcome' = None
  BY <1>2 DEF CallPhase, DriverLocations, Locations
<1>5. CallImage' = Contract!Aged(CallImage)
  <2>1. CASE cram = <<>>
    BY <1>1, <2>1 DEF View, Contract!Aged
  <2>2. CASE cram # <<>>
    <3>1. CallImage = "old" /\ CallImage' = "old"
      BY <1>1, <1>2, <1>3, <2>2 DEF View, Pending
    <3>. QED  BY <3>1 DEF Contract!Aged
  <2>. QED  BY <2>1, <2>2
<1>6. Contract!Begin
  BY <1>3, <1>4, <1>5 DEF Contract!Begin, Contract!NoOutcome, None
<1>. QED  BY <1>6 DEF Contract!Next

LEMMA ContractWrites ==
  ASSUME WholeInv, WholeInv', Sole \in Tools, NEW w \in Word, Writes(Sole, w)
  PROVE  [Contract!Next]_(Contract!contractVars)
<1>. USE DEF Outcome
<1>1. /\ View /\ View' /\ TypeInv
      /\ pc[Sole] \in Loading /\ pc'[Sole] \in Loading /\ UNCHANGED <<pc, job, result>>
  BY Seen, SeenNext DEF WholeInv, ImageInv, Writes, Loading, Feeding
<1>2. CASE cram' = cram
  BY <1>1, <1>2, ContractStays DEF Contract!contractVars
<1>3. CASE TakesWord(w) /\ Len(cram') = Len(cram) + 1
  <2>1. IsConfigure(Sole) /\ pc[Sole] \in DriverLocations
    BY <1>1
    DEF WholeInv, ImageInv, CallInv, Configuring, Loading, Feeding, Closing,
        DriverLocations, Locations
  <2>2. CallPhase = "busy" /\ CallPhase' = "busy" /\ Outcome' = Outcome
    BY <1>1, <2>1 DEF View, CallPhase, IsConfigure
  <2>3. Len(cram) \in Nat /\ cram' # <<>> /\ Len(cram) < ImageWords
    <3>1. Len(cram) \in Nat
      BY <1>1, WriteFacts
    <3>. QED  BY <1>3, <3>1 DEF TakesWord
  <2>4. CallImage \in {"blank", "part"}
    BY <1>1, <2>3 DEF View
  <2>5. CallImage' \in {"part", "whole"}
    BY <1>1, <2>3 DEF View
  <2>6. Contract!Load
    BY <2>2, <2>4, <2>5 DEF Contract!Load
  <2>. QED  BY <2>6 DEF Contract!Next
<1>. QED  BY <1>1, <1>2, <1>3, WriteFacts

LEMMA ContractAlone ==
  ASSUME WholeInv, WholeInv', Sole \in Tools, FabricAlone
  PROVE  [Contract!Next]_(Contract!contractVars)
<1>. USE DEF Outcome
<1>1. /\ UNCHANGED <<pc, job, result>> /\ (cram' = cram \/ cram' = <<>>)
  BY AloneMoves DEF FabricAlone, toolVars, callVars, WholeInv, ImageInv
<1>2. CASE cram' = cram
  BY <1>1, <1>2, ContractStays DEF Contract!contractVars
<1>3. CASE cram' = <<>>
  <2>1. CallImage' = "blank"
    BY <1>3 DEF CallImage
  <2>2. CallPhase' = CallPhase /\ Outcome' = Outcome
    BY <1>1 DEF CallPhase, IsConfigure
  <2>3. Contract!Wipe
    BY <2>1, <2>2 DEF Contract!Wipe
  <2>. QED  BY <2>3 DEF Contract!Next
<1>. QED  BY <1>1, <1>2, <1>3

LEMMA ContractQuiet ==
  ASSUME WholeInv, WholeInv', Sole \in Tools, Quiet(Sole)
  PROVE  [Contract!Next]_(Contract!contractVars)
<1>. USE DEF Outcome
<1>1. cram' = cram /\ mode' = mode /\ CallInv(Sole)
  BY DEF Quiet, WholeInv, ImageInv
<1>2. CASE Rests(Sole)
  BY <1>1, <1>2, ContractRests
<1>3. CASE Call(Sole)
  BY <1>1, <1>3, ContractBegins
<1>4. CASE Prepares(Sole) \/ Empties(Sole) \/ Opens(Sole) \/ Fills(Sole) \/ Runs(Sole)
  <2>1. /\ UNCHANGED <<cram, job, result>>
        /\ pc[Sole] \in DriverLocations /\ pc'[Sole] \in DriverLocations
        /\ \/ pc[Sole] \in Loading /\ pc'[Sole] \in Loading
           \/ pc[Sole] \notin Loading /\ pc'[Sole] \notin Loading
           \/ cram = <<>>
    BY <1>1, <1>4
    DEF Prepares, Empties, Opens, Fills, Runs, CallInv, Pending, Emptied, Loading, Feeding,
        Closing, DriverLocations, Locations
  <2>. QED  BY <2>1, ContractStays DEF Contract!contractVars
<1>. QED  BY <1>2, <1>3, <1>4 DEF Quiet

\* The driver implements ConfigureContract while one tool uses it: a call begins, loads
\* words into an empty fabric and ends with an outcome, SUCCESS only when the fabric holds
\* the whole of its image; words of an earlier call are wiped, never continued.
THEOREM SoleContract ==
  ASSUME SoleTool, Tools # {}, WholeFiles, WholeChunks
  PROVE  Spec => KeepsContract
<1>1. Sole \in Tools /\ \A p \in Tools : p = Sole
  BY SoleTaken
<1>2. Init => Contract!Init
  BY <1>1, ContractInit
<1>3. WholeInv /\ WholeInv' /\ [Next]_vars => [Contract!Next]_(Contract!contractVars)
  <2>. SUFFICES ASSUME WholeInv, WholeInv', [Next]_vars
                PROVE  [Contract!Next]_(Contract!contractVars)
    OBVIOUS
  <2>1. CASE Fabric \/ UNCHANGED vars
    <3>1. FabricAlone
      BY <2>1 DEF Fabric, FabricAlone, vars, fabricVars
    <3>. QED  BY <1>1, <3>1, ContractAlone
  <2>2. CASE Client(Sole) \/ Control(Sole) \/ InCall(Sole)
    BY <1>1, <2>2, Kinds, ContractQuiet, ContractWrites DEF WholeInv, ImageInv
  <2>. QED  BY <1>1, <2>1, <2>2 DEF Next
<1>. QED  BY <1>2, <1>3, InitWhole, NextWhole, PTL DEF Spec, KeepsContract, Contract!Spec

=============================================================================
