-------------------------- MODULE FpgaBesideProofs --------------------------
(***************************************************************************)
(* What survives FPGA-reset -ffc running beside the driver.  Its children  *)
(* write CTRL from copies of their own, so nothing of CtlInv holds; what   *)
(* FpgaImageProofs shows without CtlInv still does, and a call no child    *)
(* wrote into keeps all of it.                                             *)
(***************************************************************************)
EXTENDS FpgaBeside, FpgaImageProofs

\* Every file is made of whole words.
WordFiles == \A j \in Jobs : j.op = "configure" => j.len % 4 = 0

\* Words may be lost while a child has EN clear, so the fabric holds some of the words
\* sent so far: the first one, whole ones only, in order.
Ordered(p) ==
  pc[p] \in Loading =>
    /\ 4 * Len(cram) <= Sent(p)
    /\ cram # <<>> => cram[1].off = 0
    /\ \A i \in 1..Len(cram) :
         /\ cram[i].n = 4
         /\ 4 * (i - 1) <= cram[i].off
         /\ cram[i].off + 4 * (Len(cram) + 1 - i) <= Sent(p)
    /\ \A i, j \in 1..Len(cram) : i < j => cram[i].off < cram[j].off

BesideInv ==
  /\ ImageInv
  /\ copy \in CtlReg
  /\ undisturbed \subseteq Tools
  /\ \A p \in undisturbed : ToolInv(p)

OrderedInv == BesideInv /\ \A p \in Tools : Ordered(p)

\* A step of FPGA-reset, as the driver sees it.
Outside ==
  /\ UNCHANGED <<toolVars, powered, mode, mon, cram, dclk, msel>>
  /\ copy' \in CtlReg
  /\ \/ ctl' = ctl /\ undisturbed' = undisturbed
     \/ ctl' \in CtlReg /\ undisturbed' = {}

LEMMA TargetType ==
  ASSUME NEW child, NEW r \in CtlReg
  PROVE  Target(child, r) \in CtlReg
BY CtlUpdates DEF Target

LEMMA BesideSteps ==
  ASSUME BesideInv, [BesideNext]_besideVars
  PROVE  Driver \/ Outside
<1>. USE DEF vars, fabricVars
<1>1. copy \in CtlReg /\ ctl \in CtlReg /\ ResetReg \in CtlReg
  BY ResetRegType DEF BesideInv, ImageInv, TypeInv, TypeOK, FabricTypeOK
<1>2. CASE UNCHANGED besideVars \/ ClearBegin
  BY <1>1, <1>2 DEF besideVars, clearVars, ClearBegin, Outside
<1>3. CASE ChildRead
  BY <1>1, <1>3 DEF ChildRead, Outside
<1>4. CASE ChildWrite
  BY <1>1, <1>4, TargetType DEF ChildWrite, ChildEnds, WriteCtl, Outside
<1>5. CASE ChildFails \/ ClearEnds
  BY <1>1, <1>5 DEF ChildFails, ChildEnds, ClearEnds, Outside
<1>. QED  BY <1>2, <1>3, <1>4, <1>5 DEF BesideNext, FabricClear

LEMMA OutsideType ==
  ASSUME TypeInv, Outside
  PROVE  TypeInv'
<1>1. FabricTypeOK'
  BY DEF Outside, TypeInv, TypeOK, FabricTypeOK
<1>2. TypeOK'
  BY <1>1 DEF Outside, toolVars, callVars, localVars, TypeInv, TypeOK
<1>3. BufferInv'
  BY DEF Outside, toolVars, callVars, localVars, TypeInv, BufferInv, At
<1>. QED  BY <1>2, <1>3 DEF TypeInv

LEMMA OutsideBeside ==
  ASSUME BesideInv, Outside
  PROVE  BesideInv'
<1>1. FabricAlone /\ TypeInv
  BY DEF Outside, FabricAlone, BesideInv, ImageInv
<1>2. ImageInv'
  BY <1>1, OutsideType, AloneFabric, AloneTool DEF BesideInv, ImageInv
<1>3. CASE ctl' = ctl /\ undisturbed' = undisturbed
  <2>1. UNCHANGED <<ctl, msel, pc, reg, result, job>>
    BY <1>3 DEF Outside, toolVars, callVars, localVars
  <2>. QED  BY <1>2, <1>3, <2>1, StaysSole DEF BesideInv, Outside
<1>4. CASE undisturbed' = {}
  BY <1>2, <1>4 DEF BesideInv, Outside
<1>. QED  BY <1>3, <1>4 DEF Outside

\* Only the beginning of a call gives it its label.
LEMMA CallLabels ==
  ASSUME TypeInv, NEW p \in Tools, CallInv(p), Client(p) \/ Control(p) \/ InCall(p),
         call' # call
  PROVE  Call(p)
BY Kinds DEF Quiet, Rests, Prepares, Empties, Opens, Fills, Runs, Writes

LEMMA DriverBeside ==
  ASSUME SoleTool, BesideInv, Driver
  PROVE  BesideInv'
<1>1. /\ ImageInv /\ ImageInv' /\ copy' \in CtlReg
      /\ undisturbed' = undisturbed \cup {p \in Tools : call'[p] # call[p]}
  BY NextImage DEF BesideInv, Driver, clearVars
<1>2. ASSUME NEW p \in undisturbed' PROVE ToolInv(p)'
  <2>1. p \in Tools /\ TypeInv /\ CallInv(p) /\ (p \in undisturbed => ToolInv(p))
    BY <1>1, <1>2 DEF BesideInv, ImageInv
  <2>2. CASE Fabric
    <3>1. UNCHANGED <<ctl, msel, pc, reg, result, job, call>>
      BY <2>2, FabricMoves DEF Fabric, toolVars, callVars, localVars
    <3>2. p \in undisturbed
      BY <1>1, <1>2, <3>1
    <3>. QED  BY <2>1, <3>1, <3>2, StaysSole
  <2>3. CASE Client(p) \/ Control(p) \/ InCall(p)
    <3>1. CASE p \in undisturbed
      BY <2>1, <2>3, <3>1, ToolSole
    <3>2. CASE call'[p] # call[p]
      BY <2>1, <2>3, <3>2, CallLabels, CallSole
    <3>. QED  BY <1>1, <1>2, <3>1, <3>2
  <2>. QED  BY <2>1, <2>2, <2>3 DEF Driver, Next, SoleTool
<1>. QED  BY <1>1, <1>2 DEF BesideInv

LEMMA InitBeside == BesideInit => BesideInv
BY InitImage, ResetRegType DEF BesideInit, BesideInv

LEMMA NextBeside ==
  ASSUME SoleTool
  PROVE  BesideInv /\ [BesideNext]_besideVars => BesideInv'
BY BesideSteps, OutsideBeside, DriverBeside

\* The words of two calls never mix in the fabric, whatever FPGA-reset -ffc writes to
\* CTRL while the one tool that uses the driver resets and loads it.
THEOREM BesideNoMix ==
  ASSUME SoleTool
  PROVE  BesideSpec => []NoMixBesideClear
<1>1. BesideInv => NoMixBesideClear
  BY DEF BesideInv, ImageInv, FabricInv, NoMixBesideClear
<1>. QED  BY <1>1, InitBeside, NextBeside, PTL DEF BesideSpec

\* A call into which no child of FPGA-reset wrote keeps its data path open and hands
\* the fabric back, whatever the children wrote before it and will write after it.
THEOREM BesideDisturbedOnly ==
  ASSUME SoleTool
  PROVE  BesideSpec => []DisturbedOnly
<1>1. ASSUME BesideInv, NEW p \in undisturbed, pc[p] \in {"step9", "axi", "step10", "step11"}
      PROVE  ctl.en /\ ctl.axicfgen /\ ~ctl.nconfigpull /\ ctl.cdratio = CdRatio(msel)
  BY <1>1, Before DEF BesideInv, ImageInv, Feeding, Released, Programmed, SetUp
<1>2. ASSUME BesideInv, NEW p \in undisturbed, At(p, "idle"), IsConfigure(p),
             result[p] \notin Refused
      PROVE  ctl.en /\ ~ctl.nconfigpull
  BY <1>2 DEF BesideInv, ToolInv, ResultInv, At, DriverLocations
<1>3. BesideInv => DisturbedOnly
  BY <1>1, <1>2 DEF DisturbedOnly
<1>. QED  BY <1>3, InitBeside, NextBeside, PTL DEF BesideSpec

-----------------------------------------------------------------------------
\* The order of the words.

LEMMA QuietOrdered ==
  ASSUME TypeInv, NEW p \in Tools, CallInv(p), BufInv(p), Ordered(p), Quiet(p)
  PROVE  Ordered(p)'
<1>1. CASE pc'[p] \notin Loading
  BY <1>1 DEF Ordered
<1>2. CASE pc'[p] \in Loading /\ pc[p] \notin Loading
  BY <1>2, OpensEmpty DEF Ordered
<1>3. CASE pc'[p] \in Loading /\ pc[p] \in Loading
  <2>1. cram' = cram
    BY DEF Quiet
  <2>. QED  BY <1>3, <2>1, QuietSent DEF Ordered
<1>. QED  BY <1>1, <1>2, <1>3

LEMMA AloneOrdered ==
  ASSUME TypeInv, FabricInv, FabricAlone, NEW p \in Tools, CallInv(p), BufInv(p), Ordered(p)
  PROVE  Ordered(p)'
<1>1. (cram' = cram \/ cram' = <<>>) /\ pc' = pc /\ Sent(p)' = Sent(p)
  BY AloneMoves DEF FabricAlone, toolVars, localVars, Sent
<1>2. CASE cram' = cram
  BY <1>1, <1>2 DEF Ordered
<1>3. CASE cram' = <<>>
  <2>1. pc[p] \in Loading => Sent(p) \in Nat
    BY SentFacts DEF CallInv, Configuring
  <2>. QED  BY <1>1, <1>3, <2>1 DEF Ordered
<1>. QED  BY <1>1, <1>2, <1>3

LEMMA WriteOrdered ==
  ASSUME TypeInv, NEW p \in Tools, CallInv(p), BufInv(p), Ordered(p),
         WordFiles, WholeChunks, NEW w \in Word, Writes(p, w)
  PROVE  Ordered(p)'
<1>1. /\ pc[p] = "axi" /\ pc'[p] = "axi" /\ pc[p] \in Loading
      /\ Len(cram) \in Nat /\ Sent(p) \in Nat /\ cram \in Seq(Word)
  BY WriteFacts DEF Writes, Loading, Feeding
<1>2. w.n = 4 /\ w.off = Sent(p) /\ Sent(p)' = Sent(p) + 4
  <2>1. ~(left[p] \in 1..3)
    BY <1>1, TailOfFile DEF WordFiles
  <2>. QED  BY <2>1, WriteSent
<1>3. ASSUME NEW i \in 1..Len(cram)
      PROVE  /\ cram[i].off \in Nat /\ cram[i].n = 4
             /\ 4 * (i - 1) <= cram[i].off
             /\ cram[i].off + 4 * (Len(cram) + 1 - i) <= Sent(p)
  <2>1. cram[i] \in Word
    BY <1>1
  <2>. QED  BY <1>1, <2>1 DEF Ordered, Word
<1>4. /\ 4 * Len(cram) <= Sent(p)
      /\ cram # <<>> => cram[1].off = 0
      /\ \A i, j \in 1..Len(cram) : i < j => cram[i].off < cram[j].off
  BY <1>1 DEF Ordered
<1>5. CASE cram' = cram
  <2>1. ASSUME NEW i \in 1..Len(cram)
        PROVE  /\ cram[i].n = 4
               /\ 4 * (i - 1) <= cram[i].off
               /\ cram[i].off + 4 * (Len(cram) + 1 - i) <= Sent(p)'
    BY <1>1, <1>2, <1>3
  <2>2. 4 * Len(cram) <= Sent(p)'
    BY <1>1, <1>2, <1>4
  <2>. QED  BY <1>4, <1>5, <2>1, <2>2 DEF Ordered
<1>6. CASE /\ TakesWord(w) /\ Len(cram') = Len(cram) + 1
           /\ cram'[Len(cram) + 1] = w
           /\ \A i \in 1..Len(cram) : cram'[i] = cram[i]
  <2>1. 4 * Len(cram') <= Sent(p)'
    BY <1>1, <1>2, <1>4, <1>6
  <2>2. cram'[1].off = 0
    <3>1. CASE cram = <<>>
      BY <1>6, <3>1 DEF TakesWord
    <3>2. CASE cram # <<>>
      BY <1>1, <1>4, <1>6, <3>2
    <3>. QED  BY <3>1, <3>2
  <2>3. ASSUME NEW i \in 1..Len(cram')
        PROVE  /\ cram'[i].n = 4
               /\ 4 * (i - 1) <= cram'[i].off
               /\ cram'[i].off + 4 * (Len(cram') + 1 - i) <= Sent(p)'
    <3>1. CASE i = Len(cram) + 1
      BY <1>1, <1>2, <1>4, <1>6, <3>1
    <3>2. CASE i \in 1..Len(cram)
      BY <1>1, <1>2, <1>3, <1>6, <3>2
    <3>. QED  BY <1>1, <1>6, <3>1, <3>2
  <2>4. ASSUME NEW i \in 1..Len(cram'), NEW j \in 1..Len(cram'), i < j
        PROVE  cram'[i].off < cram'[j].off
    <3>1. i \in 1..Len(cram) /\ cram'[i] = cram[i]
      BY <1>1, <1>6, <2>4
    <3>2. CASE j = Len(cram) + 1
      <4>1. cram'[j].off = Sent(p) /\ cram[i].off < Sent(p)
        BY <1>1, <1>2, <1>3, <1>6, <3>1, <3>2
      <4>. QED  BY <3>1, <4>1
    <3>3. CASE j \in 1..Len(cram)
      BY <1>4, <1>6, <2>4, <3>1, <3>3
    <3>. QED  BY <1>1, <1>6, <3>2, <3>3
  <2>. QED  BY <2>1, <2>2, <2>3, <2>4 DEF Ordered
<1>. QED  BY <1>5, <1>6, WriteFacts

LEMMA NextOrdered ==
  ASSUME SoleTool, WordFiles, WholeChunks
  PROVE  OrderedInv /\ [BesideNext]_besideVars => OrderedInv'
<1>. SUFFICES ASSUME OrderedInv, [BesideNext]_besideVars PROVE OrderedInv'
  OBVIOUS
<1>1. BesideInv /\ BesideInv'
  BY NextBeside DEF OrderedInv
<1>2. ASSUME NEW p \in Tools
      PROVE  TypeInv /\ FabricInv /\ CallInv(p) /\ BufInv(p) /\ Ordered(p)
  BY DEF OrderedInv, BesideInv, ImageInv
<1>3. CASE Outside \/ Fabric
  <2>1. FabricAlone
    BY <1>3 DEF Outside, Fabric, FabricAlone
  <2>. QED  BY <1>1, <1>2, <2>1, AloneOrdered DEF OrderedInv
<1>4. ASSUME NEW p \in Tools, Client(p) \/ Control(p) \/ InCall(p)
      PROVE  OrderedInv'
  <2>1. \A q \in Tools : q = p
    BY DEF SoleTool
  <2>2. Ordered(p)'
    BY <1>2, <1>4, Kinds, QuietOrdered, WriteOrdered
  <2>. QED  BY <1>1, <2>1, <2>2 DEF OrderedInv
<1>. QED  BY <1>1, <1>3, <1>4, BesideSteps DEF Driver, Next

LEMMA InitOrdered == BesideInit => OrderedInv
<1>1. ASSUME BesideInit, NEW p \in Tools PROVE Ordered(p)
  BY <1>1 DEF BesideInit, Init, Ordered, Loading, Feeding, Closing
<1>. QED  BY <1>1, InitBeside DEF OrderedInv

\* A full fabric holds words of the call in order, and a file that is no longer than the
\* image leaves no room for a lost one.
LEMMA OrderedFull ==
  ASSUME TypeInv, NEW p \in Tools, CallInv(p), BufInv(p), Ordered(p), pc[p] \in Loading,
         Len(cram) = ImageWords
  PROVE  /\ InOrder(p)
         /\ ImageBytes(p) <= 4 * ImageWords => Holds(call[p], ImageBytes(p))
<1>1. /\ IsConfigure(p) /\ cram \in Seq(Word) /\ cram # <<>>
      /\ \A i \in 1..ImageWords : cram[i].call = call[p]
  BY ImageWordsAssumption
  DEF CallInv, Configuring, TypeInv, TypeOK, FabricTypeOK
<1>2. Sent(p) \in Nat /\ ImageBytes(p) \in Nat /\ Sent(p) <= ImageBytes(p)
  BY <1>1, SentFacts
<1>3. InOrder(p)
  BY <1>1 DEF InOrder, Ordered
<1>4. ASSUME ImageBytes(p) <= 4 * ImageWords, NEW i \in 1..ImageWords
      PROVE  cram[i] = ImageWord(call[p], ImageBytes(p), i)
  <2>1. cram[i] \in Word /\ cram[i].call = call[p] /\ cram[i].n = 4
    BY <1>1 DEF Ordered
  <2>2. cram[i].off = 4 * (i - 1)
    <3>1. cram[i].off \in Nat
      BY <2>1 DEF Word
    <3>. QED  BY <1>2, <1>4, <3>1, ImageWordsAssumption DEF Ordered
  <2>3. cram[i] = [call |-> call[p], off |-> 4 * (i - 1), n |-> 4]
    BY <2>1, <2>2 DEF Word
  <2>4. ~(ImageBytes(p) - 4 * (i - 1) < 4)
    BY <1>2, <1>4, ImageWordsAssumption DEF Ordered
  <2>. QED  BY <2>3, <2>4 DEF ImageWord
<1>. QED  BY <1>3, <1>4 DEF Holds

\* A configuration that returns success while FPGA-reset -ffc writes CTRL has seen the
\* fabric run words of its own image only, in order, and all of them if the file is no
\* longer than the image.
THEOREM BesideSuccess ==
  ASSUME SoleTool, WordFiles, WholeChunks
  PROVE  BesideSpec => SuccessSurvivesClear
<1>1. OrderedInv /\ [BesideNext]_besideVars =>
        [\A p \in Tools :
           (At(p, "step13") /\ result'[p] = "SUCCESS") =>
             /\ mode = "user" /\ InOrder(p)
             /\ ImageBytes(p) <= 4 * ImageWords => Holds(call[p], ImageBytes(p))]_besideVars
  <2>. SUFFICES ASSUME OrderedInv, BesideNext, NEW p \in Tools, At(p, "step13"),
                       result'[p] = "SUCCESS"
                PROVE  /\ mode = "user" /\ InOrder(p)
                       /\ ImageBytes(p) <= 4 * ImageWords => Holds(call[p], ImageBytes(p))
    OBVIOUS
  <2>1. /\ pc[p] = "step13" /\ pc[p] \in Loading /\ pc[p] \in DriverLocations
        /\ BesideInv /\ ImageInv /\ TypeInv /\ CallInv(p) /\ BufInv(p) /\ Ordered(p)
    BY DEF At, Loading, Closing, DriverLocations, Locations, OrderedInv, BesideInv, ImageInv
  <2>2. result[p] = None
    BY <2>1 DEF CallInv
  <2>3. Next
    <3>1. ~Outside
      BY <2>2 DEF Outside, toolVars, None
    <3>. QED  BY <2>1, <3>1, BesideSteps DEF Driver
  <2>4. mode = "user"
    BY <2>1, <2>3, Succeeds
  <2>5. Len(cram) = ImageWords
    BY <2>1, <2>4 DEF ImageInv, FabricInv
  <2>. QED  BY <2>1, <2>4, <2>5, OrderedFull
<1>. QED  BY <1>1, InitOrdered, NextOrdered, PTL DEF BesideSpec, SuccessSurvivesClear

=============================================================================
