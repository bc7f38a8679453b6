----------------------------- MODULE FpgaBeside -----------------------------
(***************************************************************************)
(* FPGA-reset -ffc beside the tools that configure the fabric.  Its three  *)
(* children, FPGA-writeBridge, set and clear bits of the CTRL register     *)
(* that alt_fpga_internal_configure has read once and writes from its      *)
(* copy.  Each side overwrites what the other wrote; what a successful     *)
(* configuration means has to survive it.                                  *)
(***************************************************************************)
EXTENDS FpgaManager

VARIABLES
  clear,      \* child FPGA-reset runs, "off" if it does not run at all
  loaded,     \* the child has read CTRL ...
  copy,       \* ... and this is what it read
  undisturbed \* no child wrote CTRL since this call of the driver began

clearVars == <<clear, loaded, copy>>
besideVars == <<vars, clearVars, undisturbed>>

BesideInit == Init /\ clear = "off" /\ loaded = FALSE /\ copy = ResetReg /\ undisturbed = {}

After(child) == CASE child = "enable" -> "pull" [] child = "pull" -> "disable" [] OTHER -> "check"

\* What the child makes of the value it has read: EN is bit 0, nCONFIGPULL bit 2.
Target(child, value) ==
  CASE child = "enable" -> [value EXCEPT !.en = TRUE]
    [] child = "pull" -> [value EXCEPT !.nconfigpull = TRUE]
    [] OTHER -> [value EXCEPT !.en = FALSE]

ClearBegin == clear = "off" /\ clear' = "enable" /\ UNCHANGED <<loaded, copy, undisturbed, vars>>

Children == {"enable", "pull", "disable"}

ChildRead ==
  /\ clear \in Children /\ ~loaded
  /\ loaded' = TRUE /\ copy' = ctl
  /\ UNCHANGED <<clear, undisturbed, vars>>

ChildEnds == clear' = After(clear) /\ loaded' = FALSE /\ copy' = ResetReg

ChildWrite ==
  /\ clear \in Children /\ loaded
  /\ WriteCtl(Target(clear, copy))
  /\ ChildEnds
  /\ undisturbed' = {}
  /\ UNCHANGED <<powered, mode, mon, cram, dclk, msel, toolVars>>

\* FPGA-reset does not look at what becomes of a child.
ChildFails == clear \in Children /\ ChildEnds /\ UNCHANGED <<undisturbed, vars>>

\* The state is read and the outcome told, or the tool is killed.
ClearEnds ==
  /\ clear # "off" /\ clear' = "off" /\ loaded' = FALSE /\ copy' = ResetReg
  /\ UNCHANGED <<undisturbed, vars>>

\* A call begins undisturbed.
Driver ==
  /\ Next
  /\ UNCHANGED clearVars
  /\ undisturbed' = undisturbed \cup {p \in Tools : call'[p] # call[p]}

FabricClear == ChildRead \/ ChildWrite \/ ChildFails

BesideNext == Driver \/ ClearBegin \/ FabricClear \/ ClearEnds

BesideSpec == BesideInit /\ [][BesideNext]_besideVars

-----------------------------------------------------------------------------
(* Properties.                                                             *)

\* Whole words of the call of p fill the fabric, in order and beginning with its first.
InOrder(p) ==
  /\ Len(cram) = ImageWords
  /\ cram[1].off = 0
  /\ \A i \in 1..ImageWords : cram[i].call = call[p] /\ cram[i].n = 4
  /\ \A i, j \in 1..ImageWords : i < j => cram[i].off < cram[j].off

\* A call that returns success while FPGA-reset writes CTRL has still seen the fabric run
\* words of its own image only, in order.  A word may have been lost while EN was clear, but
\* none of a file that is no longer than the image (writeConfig 655-919, FPGA-reset 107-118).
SuccessSurvivesClear ==
  [][\A p \in Tools :
       (At(p, "step13") /\ result'[p] = "SUCCESS") =>
         /\ mode = "user" /\ InOrder(p)
         /\ ImageBytes(p) <= 4 * ImageWords => Holds(call[p], ImageBytes(p))]_besideVars

\* And the words of two calls never mix, though the reset between them may be undone by
\* the one or the other (776, 827, FPGA-reset 115).
NoMixBesideClear == NoMixedImage

\* What FPGA-reset takes from a call is only what it writes during that call: one that no
\* child wrote into keeps its data path open and hands the fabric back (663-919).
DisturbedOnly ==
  \A p \in undisturbed :
    /\ pc[p] \in {"step9", "axi", "step10", "step11"} =>
         ctl.en /\ ctl.axicfgen /\ ~ctl.nconfigpull /\ ctl.cdratio = CdRatio(msel)
    /\ (At(p, "idle") /\ IsConfigure(p) /\ result[p] \notin Refused) => ctl.en /\ ~ctl.nconfigpull

=============================================================================
