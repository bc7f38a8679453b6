----------------------------- MODULE FpgaFabric -----------------------------
(***************************************************************************)
(* The FPGA control block of the Cyclone V SoC as the tools see it through *)
(* the FPGA Manager registers.  Its fields are those alt_fpgamgr.h and     *)
(* alt_fpga_manager.h name and describe.  When they change is the business *)
(* of hardware: each step is what the code in FPGA-writeConfig and         *)
(* FPGA-reset relies on, and no more.  The fabric is allowed to be slow,   *)
(* to refuse an image, to flag errors and to lose its supply at any        *)
(* moment.  What it may not do is take a word that the registers do not    *)
(* let in, or raise CONF_DONE before a whole image.                        *)
(***************************************************************************)
EXTENDS Naturals, Sequences

CONSTANTS
  ImageWords,   \* 32-bit words in a configuration image of this device
  MselPins      \* the values the MSEL pins of the board may have

\* What the five bits of STAT.MSEL can say, the reserved codes included.
MselCodes == 0..31

ASSUME ImageWordsAssumption == ImageWords \in Nat \ {0}
ASSUME MselAssumption == MselPins \subseteq MselCodes

VARIABLES
  ctl,      \* the control register, shared by every tool
  powered,  \* CB monitor bit ALT_FPGA_MON_FPGA_POWER_ON
  mode,     \* STAT.MODE
  mon,      \* CB monitor bits CONF_DONE, nSTATUS and CRC_ERROR
  cram,     \* the words the fabric holds, oldest first
  dclk,     \* the DCLK counter: whose count runs, whose count is flagged done
  msel      \* STAT.MSEL, strapped on the board

fabricVars == <<ctl, powered, mode, mon, cram, dclk, msel>>

Modes == {"powerup", "reset", "cfg", "init", "user", "unknown"}

\* DCLK cycles per word of the data bus.
CdRatios == {1, 2, 4, 8}
CtlReg == [en : BOOLEAN, nce : BOOLEAN, nconfigpull : BOOLEAN,
           axicfgen : BOOLEAN, cdratio : CdRatios, cfgwdth : {16, 32}]

Monitor == [confDone : BOOLEAN, nStatus : BOOLEAN, crcError : BOOLEAN]

\* A word on the AXI data port: the call that wrote it, the offset of its
\* first byte in that call's image, and how many image bytes it carries.
Word == [call : Nat, off : Nat, n : 1..4]

\* DCLKCNT and DCLKSTAT.DCNTDONE, labelled with the call whose count it is; 0 is none.
DclkCounter == [run : Nat, done : Nat]

FabricTypeOK ==
  /\ ctl \in CtlReg
  /\ powered \in BOOLEAN
  /\ mode \in Modes
  /\ mon \in Monitor
  /\ cram \in Seq(Word)
  /\ dclk \in DclkCounter
  /\ msel \in MselPins

MonitorLow == [confDone |-> FALSE, nStatus |-> FALSE, crcError |-> FALSE]

\* The image the boot loader left in the fabric, labelled as call 0.
BootImage == [i \in 1..ImageWords |-> [call |-> 0, off |-> 4 * (i - 1), n |-> 4]]

\* Running the boot image, held in reset by an earlier FPGA-reset -ffc, or off.
FabricInit ==
  /\ \E pull \in BOOLEAN :
       ctl = [en |-> FALSE, nce |-> FALSE, nconfigpull |-> pull,
              axicfgen |-> FALSE, cdratio |-> 1, cfgwdth |-> 32]
  /\ \/ /\ powered = TRUE
        /\ mode = "user"
        /\ mon = [confDone |-> TRUE, nStatus |-> TRUE, crcError |-> FALSE]
        /\ cram = BootImage
     \/ /\ \/ powered = TRUE /\ mode = "unknown"
           \/ powered = FALSE /\ mode = "powerup"
        /\ mon = MonitorLow
        /\ cram = <<>>
  /\ dclk = [run |-> 0, done |-> 0]
  /\ msel \in MselPins

-----------------------------------------------------------------------------
\* What a register access does to the fabric.

\* A word written to the data port is taken when the HPS drives the control
\* block, DCLK is enabled, the fabric is in configuration phase and the word
\* opens or continues an image that is not complete yet.
TakesWord(w) ==
  /\ ctl.en /\ ctl.axicfgen /\ mode = "cfg" /\ mon.nStatus
  /\ Len(cram) < ImageWords
  /\ cram = <<>> => w.off = 0 /\ w.n = 4

FeedWord(w) == cram' = IF TakesWord(w) THEN Append(cram, w) ELSE cram

WriteCtl(value) == ctl' = value

StartDclk(id) == dclk' = [dclk EXCEPT !.run = id]

ClearDclkDone == dclk' = [dclk EXCEPT !.done = 0]

-----------------------------------------------------------------------------
\* Steps the fabric takes by itself.

PowerLoss ==
  /\ powered
  /\ powered' = FALSE
  /\ mode' = "powerup"
  /\ mon' = MonitorLow
  /\ cram' = <<>>
  /\ UNCHANGED <<ctl, dclk, msel>>

PowerUp ==
  /\ ~powered
  /\ powered' = TRUE
  /\ mode' = "unknown"
  /\ UNCHANGED <<ctl, mon, cram, dclk, msel>>

\* nCONFIG low, or power on reset: the configuration RAM is cleared.  While
\* CTRL.EN is 0 the board's pins drive nCONFIG, high or low.
EnterReset ==
  /\ powered
  /\ mode # "reset"
  /\ ~ctl.en \/ ctl.nconfigpull \/ mode = "unknown"
  /\ mode' = "reset"
  /\ mon' = MonitorLow
  /\ cram' = <<>>
  /\ UNCHANGED <<ctl, powered, dclk, msel>>

EnterCfg ==
  /\ mode = "reset"
  /\ ~ctl.en \/ ~ctl.nconfigpull
  /\ mode' = "cfg"
  /\ mon' = [mon EXCEPT !.nStatus = TRUE]
  /\ UNCHANGED <<ctl, powered, cram, dclk, msel>>

\* The whole image has been taken and accepted.
RaiseConfDone ==
  /\ mode = "cfg"
  /\ Len(cram) = ImageWords
  /\ mon.nStatus /\ ~mon.crcError /\ ~mon.confDone
  /\ mon' = [mon EXCEPT !.confDone = TRUE]
  /\ UNCHANGED <<ctl, powered, mode, cram, dclk, msel>>

\* The fabric refuses what it was given.
FlagError ==
  /\ mode = "cfg"
  /\ mon.nStatus /\ ~mon.confDone
  /\ \E crc \in BOOLEAN :
       mon' = [confDone |-> FALSE, nStatus |-> FALSE, crcError |-> crc]
  /\ UNCHANGED <<ctl, powered, mode, cram, dclk, msel>>

EnterInit ==
  /\ mode = "cfg"
  /\ mon.confDone
  /\ mode' = "init"
  /\ UNCHANGED <<ctl, powered, mon, cram, dclk, msel>>

EnterUser ==
  /\ mode = "init"
  /\ mode' = "user"
  /\ UNCHANGED <<ctl, powered, mon, cram, dclk, msel>>

\* A running DCLK count ends; it only advances while the HPS drives the block.
DclkDone ==
  /\ ctl.en
  /\ dclk.run # 0
  /\ dclk' = [run |-> 0, done |-> dclk.run]
  /\ UNCHANGED <<ctl, powered, mode, mon, cram, msel>>

FabricNext ==
  \/ PowerLoss \/ PowerUp
  \/ EnterReset \/ EnterCfg
  \/ RaiseConfDone \/ FlagError
  \/ EnterInit \/ EnterUser
  \/ DclkDone

=============================================================================
