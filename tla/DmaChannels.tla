---------------------------- MODULE DmaChannels -----------------------------
(***************************************************************************)
(* The life of the DMA channels in alt_dma.c (the Cyclone V and Arria V    *)
(* build): initialisation and reset, allocation, starting and killing of a *)
(* channel through the debug registers, events and ECC.  One process calls *)
(* the driver, and may be killed and started again at any time: what it    *)
(* keeps in g_dmaState is lost then, and the controller runs on.           *)
(***************************************************************************)
EXTENDS Integers, FiniteSets

CONSTANTS
  LastChannel,  \* channels are 0..LastChannel, 0..7 in the code
  Programs,     \* programs a channel can be started with
  Configs,      \* what the system manager registers can be set to
  Polls         \* polls of a kill, 19999 in the code

Channels == 0..LastChannel

ASSUME LastChannelAssumption == LastChannel \in Nat
ASSUME PollsAssumption == Polls \in Nat \ {0}

VARIABLES
  allocated,   \* channels with their flag set in g_dmaState
  pc,          \* step of the call the process makes
  call,        \* the call: operation, parameters, channel a sweep has come to, polls left
  state,       \* CSR: state of each channel; "told" works on and has a DMAKILL coming
  inst,        \* DBGINST0 and DBGINST1, forgotten once carried out
  held,        \* PERMODRST holds the controller in reset
  sysmgr,      \* DMA_CTL and DMA_PERSECURITY of the system manager
  ecc,         \* ECC of the memory of the controller is on
  orphans      \* channels that ran when the flags were forgotten

client == <<allocated, pc, call>>
settings == <<held, sysmgr, ecc>>
hardware == <<state, inst, settings>>
vars == <<client, hardware, orphans>>

States == {"stopped", "executing", "faulting", "told", "killing"}
NoCall == [op |-> "none"]
Blank == [i0 |-> "none", c |-> 0, i1 |-> "none"]

TypeOK ==
  /\ allocated \subseteq Channels
  /\ pc = "idle" <=> call = NoCall
  /\ pc = "kill_poll" => call.polls \in 0..Polls
  /\ state \in [Channels -> States]
  /\ held \in BOOLEAN /\ ecc \in BOOLEAN
  /\ orphans \subseteq {c \in Channels : state[c] # "stopped"}

\* The HPS has left the controller in reset.
Init ==
  /\ allocated = {} /\ pc = "idle" /\ call = NoCall
  /\ state = [c \in Channels |-> "stopped"] /\ inst = Blank
  /\ held = TRUE /\ \E k \in Configs : sysmgr = [ctl |-> k, per |-> k]
  /\ ecc = FALSE /\ orphans = {}

-----------------------------------------------------------------------------
\* Calls that end within one access, and those that refuse, are a single step or none.
Begin(l, c) == pc = "idle" /\ pc' = l /\ call' = c
Goto(l) == pc' = l /\ UNCHANGED call
Return == pc' = "idle" /\ call' = NoCall
Quiet == UNCHANGED <<hardware, orphans>>

\* alt_dma_init forgets the flags first, whatever comes of the rest.
InitBegin(k, wrong) ==
  /\ Begin("init_ctl", [op |-> "init", cfg |-> k, wrong |-> wrong])
  /\ allocated' = {}
  /\ orphans' = {c \in Channels : state[c] # "stopped"}
  /\ UNCHANGED hardware
InitCtl ==
  /\ pc = "init_ctl"
  /\ IF call.wrong = "early"
     THEN Return /\ UNCHANGED sysmgr
     ELSE Goto("init_per") /\ sysmgr' = [sysmgr EXCEPT !.ctl = call.cfg]
  /\ UNCHANGED <<allocated, state, inst, held, ecc, orphans>>
\* Mutant of InitPer: a wrong peripheral setting is left out and not refused.
InitPerLenient ==
  /\ pc = "init_per" /\ Goto("init_release")
  /\ sysmgr' = IF call.wrong = "late" THEN sysmgr ELSE [sysmgr EXCEPT !.per = call.cfg]
  /\ UNCHANGED <<allocated, state, inst, held, ecc, orphans>>

InitPer ==
  /\ pc = "init_per"
  /\ IF call.wrong = "late"
     THEN Return /\ UNCHANGED sysmgr
     ELSE Goto("init_release") /\ sysmgr' = [sysmgr EXCEPT !.per = call.cfg]
  /\ UNCHANGED <<allocated, state, inst, held, ecc, orphans>>
InitRelease ==
  /\ pc = "init_release" /\ Return /\ held' = FALSE
  /\ UNCHANGED <<allocated, state, inst, sysmgr, ecc, orphans>>

Alloc(c) ==
  /\ pc = "idle" /\ c \notin allocated
  /\ allocated' = allocated \cup {c}
  /\ UNCHANGED <<pc, call>> /\ Quiet
AllocAny ==
  /\ pc = "idle"
  /\ \E c \in Channels \ allocated :
       /\ \A d \in Channels \ allocated : c <= d
       /\ allocated' = allocated \cup {c}
  /\ UNCHANGED <<pc, call>> /\ Quiet

\* alt_dma_channel_free, called by the process or by alt_dma_uninit.
FreeBegin(c) ==
  /\ c \in allocated /\ Begin("free", [op |-> "free", c |-> c])
  /\ UNCHANGED allocated /\ Quiet
FreeReturns ==
  IF call.op = "uninit" THEN pc' = "sweep" /\ call' = [call EXCEPT !.c = @ + 1] ELSE Return
\* Mutant of Free: a channel that is being killed is taken for a stopped one.
FreeKilling ==
  /\ pc = "free" /\ FreeReturns
  /\ allocated' = IF state[call.c] \in {"stopped", "killing"}
                  THEN allocated \ {call.c} ELSE allocated
  /\ Quiet

Free ==
  /\ pc = "free" /\ FreeReturns
  /\ allocated' = IF state[call.c] = "stopped" THEN allocated \ {call.c} ELSE allocated
  /\ Quiet

-----------------------------------------------------------------------------
\* alt_dma_channel_exec: refused, or DMAGO through the debug registers.
ExecBegin(c, p) ==
  /\ c \in allocated /\ state[c] = "stopped"
  /\ Begin("exec_inst0", [op |-> "exec", c |-> c, p |-> p])
  /\ UNCHANGED allocated /\ Quiet
SetInst(i) == inst' = i /\ UNCHANGED <<allocated, state, settings, orphans>>
ExecInst0 ==
  /\ pc = "exec_inst0" /\ Goto("exec_inst1")
  /\ SetInst([inst EXCEPT !.i0 = "GO", !.c = call.c])
\* Mutant of ExecInst1: the address is not written.
ExecInst1Skipped == pc = "exec_inst1" /\ Goto("command") /\ SetInst(inst)

ExecInst1 ==
  /\ pc = "exec_inst1" /\ Goto("command")
  /\ SetInst([inst EXCEPT !.i1 = call.p])

\* alt_dma_channel_kill.
KillBegin(c) ==
  /\ c \in allocated /\ Begin("kill_inst0", [op |-> "kill", c |-> c, polls |-> 0])
  /\ UNCHANGED allocated /\ Quiet
KillInst0 ==
  /\ pc = "kill_inst0" /\ Goto("command")
  /\ SetInst([inst EXCEPT !.i0 = "KILL", !.c = call.c])
KillReturns ==
  IF call.op = "uninit" THEN pc' = "free" /\ call' = [call EXCEPT !.polls = 0] ELSE Return
KillAgain(n) == pc' = pc /\ call' = [call EXCEPT !.polls = n]
\* Mutant of KillPoll: the end of the countdown is missed.
KillPollPast ==
  /\ pc = "kill_poll"
  /\ IF state[call.c] \in {"killing", "stopped"}
     THEN KillReturns ELSE KillAgain(call.polls - 1)
  /\ UNCHANGED allocated /\ Quiet

\* Mutant of KillPoll: there is no countdown.
KillPollForever ==
  /\ pc = "kill_poll"
  /\ IF state[call.c] \in {"killing", "stopped"} THEN KillReturns ELSE KillAgain(call.polls)
  /\ UNCHANGED allocated /\ Quiet

\* Gives up after Polls reads of the state.
KillPoll ==
  /\ pc = "kill_poll"
  /\ IF call.polls = 0 \/ state[call.c] \in {"killing", "stopped"}
     THEN KillReturns ELSE KillAgain(call.polls - 1)
  /\ UNCHANGED allocated /\ Quiet

\* alt_dma_send_event.
EventBegin ==
  /\ Begin("command", [op |-> "event"]) /\ SetInst([inst EXCEPT !.i0 = "SEV"])

\* DBGCMD: the controller does what DBGINST0 and DBGINST1 say, unless it is in reset.
Commanded ==
  [state EXCEPT ![inst.c] =
     IF ~held /\ inst.i0 = "GO" /\ @ = "stopped" THEN "executing"
     ELSE IF ~held /\ inst.i0 = "KILL" /\ @ \in {"executing", "faulting"} THEN "told" ELSE @]
Command ==
  /\ pc = "command"
  /\ state' = Commanded
  /\ inst' = Blank
  /\ IF call.op \in {"kill", "uninit"}
     THEN pc' = "kill_poll" /\ call' = [call EXCEPT !.polls = Polls]
     ELSE Return
  /\ UNCHANGED <<allocated, settings, orphans>>

\* alt_dma_uninit: kills and frees what is allocated, and looks at no result.
UninitBegin ==
  /\ Begin("sweep", [op |-> "uninit", c |-> 0, polls |-> 0])
  /\ UNCHANGED allocated /\ Quiet
SweepNext == pc' = pc /\ call' = [call EXCEPT !.c = @ + 1]
UninitNext ==
  /\ pc = "sweep" /\ call.op = "uninit" /\ call.c \in Channels
  /\ IF call.c \in allocated THEN Goto("kill_inst0") ELSE SweepNext
  /\ UNCHANGED allocated /\ Quiet
UninitReset ==
  /\ pc = "sweep" /\ call.op = "uninit" /\ call.c \notin Channels /\ Return
  /\ held' = TRUE
  /\ state' = [c \in Channels |-> "stopped"] /\ orphans' = {}
  /\ UNCHANGED <<allocated, inst, sysmgr, ecc>>

-----------------------------------------------------------------------------
\* alt_dma_ecc_start: refused in reset, or when an allocated channel is not stopped.
EccBegin ==
  /\ ~held /\ Begin("sweep", [op |-> "ecc", c |-> 0])
  /\ UNCHANGED allocated /\ Quiet
\* Mutant of EccCheck: only the first channel is looked at.
EccCheckFirst ==
  /\ pc = "sweep" /\ call.op = "ecc" /\ call.c \in Channels
  /\ IF call.c \in allocated /\ state[call.c] # "stopped" /\ call.c = 0
     THEN Return ELSE SweepNext
  /\ UNCHANGED allocated /\ Quiet

EccCheck ==
  /\ pc = "sweep" /\ call.op = "ecc" /\ call.c \in Channels
  /\ IF call.c \in allocated /\ state[call.c] # "stopped" THEN Return ELSE SweepNext
  /\ UNCHANGED allocated /\ Quiet
EccEnable ==
  /\ pc = "sweep" /\ call.op = "ecc" /\ call.c \notin Channels /\ Return
  /\ ecc' = TRUE
  /\ UNCHANGED <<allocated, state, inst, held, sysmgr, orphans>>

Client ==
  \/ InitCtl \/ InitPer \/ InitRelease \/ Free
  \/ ExecInst0 \/ ExecInst1 \/ KillInst0 \/ KillPoll \/ Command
  \/ UninitNext \/ UninitReset \/ EccCheck \/ EccEnable
Calls ==
  \/ \E k \in Configs, w \in {"no", "early", "late"} : InitBegin(k, w)
  \/ \E c \in Channels : Alloc(c) \/ FreeBegin(c) \/ KillBegin(c)
  \/ \E c \in Channels, p \in Programs : ExecBegin(c, p)
  \/ AllocAny \/ EventBegin \/ UninitBegin \/ EccBegin

-----------------------------------------------------------------------------
\* The controller.  A channel ends or faults, and a kill takes its time: for good
\* when a transfer on the bus hangs.
Moves(c, s) == state' = [state EXCEPT ![c] = s] /\ UNCHANGED <<client, inst, settings>>
Stops(c) == Moves(c, "stopped") /\ orphans' = orphans \ {c}
ChannelEnds(c) == state[c] \in {"executing", "told", "killing"} /\ Stops(c)
ChannelFaults(c) == state[c] = "executing" /\ Moves(c, "faulting") /\ UNCHANGED orphans
ChannelDies(c) == state[c] = "told" /\ Moves(c, "killing") /\ UNCHANGED orphans
Controller == \E c \in Channels : ChannelEnds(c) \/ ChannelFaults(c) \/ ChannelDies(c)

\* The process dies; the next one starts with no flag set.
Crash ==
  /\ pc' = "idle" /\ call' = NoCall /\ allocated' = {}
  /\ orphans' = {c \in Channels : state[c] # "stopped"}
  /\ UNCHANGED hardware

Next == Client \/ Calls \/ Controller \/ Crash

Spec == Init /\ [][Next]_vars /\ WF_vars(Client)

-----------------------------------------------------------------------------
(* Properties.                                                             *)

\* A call that starts a channel starts the channel it names, which was stopped, with
\* the program it was given, unless the controller is in reset (673-749); and only the
\* channel a kill, or alt_dma_uninit, has come to is told to die (755-830).
CommandsOwnChannel ==
  [][\A c \in Channels :
       /\ state[c] = "stopped" /\ state'[c] # "stopped" =>
            call.op = "exec" /\ call.c = c /\ c \in allocated /\ inst.i1 = call.p
       /\ state[c] # "told" /\ state'[c] = "told" =>
            call.op \in {"kill", "uninit"} /\ call.c = c /\ c \in allocated]_vars

\* A channel that is not allocated is stopped, but for those that ran when the
\* process died or initialised again (547-648, 755-830).
FreeIsQuiet == \A c \in Channels : c \in allocated \/ state[c] = "stopped" \/ c \in orphans

\* ECC is switched on while no channel works, but for those (5761-5842).
EccWhileQuiet ==
  [][ecc' # ecc => \A c \in Channels : state[c] = "stopped" \/ c \in orphans]_vars

\* The controller leaves reset, and takes the configuration, with both parts of the one
\* it was given, however many initialisations failed half way before (305-400).
WholeConfig ==
  [][held /\ ~held' => sysmgr = [ctl |-> call.cfg, per |-> call.cfg]]_vars

\* Every call returns, though a channel may never stop (755-830).
CallsReturn == pc # "idle" ~> pc = "idle"

=============================================================================
