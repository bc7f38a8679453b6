-------------------------- MODULE DmaChannelsProofs -------------------------
(***************************************************************************)
(* Theorems about DmaChannels, for any number of channels, programs,       *)
(* configurations and polls.                                               *)
(***************************************************************************)
EXTENDS DmaChannels, TLAPS

InitCalls == [op : {"init"}, cfg : Configs, wrong : {"no", "early", "late"}]
ExecCalls == [op : {"exec"}, c : Channels, p : Programs]
KillCalls == [op : {"kill", "uninit"}, c : Channels, polls : 0..Polls]
FreeCalls == [op : {"free"}, c : Channels]
EventCalls == [op : {"event"}]
UninitSweeps == [op : {"uninit"}, c : 0..(LastChannel + 1), polls : 0..Polls]
EccSweeps == [op : {"ecc"}, c : 0..(LastChannel + 1)]

\* Which calls can be at a step.
CallOK ==
  /\ pc \in {"idle", "init_ctl", "init_per", "init_release", "free", "exec_inst0",
             "exec_inst1", "kill_inst0", "kill_poll", "command", "sweep"}
  /\ pc = "idle" => call = NoCall
  /\ pc \in {"init_ctl", "init_per", "init_release"} => call \in InitCalls
  /\ pc = "free" => call \in FreeCalls \cup KillCalls
  /\ pc \in {"exec_inst0", "exec_inst1"} => call \in ExecCalls
  /\ pc \in {"kill_inst0", "kill_poll"} => call \in KillCalls
  /\ pc = "command" => call \in ExecCalls \cup KillCalls \cup EventCalls
  /\ pc = "sweep" => call \in UninitSweeps \cup EccSweeps

HardwareOK ==
  /\ allocated \subseteq Channels
  /\ state \in [Channels -> States]
  /\ inst \in [i0 : {"none", "GO", "KILL", "SEV"}, c : Channels, i1 : Programs \cup {"none"}]
  /\ held \in BOOLEAN /\ ecc \in BOOLEAN
  /\ sysmgr \in [ctl : Configs, per : Configs]
  /\ orphans \subseteq {c \in Channels : state[c] # "stopped"}

\* A call that commands a channel has it allocated, and the debug registers hold its command.
Commanding ==
  /\ pc \in {"exec_inst0", "exec_inst1", "kill_inst0", "kill_poll"} => call.c \in allocated
  /\ pc = "exec_inst1" => inst.i0 = "GO" /\ inst.c = call.c
  /\ pc = "command" /\ call.op = "exec" =>
       /\ inst.i0 = "GO" /\ inst.c = call.c /\ inst.i1 = call.p
       /\ call.c \in allocated
  /\ pc = "command" /\ call.op \in {"kill", "uninit"} =>
       /\ inst.i0 = "KILL" /\ inst.c = call.c
       /\ call.c \in allocated
  /\ pc = "command" /\ call.op = "event" => inst.i0 = "SEV"

\* What an initialisation has written, and what the check before ECC has seen.
Configuring ==
  /\ pc = "init_per" => sysmgr.ctl = call.cfg
  /\ pc = "init_release" => sysmgr.ctl = call.cfg /\ sysmgr.per = call.cfg
Checked ==
  pc = "sweep" /\ call.op = "ecc" =>
    \A c \in Channels : c < call.c => state[c] = "stopped" \/ c \in orphans

IInv == CallOK /\ HardwareOK /\ Commanding /\ Configuring /\ Checked /\ FreeIsQuiet

USE LastChannelAssumption, PollsAssumption

LEMMA InitOK == Init => IInv
<1>. SUFFICES ASSUME Init PROVE IInv
  OBVIOUS
<1>1. inst = [i0 |-> "none", c |-> 0, i1 |-> "none"] /\ 0 \in Channels
  BY DEF Init, Blank, Channels
<1>2. HardwareOK
  <2>1. PICK k \in Configs : sysmgr = [ctl |-> k, per |-> k]
    BY DEF Init
  <2>2. state \in [Channels -> States]
    BY DEF Init, States
  <2>3. inst \in [i0 : {"none", "GO", "KILL", "SEV"}, c : Channels, i1 : Programs \cup {"none"}]
    BY <1>1
  <2>4. sysmgr \in [ctl : Configs, per : Configs]
    BY <2>1
  <2>. QED  BY <2>2, <2>3, <2>4 DEF Init, HardwareOK
<1>3. CallOK /\ Commanding /\ Configuring /\ Checked /\ FreeIsQuiet
  BY DEF Init, CallOK, Commanding, Configuring, Checked, FreeIsQuiet
<1>. QED  BY <1>2, <1>3 DEF IInv

\* The initialisation, step by step.
LEMMA InitialisationOK ==
  ASSUME IInv,
         \/ \E k \in Configs, w \in {"no", "early", "late"} : InitBegin(k, w)
         \/ InitCtl \/ InitPer \/ InitRelease
  PROVE  IInv'
<1>1. CASE \E k \in Configs, w \in {"no", "early", "late"} : InitBegin(k, w)
  BY <1>1 DEF InitBegin, Begin, hardware, settings, IInv, CallOK, HardwareOK, Commanding,
              Configuring, Checked, FreeIsQuiet, InitCalls, States
<1>2. CASE InitCtl
  BY <1>2 DEF InitCtl, Return, Goto, NoCall, IInv, CallOK, HardwareOK, Commanding,
              Configuring, Checked, FreeIsQuiet, InitCalls, States
<1>3. CASE InitPer
  BY <1>3 DEF InitPer, Return, Goto, NoCall, IInv, CallOK, HardwareOK, Commanding,
              Configuring, Checked, FreeIsQuiet, InitCalls, States
<1>4. CASE InitRelease
  BY <1>4 DEF InitRelease, Return, NoCall, IInv, CallOK, HardwareOK, Commanding,
              Configuring, Checked, FreeIsQuiet, InitCalls, States
<1>. QED  BY <1>1, <1>2, <1>3, <1>4

\* Allocating and freeing.
LEMMA AllocationOK ==
  ASSUME IInv,
         AllocAny \/ Free \/ \E c \in Channels : Alloc(c) \/ FreeBegin(c)
  PROVE  IInv'
<1>1. CASE AllocAny \/ \E c \in Channels : Alloc(c)
  BY <1>1 DEF AllocAny, Alloc, Quiet, hardware, settings, IInv, CallOK, HardwareOK,
              Commanding, Configuring, Checked, FreeIsQuiet
<1>2. CASE \E c \in Channels : FreeBegin(c)
  BY <1>2 DEF FreeBegin, Begin, Quiet, hardware, settings, IInv, CallOK, HardwareOK,
              Commanding, Configuring, Checked, FreeIsQuiet, FreeCalls
<1>3. CASE Free
  <2>1. call \in FreeCalls \/ (call \in KillCalls /\ call.op \in {"kill", "uninit"})
    BY <1>3 DEF Free, IInv, CallOK, KillCalls
  <2>2. CallOK'
    BY <1>3, <2>1 DEF Free, FreeReturns, Return, NoCall, CallOK, FreeCalls, KillCalls,
                      UninitSweeps, Channels
  <2>3. HardwareOK' /\ FreeIsQuiet'
    BY <1>3 DEF Free, Quiet, hardware, settings, IInv, HardwareOK, FreeIsQuiet
  <2>4. Commanding' /\ Configuring' /\ Checked'
    BY <1>3, <2>1 DEF Free, FreeReturns, Return, NoCall, Commanding, Configuring, Checked,
                      FreeCalls, KillCalls
  <2>. QED  BY <2>2, <2>3, <2>4 DEF IInv
<1>. QED  BY <1>1, <1>2, <1>3

\* Starting a channel, and sending an event.
LEMMA StartOK ==
  ASSUME IInv,
         \/ \E c \in Channels, p \in Programs : ExecBegin(c, p)
         \/ ExecInst0 \/ ExecInst1 \/ EventBegin
  PROVE  IInv'
<1>1. CASE \E c \in Channels, p \in Programs : ExecBegin(c, p)
  BY <1>1 DEF ExecBegin, Begin, Quiet, hardware, settings, IInv, CallOK, HardwareOK,
              Commanding, Configuring, Checked, FreeIsQuiet, ExecCalls
<1>2. CASE ExecInst0
  BY <1>2 DEF ExecInst0, Goto, SetInst, settings, IInv, CallOK, HardwareOK, Commanding,
              Configuring, Checked, FreeIsQuiet, ExecCalls
<1>3. CASE ExecInst1
  BY <1>3 DEF ExecInst1, Goto, SetInst, settings, IInv, CallOK, HardwareOK, Commanding,
              Configuring, Checked, FreeIsQuiet, ExecCalls
<1>4. CASE EventBegin
  BY <1>4 DEF EventBegin, Begin, SetInst, settings, IInv, CallOK, HardwareOK, Commanding,
              Configuring, Checked, FreeIsQuiet, EventCalls
<1>. QED  BY <1>1, <1>2, <1>3, <1>4

\* Killing a channel, called by the process or by alt_dma_uninit.
LEMMA KillOK ==
  ASSUME IInv,
         KillInst0 \/ KillPoll \/ \E c \in Channels : KillBegin(c)
  PROVE  IInv'
<1>1. CASE \E c \in Channels : KillBegin(c)
  BY <1>1 DEF KillBegin, Begin, Quiet, hardware, settings, IInv, CallOK, HardwareOK,
              Commanding, Configuring, Checked, FreeIsQuiet, KillCalls
<1>2. CASE KillInst0
  BY <1>2 DEF KillInst0, Goto, SetInst, settings, IInv, CallOK, HardwareOK, Commanding,
              Configuring, Checked, FreeIsQuiet, KillCalls
<1>3. CASE KillPoll
  <2>1. call \in KillCalls
    BY <1>3 DEF KillPoll, IInv, CallOK
  <2>2. CallOK'
    <3>1. CASE KillReturns
      BY <1>3, <2>1, <3>1 DEF KillReturns, Return, NoCall, CallOK, KillCalls, FreeCalls
    <3>2. CASE KillAgain(call.polls - 1) /\ call.polls # 0
      BY <1>3, <2>1, <3>2 DEF KillPoll, KillAgain, CallOK, KillCalls
    <3>. QED  BY <1>3, <3>1, <3>2 DEF KillPoll
  <2>3. HardwareOK' /\ FreeIsQuiet'
    BY <1>3 DEF KillPoll, Quiet, hardware, settings, IInv, HardwareOK, FreeIsQuiet
  <2>4. Commanding' /\ Configuring' /\ Checked'
    BY <1>3, <2>1 DEF KillPoll, KillReturns, KillAgain, Return, NoCall, Quiet, hardware,
                      settings, IInv, Commanding, Configuring, Checked, KillCalls
  <2>. QED  BY <2>2, <2>3, <2>4 DEF IInv
<1>. QED  BY <1>1, <1>2, <1>3

\* DBGCMD touches only the channel the registers name, and starts none that is not allocated.
LEMMA CommandOK ==
  ASSUME IInv, Command
  PROVE  IInv'
<1>1. call \in ExecCalls \cup KillCalls \cup EventCalls
  BY DEF Command, IInv, CallOK
<1>2. CallOK'
  BY <1>1 DEF Command, Return, NoCall, CallOK, ExecCalls, KillCalls, EventCalls
<1>3. /\ inst' = Blank /\ 0 \in Channels
      /\ inst.c \in Channels
  BY DEF Command, IInv, HardwareOK, Channels
<1>4. /\ state' \in [Channels -> States]
      /\ \A c \in Channels \ {inst.c} : state'[c] = state[c]
      /\ state'[inst.c] = "stopped" => state[inst.c] = "stopped"
      /\ state'[inst.c] # "stopped" => state[inst.c] # "stopped" \/ inst.i0 = "GO"
  BY <1>3 DEF Command, Commanded, IInv, HardwareOK, States
<1>5. HardwareOK'
  <2>1. inst' \in [i0 : {"none", "GO", "KILL", "SEV"}, c : Channels, i1 : Programs \cup {"none"}]
    BY <1>3 DEF Blank
  <2>2. orphans' \subseteq {c \in Channels : state'[c] # "stopped"}
    BY <1>4 DEF Command, settings, IInv, HardwareOK
  <2>. QED  BY <1>4, <2>1, <2>2 DEF Command, settings, IInv, HardwareOK
<1>6. inst.i0 = "GO" => inst.c \in allocated
  BY <1>1 DEF Command, IInv, Commanding, ExecCalls, KillCalls, EventCalls
<1>7. FreeIsQuiet'
  BY <1>4, <1>6 DEF Command, settings, IInv, FreeIsQuiet
<1>8. Commanding' /\ Configuring' /\ Checked'
  <2>1. CASE Return
    BY <2>1 DEF Return, Commanding, Configuring, Checked
  <2>2. CASE call.op \in {"kill", "uninit"}
    <3>1. call \in KillCalls /\ call.c \in allocated
      BY <1>1, <2>2 DEF Command, IInv, Commanding, ExecCalls, EventCalls
    <3>2. pc' = "kill_poll" /\ call'.c = call.c /\ allocated' = allocated
      BY <2>2, <3>1 DEF Command, KillCalls
    <3>. QED  BY <3>1, <3>2 DEF Commanding, Configuring, Checked
  <2>. QED  BY <2>1, <2>2 DEF Command
<1>. QED  BY <1>2, <1>5, <1>7, <1>8 DEF IInv

\* alt_dma_uninit and alt_dma_ecc_start, channel by channel.
LEMMA SweepOK ==
  ASSUME IInv,
         UninitBegin \/ UninitNext \/ UninitReset \/ EccBegin \/ EccCheck \/ EccEnable
  PROVE  IInv'
<1>1. CASE UninitBegin
  BY <1>1 DEF UninitBegin, Begin, Quiet, hardware, settings, IInv, CallOK, HardwareOK,
              Commanding, Configuring, Checked, FreeIsQuiet, UninitSweeps
<1>2. CASE EccBegin
  BY <1>2 DEF EccBegin, Begin, Quiet, hardware, settings, IInv, CallOK, HardwareOK,
              Commanding, Configuring, Checked, FreeIsQuiet, EccSweeps, Channels
<1>3. CASE UninitNext
  <2>1. call \in UninitSweeps /\ call.c \in Channels
    BY <1>3 DEF UninitNext, IInv, CallOK, EccSweeps
  <2>2. CallOK'
    <3>1. CASE call.c \in allocated /\ Goto("kill_inst0")
      BY <2>1, <3>1 DEF Goto, CallOK, UninitSweeps, KillCalls
    <3>2. CASE SweepNext
      BY <1>3, <2>1, <3>2 DEF UninitNext, SweepNext, CallOK, UninitSweeps, Channels
    <3>. QED  BY <1>3, <3>1, <3>2 DEF UninitNext
  <2>3. HardwareOK' /\ FreeIsQuiet'
    BY <1>3 DEF UninitNext, Quiet, hardware, settings, IInv, HardwareOK, FreeIsQuiet
  <2>4. Commanding' /\ Configuring' /\ Checked'
    BY <1>3, <2>1 DEF UninitNext, Goto, SweepNext, Quiet, hardware, settings, IInv,
                      Commanding, Configuring, Checked, UninitSweeps
  <2>. QED  BY <2>2, <2>3, <2>4 DEF IInv
<1>4. CASE UninitReset
  BY <1>4 DEF UninitReset, Return, NoCall, IInv, CallOK, HardwareOK, Commanding,
              Configuring, Checked, FreeIsQuiet, States
<1>5. CASE EccCheck
  <2>1. call \in EccSweeps /\ call.c \in Channels
    BY <1>5 DEF EccCheck, IInv, CallOK, UninitSweeps
  <2>2. CallOK'
    BY <1>5, <2>1 DEF EccCheck, Return, NoCall, SweepNext, CallOK, EccSweeps, Channels
  <2>3. HardwareOK' /\ FreeIsQuiet'
    BY <1>5 DEF EccCheck, Quiet, hardware, settings, IInv, HardwareOK, FreeIsQuiet
  <2>4. Commanding' /\ Configuring'
    BY <1>5, <2>1 DEF EccCheck, Return, NoCall, SweepNext, Quiet, hardware, settings, IInv,
                      Commanding, Configuring, EccSweeps
  <2>5. Checked'
    <3>1. CASE Return
      BY <3>1 DEF Return, NoCall, Checked
    <3>2. CASE SweepNext /\ ~(call.c \in allocated /\ state[call.c] # "stopped")
      <4>1. state[call.c] = "stopped" \/ call.c \in orphans
        BY <2>1, <3>2 DEF IInv, FreeIsQuiet
      <4>2. call'.c = call.c + 1 /\ call'.op = call.op /\ pc' = "sweep"
        BY <1>5, <2>1, <3>2 DEF SweepNext, EccCheck, EccSweeps
      <4>3. UNCHANGED <<state, orphans>>
        BY <1>5 DEF EccCheck, Quiet, hardware
      <4>4. \A c \in Channels : c < call'.c => c < call.c \/ c = call.c
        BY <2>1, <4>2 DEF Channels
      <4>. QED  BY <1>5, <4>1, <4>2, <4>3, <4>4 DEF EccCheck, IInv, Checked
    <3>. QED  BY <1>5, <3>1, <3>2 DEF EccCheck
  <2>. QED  BY <2>2, <2>3, <2>4, <2>5 DEF IInv
<1>6. CASE EccEnable
  BY <1>6 DEF EccEnable, Return, NoCall, IInv, CallOK, HardwareOK, Commanding,
              Configuring, Checked, FreeIsQuiet
<1>. QED  BY <1>1, <1>2, <1>3, <1>4, <1>5, <1>6

\* The controller by itself, and the end of the process.
LEMMA ControllerOK ==
  ASSUME IInv, Controller \/ Crash
  PROVE  IInv'
<1>1. CASE Controller
  <2>1. PICK c \in Channels : ChannelEnds(c) \/ ChannelFaults(c) \/ ChannelDies(c)
    BY <1>1 DEF Controller
  <2>2. UNCHANGED <<allocated, pc, call, inst, held, sysmgr, ecc>>
    BY <2>1 DEF ChannelEnds, ChannelFaults, ChannelDies, Stops, Moves, client, settings
  <2>3. /\ state' \in [Channels -> States]
        /\ \A d \in Channels \ {c} : state'[d] = state[d]
        /\ \/ state'[c] = "stopped" /\ orphans' = orphans \ {c}
           \/ state'[c] # "stopped" /\ state[c] # "stopped" /\ orphans' = orphans
    <3>1. state \in [Channels -> States]
      BY DEF IInv, HardwareOK
    <3>2. CASE ChannelEnds(c)
      <4>1. state' = [state EXCEPT ![c] = "stopped"] /\ orphans' = orphans \ {c}
        BY <3>2 DEF ChannelEnds, Stops, Moves
      <4>. QED  BY <3>1, <4>1 DEF States
    <3>3. CASE ChannelFaults(c)
      BY <3>1, <3>3 DEF ChannelFaults, Moves, States
    <3>4. CASE ChannelDies(c)
      BY <3>1, <3>4 DEF ChannelDies, Moves, States
    <3>. QED  BY <2>1, <3>2, <3>3, <3>4
  <2>4. HardwareOK' /\ FreeIsQuiet' /\ Checked'
    BY <2>2, <2>3 DEF IInv, HardwareOK, FreeIsQuiet, Checked
  <2>5. CallOK' /\ Commanding' /\ Configuring'
    BY <2>2 DEF IInv, CallOK, Commanding, Configuring
  <2>. QED  BY <2>4, <2>5 DEF IInv
<1>2. CASE Crash
  BY <1>2 DEF Crash, hardware, settings, NoCall, IInv, CallOK, HardwareOK, Commanding,
              Configuring, Checked, FreeIsQuiet
<1>. QED  BY <1>1, <1>2

LEMMA NextOK == IInv /\ [Next]_vars => IInv'
<1>. SUFFICES ASSUME IInv, [Next]_vars PROVE IInv'
  OBVIOUS
<1>1. CASE Client
  BY <1>1, InitialisationOK, AllocationOK, StartOK, KillOK, CommandOK, SweepOK DEF Client
<1>2. CASE Calls
  BY <1>2, InitialisationOK, AllocationOK, StartOK, KillOK, SweepOK DEF Calls
<1>3. CASE Controller \/ Crash
  BY <1>3, ControllerOK
<1>4. CASE UNCHANGED vars
  BY <1>4 DEF vars, client, hardware, settings, IInv, CallOK, HardwareOK, Commanding,
              Configuring, Checked, FreeIsQuiet
<1>. QED  BY <1>1, <1>2, <1>3, <1>4 DEF Next

LEMMA Inductive == Spec => []IInv
BY InitOK, NextOK, PTL DEF Spec

-----------------------------------------------------------------------------
\* Every variable keeps its type, and a call that is under way fits its step.
THEOREM ChannelTypes == Spec => []TypeOK
<1>1. IInv => TypeOK
  <2>. SUFFICES ASSUME IInv PROVE TypeOK
    OBVIOUS
  <2>1. pc = "idle" <=> call = NoCall
    BY DEF IInv, CallOK, NoCall, InitCalls, FreeCalls, ExecCalls, KillCalls, EventCalls,
           UninitSweeps, EccSweeps
  <2>2. pc = "kill_poll" => call.polls \in 0..Polls
    BY DEF IInv, CallOK, KillCalls
  <2>. QED  BY <2>1, <2>2 DEF IInv, HardwareOK, TypeOK
<1>. QED  BY <1>1, Inductive, PTL

\* A channel that works is allocated, but for those of an earlier process or initialisation
\* (alt_dma_channel_free refuses, and alt_dma_channel_exec asks for an allocated channel).
THEOREM FreeChannelsQuiet == Spec => []FreeIsQuiet
<1>1. IInv => FreeIsQuiet
  BY DEF IInv
<1>. QED  BY <1>1, Inductive, PTL

\* Each command of the debug registers reaches the channel its call is about, and DMAGO
\* starts the program of that call.
THEOREM CommandsReachOwnChannel == Spec => CommandsOwnChannel
<1>. DEFINE A == \A c \in Channels :
       /\ state[c] = "stopped" /\ state'[c] # "stopped" =>
            call.op = "exec" /\ call.c = c /\ c \in allocated /\ inst.i1 = call.p
       /\ state[c] # "told" /\ state'[c] = "told" =>
            call.op \in {"kill", "uninit"} /\ call.c = c /\ c \in allocated
<1>1. IInv /\ [Next]_vars => [A]_vars
  <2>. SUFFICES ASSUME IInv, Next PROVE A
    BY DEF A
  <2>1. CASE Command
    <3>1. call \in ExecCalls \cup KillCalls \cup EventCalls
      BY <2>1 DEF Command, IInv, CallOK
    <3>2. SUFFICES ASSUME NEW c \in Channels, state'[c] # state[c]
                   PROVE  /\ c = inst.c
                          /\ \/ inst.i0 = "GO" /\ state'[c] = "executing"
                             \/ inst.i0 = "KILL" /\ state[c] # "stopped"
      BY <2>1, <3>1 DEF Command, IInv, Commanding, ExecCalls, KillCalls, EventCalls
    <3>3. state \in [Channels -> States] /\ inst.c \in Channels
      BY DEF IInv, HardwareOK
    <3>4. c = inst.c
      BY <2>1, <3>2, <3>3 DEF Command, Commanded
    <3>5. state'[c] = IF ~held /\ inst.i0 = "GO" /\ state[c] = "stopped" THEN "executing"
                      ELSE IF ~held /\ inst.i0 = "KILL" /\ state[c] \in {"executing", "faulting"}
                      THEN "told" ELSE state[c]
      BY <2>1, <3>3, <3>4 DEF Command, Commanded
    <3>6. CASE ~held /\ inst.i0 = "GO" /\ state[c] = "stopped"
      BY <3>4, <3>5, <3>6
    <3>7. CASE ~(~held /\ inst.i0 = "GO" /\ state[c] = "stopped")
      BY <3>2, <3>4, <3>5, <3>7
    <3>. QED  BY <3>6, <3>7
  <2>2. CASE Controller
    BY <2>2 DEF Controller, ChannelEnds, ChannelFaults, ChannelDies, Stops, Moves, IInv,
                HardwareOK
  <2>3. CASE UninitReset
    BY <2>3 DEF UninitReset
  <2>4. CASE UNCHANGED state
    BY <2>4
  <2>. QED
    BY <2>1, <2>2, <2>3, <2>4
    DEF Next, Client, Calls, Crash, hardware, settings, Quiet, SetInst, InitBegin, InitCtl,
        InitPer, InitRelease, Alloc, AllocAny, FreeBegin, Free, ExecBegin, ExecInst0,
        ExecInst1, KillBegin, KillInst0, KillPoll, EventBegin, UninitBegin, UninitNext,
        EccBegin, EccCheck, EccEnable
<1>. QED  BY <1>1, Inductive, PTL DEF Spec, CommandsOwnChannel

\* The controller leaves reset only with both parts of the configuration of one call.
THEOREM ConfigurationWhole == Spec => WholeConfig
<1>. DEFINE A == held /\ ~held' => sysmgr = [ctl |-> call.cfg, per |-> call.cfg]
<1>1. IInv /\ [Next]_vars => [A]_vars
  <2>. SUFFICES ASSUME IInv, Next, held, ~held' PROVE sysmgr = [ctl |-> call.cfg, per |-> call.cfg]
    OBVIOUS
  <2>1. InitRelease
    BY DEF Next, Client, Calls, Crash, hardware, settings, Quiet, SetInst, InitBegin, InitCtl,
        InitPer, Alloc, AllocAny, FreeBegin, Free, ExecBegin, ExecInst0, ExecInst1, KillBegin,
        KillInst0, KillPoll, EventBegin, UninitBegin, UninitNext, UninitReset, EccBegin,
        EccCheck, EccEnable, Command, Controller, ChannelEnds, ChannelFaults, ChannelDies,
        Stops, Moves
  <2>2. sysmgr \in [ctl : Configs, per : Configs] /\ sysmgr.ctl = call.cfg /\ sysmgr.per = call.cfg
    BY <2>1 DEF InitRelease, IInv, Configuring, HardwareOK
  <2>. QED  BY <2>2
<1>. QED  BY <1>1, Inductive, PTL DEF Spec, WholeConfig

\* No channel of this process works when ECC is switched on, though the channels were
\* looked at one after the other.
THEOREM EccOnlyWhileQuiet == Spec => EccWhileQuiet
<1>. DEFINE A == ecc' # ecc => \A c \in Channels : state[c] = "stopped" \/ c \in orphans
<1>1. IInv /\ [Next]_vars => [A]_vars
  <2>. SUFFICES ASSUME IInv, Next, ecc' # ecc, NEW c \in Channels
                PROVE  state[c] = "stopped" \/ c \in orphans
    OBVIOUS
  <2>1. EccEnable
    BY DEF Next, Client, Calls, Crash, hardware, settings, Quiet, SetInst, InitBegin, InitCtl,
        InitPer, InitRelease, Alloc, AllocAny, FreeBegin, Free, ExecBegin, ExecInst0, ExecInst1,
        KillBegin, KillInst0, KillPoll, EventBegin, UninitBegin, UninitNext, UninitReset,
        EccBegin, EccCheck, Command, Controller, ChannelEnds, ChannelFaults, ChannelDies,
        Stops, Moves
  <2>2. call \in EccSweeps /\ call.c \notin Channels
    BY <2>1 DEF EccEnable, IInv, CallOK, UninitSweeps
  <2>3. c < call.c
    BY <2>2 DEF EccSweeps, Channels
  <2>. QED  BY <2>1, <2>3 DEF EccEnable, IInv, Checked
<1>. QED  BY <1>1, Inductive, PTL DEF Spec, EccWhileQuiet

=============================================================================
