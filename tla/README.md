# A TLA+ model of rstools

rstools is a set of Linux command line tools for the Intel Cyclone V SoC: an ARM
processor (HPS) and an FPGA on one chip. The tools map physical registers through
`/dev/mem` and read and write them. Nothing in them locks a register, and the
hardware on the other side moves by itself. That is what this model is about.

Contents: [the system](#the-system) · [modules](#modules) · [runs](#runs) ·
[bounds](#bounds) · [fairness](#fairness) · [proofs](#proofs) ·
[what disagrees with the code's own words](#findings) · [not modelled](#not-modelled) ·
[plan](#plan)

## The system

| Part | State it keeps | Operations | What makes it correct |
|---|---|---|---|
| FPGA manager driver, `FPGA-writeConfig/alt_fpga_manager.c` | none between calls; in a call the cached `ctrl_reg`, the timeout counters, `data_status`, `data_limit` | take and give back control, assert and deassert reset, configure from a buffer or a stream | a call that returns `ALT_E_SUCCESS` has loaded its own whole image; every call returns and hands the fabric back; no image mixes with another |
| FPGA control block (hardware) | `CTRL`, `STAT.MODE`, the CB monitor, the DCLK counter, the configuration RAM | moves through its phases, refuses images, loses power | it is the environment |
| FPGA-writeConfig, `main.cpp` | the file in memory | enable control, one call of the driver, four resets, disable control | resets follow a successful load |
| `FPGA-reset` | none | five resets, each a bit set, 50 ms, the bit cleared; the fabric clear | a reset it reports was a pulse; nothing stays in reset; no other bit changes |
| `FPGA-writeBridge` | none | write a word, or set or clear a bit, at a bridge, MPU or GPO address | the word that changes is in the window asked for, and the report says what was done |
| `FPGA-readBridge`, `FPGA-dumpBridge` | none | read a word, once or repeatedly; read a range | reads only in the window asked for; a row shows the word of its address |
| `FPGA-status` | none | map five blocks, read thirteen fields, show them as lines and codes | a line says [Y] just if its bit is set |
| DMA driver, `alt_dma.c` | which channels are allocated | initialise, allocate, start, kill and free channels; assemble a program for seven kinds of transfer | a program moves all of its request to the right place, fits FIFOs and loop counters, and ends; a channel that is free is quiet and a start reaches the channel it names |

How they interact:

- The driver and the fabric share registers. Every access is a step of its own and the
  fabric may move between any two of them.
- Tools are processes. Two of them may run at the same time, and each read-modify-write
  of a register may be cut in two by the other.
- FPGA-reset and FPGA-writeConfig run `FPGA-writeBridge` as a child for every bit and
  ignore what it returns.
- Any tool may be killed between two accesses. The registers keep what was written last,
  so the next tool begins there. That is the only persistent state.
- The FPGA manager driver has a caller's view (`alt_fpga_manager.h`): a call, a status code.
- The DMA driver talks to a controller that executes programs on its own: the state of a
  channel, once read, may be another when it is used. No tool is built with this driver.

The hard behaviours are the cached copy of `CTRL`, lost updates of shared registers, a
late answer that meets a timeout, a kill or a power loss in the middle of a load, error
statuses that have to survive the steps after them, lengths that do not fit a word, sums
that wrap in 32 bits, and transfers made of pieces that must add up.
`PROJECT.json` lists each of them at its line under `hazards`.

## Modules

| Module | Models | Notes |
|---|---|---|
| `FpgaFabric` | the control block as the code relies on it | external, every step may happen at any time it is enabled |
| `FpgaManager` | `alt_fpga_manager.c` and its caller | one action per register access |
| `ConfigureContract` | what the header promises the caller of a configuration call | abstract specification, three variables |
| `FpgaContract` | the mapping of `FpgaManager` to the contract | `KeepsContract` |
| `MCFpgaManager` | instances | |
| `FpgaManagerProofs`, `FpgaImageProofs` | theorems about `FpgaManager`: any number of tools, and the registers with one; the image and the contract with one tool | |
| `ResetTools` | `FPGA-reset`, a whole run of `FPGA-writeConfig`, and the bit form of `FPGA-writeBridge` | one action per register access |
| `MCResetTools`, `ResetToolsProofs` | instances and theorems | |
| `FpgaBeside`, `MCFpgaBeside`, `FpgaBesideProofs` | FPGA-reset's fabric clear beside `FpgaManager` on one `CTRL`, and theorems | composes the two |
| `BridgeAccess` | one run of FPGA-writeBridge, -readBridge, -dumpBridge or -status | from the command line to the report |
| `FpgaStatus` | what FPGA-status makes of registers | operators used by `BridgeAccess` |
| `MCBridgeAccess`, `BridgeAccessProofs` | instance and theorems | |
| `DmaProgram` | the programs `alt_dma.c` assembles, and when it refuses | operators: a sequence of instructions for a request |
| `DmaTransfer` | a channel that executes such a program | controller, memory and peripherals are external |
| `MCDmaTransfer` | requests | |
| `DmaTransferProofs`, `DmaOutlineProofs` | theorems about programs: their arithmetic and their loops; what they do to the data | |
| `DmaChannels`, `DmaChannelsProofs` | the calls that manage channels, and theorems | one action per register access |

### FpgaFabric and FpgaManager

`pc[p]` names the next register access of tool `p`, after the step numbers in
`alt_fpga_internal_configure`: `step1` writes width and ratio, `step3` pulls nCONFIG,
`step4` polls for the reset phase, and so on to `step13`. `axi` is the loop of
`alt_fpga_internal_writeaxi`, `dclk_*` are the accesses of `dclk_set_and_wait_clear`.
`reg[p]` is `ctrl_reg` (or the value of a read-modify-write that has been read and not
yet written), `timeout[p]` the counter of the polling loop, `status[p]` and
`dataStatus[p]` the two statuses of the function, `limit[p]` its `data_limit`, `left[p]`
the `cfg_buf_len` that `writeaxi` counts down.

The data of an image is abstracted to where a word comes from: the call that wrote it, its
offset in that call's image and how many bytes of it are image (`Word`). That is enough to
tell a whole image from a mixed, shifted, shortened or repeated one. `cram` is the sequence
of words the fabric has taken.

Of the fabric the model assumes this: a word is taken only through an open port in the
configuration phase; an image is opened by its first word; nCONFIG, power up and power loss
clear it; while `CTRL.EN` is 0 the board's own pins drive nCONFIG and may do either; `CONF_DONE` comes only for as many words as the device has. Everything else it
may do or not do: it may never answer, may flag an error or a CRC error at any word, may lose
its supply anywhere. It does not look inside words, so it may accept a wrong image. The
DCLK counter labels each count with the call that started it; the label is for the
properties only.

The two reads of `alt_fpga_state_get` (power bit, mode) are one step: the comparisons made
with its result come out the same wherever the fabric moves between them. The two reads of
a poll in `wait_for_config_done` are one register. Step 7 acknowledges an interrupt nobody
looks at and is left out, as is `_ALT_FPGA_USE_DCLK`, which the build sets to 0.

`Call` lets a client make any call at any time between taking and giving back control, more
than `main` does (it makes one); the header offers the calls to any client.

### ConfigureContract

Seen by a caller: `phase` of the call, its `outcome`, and what the fabric holds (nothing,
words of this call, the whole image of this call, something older). `Succeed` needs the whole
image; `Load` never continues an older one. `FpgaContract` maps the one tool of an instance
to it, the run `fpga_sole` checks the refinement and `FpgaImageProofs` proves it.

### ResetTools

`stage[p]` is where tool `p` is in the reset it performs (`set`, `wait`, `clear`, `report`)
or in the fabric clear (`enable`, `pull`, `disable`, `check`). In a stage that writes, the
child makes its two accesses: `ChildRead` copies the register (`copy[p]`), `ChildWrite`
writes it back with one bit changed. `ChildFails` is a child that could not open or map
`/dev/mem`; the parent goes on, as in the code. Registers are the sets of their bits that
are 1. The state of the fabric is the number `readState` returns.

A run of FPGA-writeConfig (`kind` is `config`) uses `CTRL` too, and does so from its first access to its
last: `take` sets `EN` (`alt_fpga_control_enable`), `guard` and `ctl_read` begin the configuration,
`step1` to `step13` write `CTRL` from the driver's copy, then come the four resets if the
configuration succeeded (`res`), and `give` clears `EN` (`alt_fpga_control_disable`, `main.cpp:215`) whatever
became of it. Of `CTRL` only `EN` and `NCONFIGPULL` are kept here. Where the driver's call returns early is
a choice (`DriverReturns`); why it does is in `FpgaManager`.

`InUse(p)` are the registers that tool `p` may still write in its run; those of an FPGA-writeConfig are all
three. With `TakeTurns` users start no tool that would use a register another one has in use (`Apart`). The
code does nothing to make them do so; the constant says under which use its promises hold, and without it
they do not.

### FpgaBeside

`FpgaManager` with the three children of `FPGA-reset -ffc` on the same `CTRL`, again and
again: enable, pull nCONFIG, disable, each a read and a write back (`copy`). `undisturbed`
holds the tools whose current call no child has written into; it is there for `DisturbedOnly`.

### BridgeAccess and FpgaStatus

`run` is a command line; `stage` goes from `check` over `open`, `map`, `access` and `unmap`
to `done`, and each system call may fail. A text is abstracted to whether
`checkIfInputIsVailed` accepts it and the number that is read from it all the same; a value to
a word or a bit position. All addresses are aligned where they are used, so the module
counts words: `AddressSpace` is 2^30 and sums are taken modulo it. `Offsets` and `Ends` are the
numbers a user may give. `accesses` are the latest accesses: the address each stands for
(`says`) and the one it reaches (`at`); they differ in a dump. A register of FPGA-status is the
set of its bits that are 1.

### DmaProgram and DmaTransfer

`Program(r)` is the instruction sequence for request `r`, put together by one operator per
function of the code or per part of one. `Verdict(r)` is what the assembly returns. The code
assembles into a buffer and gives up with an error if the buffer is full; that error leaves no
program and is not modelled. `alt_mmu_va_to_pa_coalesce_*` is the flat mapping that the file
defines when no other is given, so a region is one segment.

`DmaTransfer` executes the program: two-level loops with their counters, source and destination
address, the shape of a load or store (`ccr`), the FIFO of the channel as a sequence of bytes
known by their offset in the request, stores that arrive later (`landed`), peripherals that
grant a single or a burst (`room`) as their watermarks say, and an I2C that fetches a byte
for every read command (`asked`, `got`). `exact` turns false when a byte is stored in a wrong
place, twice or out of order. A channel that waits for data that will not come is `starved`.

### DmaChannels

A process calls the library (`pc`, `call`), the channels move on their own (`Controller`:
end, fault, die slowly), and the process may die and start again (`Crash`). Accesses of a call
are actions of their own where the controller can move in between: the sweeps of `uninit` and
`ecc_start` read one channel at a time, a start writes two instruction words and a command.
`orphans` are channels that ran when the process died or initialised once more.

## Runs

| Run | Checks | Result |
|---|---|---|
| `fpga_sole` | `TypeOK`, `DataPathOpen`, `NoMixedImage`, `HandsBackFabric`, `WithinDataLimit`, `SuccessMeansConfigured`, `KeepsContract`, `CallsReturn`, `ReleasesReset` | holds |
| `fpga_tail` | `SuccessMeansConfigured` with a file length that is no multiple of 4 | violated |
| `fpga_control` | `ControlIsExclusive` with two tools | violated |
| `fpga_dclk` | `DclkWaitIsFresh` | violated |
| `reset_apart` | `TypeOK`, `ResetIsAPulse`, `ClearHoldsConfig`, `BackInService`, `OnlyItsBit`, `ResetReleased`, with `TakeTurns` | holds |
| `reset_shared` | `ResetIsAPulse` with two tools on one register | violated |
| `reset_clear` | `ClearMeansReset` | violated |
| `fpga_beside` | `NoMixBesideClear`, `DisturbedOnly`, `SuccessSurvivesClear` | holds |
| `bridge_access` | `TypeOK`, `AccessInWindow`, `AccessesAreMapped`, `ReportsWhatItDid`, `ShowsTheRegisters`, `RunsEnd` | holds |
| `dump_rows` | `ShowsItsAddress`: a row of a dump shows the word at the address it prints | violated |
| `dma_transfer` | `TypeOK`, `RightPlace`, `EndsWhole`, `NoOverrun`, `FramedOnce`, `ReadsFitFifo`, `EventAfterData`, `TwoLoops`, `TransferEnds` | holds |
| `dma_channels` | `TypeOK`, `FreeIsQuiet`, `WholeConfig`, `CommandsOwnChannel`, `EccWhileQuiet`, `CallsReturn` | holds |

- `SuccessMeansConfigured` is the property the driver exists for. It would fail if a status
  were lost on the way out, if a load went on after a reset the fabric missed, if the power
  had failed half way, or if a word were skipped.
- `DataPathOpen` says that what the cached `ctrl_reg` assumes still holds when the words go in.
- `NoMixedImage` says that a killed or failed load is wiped before the next one's first word.
- `HandsBackFabric` says what a configuration call leaves in `CTRL` when it returns, whatever its result:
  the HPS still in control, nCONFIG not pulled, the AXI port closed. Two kinds of return differ. A call
  refused by its first checks (no control, no power, an unknown MSEL) has written nothing. One that fails in
  Step 4 or 6 never comes to Step 8, which opens the port, nor to Step 11, which closes it: the
  port is then as the call found it, open if one that was killed had left it so.
- `ResetIsAPulse`, `ClearHoldsConfig`, `BackInService` and `OnlyItsBit` hold as long as no two tools use
  one register at a time; `reset_shared` shows that this condition is needed. The registers still pass
  from tool to tool, with whatever one that was killed has left in them.
- `BackInService` follows a run of FPGA-writeConfig to its end: a bridge or the fabric that an earlier
  tool, killed in the middle of its reset, has left asserted is in service again after a success.
- `fpga_beside`: the driver's checks are made on the fabric itself, so a success still means that the
  fabric runs words of this call alone and in order. It does not mean the whole file any more: a
  word written while a child has `EN` cleared is lost, and if the file is longer than the image, a
  later word takes its place (`SuccessSurvivesClear`).
- Properties that are equivalences say exactly where the code does something else than asked:
  `AccessInWindow` (which command lines get past the range checks, `Slips`),
  `EndsWhole` (which requests of a QSPI or a register
  lose bytes). They would fail for a fault beyond those listed, and if one of those were gone.
- `CommandsOwnChannel` and `EccWhileQuiet` are about states read before and used after the
  channel could move: they hold because a stopped channel starts only by a call of this process.

## Bounds

- Images of two words with `ChunkSize` 8 and `DataLimit` 12 bytes: a stream is one chunk too
  long for the limit after a few turns, a file of 16 bytes is above it, one of 8 is an image,
  one of 10 has bytes left over. Words are handled alike, so a third adds no case.
- `MaxCalls` 2: the second call meets whatever the first left behind, with
  a kill, an error, a refusal or a success in between.
- Timeouts of 2, 1 and 1 in `fpga_sole` (0 and 1 in the others): a loop is left on its
  first turn, on a later one, or by the counter. The real values only add turns.
- MSEL 9 (known) and 3 (reserved).
- One tool in the runs of the driver's promises, because the code keeps none of them with two:
  `fpga_control` shows two of them in control.
- `MaxFaults` 1 in the reset runs: one kill, failing child or power loss. The theorems hold for any
  number. In `reset_apart` one tool configures, and resets the whole fabric or a bridge; the other clears the fabric
  and resets another bridge: all three registers are written, by either tool, and one kill is enough to leave a
  reset or nCONFIG asserted for the next run.
- `fpga_beside`: as `fpga_sole` with files of 8 bytes (an image) and 12 (one word more), chunks of 4,
  shorter timeouts and any number of fabric clears.
- `bridge_access`: offsets at both edges of each window, of a page and of 32 bits; lengths of a
  dump at one page and at the 280 rows it may have; all bits of the lowest byte of a status
  register, one by one, all and none; 300 refreshes as in the code.
- `dma_transfer`: 2,278 requests, one at a time (`AllRequests`): all alignments of source and destination,
  sizes around bursts of 8 and 128 bytes, regions that meet by -10 to 10 bytes or at the end of
  the address space, sizes beyond the 256 turns of one loop, each watermark and trigger
  of the peripherals. `AddrSpace` is 2^20 in place of 2^32, for TLC's integers.
- `dma_channels`: two channels, two programs, two configurations; the kill polls twice. The
  library treats channels alike; two let one be started or killed in place of the other.
- Tools may be killed, so no run needs `CHECK_DEADLOCK FALSE`.

## Fairness

`FpgaManager` assumes weak fairness of each tool's own steps inside the driver
(`InCall`, `Control`): a process the kernel keeps scheduling. It assumes nothing of the
fabric, of the client between calls, or of the user. That is what makes `CallsReturn` worth
stating: the timeouts alone end the calls. `ResetTools` assumes the same of a running tool
(`Run`); a kill or a failing child excuses it, and `ResetReleased` says so. `BridgeAccess` and
`DmaChannels` assume it of the one process (`Tool`, `Client`), which is again only the kernel's
scheduling: `CallsReturn` of `DmaChannels` holds though no channel need ever stop. `DmaTransfer`
assumes that a channel executes and that stores arrive (`Execute`, `Land`), which is the
controller's own clock; it does not assume that a device has more data than the transfer takes.

## Proofs

TLAPS checks these for every value of the constants: sets of tools, image size, limits, timeouts,
channels, offsets, requests.

| Theorem | Says |
|---|---|
| `FpgaManagerProofs!TypeCorrect` | `Spec => []TypeOK` |
| `FpgaManagerProofs!LimitRespected` | `Spec => []WithinDataLimit` |
| `FpgaManagerProofs!SoleDataPathOpen` | one tool: `Spec => []DataPathOpen` |
| `FpgaManagerProofs!SoleHandsBack` | one tool: `Spec => HandsBackFabric` |
| `FpgaImageProofs!SoleImage` | one tool: `Spec => []NoMixedImage` |
| `FpgaImageProofs!SoleSuccess` | one tool, whole files and chunks: `Spec => SuccessMeansConfigured` |
| `FpgaImageProofs!SoleContract` | one tool, whole files and chunks: `Spec => KeepsContract`, the refinement |
| `FpgaBesideProofs!BesideNoMix` | one tool: `BesideSpec => []NoMixBesideClear` |
| `FpgaBesideProofs!BesideDisturbedOnly` | one tool: `BesideSpec => []DisturbedOnly` |
| `FpgaBesideProofs!BesideSuccess` | one tool, files and chunks of words: `BesideSpec => SuccessSurvivesClear` |
| `ResetToolsProofs!TypeCorrect` | `Spec => []TypeOK` |
| `ResetToolsProofs!ResetsArePulses` | tools that take turns: `Spec => []ResetIsAPulse` |
| `ResetToolsProofs!ClearsHoldConfig` | tools that take turns: `Spec => []ClearHoldsConfig` |
| `ResetToolsProofs!ConfigEndsInService` | tools that take turns: `Spec => []BackInService` |
| `ResetToolsProofs!NoLostUpdate` | tools that take turns: `Spec => OnlyItsBit` |
| `DmaChannelsProofs!ChannelTypes` | `Spec => []TypeOK` |
| `DmaChannelsProofs!FreeChannelsQuiet` | `Spec => []FreeIsQuiet` |
| `DmaChannelsProofs!CommandsReachOwnChannel` | `Spec => CommandsOwnChannel` |
| `DmaChannelsProofs!ConfigurationWhole` | `Spec => WholeConfig` |
| `DmaChannelsProofs!EccOnlyWhileQuiet` | `Spec => EccWhileQuiet` |
| `DmaTransferProofs!PiecesAddUp` | the pieces of a copy add up to its size |
| `DmaTransferProofs!CorrectionFits` | the correction of an unaligned copy brings source and destination into step |
| `DmaTransferProofs!TwoCounters` | `Spec => []TwoLoops` |
| `DmaTransferProofs!CopiesApart` | `Spec => []ApartButOneByte`: an accepted copy's regions share no byte, or only the last of one and the first of the other |
| `DmaOutlineProofs!ChannelTypes` | `Spec => []TypeOK` |
| `DmaOutlineProofs!AllInPlace` | `Spec => []RightPlace` |
| `DmaOutlineProofs!AllIsMoved` | `Spec => []EndsWhole` |
| `DmaOutlineProofs!GrantsSuffice` | `Spec => []NoOverrun` |
| `DmaOutlineProofs!MasterFrames` | `Spec => []FramedOnce` |
| `DmaOutlineProofs!ReadCommandsFit` | `Spec => []ReadsFitFifo` |
| `DmaOutlineProofs!EventIsLast` | `Spec => []EventAfterData` |
| `BridgeAccessProofs!AccessesInWindow` | `Spec => []AccessInWindow` |
| `BridgeAccessProofs!AllAccessesAreMapped` | `Spec => []AccessesAreMapped` |
| `BridgeAccessProofs!ReportsAreTrue` | `Spec => []ReportsWhatItDid` |
| `BridgeAccessProofs!StatusIsTrue` | `Spec => []ShowsTheRegisters` |
| `BridgeAccessProofs!BridgeTypes` | `Spec => []TypeOK` |

**Driver, any number of tools.** `TypeOK` is not inductive: `AxiReturn` lowers `limit[p]` by
`len[p]`, so it needs `len[p] <= limit[p]`, and `AxiWord` writes at `base[p] + len[p] - left[p]`.
`BufferInv` adds what ties the buffer to the limit: in `step9`, `limit + base + len = DataLimit`;
in `axi`, `limit + base = DataLimit` and `len <= limit`. `TypeInv == TypeOK /\ BufferInv` is
inductive, and `WithinDataLimit` follows. No assumption beyond those on the constants.

**Driver, one tool: the registers.** `SoleTool` says that `Tools` has at most one element, the
condition `fpga_control` shows the code does not provide. `SoleInv` adds for each tool: the cached
copy equals `CTRL` wherever the code relies on it, and which of its bits are set in which part of
the function (`CtlInv`); what `CTRL` is like when a call has its result (`ResultInv`). `HandsBackFabric`
is about the step that returns: `Exits` goes through those steps one by one with `CtlInv`. The proof has
a lemma per group of actions and one that steps of the fabric change none of the registers.

**Driver, one tool: the image.** `NoMixedImage` does not need the registers. `FabricInv` ties what
the fabric holds to its phase and supply: it is empty in reset, and beyond the configuration
phase it holds a whole image. `CallInv` follows a call: before Step 5 the words are of an earlier
call, from a reset that was seen to Step 8 there are none, then they are of this call only.
`BufInv` says that the buffer leaves in whole words but for its tail. Every step of a tool is
sorted by its effect on the fabric once (`Kinds`: `Prepares`, `Empties`, `Opens`, `Fills`, `Runs`, `Writes`,
`Rests`), and each invariant is then shown per kind and not per action. For
`SuccessMeansConfigured`, `Exact` says that the fabric holds the first words of the image, and
all that were sent unless it flagged an error or is full; that needs the open port of
`CtlInv`. The refinement `SoleContract` maps each kind to a step of `ConfigureContract` or a stutter.
Two hypotheses come with it, neither of them about the code's internals: `WholeFiles` (a file is made of whole words or
reaches beyond the image; `fpga_tail` shows what happens otherwise) and `WholeChunks` (a
stream's callback returns multiples of four, for the same reason). `SoleContract` also takes
`Tools` not empty, or there is nothing to map.

**Driver beside the fabric clear.** The children of `FPGA-reset -ffc` write `CTRL` from a copy of their
own, so `CtlInv` is lost, but `FabricInv`, `CallInv` and `BufInv` are not, and the calls in
`undisturbed` keep `ToolInv`: `BesideInv`. `Exact` weakens to `Ordered`: some of the words sent,
the first one among them, in order, and as many bytes behind each as there are words (`OrderedInv`). A
file no longer than the image then leaves no room for a lost word. `WordFiles` is `WholeFiles`
without its second case: beside a clear the last word of a longer file may be needed.

**Reset tools.** `IInv` says of each tool that what it or its child has read is still what the register
holds (`CopyIsFresh`), what it may be doing where it is (`AskedFor`), how far a reset or a
clear has got (`Progress`), and of a configuration which resets are behind it and that nCONFIG has been
let go of since Step 5 (`OutOfReset`). All of them survive the other tools' writes because the registers
in use differ (`Apart`), and they go on differing: `TakeTurns` says so where a tool begins, and from there
on a tool's registers only become fewer (`InUseShrinks`). A step of a tool is sorted first into
those that write no register (`QuietStep`), writes of a child or of control, and writes of the driver.

**DMA channels.** Each call tests a channel's state in one step and relies on it in a later one,
so `FreeIsQuiet` is not inductive. `IInv` adds what a call in progress knows: `CallOK` (its
arguments fit where it is), `Commanding` (the channel an execution is about to start is
allocated and stopped, and the instruction words hold its program), `Configuring` (which parts of
the configuration the current initialisation has written), `Checked` (which channels a sweep has found
stopped) and `HardwareOK`. Each survives the steps of the controller because a stopped channel
does not start by itself. Assumptions: `LastChannel \in Nat`, `Polls \in Nat \ {0}`.

**DMA programs.** A program is put together from pieces and loops around pieces, so the facts
about it are closure properties of sets of programs: `Blocks(m, I)` are the sequences of
instructions of `I` whose loops close and are at most `m` deep. It is closed under
concatenation, a loop takes `Blocks(m, I)` to `Blocks(m + 1, I)`, and each operator of `DmaProgram`
is shown to be in `Blocks(2, I)`, with `I` as narrow as the kind of transfer allows (`Side`). Those that repeat a piece
(`Times`, by `FlattenSeq`) need an induction on the number of pieces, which is done without
the library's induction theorems: the set of numbers for which the statement fails has no
least element. A channel that executes a program has just the loops open that the program
is inside of (`LoopInv`), hence `TwoCounters`.

`CopiesApart` unfolds the test for overlap for sums that wrap at most once (`WrapOnce`) and carries
its verdict along the run. It is what the test does ensure, one byte short of what the header says. `PiecesAddUp` and `CorrectionFits` are about the operators alone.

**DMA data.** How much a channel has moved is known only together with where it is in the program, and a
program has no fixed length. The invariant therefore speaks of an outline: `Outlined(r, p, A)` says
that `A` is a set of places, each a position, the open loops with the rounds they have left, and the
data (addresses, CCR, FIFO, counts, room); that the data of each place are `Sound`, which
is what the properties say of any moment; and that the instruction at the position leads from a place of `A` to
places of `A` (`Follows`). It also says that a store finds its bytes in the FIFO, but for a `QspiMisfit`. `Leads(r, p, P, Q)`
says that some outline has all of `P` at the start of `p` and only `Q` behind its end: a triple of
precondition, program and postcondition. Triples compose as the code does. `JoinLeads` puts pieces one behind the
other (`Inside` shifts an outline and puts it inside of open loops), a loop takes a family of states
indexed by its rounds, and repeated pieces (`Times`, `Nested`) an invariant in the number of
bytes. With these rules each operator of `DmaProgram` gets its triple:

- copies: the FIFO holds the bytes from `done` on, before the correction of an unaligned
  copy as well as after it; the pieces end at `n`;
- zeroes and registers: `done` grows by what the CCR stores; a count of registers that wraps ends at
  `Counted(r)`, not at `Asked(r)`;
- UART: the burst is no larger than the room or the data behind the watermark, for every depth and trigger;
- I2C: one word is one byte; a master read asks, waits and fetches in pieces no larger than the FIFO, and
  only the first and the last piece take their words from the scratch buffer with the flags;
- QSPI: an odd word first, then whole lines of the burst size, then of the single size; where that
  does not add up the request is one of `QspiMisfit`, and then the outline shows that `done` is not `Asked(r)`.

`TransferLeads` joins them, `ProgramLeads` adds barrier, event and end: from `Fresh(r)` a program leads to its
END and nowhere beyond. `OutlineInv` says that a running channel is at a place of an outline of its
program. It is inductive because `Follows` says just what the actions do (`LoadModelled`, `StoreModelled` and the
others show that `Result` is the action). All seven theorems follow from it at once: five from `Sound`,
`AllIsMoved` from `Final`, `ChannelTypes` from `Sound` and `Open`. `OutlineInv` has a quantifier over sets of places, which TLC cannot
evaluate; its consequences are what `dma_transfer` checks. It is needed: none of the seven is inductive
by itself, since a store may always come once too often for a state that is not tied to a position.

Assumed are `AddrSpace \in Nat \ {0}`, an I2C FIFO of at least two words, and
`RequestsAssumption`, which gives the arguments of a call the ranges of their C types: 32 bit numbers and the fields of
peripheral registers (a UART depth is 16 times an 8 bit number, and not 0 when the FIFO is enabled; a
request that is not for a register has no width, which is written as 1).

**Bridge access.** `IInv` is `Progress` (a run beyond `check` was accepted, and its counters are
within their bounds), `Reach` (each access is one the run may make) and `Pages` (beyond `map` the
pages of the address are mapped). The theorems follow by arithmetic modulo 2^30; they hold for all
offsets and lengths, where the run takes those at the edges. `Outcome` ties what was printed to what was
written and how far the tool came; `Displayed` says that FPGA-status has shown just the readings it has taken, from which
`StatusIsTrue` follows reading by reading; `Kinds` restricts each stage to the tools that reach it.

Model-checked only is liveness under fairness, which is out of the prover's reach: `CallsReturn`, `ReleasesReset`,
`ResetReleased`, `TransferEnds`, `RunsEnd`. Every other property of a run that holds has its theorem.

## Findings

1. `alt_fpga_manager.c:211` computes where the last bytes are from a length already counted down,
   and sends the first bytes of the buffer instead (`fpga_tail`).
2. `alt_fpga_control_enable` never fails, though the header says it does when another holds the
   block (`fpga_control`).
3. An old DCLK count may be flagged done just after the check that is to catch it (`fpga_dclk`).
4. Two resets of different bridges at once undo each other and both report success
   (`reset_shared`).
5. The check after the fabric clear accepts every state but 0 (`reset_clear`).
6. Rows of a dump beyond the first page show the words of the first page beside other addresses
   (`dump_rows`).

Further observations, which no run of their own shows; where a property names the exception,
it is given.

- The driver's CDRATIO of the 16 bit modes with encryption or compression is half of what the table of the
  register header asks for (`alt_fpga_manager.c:669-686`, `alt_fpgamgr.h:163-205`).
- FPGA-writeConfig gives control back by writing `CTRL` as it was read (`main.cpp:215`); where that write follows
  the pull of a fabric clear, nCONFIG is let go of and the clear reports success. `TakeTurns` leaves it out.
- A reset is reported as performed when the child that was to release it has failed (`FPGA-reset/main.cpp:187`);
  `ResetIsAPulse` excuses a child that fails.
- FPGA-writeBridge: `-lw` accepts offsets of the larger bridge (196-206), `-gpo` writes physical address 0
  (311), bit position 32 is accepted and shifted by (255, 404); the first two are `Slips`, the third
  is in `ReportsWhatItDid`. A failing `munmap` prints -2 and then 1 (412-426).
- FPGA-dumpBridge: `-lw` is checked as the whole address space (200), `-hf` by a sum that wraps (191), one
  valid text of two is enough (155).
- FPGA-status: the CAN line shows the dual-core bit (524) and the SD/MMC line is always [N] (590 against
  276), both in `ShowsTheRegisters`; silicon revision 1 is tested twice (679, 681); `deinit` passes
  addresses as lengths to `munmap` (459-469).
- `alt_dma.c`: a copy whose regions share one byte is accepted (1444), though the header says that regions that
  overlap are not (`alt_dma.h:768`); `CopiesApart` shows that it is never more. Only a copy waits for its
  stores before the event (1560; the other transfers do not). A QSPI transfer that is not aligned
  to 8 loses bytes when the single request is larger than a word, and requests of less than
  a word move nothing (`QspiMisfit`); the comment at 3692 expects otherwise. A count of registers
  whose bytes reach 2^32 is cut (2182, 2542; `EndsWhole`). A UART burst is cut to a multiple of 16, so a
  channel may wait for data that has already been announced (`Matched`). `ALT_DMA_FTRD_ADDR` has the
  offset of FSRD, so `alt_dma_manager_fault_status_get` reads another register. An `alt_dma_init` that is made
  while channels run leaves them running, though the header says that all are stopped; these are the `orphans` of
  `DmaChannels`.

## Not modelled

- The register headers: `hps.h` and `alt_fpgamgr.h` alone are 15,557 of the repository's 28,000 lines. They
  are generated addresses, masks and comments; the fields that are used are in `FpgaFabric`, and there
  is nothing else in them that does anything. `alt_dma.h` and `alt_fpga_manager.h` are declarations with
  their descriptions. This is why a model of nearly all functions maps less than a third of the lines.
- The general purpose ports and monitor interrupts of the FPGA manager driver
  (`alt_fpga_manager.c:981-1069`): single accesses that no tool makes.
- The DMA variants of the configuration calls: compiled out (`ALT_FPGA_ENABLE_DMA_SUPPORT` is not set); and the
  `soc_a10` branches of `alt_dma.c`: another chip.
- `alt_dma.c:832-871` and `915-1121`, calls that read one register of a channel, fault or interrupt, and the
  selection and clearing of interrupts; a buffer that is too short for a program (the code
  then returns an error and starts nothing); the check that the address of the register is a multiple of its
  width (2156, 2520), so every register is an aligned one; a mapping of more than one segment.
- Reading the configuration file, printing, and the wording and layout of what is shown.
- Failing `open`/`mmap` inside the driver's tools before their first access: the tool exits and
  touches nothing.

## Plan

1. Done: `FpgaFabric`, `FpgaManager`, `ConfigureContract`, `ResetTools`, with their proofs.
2. Done: `FpgaBeside`, `BridgeAccess` with `FpgaStatus`, `DmaProgram` with `DmaTransfer`, `DmaChannels`,
   with the proofs listed above.
3. Done: the image, the contract and the fabric clear beside the driver (`FpgaImageProofs`, `FpgaBesideProofs`),
   what the bridge tools report and show, the loops and the places of DMA transfers.
4. Done: what an executed program has moved, for every request (`DmaOutlineProofs`).
5. Not planned: the parts under [not modelled](#not-modelled). A second channel or a second request
   at a time would not change a program; `DmaChannels` has what channels share.
