# Verification of the LimeSDR-QPCIe gateware and firmware (LimeADPD)

TLA+ models of the parts of this repository that carry its own control logic:
the packet paths between the PCIe streams of the host and the sample streams
of the transceivers, the command channel and the firmware behind it, the
waveform player. The models are written from the VHDL, Verilog and C; each
definition says in `PROJECT.json` ("map") which lines it stands for. TLC checks
the models on small instances, TLAPS proves most of the safety properties for
every value of the constants (section 4).

## 1. The system

The host talks to the board over PCIe (Xillybus streams). `lms7_trx_top.vhd`
holds two transceiver paths (`rxtx_top`), a waveform player out of DDR memory,
the DPD data path, and a Nios CPU whose firmware (`nios4usb_app/main.c`)
answers commands of the host, configures chips and PLLs, and tunes the clock.

### Components, their state and what makes them correct

| part | source (below `src/gateware/project/`) | state | operations | correct when |
|---|---|---|---|---|
| TX input | `src/pcie/two_fifo_inst.vhd`, `pcie_top.vhd` | two FIFOs, transfer FSM, chunk counters, reset synchroniser | host writes, chunk transfer, reset by the reader, open/close | the second FIFO holds one packet at a time, in order; a drop loses that packet alone; the host is never stuck |
| TX packet writer | `tx_path_top/packets2data/synth/p2d_wr_fsm.vhd` | FSM, buffer counters, word counters, comparator pipeline | take header, compare, drop or copy to a buffer | never loses its place in the stream; drops only late packets; never touches a buffer in use |
| TX packet reader | `.../p2d_rd.vhd` | FSM, buffer counter, header array, comparators | wait for the sample number, read, hold, clear | plays whole packets in order, not early; never decides on a stale header |
| TX buffers | `.../packets2data.vhd`, `packets2data_top.vhd` | N_BUFF FIFOs, ready bits, output registers | write, read, clear, level crossing | see above |
| RX packet path | `rx_path_top/**` | sample FIFO, burst FSM, packer, framing FSM, counters, delay line of the sample number | read a burst, pack, frame, discard a whole packet | packets whole or missing; no overflow or underflow; right sample number; never stalls |
| loss report | `tx_path_top.vhd`, `rx_path_top.vhd` | flag, two synchronisers, edge detectors | set by a drop, cleared by a header | every loss reaches the host, none is reported twice |
| control channel | `pcie_top.vhd`, `ip/avfifo`, `main.c` | two FIFOs, open bits, command and answer buffers | write, read, open, close, reset, execute, answer | one answer per command, in order, whatever programs did before |
| command dispatcher | `nios4usb_app/main.c` | blocks, error count, copies of DAC and wipers, the devices | LMS64C commands | devices hold what the answers let a host believe |
| SPI driver | `altera_avalon_spi.c`, the SPI cores, `nios_cpu_top.vhd` | credits, registers of the cores, slave selects | command | exchanges its own bytes, alone on the bus |
| ADC configuration | `main.c` | the switch, the ADC's registers and its readout mode | `init_ADC`, `change_ADC_tpat` | the ADC holds what was written and follows the switch |
| PLL configuration | `main.c`, `pll_rcfg.c`, the reconfiguration core | start, busy, done and error bits, mode and state of a core | reconfigure, phase request, reset | a status belongs to its request; done means applied |
| VCTCXO tamer | `main.c`, `vctcxo_tamer.c`, `src/vctcxo_tamer` | tuning state, counters, interrupt | enable, measure, adjust | settles, on measurements of its own settings |
| waveform player | `wfm_player`, `avalon_traffic_gen.sv` | load/play FSM, addresses, bursts | load, play, stop | plays what was loaded, whole, for ever |
| DSP chain | `adpd`, `cfr`, `hb`, `invsinc`, ... | arithmetic pipelines | - | numerical, not control |

`PROJECT.json` lists all of them with their status, the vendor code included.

### How the parts interact

    host --PCIe--> two_fifo_inst --(bus_clk | tx_clk)--> p2d_wr_fsm --> buffers --> p2d_rd --> sample FIFO --> DAC
                        ^  reset of the second FIFO to drop a packet  |
    ADC --> sample FIFO --> data2packets_fsm --> bit_pack --> data2packets --> host FIFO --PCIe--> host
                            smpl_cnt (sample number) ----------^      `--> sample_nr of the TX path
    a packet dropped in TX --> pct_loss_flg --(tx_clk | rx_clk)--> header of the next RX packet --> clear

    host --PCIe--> H2F_C0 --> main loop: tamer, ADC switch, PLL requests, one command --> F2H_C0 --PCIe--> host
                                |-- SPI driver --> three SPI cores on one bus --> LMS7002M, ADC, DAC, ADF4002, FPGA registers
                                |-- I2C --> potentiometer, Si5351C        |-- Avalon --> PLL cores, tamer counters

TX packets carry the RX sample number at which they are to be transmitted; the
TX path compares it with the running counter, twice: before it copies a packet
(`p2d_wr_fsm`) and before it plays it (`p2d_rd`). Host and firmware meet in the
control FIFOs and in the FPGA's register file, which the host reaches only
through commands that the firmware executes.

### What is hard here

* Levels cross clock domains: every `rdusedw`/`wrempty` is old when it is used,
  and often registered once more (stale state).
* Decisions run through comparators of three stages and registered
  multiplexers: the verdict must still be about the same packet.
* A packet carries no mark in the stream: who loses count once is wrong for
  ever. The same holds for commands and answers.
* The TX reader resets a FIFO and a state machine that live in another domain.
* Writer and reader of the TX buffers wait for each other; the sample counter
  may jump over the number a reader waits for.
* The RX path decides once per burst, on old levels, and never looks again.
* The firmware polls everything once a pass: edges, interrupts, switches and
  commands meet in any order, and an iteration may last as long as a PLL needs.
* Chips, cores and PLLs keep their state when the firmware gives up on them or
  restarts.

The "hazards" of `PROJECT.json` give each of them at its line, with the
properties that would catch it.

## 2. Modules

| module | models | remarks |
|---|---|---|
| `TxSignals` | signals and packet data shared by writer and reader | constants and their assumptions |
| `P2dWriter` | `p2d_wr_fsm.vhd` | `WriterStep` = one clock edge, one conjunct per VHDL process, one action per FSM state |
| `P2dReader` | `p2d_rd.vhd` | `ReaderStep`, the same way |
| `TxPackets` | `packets2data.vhd` around them, and their environment | composes both in `Tick`; specification and properties of the TX path |
| `TxInvariant`, `TxRing`, `TxProofs` | - | the invariant of the framing of the stream and, on top of it, that of the ring of buffers; theorems and proofs of both |
| `TwoFifo` | `two_fifo_inst.vhd`, its resets in `pcie_top.vhd` | with an abstract host and the reading side of `p2d_wr_fsm`: its registered level and request, so that level, request and header are three edges apart and anything may fall between |
| `RxPackets` | `rx_path_top.vhd` from the sample FIFO to the host FIFO | `Tick` = one edge of `rx_clk` |
| `LossReport` | loss flag, header bit and clear across both clocks | `TxEdge`, `RxEdge`; packets are counted, not modelled |
| `RequestReply` | - | abstract specification: requests served in order, one reply each, replies received in order |
| `ControlChannel` | `pcie_top.vhd` (control FIFOs), `avfifo.vhd`, `getFifoData` and the ends of the main loop | word by word; implements `RequestReply` |
| `Dispatcher` | the `switch` of `main.c`, the FPGA registers, DAC, ADF4002, potentiometer, Si5351C, two LMS7002M | one action per block of a command; the FPGA registers in banks selected by register `Mac`, a bit of each bank the reset pin of an LMS7002M, which loses its registers with it; `believed` is what a host may conclude from the answers |
| `SpiCommand` | `alt_avalon_spi_command` and `nios_cpu_spi_2.v` | a byte is its position; `Driver` and `Core` steps interleave |
| `AdcConfig` | `init_ADC`, `change_ADC_tpat`, the switch | a routine is the sequence of its commands |
| `PllConfig` | PLL part of the main loop, `pll_rcfg.c`, the reconfiguration core | start bits, statuses, polls, cores |
| `MainLoop` | the processor | composes `PllConfig`, `AdcConfig` and `SpiCommand`: one thread, in which every ADC access, and host commands to other chips, are calls of the driver |
| `MainInvariant`, `MainProofs` | - | the inductive invariant of `MainLoop`; theorems and proofs, the refinement of `PllConfig` among them |
| `TrimLine` | the arithmetic of `main.c:1001-1088` | C rounding, truncation and wrap as operators |
| `Tamer` | tamer part of the main loop, its interrupt service, the counters of `vctcxo_tamer` | on an oscillator with a linear error |
| `WfmPlayer` | `wfm_player.vhd`, `avalon_traffic_gen.sv`, an in-order memory | `Clock` = one edge |
| `TwoFifoProofs`, `RxProofs`, `LossProofs`, `ControlProofs`, `DispatcherProofs`, `TamerProofs` | - | inductive invariants, theorems and proofs of `TwoFifo`, `RxPackets`, `LossReport`, `ControlChannel`, `Dispatcher`, `Tamer` |
| `MC*` | - | values of the constants |

**Clocked logic.** A VHDL process is a formula over unprimed (register outputs
before the edge) and primed variables (after it); an edge is the conjunction of
all of them. `packets2data` has two clock ports, but `rxtx_top.vhd` connects
both to `tx_clk`, so the TX path has one `Tick`. What happens between edges
(data arriving, a level crossing a synchroniser, the sample counter moving)
are actions of their own that may fall between any two edges.

**Firmware.** A step is what another actor can see: one register access, one
poll, one device access. `pc` is the place in the main loop. Host commands are
executed at the end of a pass and nowhere else, which is why `PllConfig` lets a
host read and write registers only there.

**Data.** A packet is a number in the order of the host; a word of it is
`<<packet, index>>`. The header's sample number is kept as the outcome of its
comparison with the counter: `phase[p]` goes from "early" over "due" to "late",
and may skip "due". That is all the code does with it. An RX sample is its
number, and a packed word is named by the last sample in it. A word of a
command is `<<session, command, index>>`, of a waveform `<<loading, index>>`.

**FIFOs.** The Altera `dcfifo` is external: contents are exact, a level as seen
from the other side is behind by any amount (`SeeWords`, `SeeEmpty`,
`SeeWritten`, `SeeFilled`, `SeeEmptied`), a read of an empty FIFO leaves the
output register as it was, an asynchronous clear acts at once.

**Asynchronous signals.** `aclr` of a TX buffer is a function of the reader's
FSM state, without a register; `Clearing` therefore looks at the state on both
sides of the edge.

**Undefined values.** `pllcfgrez` is read before it is written after a phase
request: `Garbage`. The slope through two equal coarse points of the tamer is
a division by zero: the library's conversion gives all ones or zero (`Scaled`).

**Refinement.** `ControlChannel` implements `RequestReply` (`RequestsReplied`):
`requestsBar` are the commands the program has written to their last word and
the firmware has not answered to the last word of the answer (`answered`, a
history variable), `repliesBar` those answered and not read to the end; `last`,
the request received, is read from the words that arrive. Programs that are not polite are invisible to the abstract
specification, though they fill, tear and reset both FIFOs. The property
includes the abstract fairness: every request is served, every reply received.

## 3. Runs

| run | instance | states | shows |
|---|---|---|---|
| `tx_packets` | 2 buffers, 3-word packets (header + 2), two 64-bit words per 128-bit word, 3 packets (2 of them synchronised ones) | 217 000 | `TypeOK`, `Ownership`, `Framing`, `HeaderOfBuffer`, `StreamIntact`, `DropOnlyLate`, `NeverEarly`, `EveryPacketLeaves` |
| `tx_live_14` | a buffer ready at 2 words of 4 | 11 000 | expected to fail: see Findings |
| `two_fifo` | packets of 2 chunks of 3 words, a first FIFO of 5 words, 4 packets | 73 000 | `OnePacket`, `InOrder`, `PacketArrives`, `HostNeverStuck` |
| `rx_packets` | 12, 14 and 16 bits, 38 samples, a host FIFO of 24 words | 139 000 | `PacketIntact`, `NoOverflow`, `SampleNumber12or16`, `NeverStalls` |
| `rx_sample_number_14` | 14 bits | 150 | expected to fail: see Findings |
| `control` | commands of 2 words, FIFOs of 3 and 4 words, 2 commands without answer, 3 commands a program, 2 programs of 3 kinds | 287 000 | `AnswerMatches`, `RequestsReplied` (refinement) |
| `dispatch` | any number of commands of one suite; 2 banks of a register of 4 bits, 2 registers and 2 values a chip | 10 400 000 | `ReadBack`, `DevicesAsBelieved`, `RefusedChangesNothing`, `OneTcxoDriver` |
| `main_loop` | 2 PLLs, time-out of 1 poll, 2 requests or none; 3 SPI masters, writes and reads of up to 2 bytes | 220 000 | `StatusOfRequest`, `AppliedWhenDone`, `AdcAsWritten`, `Exchanged`, `BusIsOurs`, `RequestServed`, `SwitchFollowed` |
| `tamer` | an 8-bit DAC, two windows, 4 gains and 4 centres, 4 switches, 1 drift | 993 000 | `OwnMeasurements`, `Contracts`, `Settles` |
| `wfm` | 2 loadings of 2 to 5 words, a buffer of 3 commands in the generator, a memory that stalls for up to 4 cycles | 213 000 | `PlaysWaveform`, `NoOverflow`, `WordsStored`, `PlayGoesOn` |
| `wfm_count` | the same | 4 000 | `ExactCount`, expected to fail: see Findings |
| `loss` | packets of 12 cycles or more, a window of 7 cycles | 4 600 | `OnlyFreshLost`, `NoFalseReport`, `OldLossReported` |

The type invariant of a module is checked in its run: on its own for the TX
path, elsewhere as a conjunct of a named invariant, and proved with it.
Each property has a mutant in `PROJECT.json`: a plausible bug of a modelled
operation that makes TLC find the property violated.

### Bounds, and why they are enough

* *Packets are small.* A TX packet has 256 words in the code, 3 in the runs; the
  FSMs count to a constant and compare with it at both ends. With 3 words a
  packet has a first, an inner and a last payload word. The proofs do not depend
  on the size.
* *Two buffers, three packets.* With three packets both buffers are
  filled and the first is used again; all interference is between neighbouring
  buffers. `SyncPkts`: with synchronisation on, the first two packets wait for
  their sample number, each with phases of its own, and the third carries the
  bit that says it need not.
* *First FIFO smaller than a packet* (`Fifo0Depth` 5 < 6), as in the code (2 kB
  against 4 kB), so that the host must wait for the transfer, and a stream
  closed in the middle of a packet leaves an incomplete one.
* *RX packets*: 3 groups of the packer with 12 bits, 2 with 14, 6 with 16, so that
  bursts are longer than the latency of the packer, as the assumption
  `GroupsAssumption` demands. 38 samples give at least two whole packets at
  every width, and the host FIFO has room for one packet of 14 bits and two of
  the others.
* *Control channel*: the smallest FIFOs that hold what the window allows. Three
  commands fill the window and use a place in it again; the second program
  finds whatever the first, of any kind, left behind.
* *Dispatcher*: commands are grouped in suites that share devices and share none
  with one another: all that reach the FPGA or an LMS7002M are one suite, so
  that writes, resets by either command, changes of the selection and reads
  mix in any order. Two banks with a chip each, a bit beside each reset line, and
  a word with the pin high and one with it low are enough for a reset of the wrong
  chip or of one more. `DataField` 8 makes one block too many possible.
* *Main loop*: an instance makes PLL requests, with the switch off, or moves the
  switch and commands other chips (`NoRequests`): the thread executes one of
  them at a time, and a PLL request touches neither driver nor ADC. The second
  configuration may meet the end of a first that timed out.
* *SPI commands* of up to four bytes are longer than the bytes a core may have
  under way, so that the driver has to wait for credit in the middle.
* *Tamer*: four switches are on, off with an interrupt pending, on, and off again.
  With 8 bits the range, the rounding and the scale of the windows keep
  their proportions; gains and centres cover an even and an uneven slope, and a
  centre near each end.
* *Waveforms* of 2 to 5 words end with a whole and with a half burst; the
  second differs in length from the first. The generator's buffer has 16 places
  in the code (almost full at 14) and the memory may stall for long, a refresh for
  instance; 3 places and stalls of 4 cycles let the buffer fill while a waveform is
  loaded, which is what matters, with five words.
* *Loss*: 12 cycles are more than the round trip of flag and clear; longer packets
  only add idle cycles. `Window` is the smallest value with which
  `OnlyFreshLost` holds.
* `MaxPkts`, `SyncPkts`, `MaxSmpls`, `MaxCmds`, `MaxSessions`, `MaxCfg`, `Budgets`,
  `MaxWrite`, `MaxRead`, `MaxSwitches`, `MaxDrifts`, `MaxLoads`, `MaxStall` bound
  behaviours and appear in the guards of the environment's actions only. At the
  bound the environment stops, which is why the runs of the packet paths, of
  the control channel and of the main loop do not check deadlock: their
  liveness properties say what must not stop. All other runs check it.

### Fairness

* `WF(Tick)`, `WF(BusTick)`, `WF(TxEdge)`, `WF(RxEdge)`, `WF(Clock)`: clocks run.
* `WF(SeeWords)`, `WF(SeeEmpty)`, ...: a synchroniser delivers a stable level after
  a few cycles.
* `WF(Drain)`: the DAC side takes samples at its own rate, whatever happens.
* `WF(Advance)`: the receiver counts samples while it is enabled, and the TX path is out of reset only
  then (`rxtx_top.vhd:124`, both from `rx_en`).
* `TwoFifo`: the reader is a clocked state machine and finishes what it started;
  nothing is assumed of the host.
* `RxPackets`: only the clock. The host may never read.
* `ControlChannel`: the firmware polls; a *polite* program finishes a command it
  began and reads its answers. Nothing is assumed of the other programs.
* `MainLoop`: the processor and the SPI cores run; a PLL with a reference clock
  locks (a core holds the processor with `waitrequest` until it does). Nothing is assumed of the host or the switch.
* `Tamer`: the firmware runs, the reference pulses, the counters follow. `Settles`
  speaks of a tamer that is left on.
* `WfmPlayer`: the memory returns what it read and does not refuse a beat for
  ever: strong fairness, as it may refuse for some cycles again and again.
* `LossReport`: samples keep coming, so that RX packets start (`SF`: a packet can
  start only between two others).

## 4. Proofs

Each theorem holds for every value of the constants its module assumes; TLC
evaluates those assumptions in the run of the module. The pattern is the same
everywhere: what a run checks is not inductive, because a step looks at
registers, levels and copies that the property does not mention. `IInv` adds the
missing links as named conjuncts, each proof has a lemma for each of them under
each action, and TLC had checked `IInv` as an invariant of the run's instance
before it was proved.

| module | theorems | properties of runs |
|---|---|---|
| `TxProofs` | `InvariantHolds`, `TypeCorrect`, `FramingHolds` | `TypeOK`, `Framing` |
| `TxProofs` | `RingHolds`, `OwnershipHolds`, `HeaderOfBufferHolds`, `StreamIntactHolds`, `OnlyLateIsDropped`, `NeverReadEarly` | `Ownership`, `HeaderOfBuffer`, `StreamIntact`, `DropOnlyLate`, `NeverEarly` |
| `TwoFifoProofs` | `TwoFifoInductive`, `SecondFifoIsOnePacket`, `ReadsInOrder` | `OnePacket`, `InOrder` |
| `RxProofs` | `RxInductive`, `PacketsIntact`, `NoRxOverflow`, `NumberOfFirstSample` | `PacketIntact`, `NoOverflow`, `SampleNumber12or16` |
| `LossProofs` | `LossInductive`, `OnlyFreshIsLost`, `NoFalseReports` | `OnlyFreshLost`, `NoFalseReport` |
| `ControlProofs` | `ChannelHolds`, `AnswersMatch`, `ChannelImplements` | `AnswerMatches`; the safety part of `RequestsReplied` |
| `MainProofs` | `MainInductive`, `MainImplementsPll`, `StatusIsOfRequest`, `ConfigurationApplied`, `AdcConfigured`, `CommandsExchanged`, `BusAndTypes` | `StatusOfRequest`, `AppliedWhenDone`, `AdcAsWritten`, `Exchanged`, `BusIsOurs` |
| `DispatcherProofs` | `DispatcherInductive`, `DevicesBelieved`, `ReadsBack`, `RefusalChangesNothing`, `OneDriver` | `DevicesAsBelieved`, `ReadBack`, `RefusedChangesNothing`, `OneTcxoDriver` |
| `TamerProofs` | `TamerInductive`, `DecidesByOwn`, `ReportsPresent`, `TamerContracts` | `OwnMeasurements`, `Contracts` |

**Framing of the TX stream** (`TxInvariant`, `TxProofs`; `NBuff > 1`, `PctWords > 1`,
`RdPerWr > 0`, `RdyWords` from 1 to the size of a packet, any `SyncModes`). The
writer FSM keeps its place in the packet stream: the word it latches as header
is word 0 of a packet, the word it stores is the next word of the packet whose
header it holds. A word that arrives was requested two cycles earlier, the FIFO
may have been cleared since, and `in_pct_rdy` is one cycle old; hence:

1. `InFlight`: the read counter equals the words that arrived plus the request
   under way; nothing is requested twice or forgotten.
2. `CountOfState`, `FlightOfState`: what the counter is in each state of the FSM
   and where a request or a word can be under way at all. It is here that the
   wait for the comparator is needed.
3. `FifoOfState`: the input FIFO holds exactly the rest of the packet being
   read, or a whole next packet once nothing of this one is left.
4. `ReadyIsTrue`: `in_pct_rdy` misleads only where nobody looks at it.
5. `WordArriving`, `PayloadOnly`, `ReadCount`: what arrives, what is written
   into a buffer, and how far the reader counts.

**The TX buffers** (`TxRing`, `TxProofs`). The occupied buffers are a section
of the ring, from the oldest packet to the one before `next_buff_cnt`; their
packets follow one another, and whatever is missing between two of them, before
the first or after the last, was thrown away (`Ring`, `After`). With it go the
word count of every buffer (`Contents`), the levels and verdicts that the two
FSMs look at (`LevelsTrue`, `Verdicts`: a comparator may be old, but it is about
the packet in that buffer, and time only goes on), where a header is in the
registers at each age of it (`HeaderPlace`), and that what the reader leaves is
not taken by the writer before it has gone (`ReaderPlace`). The action
properties `StreamIntact` and `NeverEarly` follow for single steps. The
theorems assume `WholePackets`: a buffer is called ready when it holds the whole
payload (12 and 16 bits; with 14 bits the path stops, see Findings), and a
packet has more than two 128-bit words (it has 256): with two, the write of the
last word would not be seen by `wait_wr_end` in time.

**The TX input** (`TwoFifoProofs`; `Chunk > 1`, `TrnsfN > 0`, any depth of the first
FIFO that holds a chunk). `Asked`, `Fetched` and `Written` count the words of the
packet that the transfer FSM has asked for, got and put into the second FIFO;
the registers of the data path say how far they are apart. They determine the
next word of the first FIFO, the word between the FIFOs and the contents of the
second (`WordInv`, `WaitInv`). `DataInv` and `HdrInv` follow the reader from the level to
the header: its registered level may be older than a close, and what it then takes for
a header is of a packet that counts as torn. While the reader reads, the whole packet is there
and nothing moves (`ReadInv`), also across the reset that the reader sends to
drop a packet.

**The RX packets** (`RxProofs`; every subset of the three widths, any number of
groups of the packer that makes a burst longer than its latency plus two, and a
FIFO to the host of one packet at least). Nothing tells `data2packets` where a
packet ends: it counts words, `data2packets_fsm` counts samples, and both are right
only because bursts do not overlap. The invariant says so as a schedule: the
path is `Quiet`, or it is in cycle `u` of exactly one burst with first sample `n`,
and then `u` and `n` give every register (`Busy`): the reader (`Reader`), the delay
chain of the sample number (`Numbers`), the stages of the packer (`Packer`), state
and counters of `data2packets` (`Framer`), its registers (`Registers`), and what the
host has (`Host`). `Shifted(u)` is the number of words that have left the packer by
then; three samples of four (or seven of eight) complete one, and `WordCount`
relates that count to the samples with `\div` and `%`. All behind the packer is
`Shifted` of one or two cycles ago. The room that was looked at before the burst
appears in `Host` as the room still needed, `PctSize - Shifted(u - 2)`, which reads of
the host only increase. The number in the header is that of the first sample if the
first word leaves the packer while the delay chain still holds it, by
cycle 6 (`PayloadOut`): in cycle 6 with 12 bits, 2 with 16, 8 with 14, where it
fails (see Findings).

**The loss report** (`LossProofs`; packets of more than 7 cycles, a window of more
than 6). The argument is about time: `Since` counts the edges since the header,
`ahead` says which clock has ticked more, and every synchroniser register has
the value of an earlier edge (`CaptureInv`, `OwedInv`, `ReportedInv`). So a clear
is on its way for four edges at most, in which no other header starts.

**The control channel** (`ControlProofs`; packets of more than one word, any
window, any depth of the FIFO to the firmware, and a FIFO to the host that has
room for the answers of a window: 256 words in the code, 16 a packet). Nothing
in a FIFO marks the beginning of a packet; what holds the channel together is
that each FIFO is a `Chain`: its words follow one another without a gap, from the
place that the reader has counted to (`ToRead`, `ToTake`) to the place that the
writer has (`next_word`, `ToAnswer`). Hence the firmware never reads an empty
FIFO within a command (`ReadEffect`), an answer word is never dropped (`Room`),
and a program that leaves with nothing outstanding leaves nothing behind
(`Settled`). `ChannelImplements` is the refinement: `SendStep`, `ServeStep` and
`ReceiveStep` are the steps that `RequestReply` sees, all others stutter.

**The main loop** (`MainInvariant`, `MainProofs`; any set of PLLs, time-out,
number of masters, length of a call). `PllInv`: an edge of a start bit is seen
by exactly one pass (`EdgeOfAge`), so one request of a kind at most is not
served (`ServedOfAge`), and a core that no service left behind is idle outside
its poll (`CoreInv`). `SpiInv`: one byte at most is in the core, in one of its
registers, and all before it have been exchanged (`OneByte`). `AdcInv`: how far a
routine has come determines what the ADC holds. `ThreadInv` joins them: one
thread, so a call of the driver excludes a step of the rest.
`MainImplementsPll` is the refinement: each step of `MainLoop` is a step of
`PllConfig` or a stutter of its variables.

**The dispatcher** (`DispatcherProofs`; any registers, banks, values, DAC, wiper, and
any `DataField > 0`). Between two blocks of a command the devices agree with what
the host will believe if it is answered "completed" (`hoped`, a history variable
of the model), unless an error has been counted that will be answered; then with
what it will believe after the error (`AgreeInv`). A block that writes a register of
the FPGA goes through `BrdStore`; `StoreAgrees` shows that banks and chips, the reset
ones included, are then as the host thinks, which knows the selection, the words it
wrote and which of them held a pin low. For `LMS_RST` the shifts and masks of
`Modify_BRDSPI16_Reg_bits` are shown to move one bit (`ModifyOneBit`). `ReadInv` says
the same of the blocks read so far, `DriverInv` of the switch between DAC and
ADF4002.

**The tamer** (`TamerProofs`; any width of the DAC and range in it, any finite set
of windows with that of one second among them, any tolerances, gains and centres
of the assumptions).
The invariant says for each place of the main loop whether the tamer is off
(`OffOK`), the counters stand (`StoppedOK`), they measure (`RunningOK`) or a result is
on its way to the tuning step (`ServingOK`). The coarse steps use the error of one
second whichever window interrupted; `Windowed` says why there is one: until it
has a result all windows have counted the same pulses, so it is full first. A
moved DAC disowns every result, and as the counters stand at that time no window is
of two settings. An interrupt that came before the tamer was switched off is excluded
(`late`, see Findings); the proof needed `late` to be decided where the tuning state
is reset, and not before, or an old line would have counted as a good one between
the two.

`TamerContracts` adds what the decisions are worth. `Reports` says that a flagged
error, and in coarse tuning the error of one second, is what the oscillator has
at the present DAC value, though it may drift while no error is under way, and
that the line goes through two errors of one oscillator. The rest is arithmetic on
integers, with each rounding as an inequality: `InterceptSize` (three roundings
move the intercept by a Hertz at most) and `CorrectionSize` (a correction goes the
right way, less than twice as far as the DAC was off, and beyond the centre by no
more than the DAC has room). It needs `TunableAssumption`: a step of the DAC is
within the tolerance of each window, the ends of the line are 5 Hz or more apart,
and there is room beyond them. With the tolerances (`tamercfg.vhd:177-181`) and
the ends (`main.c:797-798`) of the code this holds from 0.3 mHz to 0.3 Hz a step.
The first part is necessary: with a tolerance of 1 Hz over ten seconds and
0.24 Hz a step, an error of one step is flagged as 2 Hz, and the correction for it
truncates to 0; the tamer would be interrupted for ever and correct nothing.

**Only model-checked:**

* liveness (`EveryPacketLeaves`, `PacketArrives`, `HostNeverStuck`, `NeverStalls`,
  `RequestServed`, `SwitchFollowed`, `Settles`, `WordsStored`, `PlayGoesOn`,
  `OldLossReported`, and the fairness of `RequestsReplied`): beyond the prover;
* `WfmPlayer` (`PlaysWaveform`, `NoOverflow`): `ExactCount` does not hold (section 5),
  and how long a memory may stall before it fails depends on the depth of the
  generator's buffer and the length of the waveform, which nothing in the code
  relates. With `Depth` 8 and a `Latency` of 8 the output FIFO overflows. A theorem for
  all values would be false, and one for the values of the instance says no more than
  the run.

## 5. Findings and observations

Three runs are expected to fail:

* **14-bit samples carry the number of the next sample**
  (`rx_path_top.vhd:276`, run `rx_sample_number_14`). `smpl_cnt` is delayed by a
  fixed seven registers, chosen for a latency of six cycles "from smpl_fifo_inst1 to
  packet formation" (comment at lines 270-271). `pack_56_to_64` has two more register
  stages than the 12-bit packer, so the counter value that meets the first
  14-bit word is that of the following sample. With 12 and 16
  bits the packers are fast enough.

* **TX with 14-bit samples stops** (`tx_path_top.vhd:233`, run `tx_live_14`).
  For this width `pct_size` is 0x100, which makes 126 words the level at which
  `packets2data` calls a buffer ready, and only while the level is exactly 126. A
  packet has 510 words of payload whatever the width, and `p2d_rd` reads 510. When
  the level passes 126 while the reader is busy with the other buffer, that buffer
  is never ready: the reader waits for it, the writer for an empty one.

* **The waveform player counts and stores a word that was never there**
  (`wfm_player.vhd:456`, run `wfm_count`). After each burst the FSM waits five
  cycles and then takes the level of the input FIFO for settled: "it is essential
  to wait 2 cycles after write operation to know correct number of words in
  wfm_infifo" (lines 453-454). The last beat of the burst is fetched when the traffic
  generator has room for it; if the memory stalls until the buffer is full, that is
  later. The generator is still `ready` then, as its buffer looks at the beats it
  has and not at those it is owed (`avalon_traffic_gen.sv:332`), and `rdempty` still 0:
  the FSM issues a single write for a word that the owed beat takes. The counter,
  meant "to count exact number of words written to external memory" (line 282), is
  one too high, a stale word is stored behind the waveform, and playback plays it each
  round. In an odd case the surplus makes the burst count fall to 0 in
  `do_burst_write`. `PlaysWaveform` says what holds as long as the count is right.

Behaviour of the code that the models contain and no line of the repository
contradicts; the properties exclude it where they must:

* *Control channel.* `getFifoData` looks at the status once and then reads
  sixteen words (`main.c:93`): a program that writes slower than the firmware
  reads has torn commands executed (kind "slow"). The reset that the firmware
  toggles before every command (`main.c:1098`) reaches no FIFO
  (`pcie_top.vhd:149`, `998`); what realigns both sides is the closing of the
  device files.
* *Dispatcher.* `LMS_RST` and `ANALOG_VAL_RD` answer completed although they counted
  errors (`main.c:1178-1183`, `1319-1325`); `wiper_pos` is set before the value is
  checked (`main.c:1355-1356`); `LMS7002_RD` does not check the chip's number as
  `LMS7002_WR` does; the four blocks that make up an ADF4002 setting may
  come in any number.
* *Reset of the second LMS7002M.* `LMS_RST` for chip 1 changes bit `LMS2_RESET` of
  register 0x13 (`main.c:1141`), which drives nothing: the pin of chip 1 is bit
  `LMS1_RESET` of the second bank (`lms7002_top.vhd:388`, `lms7_trx_top.vhd:1309`, `1328`).
  It is reset by `LMS_RST` for chip 0 when register 0xFFFF selects bank 1 alone
  (`cfg_top.vhd:157`). With several banks selected `LMS_RST` reads the OR of
  them, writes it to all, and resets both chips. `ReadBack` and `DevicesAsBelieved`
  speak of a host that knows this.
* *PLLs.* After a time-out the core may finish later: the next start is ignored
  once, and the firmware reads a lock that is that of the old configuration
  (`pll_rcfg.c:87`, `altera_pll_reconfig_core.v:361`): one wrong "done", which
  `AppliedWhenDone` excludes as `late`. `PLLCFG_STATUS` after a phase request is the
  result of an earlier configuration, or indeterminate (`main.c:927`).
* *Tamer.* An interrupt that comes while the tamer is switched off is kept
  (`vctcxo_tamer.c:162`) and makes a tuning step of the next calibration, whose first
  point is then wrong (`late`).
* *TX input.* A program that closes the stream in the middle of a packet resets
  the FIFOs asynchronously (`pcie_top.vhd:622`), whatever `p2d_wr_fsm` is doing: it
  takes the last word it saw for the words that are missing, for the header too
  if it had seen the level and not yet the word. `InOrder` excludes such torn packets,
  and asserts that the next one starts at its header.
* *Waveform player.* `NoOverflow` holds
  because three words read give two to the output FIFO, on all of `Latency`.
* *Loss report.* A loss in the last seven cycles before the clear of an earlier
  one is never reported, nor one that stood in the header of a discarded packet.

## 6. Limits

* `TwoFifo`: the stream may close at any clock, but is opened again only when
  `p2d_wr_fsm` has finished its packet and its registered level has fallen, some
  twenty microseconds at the most; opening a device file takes the host longer.
* `ControlChannel`: a program starts only while the firmware polls for a command, not
  in the middle of the one a program before it left.
* A change of configuration (sample width, synchronisation) while a stream runs
  is not modelled; the software stops the stream first.
* Own reads are visible in `rdusedw` at once, as in the single-clock side of
  `dcfifo`.
* Comparisons with the 64-bit sample counter are modelled by their outcome; the
  counter does not wrap in the lifetime of the board.
* `Dispatcher`: an LMS7002M loses its registers when its reset pin is low, ignores
  writes and answers anything until it is high again; its supply (`CORE_LDO_EN`, in the same
  register) stays on. The FPGA is not reset while the firmware runs. Commands with more blocks than fit into the answer are not
  modelled for reads (`main.c:1264` checks none). The errors of LM75 are ignored
  by the code and the temperature is an arbitrary value.
* `Tamer`: the host does not write the DAC while it is being tuned; `EndsAssumption`
  (the error at either end of the DAC exceeds a tolerance) and `TunableAssumption`
  (bounds of the gain, section 4) are properties of the oscillator. The 2^15 cycles of the reset hold are one step. In the top level
  of this build the tamer's register is tied to 0 (`lms7_trx_top.vhd:687-688`).
* `WfmPlayer`: the memory serves commands in order; waveforms have two words at
  least; a new load begins after the last word of the one before is stored; the
  host does not restart the load while reads are under way (`NoReads`).
* `LossReport`: the two clocks have the same frequency, any phase.

### Not modelled

* **Vendor and generated code.** Most of the C in the repository is of this
  kind: the DDR3 calibration sequencer of the memory controller (11 500 of
  29 000 lines), the HAL and drivers of the Nios board support package with its
  generated headers (14 900). They are not this project's program; FIFOs, PLL and SPI
  cores, PCIe and memory appear as external actions. The firmware proper
  (`nios4usb_app`) has 2 200 lines, and the largest part of the models stands for
  VHDL. This bounds the share of C lines the map can cover (1 500 lines, 1 200 of the 1 478 of `main.c`).
* Sources that nothing in this build instantiates: `config_ctrl` and `dyn_ps`
  (PLL control in logic), `avmm_arb` with `DDR3_avmm_2x32_ctrl`, `handshake_sync`,
  `slaveFIFO2b_stream`, the state machines of `wfm_ram_buffer`; functions that nothing
  calls: `UpdatePHCFG`, `set_Phase`.
* `Configure_LM75` (one write at start), the inside of the I2C driver, the bits of
  an SPI byte, the accuracy register and the 10 MHz mode of the tamer, the values of
  the PLL counters.
* The routing of stream words by `wfm_load` in the middle of a packet
  (`pcie_top.vhd:600-690`), the channel modes of `diq2fifo`, the clearing of the sample
  counter from software.
* The DSP chain: pipelines without control.

## 7. Plan

1. *Done*: the TX path with its proofs, the TX input, the RX path, the loss
   report, the control channel with its refinement, the dispatcher, the main
   loop with ADC, PLLs and SPI, the tamer, the waveform player.
2. *Done*: the proofs of section 4.
3. Proofs left: `NoOverflow` of `WfmPlayer`, for a buffer no deeper than the
   latency of the memory, and a relation of the constants under which `ExactCount`
   holds.
4. `CaptureBuffer`: start and done of a capture of three streams
   (`data_cap_buffer.vhd`, `lms7002_top.vhd:405-443`).
5. `BitPack`: packers as functions on bits with the unpackers as their inverse;
   `fifo2diq` and `diq2fifo`.
