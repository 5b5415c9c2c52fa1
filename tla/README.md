# Verification of the RealtekWifi driver

TLA+ models, TLC runs and TLAPS proofs for the unfinished Realtek Wi-Fi driver in `src/`. Paths below are relative
to `src/RealtekWifi/src/` unless they start with `src/`.

## 1. The system

| Part | State it keeps | Operations | Interacts with |
|---|---|---|---|
| RealtekWifi kext (`RealtekWifi.cpp`) | provider, BAR mapping, `rtw89_dev`, work loop, interrupt and timer sources, two DMA buffers | `start`, `stop`, `handleTimer` (once, one second after start), `enable`/`disable`, `outputPacket` (drops) | IOKit calls it; the timer handler runs on the work loop behind its gate and calls everything below |
| CH12 ring (`rtw89/pci.c`) | one buffer descriptor, one buffer, `wp`, flag `CH12_INIT`; the register `R_AX_CH12_TXBD_IDX` shared with the device | `ring_init`, `ring_deinit`, `send_h2c` | the DMA engine reads descriptor and buffer from memory on its own |
| Firmware download (`rtw89/fw.c`) | local loop state, flag `FW_RDY` | `rtw89_fw_download`, `rtw89_fw_check_rdy`, `rtw89_fwdl_enable_wcpu` | sends through the CH12 ring; polls status bits the on-chip CPU (WCPU) sets |
| Power switch (`rtw89/mac.c`, `rtw89/rtw8852b.c`) | flags `POWERON`, `DMAC_FUNC`, `CMAC0_FUNC`; about fifteen registers | `pwr_on` (with one retry through a power off), `pwr_off`, XTAL SI writes | register polls the hardware answers |
| rtw88 (`rtw88/*.c`) | DMA rings, firmware, FIFO boundaries, channel; compiled, called by nobody | ring setup and teardown, interrupt handler, firmware download, MAC init, channel setting | four chip tables; register polls the hardware answers |
| AirportRtlwm (`src/RealtekWifi/AirportRtlwm/`) | scan cache with one cursor, connection state | `apple80211Request` | IO80211 family |
| Utilities (`util/`, `platform/osdep.h`) | - | list, bitmap, moving average | - |

The hard behaviour is in the first three rows:

* **The DMA handshake.** The driver writes a descriptor and a buffer, then an index register; an engine reads memory
  concurrently; completion is another half of the same register. Stores may be delayed until the barrier. A timed-out
  send leaves its descriptor posted. There is one descriptor and the code always uses index 0.
* **Download.** Two nested loops over sections and chunks, four kinds of failure in each of three attempts, over a
  channel whose return value means less than it seems to.
* **Life cycle.** `stop` can arrive while the timer is armed, expired, or its handler is running; it frees memory the
  engine may be told to read; a reloaded kext inherits the chip's registers, its running CPU and the status that CPU reports.

What makes each part correct:

* ring: a send returns; it returns 0 only when the device took a packet; nothing the device may fetch changes under it;
* download: packets tile the sections; ready means all of them were sent in that attempt; no read outside the image;
  exactly three attempts;
* kext: no handler after `stop`, nothing released under a running handler, the engine reads only live memory, the ring is
  reprogrammed only while halted, the doorbell rings only on a running channel, ready comes from this load's CPU;
* power switch: flags and results agree with the chip, through half-finished sequences and the retry; a field holds what its
  mask leaves of the value;
* rtw88: teardown frees everything, wherever setup stopped, and twice only in the lives named; interrupts are counted once, whatever arrives while they
  are cleared; the section walk of the firmware download stays inside the image; an initialised MAC belongs to a chip that
  answered, and its boundaries are those the driver remembers; the channel registers follow the channel;
* Airport: a scan result goes to one client once; what clients read of the connection is what the last link message
  announced; the timer is quiet after stop.

`PROJECT.json` lists every component, and under `hazards` everything here that is hard to test.

## 2. The modules

| Module | Models | Kind |
|---|---|---|
| `Ch12Dma` | `rtw89/pci.c` with the engine and the memory system | detailed specification |
| `H2CMailbox` | what `send_h2c` promises | abstract specification, refined by `Ch12Dma` |
| `FwDownload` | `rtw89_fw_download` over any channel and any chip | specification |
| `FwdlOverCh12` | the download calling the ring | composition; refines `FwDownload` |
| `RealtekWifi` | `start`, `stop`, timer, `handleTimer`, engine, on-chip CPU, over reloads | specification |
| `LoadCycle` | what the kext promises about its loads | abstract specification, refined by `RealtekWifi` |
| `PowerSwitch` | `rtw89/mac.c` power switch over the sequences of `rtw89/rtw8852b.c` | specification |
| `AirportRtlwm` | `start`, `stop`, timer, scan cache and connection of the AirportRtlwm kext | specification |
| `Rtw88Pci` | an rtw88 device from allocation to release, with the memory of its rings and its interrupt handler | specification |
| `Rtw88Bringup` | MAC initialisation, firmware download and channel setting of rtw88 | specification |
| `Rtw88Chips` | what `Rtw88Bringup` uses of the four `rtw_chip_info` tables | data |
| `MC*` | values TLC uses | model checking |
| `*Proofs` | theorems about the module of that name | proofs |

### Ch12Dma
A packet is the number of the call that sent it; 0 stands for memory without a packet (zeroed, half rewritten, released).
`send_h2c` is split where another actor can interfere: `SendBegin` (memset), `FillBuffer`, `WriteBd`, `Doorbell` (barrier
and index write), then one action per register read of the poll: `PollDone`, `PollAgain`, `PollTimeout`. Debug fields and
`ring->wp`, which nobody reads, are left out. `buf`/`bd` are what the CPU wrote, `dmaBuf`/`dmaBd` what the device sees;
`DrainBuf` and `DrainBd` copy one to the other at any time and in any order, `Barrier` copies both. The engine latches
the descriptor (`EngineLatch`) and reads the buffer later (`EngineFetch`), whenever its index and the host's differ.

The device is not in the repository, so its index arithmetic is a constant: `IdxModulus = 1` is a device that honours the
programmed `TXBD_NUM` of 1 (the host's 1 is then index 0 again); anything larger is one that counts on. `ring_free` and
`over_free` check the latter; the theorems hold for both.

`H2CMailbox` says what callers may rely on: until a call fails, the device can take only the packet of the running call;
after a failure it may take any packet offered so far, or garbage; at most one packet is ever taken; and success means
only that the mailbox *has been* emptied.

### FwDownload and FwdlOverCh12
An image is its header version, its section sizes, its length, and `at`, the place where the format puts each section
(an assumption relates `at` to the sizes, and is used by the proofs in place of a recursive sum). Each send succeeds or
fails freely, and the WCPU sets its status bits freely, so the results hold over any channel and any chip. A poll is one
step that either sees the bit or has run out; FwDownload keeps no number of polls.

`FwdlOverCh12` turns each send into a call of `Ch12Dma`'s `send_h2c` (`Call`, `Inside`, `Resume`) with the engine and the
memory system beside it, and restricts the WCPU to one that needs a packet before it opens the FWDL path and a second
one before it boots. `ImplementsDownload` shows the result is still a `FwDownload`; `HeaderIsAll` is what comes of it, the symptom
of `src/README.md:17`.

### RealtekWifi
Steps of `handleTimer` are grouped by the register that matters to the channel or the CPU; the handler holds the gate for as
long as `step` is not `"none"`. `RemoveSources` waits for that gate (IOKit's `removeEventSource` runs the removal under it).
`StartFails(k)` fails `start` at its k-th acquisition and leaves the instance where it is (see the assumptions). Memory is named by the load that allocated it, so that a reload can be
told from the load before; and so is what runs on the on-chip CPU (`wcpu`) and what it has reported (`sts`). The handler halts
the CPU (`CpuHalt`), clears the status (`CpuClearStatus`) and starts the CPU (`CpuStart`); in between and afterwards the CPU
reports when it likes (`WcpuReady`), and `rdyBy` remembers whose report made the download succeed. `dle` stands for the two
blocks of the DLE in `R_AX_DMAC_FUNC_EN`: power on sets them, `rtw89_mac_dmac_pre_init` writes the register without them. A
send is its doorbell and its poll; `Ch12Dma` has the detail.

Before power on the handler walks over the PCI capabilities, `while (cap2)` without a bound: `EnterWalk` reads where the list begins, `WalkOn`
goes to the next offset, `WalkEnds` finds the end of the list or power management. `cap` is the offset, `seen` what has been read so far:
configuration space is not in the repository, so a byte of it has any value, but the same one when it is read again. A walk that is back at an
offset it has passed (`Circling`) will pass it again, and so on; it is the one wait of the driver that need not end.

`LoadCycle` is the promise: the work of a load is done at most once, on an instance that is whole; an instance is taken apart only
when that work is over and cannot come again; and a load is ready by its own work or not at all. `RealtekWifi` implements it with the
timer handler as the work (due while the timer is armed or has fired, running while `step` is not `"none"`), what the handler
dereferences as the whole, and `rdyBy` as the report (`ImplementsLoadCycle`).

### PowerSwitch
A register sequence is a sequence of records: set a bit, clear a bit, poll, write through XTAL SI (which ends in a poll).
`Step`, `PollSees` and `PollTimesOut` interpret it; `Failed` and `Completed` are what `rtw89_mac_power_switch`, `pwr_on` and
`pwr_off` make of its end. An XTAL SI write has a mask and a data argument, in the order the function takes them, not the one its callers
seem to mean; one that timed out may have taken effect. `Field` is a masked 32-bit write: `rtw89_write32_mask` does not shift
the value into the field, so what remains of it is `val \div unit`, and the model keeps whether that is zero.
The chip serves the requests ONMAC and OFFMAC at any time, also after the driver has stopped waiting, and starts as an
earlier load left it. `efuse_valid` and `rfe_type` are never set in the driver, so lines 185-197 of `rtw8852b.c` and the first
branch of `rtw8852b_pwr_sps_dig_off` are dead. A read-modify-write is one step. In the repository only `handleTimer`
calls `pwr_on`, once a load; the module also lets `pwr_off` and a later `pwr_on` follow, and `Reload` forget the flags.

A power off that times out waiting for OFFMAC leaves the flags as they are, and the chip may go down afterwards: the code has
no remedy for this, and `PowerAsTold` excepts it (`lateOff`).

### AirportRtlwm
A request is one action, because the family serialises requests; `EBUSY` is then never returned. `link` is what can be read of
the connection at the moment a message is posted, and `view` collects the replies clients have read since then, one part of the
connection a request (`Read`). Networks stand for BSSID and SSID together. `StartFails` keeps what
`start` had acquired, as the code does (that the instance stays is assumed, see there), with the timer running if the interface could not be attached, and with or without the sources
that `start` creates and does not insist on.

### Rtw88Pci
Nobody in the repository calls this code, so the module takes the calls its header offers: `rtw_alloc_dev`, `rtw_core_init`,
`rtw_core_deinit`, `rtw_free_dev`, and the interrupt handler while the rings stand. A block is named by the pointer that is to
hold it: `ptrs` says which pointers are not NULL, `heap` which blocks exist. Setup stands at the `next`-th allocation of the `nth` ring,
and what that allocation is (`Due`) is a function of the two. `kfree` is `IOFree(p, 0)`; that this releases the block is assumed.
`FreedTwiceExactly` states the double frees of this code as they are: which lives of a device have one (a ring that setup undid by itself,
`undone`; a `rtw_core_deinit` that found rings, `emptied`), and that no other has.
The handler is split at each access of HISR, so that an event can fall between any two.

### Rtw88Bringup
Nobody calls this code either. The exported calls are taken in any order: `MacPowerOn`, `MacEnable` and `LltDone` are
`rtw_mac_init` between its polls; `MacPostinit`; `FwBegin`, `SectionHeader`, `Section`, `WalkEnds`, `Trigger` and `FwReady` are
`rtw_fw_download`; `SetChannel`; and `PowerCall` is `rtw_power_on` or `rtw_power_off`, which call themselves through the chip's
operation and never return. A poll is counted (`PollAgain`, `PollTimeout`). The boundary registers are bytes of memory, because two of them
overlap. The contents of an image are not looked at by anybody before the walk, so a section header is chosen when it is read:
its size freely, its type zero or not, its address inside the chip's memory. The chip answers the power request, finishes its list
and reports on the firmware at any time, and takes `BIT_MCUFWDL_EN` back or does not. A write to a register the chip also reports in
may leave the reported bits or clear them.

## 3. Runs

| Run | Question | Outcome |
|---|---|---|
| `ring_free` | three sends, two payload lengths, two polls a send, engine counting on | all properties hold |
| `ring_stale` | "section-by-section DMA delivery" (`src/README.md:14`): does 0 mean delivered? | violated: the second send returns 0 on the first one's index |
| `fwdl_small` | six images that meet every loop boundary, three attempts, section cap 3 | all properties hold |
| `fwdl_long` | are all sections sent before success (`src/README.md:8` counts 26)? | violated: the 17th is not looked at |
| `fwdl_shipped` | does the download deliver the embedded binary (`src/README.md:14`)? | violated: sizes read from it run past its end |
| `over_free` | download on the ring, six sends, two attempts | gets to the header and no further; still a `FwDownload` with its fairness, hence it returns |
| `kext_reload` | three loads, three sends each, any list of capabilities, `stop` at any point, CPU and engine beside it | all properties hold |
| `kext_blocks` | are the blocks that "Toggle HCI_FUNC_EN" (`RealtekWifi.cpp:350`) and "enables full DMA function blocks" (`:246`) name enabled during the download? | violated: bit 2 of HCI_FUNC_EN is not written back, and the DLE bits are overwritten |
| `power_calls` | three calls, any poll timing out, any state of the chip before | all properties hold |
| `airport_clients` | two clients, two scans of two networks, three kinds of reads, `stop` at any point | all properties hold |
| `rtw88_device` | eight TX and two RX rings, any allocation failing, at most one `rtw_core_deinit`, events at any step of the handler | all properties hold |
| `rtw88_bringup` | any two calls on each of four chips, five lengths of image, six section sizes | all properties hold |

Some of what holds is not what one would wish. `AnalogStaysOn` says that no power off takes back an analog switch,
`FieldsAsMasked` that two of the three fields the power on writes end as zero, `ReadyNeedsChip` that the rtw88 download succeeds only if the
chip clears a bit the driver sets last, `BoundariesHalfAgree` that the high byte of one boundary register is the low byte of another.
They are stated as the code has them, because nothing in the repository promises otherwise and because a change to that code should
have to face them. `TimerAsLife` says, beside that the timer is gone after stop, that a driver whose `start` failed at its last step goes
on ticking, because nobody stops it. `FreedTwiceExactly` says when a block is freed twice, and the `StopFinishes` of `RealtekWifi` has an exception:
a list of capabilities that leads back to itself, as one that reads 255 everywhere does, holds the gate for ever, and no `stop` gets past it
(`CircleNeverEnds`). `BlocksOff` says that firmware is sent with blocks disabled that the comments call enabled.

The embedded file deserves a word. It starts with `ff 04`, and the word at offset 24 is `0x00041af8`; the driver takes bits
15:8 of it, 26, for the number of sections. The section headers that follow are then words of other tables and of code.
The third section already ends beyond the 1035232 bytes of the file.

### Bounds
* `MaxSends = 3`: the stale completion needs two sends, a late fetch of an older packet during a newer send needs two,
  and a third shows nothing new starts after that; the ring has no other memory of how many sends there were.
* `PollBudget = 2`: one read that goes on and one that gives up. The code's 10000 reads (100 or 500 in rtw88) differ only in
  number.
* `Lens = {48, 2020}`: two lengths, so that a descriptor of one packet can meet the buffer of another.
* `fwdl_small`: `PartSize` is the real 2020; sections of 2020, 2021, 5000, 1 and 0 bytes cover exact, one over, three
  packets and empty ones in every position; one image is shorter than its table says and one below 64 bytes. `SecCap = 3` lets an
  image of four sections reach the cap; `fwdl_long` and `fwdl_shipped` use the real 16.
* `over_free`: one image of a header and two packets, two attempts: six sends, the most it can make.
* `kext_reload`: one load cannot inherit anything, two can, and a third inherits from one that inherited; the chip's registers
  start arbitrary and its CPU may run, so the first load stands for one after another driver's. `IdxModulus = 3` keeps 1 and 0
  apart from an index that ran on. `MaxCap = 2` has lists that end at once, after one capability and after two, circles of one and of two, and a
  circle of one behind another capability.
* `power_calls`: `MaxCalls = 3` is on, off, on; the state between calls is flags and chip, and a call has no other memory.
* `airport_clients`: the two networks a scan of the code adds, and its cache of 32, which two never fill; two scans, so that a cursor can
  be left over; two clients share it. `Asked` are three of the eight parts that can be read: one of the network, one of the state, one that is
  never reset.
* `rtw88_device`: the real rings, and 3 of the code's 64 data buffers, so that a failure can come first, in the middle and last;
  2 descriptors and a count modulo 4 for the code's 128 and 2^32, so that both wrap within four events of a kind.
* `rtw88_bringup`: images one byte short of a file header, one byte short of a section header, and with room for one section and for several, with and
  without bytes left over; section sizes that are empty, no multiple of four, two and three words, and more than any image holds. Two calls, because
  what a call finds is what one call before it left; a channel below and one above 14.
* Runs with `CHECK_DEADLOCK FALSE` end where the code does: a bounded number of calls, a failed start, a device that is gone, a
  download that has returned.
* In `RealtekWifi` the code allows any number of loads; a failed or last load ends the model, hence `CHECK_DEADLOCK FALSE` there too.

### Fairness
Driver code only: `WF(SendProgress)`, `WF(Driver)`, `WF(DriverStep)`, `WF(Handler)`, `WF(Stop)`. All waits in the driver are
`read_poll_timeout` with a decreasing count, loops with a bound, or `IODelay`, and a work loop thread that has been started runs on. The walk
over the PCI capabilities is the exception: it has no bound, fairness only makes it go on, and a list that leads back to itself keeps it going
for ever. `StopFinishes` says so: a stop that has begun finishes, or the walk is in a circle.
Nothing is assumed of the DMA engine, the WCPU, the rtw88 chip, the timer or the threads that call `start` and `stop`. `PowerSwitch`
assumes the same: `WF(Sequence)`.

`AirportRtlwm` needs more. Its timer handler takes the gate every second for a moment, so a thread waiting for it in `stop` gets it
in between: `SF(Stop)`, beside `WF(Timer)`. `Rtw88Pci` states no liveness.

## 4. Proofs

Every theorem holds for all values of the constants that satisfy the assumptions named in the module. None of the safety properties but the
simplest is inductive; each proof module defines an invariant `IInv` that is, proves that every action keeps it, and derives the properties.

| Module | Proved | What `IInv` adds |
|---|---|---|
| `Ch12DmaProofs` | every invariant and the action property of `ring_free`, the refinement of `H2CMailbox`, at most one honest delivery, the bound of a call | `CallInv`: what `buf` and `bd` hold at each place of the call; `IndexInv`: the host index never returns to 0 and the device index follows it once; `FrozenInv`: while no send has timed out and a fetch is possible, the driver polls in its first call and CPU and device see the same memory; `FirstInv`: what was taken is packet 1 |
| `FwDownloadProofs` | every invariant of `fwdl_small`; exactly the attempts allowed are made; a success has stopped at the section cap; every step goes forward | `base` is the start of the current section, and base + off is where the last packet ended |
| `FwdlOverCh12Proofs` | `HeaderIsAll`; a run of the composition is a run of `FwDownload` and one of `Ch12Dma`, mailbox included; what is proved of either holds of it; a download that ends has failed | both invariants above, since each step of the composition is a step or a stutter of each part; `NotBooted`; `SendsAfterPath` |
| `RealtekWifiProofs` | every invariant and the action property of `kext_reload`, the refinement of `LoadCycle`, the blocks that are off in a download, the bound of what `stop` waits for outside a circle of capabilities, and that a circle never ends | `WalkInv`: behind a capability passed lies another one passed, or the one the walk is at; `LifeInv`: a handler that runs or may run has what it uses, and one that runs has used up its timer (without which the work could start twice); `CpuInv`: between halt and start the CPU is silent, so a cleared status stays cleared; `ChannelInv`: which channel bits hold in which stretch of the handler; `IndexInv`: without a timeout the two indices differ only inside the first send of a load |
| `PowerSwitchProofs` | every invariant and the action property of `power_calls`; a call makes at most 104 steps | what is true of ONMAC, OFFMAC and the fields at each place of either sequence (`RequestInv`, `MacInv`, `FieldInv`); a lemma about the sequences says where in them these bits are touched at all, and that every other step is quiet; the retry happens once (`RetryInv`) |
| `AirportRtlwmProofs` | every invariant of `airport_clients` | the cursor is inside the cache; a cache holds a network once, since a scan finds it once; the two directions of `EachResultOnce`; before `start` nothing was read; a timer not removed is armed |
| `Rtw88PciProofs` | every invariant of `rtw88_device` | `FreeInv`: until a ring is undone or emptied every pointer has its block, from then on some pointer teardown follows has none, until it is followed. `HeldInv`: where setup can stand; every pointer is one teardown reaches, and until the device is released every block has its pointer. `EventInv`: no bit is raised more often than its event came. What the handler has read and not cleared is still set; remainders |
| `Rtw88BringupProofs` | every invariant of `rtw88_bringup`; a bound of every call | where the walk stands beyond the last section written; the enable bit is set until the chip takes it; REG_CR is empty on a chip without power |

More theorems than runs:

* the ring: at most one packet is ever taken (`DeviceTakesOne`), no call returns 0 before one was (`SuccessIsTaken`), an index modulo 1
  completes nothing (`OneBdDead`), and if every 0 was a delivery there was at most one 0 (`OneDeliveryAtMost`, the finding of `ring_stale`
  for every run);
* the download: exactly the attempts allowed are made (`AttemptsExhausted`); a success has not looked behind the cap, whatever is there
  (`SuccessStopsAtCap`, the finding of `fwdl_long` for every image);
* the two together: the composition is a download (`StillADownload`) and a ring (`StillARing`), its packets tile the image and stay inside
  it (`SafeOverRing`), and if it ends it has failed (`EndsInFailure`), for every image, budget and modulus;
* the kext: whatever the chip was left with, `FUNC_EN` and both functions of the DLE are off while firmware is sent (`BlocksOff`, the
  finding of `kext_blocks` for every load); a capability walk that is in a circle stays in it, and the instance is never taken apart (`CircleNeverEnds`);
* termination: `CallIsBounded` (of the ring, the power switch and the rtw88 bring-up) and `StopWaitsBounded` give a number of steps that is
  left, lowered by each step of the driver and raised by nobody inside the call (for `stop` at most `2 * MaxSends + 16 + MaxCap`, unless the
  capability walk is in a circle); `DownloadAdvances` gives an order in which each step goes
  forward, within bounds the image gives. They are the part of `SendReturns`, `Terminates`, `CallReturns`, `CallsReturn` and the
  `StopFinishes` of `RealtekWifi` that has nothing to do with fairness; TLC adds the fairness on small instances. The `StopFinishes` of
  `AirportRtlwm` has no such number: its handler runs again and again, and it is `SF(Stop)` that ends the wait.

`FwdlOverCh12Proofs` takes the ring's lemmas through an instance of `Ch12DmaProofs`; what that module assumes of its constants is proved of the
instance first (`RingParams`).

Assumptions: the callers' lengths fit the buffer, so that the u16 sums of `send_h2c` do not wrap (`LensAssumption`, `RingAssumption`); a
packet holds at least a header (`ParamAssumption`); the table of an image places sections one behind the other (`ImageAssumption`); the
device index counts modulo more than 1 in `RealtekWifi`; a scan finds a network once (`FoundAssumption`); the TX and the RX rings are
sequences with no ring in common, none named like the device itself, and the ring length divides the range of the counter (`RingsAssumption`); a page size is not 0
(`ChipAssumption`), a section size is 16 bits wide (`SectionAssumption`); bounds are natural numbers.

Assumed of what is not in the repository: `IOFree(p, 0)` releases the block at `p`; a byte of configuration space that is read twice has the same
value; an instance whose `start` has returned false stays where it is. IOKit normally releases such an instance; when this
happens, and what becomes of a timer that is armed, the source does not say. The states after
`StartFails` of `RealtekWifi` and `AirportRtlwm` are those of the time until then, and what `HandlerOnLiveInstance` and `TimerAsLife` say of
a failed start is said of that time only.

Only model-checked: liveness (`SendReturns`, `Terminates`, `StopFinishes`, `CallReturns`, `CallsReturn`) and the fairness half of
`ImplementsDownload`, which the prover does not do. Every invariant and action property of a passing run is a theorem.

## 5. Not modelled

About half of the lines of code in the repository are vendored IOKit headers, and another large part is register names of which the driver
uses few; there is no behaviour in either to model, which is why the share of lines covered stays low although the code of the driver itself is
mostly covered.

* The vendored IOKit headers, build rules and products.
* Register values beyond the bits the properties are about, PHY settings, the write that wakes the function up (D0), logging and `setProperty`.
* The release of an instance whose `start` has failed.
* Bit layouts of descriptors and headers; the accessors of rtw88 for them have no caller.
* `util/` and most of `platform/osdep.h`: no function of the driver calls the list, bitmap and average helpers, so no state of it depends on them.
* `enable`, `disable` and `outputPacket` of both kexts, and the `IOMemoryMap` that `start` never releases. That IOKit does not call `enable` after `stop`
  is not in the source.
* `cmac_func_en_ax`, whose bits nobody reads; `rtw89/rtw8852be.c`, which nobody calls; the branches guarded by `efuse_valid` and `rfe_type`, which
  nobody sets.
* `rtw_fw_send_h2c_cmd`, static and without a caller; the rtw88 chip operations that write constants nobody reads back.
* Section addresses of an rtw88 image outside the chip's memory.
* Requests of AirportRtlwm that answer with a constant, and the type of a request.
* That the DMA engine is idle when `handleTimer` clears the indices: the poll of `RealtekWifi.cpp:369` may time out and its result
  only goes to a registry property, so this does not hold. What holds is that the channel is halted (`ProgrammedThenRun`).

## 6. Plan

1. `enable` and `disable` of both kexts against `stop`, once the calls IOKit makes are fixed as an external specification.
2. `RealtekWifi` with `Ch12Dma` in place of its sends and `PowerSwitch` in place of `PowerOn`, the two sharing the chip's registers over reloads.
