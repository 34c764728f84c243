# A formal model of at32f405-app

at32f405-app is the firmware of a debug probe: an AT32F405 microcontroller that
runs RT-Thread, with a high-speed USB interface to the host (CMSIS-DAP and two
serial ports), SWD and JTAG to the target, a UART and CAN bus, a small touch
display, an SD card and a real-time clock. This directory holds TLA+ modules
translated from its C source, TLC configurations that check them on small
instances, and proofs for TLAPS that hold for every value of the constants.
Paths such as `usb_cdc.c` are below `src/applications/`.

## How to run

    tlc -workers 2 -config CdcTransmit_all.cfg MC_CdcTransmit
    tlapm CdcTransmitProofs.tla

`PROJECT.json` lists every run with its module and configuration, the mutants
(one for each property: a plausible bug that the property must catch), the lines
of the source each definition stands for, the findings, and the theorems.

## The system

There is one core. The USB interrupt runs the endpoint callbacks and
`usbd_event_handler`, and everything they call, to the end between any two
instructions of a thread; threads are preemptive and meet each other in
semaphores, event flags and message queues. The models therefore have one action
for each handler that runs in an interrupt, and one action for each access of a
thread to state that an interrupt or another thread also uses.

| Component | State it keeps | Operations | Meets |
|---|---|---|---|
| USB serial, to the host (`usb_cdc.c`) | `cdc_is_configured`, dtr flags, `ep_write_sem`, `cdc_tx_busy_sem`, the IN endpoints | `cdcX_write`, IN callbacks, reset, configuration, dtr | every thread that prints |
| USB serial, from the host (`usb_cdc.c`) | ring buffer and `read_busy` of each port, the OUT endpoints, `cdc0_wqueue` | OUT callbacks, `cdcX_get`, `cdcX_getchar`, `cdc0_getchar_timeout`, reset, configuration, dtr | aux thread, rtt console, gdb server |
| Aux thread (`aux_cdc.c`) | event flag, copy buffer | wait for the event, copy to the uart | serial port 1, uart, `rtt_enabled` |
| DAP transport (`usb_dap.c`) | request and response buffer | two endpoint callbacks, configuration | free-dap |
| free-dap (`free-dap/dap.c`) | port, retry counts, match mask, JTAG chain and cached instruction, buffers | the DAP commands | the target, through the pins |
| Uart and line coding (`aux_uart.c`, `usb_cdc.c:76-121`) | device handle, message queue, last coding | receive interrupt, thread, `cdc1_set_speed` | serial port 1 |
| CAN logger (`canbus.c`) | semaphore, last message | receive interrupt, thread | serial port 1 |
| Display (`lvgl_display.c`) | pixel queue, SPI width | flush, pixel pump | LVGL |
| SPI driver (`patches/drv_spi.patch`) | flag and semaphore of each DMA channel | transfer, DMA interrupt | display, SD card |
| Touch (`lvgl_touchpad.c`, `lv_nopoll.c`, `ui/ui.c`) | interrupt semaphore, gesture queue, tile | interrupt, thread, LVGL events | LVGL |
| SD card (`sdcard.c`) | `sdcard_mounted`, debounce timer, power of the slot | pin interrupt, timer, mount threads | file system, user interface |
| Clock (`ds3231_util.c`) | the DS3231 with its stopped bit, the clock of the processor | `ds3231_sync`, `ds3231_date` | I2C |
| Backlight (`backlight.c`) | filtered brightness, duty cycle | thread | light sensor, LVGL |

What is hard here, and what each component must guarantee:

- *Serial, to the host.* Two ports share two semaphores, completions arrive in
  the interrupt, long messages need a zero-length packet, the bus may be reset at
  any time. One transfer at a time; a buffer is not given back while it is being
  sent; a completion lets the right thread go on; messages stay whole; every
  write ends.
- *Serial, from the host.* The interrupt and the readers each decide whether to
  start the next read, on flags the other changes. Nothing is lost, repeated or
  reordered; the port is never left without a read.
- *Aux thread.* The event must not be lost; what the host types reaches the uart.
- *DAP transport.* One buffer each way and several requests on their way: the
  buffers have one user, answers come in order, all of them come.
- *DAP_Transfer and DAP_TransferBlock.* Reads are answered one transfer late,
  writes are acknowledged before they are done, the target may answer anything,
  both buffers are limited. Words, count and acknowledge of the response tell the
  truth; each access is made once and in order; every request ends.
- *JTAG.* Bits are counted by hand over a chain of devices. Each access reaches
  the one register it is meant for, and the remembered instruction is the loaded
  one.
- *Uart and CAN bus.* Received data is announced by a counter or a queue that can
  overflow, and by a callback that is registered late; the host reopens the uart at
  any time. The uart has the rate of the host's line coding; the console of the target
  reaches the host; the log is what was on the bus.
- *SD card.* Contacts bounce, each change starts a thread, mounting takes time and
  may fail. No file system loses its power before it is unmounted, and no card is shown
  without power; in the end the flag follows the card.
- *Clock.* Each transfer may fail, and time goes on between two of them. A clock that
  does not report a stop can be trusted; after a sync both clocks agree.
- *Backlight.* An integer filter must reach the sensor's value and not overflow.

`PROJECT.json` lists the hazards behind these properties, each at its line.

## The modules

### SerialOut, CdcTransmit, CdcTransmitProofs

`CdcTransmit` is the host-bound half of `usb_cdc.c`. Each writer is a thread with
a location in `cdc0_write` or `cdc1_write` (the two differ in the endpoint and the
dtr flag only, so the port is a parameter): `Write` is the call and its test of
the connection, `TakeEp` and `ReleaseEp` the semaphore `ep_write_sem` with its
queue of suspended threads, `BeginTransfer` the call of `usbd_ep_start_write`,
`TakeTx` the wait for the completion. `BulkIn` is the IN callback with its
zero-length packet, `BusReset`, `Configured` and `SetDtr` what the interrupt does
for the host. The endpoint (`in_ep`, `ep_open`) is that of the USB stack, which is
not part of the repository: a closed endpoint refuses a transfer, a reset drops
it without a completion.

`SerialOut` is what callers rely on: messages go out one at a time, a call returns
only when its message has been sent, a message that a reset discards is never
reported as sent. `ImplementsSerialOut` says that `CdcTransmit` implements it, with
the stage of a message computed from the location, the endpoint and the semaphore.

### CdcReceive, CdcReceiveProofs

One port of the receiving half. The host numbers its bytes, so the ring holds
numbers and `last` is the last one taken: order, loss and repetition show. The
thread's steps are those at which the interrupt can come between (`cdcX_get` or
`cdcX_getchar`: the read of the ring, the test of `busy`, the test of the space,
the start of the read, the store of `busy`), the interrupt's are `BulkOut`,
`SetDtr`, `Configured`, `BusReset`. `rt_ringbuffer_get` itself is one step.

### GetcharTimeout

EXTENDS `CdcReceive` with the one reader of port `cdc0` that waits:
`cdc0_getchar_timeout`, with which the gdb server reads. `GetChar` and `GetAgain` are
its two looks at the ring, `TestLoop` the condition of its loop, `WqueueWait`,
`SliceEnds` and `WaitReturns` one turn of the loop asleep, `Wake` what the OUT
callback adds. The wait queue is that of RT-Thread: a wake-up sets a flag, with which
the next wait ends at once. That flag is why a packet between the test and the sleep
is not missed. It is also left over when the bytes it stands for have been read
already, and then a later call gives up early: `TimeoutIsEarned` names this case
(`stale`) and the bus reset as the only ones. The history variables `slept`, `stale`
and `cleared` serve that statement only.

### AuxCdc

EXTENDS `CdcReceive` with its two readers: the aux thread, with the event the OUT
callback sends it and the copying loop, and the rtt console, which reads while
`rtt_enabled` is set. The theorem `PortOfAux` carries what is proved of
`CdcReceive` over to the composition.

### DapTransport

`usb_dap.c`: `Deliver` moves a packet into `USB_Request`, `OutCallback` processes
it and starts the answer, `InCallback` starts the next read. Requests carry a
number and the part of the command that matters for the answer. Processing is
one step because it runs inside the interrupt.

### DapTarget, DapTransfer, DapTransferProofs, DapTransferBlock, DapTransferBlockProofs

`DapTarget` is shared by the two transfer commands: `dap_transfer_word` with its
retries (`Word`, `RetryWord`), `dap_needs_posted_read`, and the debug port at the
other end, which may answer every transfer with OK, WAIT, FAULT, a parity error or
nothing. The target is modelled from the way `dap.c` uses it. A value read is the
number of the transfer that read it, 0 any other value (a variable that was not
written, a corrupt word), so a word in the wrong place is told from one in its
place. `dap_abort` is left out: nothing in the firmware sets it (see the run
`dap_abort`).

`DapTransfer` is `dap_transfer`: `pc` names the call of `dap_transfer_word` under
way, `Fetch` and `Leave` are the head and the end of the loop, the other actions
the calls in its branches. `DapTransferBlock` is `dap_transfer_block`.
The response buffer has room for `Capacity` words, and `bufError` is
`dap_buf_error`.

### JtagChain, DapJtag, DapJtagProofs

`JtagChain` is the other end of the JTAG wires: a TAP controller state and the
registers of each device, moved by one clock at a time. `DapJtag` has the functions
of `dap.c` that produce clocks (`WriteIr`, the operation of
`dap_jtag_operation`, `IdcodeScan`) as sequences of TMS and TDI levels, and
`dap_jtag_configure`, `dap_select_device` and the cached `dap_jtag_ir` as state. The
clocks of a scan, and the sums of lengths, are recursive functions (`After`, `Total`), so
that they can be reasoned about.

### SwdWire, SwdLine, DapLinkProofs

`SwdWire` is the level below `DapTarget`: SWDIO with its direction and level,
SWCLK, and a target that listens for requests and line resets, drives its
acknowledge and its word and takes the probe's, one clock at a time. `Move` is
what one statement of the code does to the wires (a write of a pin, a clock with or
without reading), `Play` a sequence of them, a recursive function so that it can be
reasoned about. `SwdLine` gives each command of
`dap.c` that touches the SWD wires as such a sequence: `Ask`, `Data`, `Refused` and
`SwdRest` are the parts of `dap_swd_operation`, the other commands are named as in the
source. A command runs in the interrupt, so it is one step; `Respond` is the host
getting the response. A command's outcome is judged (`swd_op`) when it begins as the
code expects, with SWDIO driven and a target that listens with the same settings.
After an acknowledge that is none of OK, WAIT and FAULT the code leaves SWDIO an
input (dap.c:407-410), and a DAP_SWJ_Sequence then reaches no target until a connect,
disconnect or DAP_SWD_Sequence: `StaysInStep` therefore asks of a line reset that
SWDIO is driven. It also excepts a line reset whose first bit is the last of a
request (`RequestPending`): a DAP_SWD_Sequence that the target answered with FAULT goes
on clocking, the target takes a word's bits for the beginning of a request, and if it
has heard seven of its eight bits, the first one of the reset completes it and the
target answers into the reset. `ResetAssumption` says what makes 50 ones enough in
every other case: they are more than an answer. `MC_Wires` checks `SwdLine` and `DapJtag` in one run: a behaviour uses
one of the two ports, which share `dap_port` and no other state the properties read.

### Display, Panel, PanelProofs

`Display` is `lvgl_display.c`: where the LVGL thread is between drawing an area
and the queue of the pixel pump (`lv`), where the pump is (`pump`), the two
buffers, and the two things both threads set without a lock, the width of an SPI
word and the DC pin. `flushing` is LVGL's own flag, cleared by
`lv_display_flush_ready`. `Panel` EXTENDS it with the touch controller, which keeps
one gesture, the semaphore its interrupt releases, the thread that reads and
queues it (two steps, since a gesture may be made in between), and
`touchpad_events` in the LVGL thread, with the objects `lv_nopoll.c` chooses and
the callbacks of `ui.c`. Objects are given by their flags, from the one touched up
to the screen. `want` is computed beside the code, from the gestures made: what
the user interface should show.

### AuxUart

The line coding of port `cdc1` and the uart behind it. `SetLineCoding` is
`usbd_cdc_acm_set_line_coding`: a coding is a rate and a format (stop bits, parity, data
bits), it is compared with the stored one and stored as a whole, and its rate alone is
passed to `cdc1_set_speed` (`SetSpeed`: close or find, configure, open, set the callback,
up to the call that fails), which configures the driver for that rate and 8N1. The driver counts its opens, keeps bytes while it is open
and drops them at the last close. `UartInput` is a byte from the target with the
receive callback, which posts a message or finds the queue full. `FindUart`,
`InitQueue`, `InitOpen`, `StartThread` are `aux_uart_init`, one action for each call
between which the host may set a line coding; `TakeMessage`, `ReadUart`, `WriteHost`
are the thread. Its call of `cdc1_write` is one step here, `CdcTransmit` has it in
detail.

### CanLogger

`canbus.c`: `OpenCan`, `StartCanThread`, `RegisterHandler` are `canbus_init`,
`CanReceive` the driver and the callback, `TakeSem`, `ReadCan`, `WriteCan` the thread.
A line is what `can2ascii` makes of a message (`Ascii`), digit by digit; `Parsed` is
the reference, what a reader of slcan makes of the line.

### SdCard

`sdcard.c`: `Edge` is the interrupt of the detect pin, which starts the timer,
`TimerExpires` and `TimerStop` its callback, and `Mounter` a thread in `sdcard_mount`,
step by step, with each of its failures. `dfs_mount` fails on a path that is mounted;
`dfs_unmount` may fail and leaves it mounted (`DfsUnmount`), and its result is not looked
at. `overlapped` remembers that two threads were in `sdcard_mount`, `clashed` only that
one of them unmounted while another was past its look at the pin. An edge may come between the two halves of
the callback, and `rt_timer_stop` then cancels the timer that edge has started. The
mounter has a lower priority than the timer thread (`SdGoto` waits for `in_timer`) and
reads the pin after that edge: this alone makes up for the lost edge, as the mutant
`SdGotoAnyTime` shows.

### Clock

`ds3231_util.c` over the registers of the DS3231: `Dates` are those of this century, `Sync` is `ds3231_sync`, transfer
by transfer, `DateSet` the command `ds3231_date`. Any transfer may fail, time goes on
between two (`Tick`, in both clocks), the processor may restart and the DS3231 may lose
its battery. The conversions are computed in 8 and 16 bits as in the source, the
reference for the day of the week is Zeller's congruence.

### Backlight

`backlight.c`: the thread with its filter and duty cycle in 32 bits. The sensor and
the activity of the display change at any time.

### SpiDma

What `patches/drv_spi.patch` makes of a transfer: `StartDma`, then `TakeTx` and
`TakeRx`, which sleep on the semaphores of the channels for a second at most and go on
in any case, then `Spin`, the loops until the channels are done; `DmaIsr` is the
interrupt. A flag word is the set of its bits, so that the bitwise and of the patch is
an intersection. `Poll` is a transfer without DMA.

### MC_Board

`AuxUart`, `CanLogger`, `SdCard`, `Clock`, `Backlight`, `GetcharTimeout` and `SpiDma` have no
variable in common and none of their actions looks at a variable of another.
`MC_Board` checks them in one run: `part` says which of them moves in a behaviour,
the others stay at their initial state. A behaviour of all of them together moves
each one as it moves by itself, so that nothing is lost.

## What the runs check

| Run | Question | Bounds |
|---|---|---|
| `transmit` | safety of three writers on two ports, refinement of `SerialOut`, termination of every write if there is no reset | packets of 2 bytes, messages of 0, 1, 2 bytes: empty, short, full |
| `transmit_reset` | *violated*: a write ends once the host has settled | the same |
| `receive_wedge` | *violated*: a configured port with room gets a read again | one reader, a ring of two packets of two bytes, 10 bytes |
| `aux_input` | no loss until rtt is switched on, dtr set or the bus reset; order; that nothing announced is forgotten; that all input reaches the uart; the one way to wedge the port: with two readers, dtr changes, resets, rtt on and off | 6 bytes, reads of 1 and 3 bytes |
| `dap_transfer` | words, count, acknowledge, effects and termination of DAP_Transfer on SWD and JTAG | 3 requests of all kinds, 2 tries, 2 words of response |
| `dap_block` | the same of DAP_TransferBlock | 4 transfers, 3 words, 3 tries |
| `wires` | on SWD: who drives SWDIO, what crosses, and that probe and target stay in step, over any sequence of pin commands; on JTAG: that every scan reaches the device it is for | JTAG: chains of one to three devices, described rightly or wrongly; SWD: a line reset of 12 ones, turnarounds of 1 and 2 clocks, data phase on and off; words of 2 bits |
| `dap_order` | order, exclusion and liveness of the transport | 4 requests, 2 on their way |
| `dap_abort` | *violated*: an abort does not go through the queue | the same |
| `panel` | SPI width and DC pin, the two buffers, order and effect of gestures, and that each is handled in the end | 3 areas, 3 gestures, one failed reading, a gesture queue of 1 |
| `spi_poll` | *violated*: of the packets to send, only the small ones are polled | packets of 1, 4 and 5 words |
| `board` | the seven modules of `MC_Board`, each by itself | uart: a fifo of 3, a queue of 2, 5 bytes, 2 rates in 2 formats; CAN: 4 frames of 3 kinds, a box of 2; card: 2 mounters, 5 edges; clock: 4 dates, 3 steps of time; light: 24 levels, a period of 60; gdb server: packets of 2 bytes, 5 bytes, timeouts of 0 and 2 slices; SPI: packets of 4 and 5 words, both channels |

Why the bounds are enough to be interesting: a ring of two packets of two bytes
can be empty, too full for a packet by one byte, and full; three bytes are read at
once so that reads do not fall on packet boundaries; three writers put two in the
queue of a semaphore held by the third; three requests make a run of posted reads
with a beginning, a middle and an end, and put every kind of request before and
after every other; a response of two words overflows; words of two bits tell any
shift by one from the right place; chains have devices before, behind, and on both
sides of the one addressed; five bytes overflow both the fifo and the message queue
of the uart; four frames overrun a box of two, and three edges are one bounce and a
change, five let two mounters overlap; three steps of time cross a midnight, and the
dates have a leap year, the end of February, of November and of the year; 24 levels
with a period of 60 keep the ratio of period and range away from an integer, and all
products in `Wrap`. The theorems below have no bounds.

### Fairness

`CdcTransmit`: a thread that can go on does (RT-Thread has no thread of higher
priority that runs for ever), the host configures the device and reads a port that
a program there holds open (weak fairness of `dtr[p] /\ BulkIn(p)`); liveness is
claimed only if the host settles. `CdcReceive`: threads go on, and a thread reads
again while there are bytes. `AuxCdc`: the aux thread runs; nothing is assumed of
the host. `DapTransfer`, `DapTransferBlock`: the handler runs inside the interrupt
to its end. `DapTransport`: the controller moves packets and interrupts. `Panel`:
each of the three threads is scheduled; gestures need not be made. `MC_Board`: the
uart's start-up and thread, the timer thread, each mounter and the backlight's thread
go on when they can; nothing is assumed of the host, the target, the card or the
light. Without the SPI
device `lcd_send_color` never answers and LVGL stops at its second area
(lvgl_display.c:158), so `GestureIsHandled` is claimed with the device, and the run
does not check for deadlock.

### What the violated runs show

- `transmit_reset` (usb_cdc.c:197, 223): a bus reset during a write discards the
  transfer without a completion; the writer keeps `ep_write_sem`, and all writers
  of both ports wait for ever, even after the host has configured the device again.
- `receive_wedge` (usb_cdc.c:234, 320): a packet that arrives between
  `usbd_ep_start_read` and `read_busy = true` leaves the flag set with no read
  under way. `WedgedByLateStoreOnly`, checked and proved, says it is the only step
  that does so.
- `dap_abort` (free-dap/dap.c:1095): `dap_filter_request` is never called, so an
  abort waits in the queue, and `dap_abort` is never set.

- `spi_poll` (patches/drv_spi.patch:42): `flag & RT_DEVICE_FLAG_DMA_TX & (send_length > 4)`
  is the bitwise and of bit 11 and of 0 or 1, always 0. No send uses DMA, and the areas
  of the display are polled out word by word.

### What the properties of the transfers leave out, and why

The exact statements carry what the code does at its edges:

- A compare of a posted register behind a posted read goes down the pipeline: it
  compares nothing and leaves its match word in the packet, from where the next
  request is read (dap.c:924-943). `LosesPlaceOnlyAtMatch` says it is the only way
  to lose the place; the other properties speak of packets whose place is kept.
- The acknowledge of the posting read of a compare is discarded (dap.c:952), and
  with `dap_match_retry_count` 0 nothing is read (dap.c:954): `ComparesItsOwnValue`
  holds when neither is the case.
- A packet that ends with a mask write or a DP read of SWD does not verify an
  earlier write (dap.c:922, 1015): `LateFailuresAreReported` names the last
  requests after which it is verified.
- The closing read of a posted read adds its word even when it fails (dap.c:1013).
- Transfers go on when a buffer is exhausted: block reads without room for the
  word, block writes with 0 for the word (dap.c:1065, 1073).
- On JTAG, OK and FAULT are one code (dap.c:535), so nothing can be concluded from
  an OK of a target with a sticky error (`Trusted`).

### Where the code departs from what one might expect

These are consequences of the code that no text of the repository contradicts. The
properties name them as their exceptions.

- `cdc0_getchar_timeout` gives up before its time when an earlier read has taken the
  bytes that woke it (usb_cdc.c:244, 293-296).
- A line coding whose `cdc1_set_speed` failed is not tried again when the host repeats
  it: it has been stored all the same (usb_cdc.c:76-121). `SpeedIsTheHosts`
  excepts the time until the next one succeeds.
- A host that asks for 7E1, or for any format other than 8N1, gets 8N1 and reads back
  what it has asked for: the whole line coding is stored (usb_cdc.c:88-90) and returned
  (usb_cdc.c:120), the rate alone is passed on (usb_cdc.c:94), and the format is fixed
  (aux_uart.c:95-98). `SpeedIsTheHosts` claims the rate of the host, and 8N1. A change of
  the format alone reopens the uart all the same.
- Messages of the CAN bus that arrive between `rt_device_open` and
  `rt_device_set_rx_indicate` have no count in the semaphore, so every later line is
  late by as many messages (canbus.c:216); after an overrun the last message is logged
  again (canbus.c:107-127).
- A mount that fails leaves the slot powered, and two mounters that overlap may leave
  `sdcard_mounted` set without a card (sdcard.c:33). One that mounts during the unmount
  of another has its power cut (sdcard.c:78-80): `MountedHasPower` fails in each of its
  parts once two threads have clashed in this way, and it excepts this and nothing else.
  Threads that only mount at the same time are within it.
- When `dfs_unmount` fails the power is cut under the mounted file system and
  `sdcard_mounted` cleared (sdcard.c:76-80). `MountedHasPower` says what follows: the
  file system stays, and since the path is taken the user interface is told of no card
  until the next start.
- `ds3231_sync` refuses every time in December, and only then (ds3231_util.c:186);
  it sets date and time of day in two calls, with midnight perhaps in between
  (ds3231_util.c:192); `ds3231_date` clears the stopped bit after a failed write of the
  time (ds3231_util.c:256).
- The brightness stops up to 7 steps below the sensor (backlight.c:102-105).

## What is proved

All theorems hold for every value of the constants that satisfies the named
assumptions of the modules (packet sizes and counts are naturals, the packet size
is not 0, the two readers of `AuxCdc` are different). tlapm checks them to the last
leaf. Every invariant a passing run checks is a theorem. Only model-checked are
liveness and the premise of `LogInOrder`: that each frame reads back from its text is
induction over its digits. What is proved of every value of the
constants and is of no interest beside it is not run: the type invariants,
`WritersExclude`, `QueueIsWaiters`, `TokenForWaiter`, `RearmNotForgotten`, `HalfDuplex`.

- **CdcTransmitProofs.** The inductive invariant `IInv` is the conjunction of the
  safety properties themselves: that a semaphore never exceeds one needs one
  transfer in flight (`BufferStable`), which needs one writer at a time
  (`WritersExclude`), which needs the hand-over of the semaphore to go to a
  suspended thread (`QueueIsWaiters`). From it follow the five safety theorems and
  `Refinement`: every step of `CdcTransmit` is a step of `SerialOut` or a stutter.
- **CdcReceiveProofs.** Type correctness with the bound on the ring, the order of
  the bytes, `RearmIsNotForgotten`, and the action property
  `OnlyTheLateStoreWedges`, for any number of readers and any packet size; then its
  readers, whose proofs rest on these.
  The aux thread: `PortOfAux` (each step of the composition is a step of the
  port or a stutter), `EventsAreNotLost`, and `FlowControl`: until rtt is switched, dtr
  set or the bus reset, the endpoint is armed only with room for a packet. Its
  invariant `FlowInv` says what the thread may rely on at each of its locations:
  between its test and its start of the read nobody else arms the endpoint.
  The gdb server: `GetcharTimeout` is a reader of the port (`GdbReadsThePort`), so that the invariant of `CdcReceive` gives the
  type of the ring at once. `WaitsAreHonest` rests on three facts that are inductive together: the ring
  is empty while the thread sleeps, and is empty or the flag is set when it is about to
  (`NoSleepMissed`); in a call that found the flag clear, a flag that is set means a
  byte in the ring, and otherwise the turns of the loop are slices slept
  (`SlicesAreSlept`).
- **BoardProofs**, one section for each component. The uart: `SpeedFollowsTheHost` and the bounds of fifo and queue. The
  card: `MountedCardHasPower`, where `SdInv` says, for any number of threads of which one that
  unmounts is alone at work, what each location implies about power, file system, flag and
  a failed `dfs_unmount`: a mounter relies on power that nobody cuts, the unmounter on
  a file system nobody mounts behind it. The logger: `LogInOrder`, with the
  invariant that what has been logged, the message of the thread and the box are, one
  behind the other, the messages of the bus. The backlight: `FilterApproaches`, the
  measure behind `LedFollowsLight`, and `LightInRange`, for every width of the
  converter for which the products fit a word. The SPI driver: `DmaHasEnded`, where
  `CountsKept` bounds the counts that waits which timed out leave to later transfers.
  The clock: `BcdRoundTrip`, `DayOfWeekIsRight` for every date of the years 2000 to 2099
  (the code's sum against Zeller's, month by month), and from them `SyncIsRight` and
  `ClockIsTrusted`. `ClockInv` says that the registers `ds3231_sync` has read, and those
  `ds3231_date` has still to write, are those of one time. Both theorems suppose that the
  DS3231 does not reach the year 2100, where its century bit comes in, which the code
  does not look at, and `SetDatesAssumption` that the user gives a real date of this
  century: `ds3231_date` bounds each field by itself and would take 31 February.
- **PanelProofs.** `WireNeverWrong` and `AreasArriveInOrder` rest on `OneInFlight`: from
  the first command for an area until LVGL is told, the area is in one place, with the
  LVGL thread, in the queue or with the pump, and `AreaKept` says that its buffer is not
  the one being drawn. `NewestGestureIsNotLost` follows it from the registers of the
  controller to the queue: `Told` (a gesture nobody has read has an interrupt to be
  answered) and `Answered` (without one, the newest told of is last in the queue).
  `GesturesAreMeant` states `GesturesDoWhatIsMeant`. Its invariant `Wanted` says that there
  is a sequence of states of the user interface that begins with the present one, goes on
  by one gesture of the queue each, and ends, with the gestures read and announced but not
  queued, in what should be shown; a step adds a state at the end or takes the first away.
  `DispatchIsMeant` is the step itself, for any stack of objects under the finger: the
  object LVGL lets the gesture end at is the least of a set of numbers. That the objects
  are a path to a screen, which lets nothing pass, is `ScreenAssumption`.
- **DapTransferProofs.** The five invariants and `ComparesItsOwnValue`, for packets of any
  length. The words of a response run one transfer behind its requests: `PostedIsLast`
  says what the target holds for a posted read, and `Complete` that the words are those of
  all reads up to the last one collected, `Covered`, which is one less while a read is
  posted; `WordsAreRight` alone would not survive the step that posts the next one.
  `LogBounded` (nothing beyond the request under way has been taken) makes
  `EffectsInOrder` inductive, `Comparing` (the target holds what the posting read of a
  compare asked for) gives `ComparesItsOwnValue`, and `LateFailureIsDue` carries a failed
  write to the check at the end of the packet. All of it holds only while the probe has
  its place in the packet (`synced`) and the target's OK means something (`Trusted`).
- **DapTransferBlockProofs.** `Pipelined` is the strengthening that makes
  `WordsInOrder` inductive: after transfer `i` of a posted block the target holds
  the word that transfer `i + 1` returns. `Loops` ties count, index and location.
- **DapLinkProofs**, the wires. `ProbeStaysInStep` and `EveryWordCrosses` hold for words
  and line resets of any length, every turnaround, data phase and number of idle
  cycles, and any target that answers as `Answer` says, under `ResetAssumption`, which
  holds of the 50 ones of a line reset and words of 32 bits. Neither property is
  inductive: what comes of a command depends on the target it finds. `SwdInv` adds
  `Settled`, the settings, and `Wired`, where `TgtOk` lists the targets there can be
  between two commands: idle with few ones heard, in the middle of a request, deaf, in
  a line reset, or with the rest of an answer to send. `TailOk` is its crux: a rest has a
  bit that the target drives soon enough, so that the ones it counts while it only takes
  bits never make a line reset. `PlayOk` shows that any moves of the pins at all keep
  this, by induction over them (the natural numbers are well-founded: `Induct`), and with
  it every command does. What a command makes of the wires is computed run by run:
  `Run` takes `Play` through clocks that all do the same to a target with bits left to
  send, and `PulseRun`, `SampleRun`, `ReadRun`, `WriteRun` are its cases. They combine to
  `TransferResult` (with `Header`, the answer and the word in either direction),
  `SequenceResult` (the read a host clocks by itself with DAP_SWD_Sequence) and `ResetRun` (the line
  reset, which reaches a target that is not about to drive). `SwdTypes` follows.
- **DapJtagProofs.** `RememberedIsLoaded` and `EveryAccessArrives`, for chains of any
  number of devices with instruction registers of any length, wherever in the chain the
  device is, words of any length, and any description by the host, right or wrong; of
  `Chains` only that a chain has a device and each device an instruction bit is assumed.
  The bits in the registers of the chain and those that are shifted in are one stream
  `S`, and `Sh(..., S, n, j, k, ...)` is a chain whose `n` bits of register are those behind
  place `k` of `S`, with those from `j` to `k` come out: `ShiftRun` takes it over any run of
  clocks, by induction (`Induct`). `IrScan` is then `dap_jtag_write_ir` on any chain,
  and `IrFits` says what it leaves where `dap_jtag_configure` has the bits before and
  behind the device right; `AccessAsks`, `AccessMoves` and `AccessStops` are the halves of
  `dap_jtag_operation`, `IdScan` is `dap_jtag_idcode`. What came out and what is left in the
  device's register is read off the stream: `AnswerIs`, `ValueIs`, `RegisterIs`,
  `IdcodeIs`, where all devices but one are in bypass, one bit each (`Addressed`).
  `JtagInv` needs beside the two properties that the arrays are those of
  `dap_jtag_configure` (`ConfigIs`), that registers keep their lengths even in a chain
  described wrongly (`ChainIs`), and that an instruction is remembered only for a device
  that was selected (`SelectedIs`). `JtagTypes` follows.
- **DapLinkProofs**, the packets. `Consecutive` (the requests on their way are those that
  come next) and `ClosedIsIdle` make `HalfDuplex` and `AnswersInOrder` inductive.

## What is not modelled

- The USB stack, RT-Thread, LVGL, the Black Magic debugger: not in the repository;
  modelled where the code meets them, from the way it uses them.
- The delay between the edges of SWCLK, nTRST, nRESET and TDI; the labels of the
  user interface; what LVGL itself does with an event that bubbles.
- A bus reset in the middle of `rt_ringbuffer_get`; requests shorter than a packet,
  which are parsed with the bytes an earlier request left in the buffer
  (usb_dap.c:23).
- `DAP_SWJ_Clock`: one expression without state (dap.c:618); `DAP_JTAG_Sequence` with
  edges other than a reset of the TAPs.
- The SPI driver below the patch is not in the repository: `SpiDma` takes a polled
  transfer, and `Display` the sending of pixels, as one step that ends.
- Printing the time and the temperature; `canbus_send`, and the filter of `canbus.c`,
  which nothing calls.
- Descriptor tables, clock and pin initialisation, shell commands that only print.

## Plan

1. The conversions of `ds3231_util.c` that print: the temperature, which the DS3231
   gives in two's complement and the code takes for sign and magnitude.
2. `dap_setup_clock` as an operator in 32 bits, against the frequency asked for.
