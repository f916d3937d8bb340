# TLA+ model of the STM32 service node

The repository is the firmware of an STM32F4 board that executes GPIO and PWM
requests, and reports analog and digital inputs, over a serial-over-USB line.
These modules model the path a request takes: host, USB driver, buffer queues,
communication thread, decoder, outputs, and the way back. Paths below are
relative to the repository; `HAL` is `src/chibios182/os/hal`.

## 1. The system

| Part | State | Operations | Hard parts |
|---|---|---|---|
| communication thread (`src/source/communicationThread.c`) | `readBuffer`, `writeBuffer`, the outputs | read with a deadline of 10 ticks, decode, execute, reply, clear | reads that join or cut frames, ignored short reads, blocking writes |
| netstring protocol (`communicationThread.c`, `protocol.h`) | none | `decodeMessage`, `decodeNetstring`, `processCommand`, `processStatus`, `sendMessage` | missing delimiters, missing fields, 32 bit widths |
| I/O buffer queues (`HAL/src/hal_buffers.c`) | counter, read and write index, current buffer, `suspended` | post and release of a buffer from either side, reset, flush, read and write in chunks | the interrupt runs between any two chunks |
| serial over USB driver (`HAL/src/hal_serial_usb.c`) | the two queues | data received / transmitted, start of frame, suspend, wakeup, configure | what is refused in one state must be retried in another |
| USB driver (`HAL/src/hal_usb.c`) | `state`, `saved_state`, `epc`, busy bits | start, reset, suspend, wakeup, SET_ADDRESS, SET_CONFIGURATION | any of them at any time |
| callbacks (`src/source/usbcfg.c`) | none | `usb_event`, `sof_handler`, descriptors | |
| boot (`src/main.c`) | | `sduObjectInit`, `sduStart`, 1.5 s pause, `usbStart`, drivers, five threads | bus events and frames before the threads exist |
| low level USB driver (`HAL/ports/STM32/LLD/OTGv1`) | FIFO, interrupt flags, endpoint enables | serve one interrupt, start a transfer | interrupts served late, one word of the FIFO at a time |
| ADC thread (`src/source/adcThread.c`, `HAL/src/hal_adc.c`, `LLD/ADCv2`) | `samples[24]`, driver state, DMA stream | one conversion after the other, two interrupt handlers | overflow and DMA failure together; `processStatus` reads while DMA writes |
| blinker (`usbThreadFunction`) | an event listener | LEDs on channel events | flags added at any point of the loop |
| CAN threads (`main.c`, `HAL/src/hal_can.c`, `LLD/CANv1`) | receive FIFO, masked interrupt, mailboxes | receive on the full event, transmit every 50 ms | lost wakeups, timeouts against events, nobody to acknowledge |
| kernel (`os/rt`) | ready list, thread states, timers | sleep, wake, create, preempt | timer against event, order among equals |
| host (`test_com.py`) | port buffers | write a frame, flush, read until `;` or one second | late replies |

How they meet. The communication thread calls `chnReadTimeout` and `chnWrite`,
which are `ibqReadTimeout` and `obqWriteTimeout`; these move bytes in critical
sections of at most 64 bytes. The USB interrupt moves whole buffers of 256
bytes: `sduDataReceived` posts to the input queue and arms the OUT endpoint
again, `sduDataTransmitted` frees a buffer of the output queue and sends the next
one. Each side also does part of the other's work through notifications: a
released input buffer arms the endpoint (`ibnotify`), a filled output buffer
starts a transmission (`obnotify`), and a start of frame posts a partly filled
output buffer. Bus events reset or suspend both queues and release a waiting
thread with `MSG_RESET`, and add flags to the event source the blinker listens to.
The sampling thread shares `samples[]` with the communication thread, without a
lock; both have `NORMALPRIO`, like the blinker and `main`, and there are no time
slices. The CAN threads have `HIGHPRIO` and share nothing with the others but the
processor.

What makes it correct:

- decoder: it sees the bytes of one read and no others, stays in its buffer,
  executes only what was asked, and reports truthfully what it did;
- protocol: every request is answered, and every reply is well formed;
- queues and driver: no assertion fails (an assertion halts the node), the
  hardware and the thread never use the same buffer, bytes arrive once and in
  order, the endpoint listens whenever there is room, and what is queued moves;
- endpoints are used only while they are set up; on endpoint 0 the driver and the
  host agree on the stage of every transfer;
- threads: none waits for a wakeup that has already happened, none is lost between
  the ready list, its timer and its event, and each gets the processor;
- samples: an average does not mix more conversions than scheduling allows.

## 2. The modules

| Module | Models | Kind |
|---|---|---|
| `Netstring` | framing, the C library functions used, fields, verdicts, outputs | operators |
| `CommunicationThread` (extends `Netstring`) | the thread between transfer queues and a host | state machine |
| `RequestService` | a request, its one execution, its answer: what the node promises a host that waits | abstract specification, implemented by `CommunicationThread` |
| `NetstringChecks` (extends `CommunicationThread`) | reference definitions for fields, lengths and widths | properties |
| `HalBuffers` | a buffer queue as a record, one operator per C function | operators |
| `SerialUsb` (extends `HalBuffers`) | driver, USB states, boot, thread in its calls | state machine |
| `ByteChannel` | two bounded byte queues: what the serial channel promises | abstract specification, implemented by `SerialUsb` |
| `UsbControl` | endpoint 0: interrupt handlers, control state machine, host | state machine |
| `ChEvents` | an event source with one listener, `chEvtWaitAnyTimeout` | operators on shared variables |
| `CanThreads`, `Blinker` (extend `ChEvents`) | `can_rx`, `can_tx`, the controller; the blinker | state machines |
| `AdcSampling` | sampling thread, ADC and DMA handlers, `processStatus` | state machine |
| `ChScheduler` | the kernel's ready list, sleeps, timers, preemption | operators on shared variables |
| `Scheduling` (extends `ChScheduler`) | all threads of the firmware, by their sleeps | composition |
| `MC...` | constants for TLC | |
| `NetstringProofs` | what the C library functions and the framing compute | proofs |
| `SerialUsbProofs` | lemmas about the queue functions of `HalBuffers`, theorems about `SerialUsb` | proofs |
| `UsbControlProofs`, `CommunicationThreadProofs`, `CanThreadsProofs`, `BlinkerProofs`, `AdcSamplingProofs`, `SchedulingProofs` | theorems about the module of the name | proofs |

Definitions named as faults (`ReadChunkOverlaps`, `AdvanceLate`, ...) are plausible
mistakes in the code they stand next to. No specification uses them; replacing
the definition after them by the fault makes TLC report the property that
`PROJECT.json` pairs it with, which shows that the property depends on the code.

### Netstring and CommunicationThread

A string is a sequence of cells: a delimiter, a digit or a whole word. Lengths
are counted in cells by both sides, so the comparison `msg_length < size` keeps its
meaning, and a frame can be cut between any two cells. The set `Cells` is a constant, of which only
the cells the firmware itself writes are known; TLC takes all strings for it. `strtok_r`, `atoi`, `strstr`
and `sprintf` are modelled by what they return on such strings, a missing field
(null pointer, printed as `(null)`, and read by `strstr` and `atoi` as the empty string
at address 0 of the part) included. The value of digits and the digits of a value are recursive
functions, `NumberOf` and `Decimal`.

`pc` follows `communicationThrFunction`: `read` (in `chnReadTimeout`), `decode`, `send`
(in `chnWrite`), `clear` (the two `memset`s). `ReadChunk` copies one transfer or what fits
of it, `ReadReturn` ends the read at a transfer boundary or a full buffer, also with more in the
queue and also with nothing read, and applies the test `bytesRead > 3`; a short read keeps its bytes in `readBuffer`, as the code
does. `DecodeMessage` is `decodeMessage` with `decodeNetstring` and `processCommand` or
`processStatus`; the outputs are the function `board`. `received` is a history
variable: the bytes of the current read.

The driver appears as two queues of whole transfers; `SerialUsb` shows how it
provides them, and `ReadsWholeTransfers` there that a read which does not fill its buffer ends with
a transfer, as `ReadReturn` has it. The host of `test_com.py` has one request outstanding; `Window` lets it have more,
`Fragmenting` lets its USB stack cut a frame in two, and `HostTimesOut` lets it give
up waiting, which is how more than one request gets in flight.

`RequestService` is what is left of this for a host with one request that waits: `Ask`, `Serve`,
`Take`. Its outputs are `board`, its request is the one outstanding, and its reply is the one in
`writeBuffer` from the decoder on (`ReplyUnderWay`), then the one in the output queue. `DecodeMessage`
is the step that serves; transfers, reads and the clearing of the buffers are stuttering steps.

### HalBuffers and SerialUsb

A queue has the fields of `io_buffers_queue_t`; pointers are indices of the ring,
`ptr` is an offset in the current buffer or `NoPtr`, and `top` follows from the size
of the buffer. Actions of the thread are critical sections: from `osalSysLock` to
`osalSysUnlock` or to the point where the thread is enqueued. Interrupt handlers
are single steps, as they are not interrupted by threads or by each other. The
busy bits, `epc[1]`, `txsize` and the buffers given to the hardware are variables,
so that a stale one shows. A failed `osalDbgAssert` sets `panic` and stops everything.

A bus event action holds everything its handler does: `Configure`, for instance,
is the SET_CONFIGURATION case of `hal_usb.c` with the clear procedure of an
active device, `usbInitEndpointI`, and `sduConfigureHookI` with both queue resets and
`sdu_start_receive`. The thread's calls are `StartRead` and `StartWrite(n)`; it writes only
after a read that returned something. A wait of the read ends in two steps, as in the kernel: a post, a
reset or the timer (`ReadTimeout`) makes the thread ready with its message, and the thread acts on
it later (`ReadGivesUp` on a timeout or a reset), so that a transfer may be posted in between, for the next read. Bytes are numbered from 1 after each
SET_CONFIGURATION, in each direction, so that order and loss are visible.

`ByteChannel` is the same channel seen from its ends: `HostSends`, `BoardReads`,
`BoardWrites` and `HostGets` move some bytes at one end of a queue, `Restart` empties
both. `SerialUsb` instantiates it with the bytes in its rings that are not yet read
(`Unread`) and not yet got (`Unsent`), both defined in `HalBuffers`; a post, a flush, a suspension or a transmission
that starts is a stuttering step.

### UsbControl

The driver is the record `usbp` (the fields of `USBDriver` that endpoint 0 uses, with
the endpoint's enables and counters). `ServeInterrupt` is one run of
`usb_lld_serve_interrupt`: OUT and IN completions and one entry of the receive FIFO,
in the handler's order. The host runs control transfers, stage after stage, and does not
wait for interrupts to be served: only the endpoint enables hold it back. Requests are
all combinations of kind, direction and `wLength` up to two packets; descriptors are
answers of some size. `sduRequestsHook` and the default handler decide the answer.

### CanThreads, Blinker and ChEvents

`ChEvents` has the kernel's part: `epending`, the flags of the listener, and
`chEvtWaitAnyTimeout` in three steps (take or sleep, wake by event or timer, return), so
that the timer and the event can both happen before the thread runs. In `CanThreads`
the receive interrupt masks itself until the FIFO is empty, an overrun brings it back, and
`canTransmit` waits in a queue with a timeout of its own; frames come at any time from
`canStart` on, and `early` records that one came before `can_rx` listened. `Blinker` is
`usbThreadFunction` with the flags that the driver's hooks add.

### AdcSampling

`AdcConvert` starts the ADC and the DMA stream and suspends the thread; `DmaTransfer`
stores one sample, which is the number of its conversion; `DmaFails` and
`AdcOverflow` are the two faults, at any point; `AdcHandler` and `DmaHandler` are the two interrupts.
`StatusLoad` is one load of `processStatus`, in any order. The sampler runs only when the
communication thread has blocked (`SamplerHasCpu`), which `Scheduling` justifies with
`NoPeerInBetween`.

### ChScheduler and Scheduling

An action of `ChScheduler` is a critical section of the kernel. Interrupts only
change the ready list, and `PortIrqEpilogue` switches when the last of them returns; the
timer handler takes a timer off its list (`ChVTDoTickI`) and calls `wakeup` later, so
that another interrupt fits between. `Scheduling` has a branch for each thread:
in which state it sleeps, and with a timer or without. `BootOrders` says which of the
threads `main` creates. The communication thread sleeps in its read only while the
channel is connected, as in `ibqGetFullBufferTimeoutS`.

## 3. Runs

| Run | Checks | Bounds | Shows |
|---|---|---|---|
| `window1` | `AnswersItsRequest`, `ImplementsService`, `EveryRequestAnswered`; `ParserIsRight`, `WidthIsSawtooth` | one request at a time, of 105: every kind, fifteen numbers around the changes and wraps of the width, and all payloads of up to three cells, most of them malformed | with a host that waits, the node implements `RequestService`: every request is executed once and gets its own answer, and the verdict is true; tokenizer, framing, conversions and 32 bit width are what their reference definitions say |
| `timeouts` | `TypeOK`, `DecodeSeesOnlyThisRead`, `DecodeInBounds`, `NoCircularWait`, `ExecutesOnlyWholeRequests` | one request at a time, given up at any time; read buffer 15 cells, frames of 8 cells and one of 4 whose payload begins with `;` | reads join two frames or cut the second; nothing stale, out of bounds or partial is executed, and nobody waits for ever |
| `queues` | `TypeOK`, `NoPanic`, `HardwareOwnsItsBuffer`, `DriverConsistent`, `ImplementsChannel`, `ReadsWholeTransfers` | 2 buffers of 2 bytes, chunks of 1, reads of 3, replies of 2, 3 bytes in and 4 out per configuration | the driver is safe whatever the bus does, and implements `ByteChannel`: no byte lost, repeated or out of order; a read cut short by its deadline or the bus has taken whole transfers, and leaves a posted one only if its wait was over before the post |
| `progress` | `ReceivesWhenRoom`, `InputDrains`, `OutputDrains` | as `queues` with replies of 1 and 3, no suspension | it keeps listening, and data moves |
| `control` | `NoPanic`, `ControlConsistent`, `ViewsAgree`, `TransfersEnd` | packets of 2 bytes, answers and `wLength` up to 4, resets anywhere | host and driver agree on stages, address and configuration |
| `can` | `CanConsistent`, `ReceiverWillDrain`, `ListenedFramesAttended`, `OverrunRevives`, `TransmitterGoesOn` | three mailboxes each way, as in the part | no wakeup is lost by a receiver that listened in time; an overrun revives one that did not |
| `adc` | `NoPanic`, `TwoConversionsAtMost`, `AdcConsistent`, `SamplerIsResumed` | two channels, depth two, four conversions | with faults at any point every conversion ends and makes the sampler ready; an average mixes two conversions at most |
| `blinker` | `BlinkerConsistent`, `TrafficShows` | the four flags of the channel | no flag is forgotten; the LEDs show it once the channel stays connected |
| `threads` | `NoPanic`, `KernelConsistent`, `MessageStands`, `NoPeerInBetween`, `UrgentDispatched`, `EveryoneDispatched` | the CAN threads over the communication thread; the communication thread with its peers; one request without a pause | no thread is lost, peers switch only at sleeps, everyone is dispatched |

`...Consistent` properties are conjunctions of named parts, the type invariant
among them: `CanConsistent` also says that the interrupt is on whenever the FIFO is empty
and that the transmitter waits only while it must; `AdcConsistent` that a suspended
sampler has an interrupt to wake it; `BlinkerConsistent` that flags never stand
without their event, nor the thread asleep over them; `KernelConsistent` that the ready list has every ready thread once and
in order, and that timers belong to sleeps; `ControlConsistent` that, with all
interrupts served, the driver expects what the host does next.

Why the bounds are enough: two buffers is what the firmware configures. With
chunks of one byte and buffers of two, a call is interrupted inside a
buffer, at its end and between buffers; reads of three span two buffers and
leave one partly read; replies of two start and end anywhere in a buffer once a
start of frame has flushed one, and block half written on a full queue; replies of three leave a
buffer partly filled and those of one are flushed alone; three bytes in and four out fill both queues and wrap the
indices; packets of two make the zero length packet happen. A read buffer of
15 cells is one short of two frames, so the second is cut inside its end, and full
reads without a zero byte happen. Reconfigurations are unbounded. Four bytes are two
packets of endpoint 0: answers below, at and between packet boundaries, with `wLength`
on either side of each. Four conversions are two more than an average may mix. The
two parts of `main`'s order have every pair of threads that compete for something:
`HIGHPRIO` against `HIGHPRIO` and against the thread that never sleeps, and all of one priority; the whole
order adds only combinations of these (its safety properties were also checked, in
800000 states, which is too slow to repeat with liveness).

Deadlock is checked in every passing run. With more than one request outstanding, or
with frames cut into several transfers, the thread can wait in `chnWrite` for a host that
waits in `flush` for the thread; `NoCircularWait` and the deadlock check show that a host with one
request outstanding, sent as one transfer, does not reach it, not even after timeouts.

Three runs show where the code and what is said of it differ:

- `truncated`: the first part of a cut request is executed without its `;`
  (README.md:28 of the repository);
- `can_deaf`: a frame between `canStart` and `chEvtRegister` leaves the receive interrupt masked and
  nobody told, and the receiver never looks at the FIFO (`hal_can_lld.h:351`);
- `starved`: while the channel is not connected the communication thread polls without
  ever sleeping, so the sampling thread, the blinker and `main` do not run (README.md:33).

The passing runs mark the edge of other disagreements; changing the one constant
named here, and checking the property alone, makes TLC show them:

- `HostTimesOut = TRUE` in `window1`: `AnswersItsRequest` fails, as a late reply is taken
  for the answer to the next request (`test_com.py:25`);
- `Window = 2` in `window1`: `EveryRequestAnswered` fails, as of two requests in one read
  the second is dropped (README.md:6);
- `CanSuspend = TRUE` in `progress`: `ReceivesWhenRoom` and `OutputDrains` fail, as
  `sduWakeupHookI` resumes the queues (`hal_serial_usb.c:320`) without retrying what was
  refused during the suspension: the OUT endpoint may stay unarmed until the
  next configuration, and a full output buffer unsent;
- `Aborts = TRUE` in `control`: `NoPanic` fails, as a SETUP packet in the middle of a transfer
  resets the state machine ("Resetting the EP0 state machine and going ahead",
  `hal_usb.c:781`) and leaves the busy bits, which the next start asserts to be clear.

Others need no run: an unknown command gets `0:;`, neither a status nor
ack/nack (`communicationThread.c:176`), as `AnswerTo` says; `test_com.py:27` takes a NACK for a success,
since its letters contain ACK; the example `set|steer_speed|50000` of README.md:29 is beyond the
10000 that `hal_pwm.h:144` allows, and by `WidthIsSawtooth` gives a width of 50 in a period
of 10; the comments at `main.c:53` and `main.c:54` call the PWM clock 10 kHz and the period 100 ticks, where
the values are 100000 and 10, which `PwmPeriod` follows; and in `Blinker` no step lights a LED without data, although README.md:24
promises a slow blink without connection.

### Fairness

Of the host and the bus nothing is assumed that they choose: sending, resetting,
configuring, suspending, waking up, timing out, frames, acknowledgements.
`OutputDrains` is therefore stated for a device that stays active from some point
on, `EveryoneDispatched` and `TrafficShows` for a channel that stays connected: while it is not, the
communication thread never sleeps, and no thread of its priority runs (`starved`).

- `CommunicationThread`, `SerialUsb`: weak fairness. The thread's steps are plain code that
  runs whenever it is ready (`threads` shows that it gets the processor), and its read ends by a
  timer. The bus delivers to an armed endpoint, the host reads its port and polls
  the IN endpoint, and there is a start of frame every millisecond while the bus is active.
- `UsbControl`: weak fairness of the interrupt and of a host that carries on with a
  transfer it has begun.
- `CanThreads`: weak fairness of main, the `HIGHPRIO` threads, their timers and the interrupt
  handlers.
- `Blinker`: weak fairness of the thread and its timers while the channel is connected, and none while it
  is not.
- `AdcSampling`: weak fairness of the hardware and the handlers, none of the threads; `SamplerIsResumed`
  ends where the sampler is ready, and `EveryoneDispatched` says when it then runs.
- `Scheduling`: weak fairness of handlers, timers and the end of a conversion;
  strong fairness of each thread's step: a thread that has the processor again and again gets
  through its next step, since the sleeps of those that preempt it last at least a
  tick. `EveryoneDispatched` says in addition that the CAN threads leave the processor
  again and again, which time (50 and 100 ms) guarantees and an untimed model does not.

## 4. Proofs

TLAPS proves the following for all values of the constants that satisfy the `ASSUME`s (and,
where it is said, a hypothesis of the theorem). Each proof has an inductive invariant,
`IInv` or the `...Inv` named here, one lemma per action or per function that the actions
are made of, and a theorem that combines them.

| Module | Theorem | Property of a run |
|---|---|---|
| `SerialUsbProofs` | `TypeCorrect` | `TypeOK` |
| | `DriverIsConsistent` | `DriverConsistent` |
| | `AssertionsHold` | `NoPanic` |
| | `BuffersAreSeparate` | `HardwareOwnsItsBuffer` |
| | `EndpointsAreSetUp` | |
| | `ListensUnlessSuspended` (if not `CanSuspend`) | `ReceivesWhenRoom` |
| | `DriverImplementsChannel` | `ImplementsChannel` |
| | `ReadsEndWithTransfers` | `ReadsWholeTransfers` |
| | `BytesInOrder` | |
| `UsbControlProofs` (if not `Aborts`) | `DriverNeverPanics` | `NoPanic` |
| | `TransfersAgree` | `ControlConsistent` |
| | `HostIsRight` | `ViewsAgree` |
| `CommunicationThreadProofs` | `DecodesThisReadOnly` | `DecodeSeesOnlyThisRead` |
| | `RepliesAreWellFormed` | |
| | `NeverWaitForEachOther` (one request at a time, in whole frames that fit) | `NoCircularWait` |
| | `TypeCorrect` | `TypeOK` |
| | `RepliesAnswerTheRequest` (`OneAtATime`) | `AnswersItsRequest` |
| | `NodeImplementsService` (`OneAtATime`) | `ImplementsService` |
| | `ParserFindsTheRequest` (`OneAtATime`) | `ParserIsRight` |
| | `WidthsAreSawtooth` (`OneAtATime`, `IntNumbers`) | `WidthIsSawtooth` |
| | `TokenizerStaysInBounds` (`WholeFrames`, `Worded`) | `DecodeInBounds` |
| | `OnlyWholeRequestsExecuted` (`WholeFrames`, `Delimited`) | `ExecutesOnlyWholeRequests` |
| `NetstringProofs` | `FrameDecodes` | |
| `CanThreadsProofs` | `NoWakeupIsLost` | `ReceiverWillDrain` |
| | `CanIsConsistent` | `CanConsistent` |
| `BlinkerProofs` | `BlinkerIsConsistent` | `BlinkerConsistent` |
| `AdcSamplingProofs` | `DriverNeverPanics` | `NoPanic` |
| | `StatusIsRecent` | `TwoConversionsAtMost` |
| | `SamplerIsNeverStranded` | `AdcConsistent` |
| `SchedulingProofs` | `KernelNeverPanics` | `NoPanic` |
| | `KernelIsConsistent` | `KernelConsistent` |
| | `MessagesStand` | `MessageStands` |
| | `PeersNeverOvertake` | `NoPeerInBetween` |

The hypotheses are the constants of the runs: `CanSuspend` and `Aborts` are false where
the properties need a bus that does not suspend and a host that ends what it begins (section 3
says what fails without them), and `NoCircularWait` is about a host like `test_com.py`, with
one request outstanding, written as one transfer, whose frame the read buffer has
room for. `OneAtATime` adds that the host waits for its reply, and that a request is not empty and
has no `;`, which ends the payload. `IntNumbers` bounds the numbers by what an `int` holds. `WholeFrames`
allows any number of requests under way, a host that gives up and payloads of any kind, but no frame cut
by the host, and asks that any two frames fit the read buffer but for one cell: the buffer that `timeouts`
checks is the smallest one that satisfies it, and the 128 bytes of the firmware do for all
requests of the protocol. For the tokenizer to stay in its buffer `Worded` adds that no payload is empty or made
of `;` alone: of such a one `strtok_r` skips everything, the end of its frame included, and runs on (TLC
shows it in `timeouts` with the payload `;;;`). Any other mix of delimiters is allowed. For what it executes
`Delimited` adds that no payload is empty or has a `:` or a `;` in it, like those of `test_com.py`. Without it the
property is false: of a request with a colon that a full read has cut, the ending may look
like a frame of its own, with a part of the payload for its header (TLC shows it in `timeouts` with
such a request). `truncated` shows what happens with frames in pieces.

**SerialUsb.** The invariant is `TypeOK /\ DriverConsistent`. `NoPanic` is not
inductive: that a post finds the queue not full follows from the armed
endpoint having been given `bwrptr` of a queue that was not full, and this
stays true because only a post moves `bwrptr` of the input queue and a post ends the
transfer (`HardwareOwnsItsBuffer`). That in turn needs the counter and the indices to
agree (`Ring`), since full and empty are the same pair of indices, and the busy
bits to be clear whenever no configuration is selected (`BusConsistent`), so that
`sduConfigureHookI` can reset the indices. `CallConsistent` says that a call in progress
has bytes left to move, so that a chunk is never empty. There is one lemma
per queue function, that it keeps types and consistency, and then one per action. `ListensUnlessSuspended` adds `RInv`: without suspension every
place that frees a buffer also arms the endpoint.

`ReadsEndWithTransfers` adds `WInv`, which ties the thread's place in `ibqReadTimeout` to the queue: no
posted buffer is empty (`Filled`) and a current one has bytes left (`BytesLeft`), so that every pass of the
loop moves at least one byte and a read that goes on has got something; who waits holds no current buffer and
waits for an empty queue, which stays so until the post that wakes it, unless the timer or a reset was first. A reset in the middle of a read takes the
current buffer away, and then the read, too, is at the end of one.

`DriverImplementsChannel` is the refinement of `ByteChannel`. `Contents` is a recursive function on
`0..BuffersNumber`; that it satisfies its own equations is proved first, from the existence
and uniqueness of its solution on every `0..n` (`ContentsDefined`; induction on a set of
numbers, `UpTo`, is a lemma of its own, as the library's cannot be instantiated). Then a ring that
a buffer is taken from loses it in front (`ContentsFirst`), one that a buffer is added to gains it behind
(`ContentsEquations`), and each queue function has a lemma that says what it does to `Unread` or
`Unsent`: nothing, append, or take a prefix. The actions follow, one lemma each, under
`TypeOK /\ DriverConsistent`: that the hardware fills a free buffer and that `ptr` lies in the current one
is where the refinement depends on the counters. `BytesInOrder` follows from the
abstract specification and says it without steps: `delivered` and the bytes in the input ring
are together `1, 2, ..., sent`, and `got` and the bytes in the output ring are `1, ..., written`.

**UsbControl.** `StagesAgree` speaks of states in which nothing waits to be served; the
invariant `PInv` is what it becomes in all others: the list of the phases of a
transfer (`Over`, `Asked`, `Refused`, `Sending`, `Sent`, `Acknowledged`, `Receiving`,
`Confirming`), each with what the FIFO holds, which interrupt is pending and what is
left to move. A SETUP packet may be on its way while the last transfer has still to be
ended by an interrupt (`LastEnding`); that the words reach the driver one interrupt
apart is what lets it end first. `Sending` has the arithmetic: the host has taken a multiple of the
packet size, and with the rest it makes `ep0n`, so that both sides decide alike whether an
empty packet is due (`RemainderUnique`, `PacketFacts`).

**CommunicationThread.** `ReadInv` says that `readBuffer` is the bytes of this read,
followed by zeros, or, before a read has reached them, by at most three cells of
ignored reads (`StaleOnlyAtTheStart`). A decoded read is longer than three, so it
covers them: this is where the test `> 3` and the unconditional `memset` matter.
`ReplyInv` ties `msgLength` to `writeBuffer` from the decoder to the queue; it needs the
write buffer to be empty when a read starts. `WaitInv` counts: the transfers on the wire and
in the input queue, the request being served and the replies not yet taken are together at most one more than
the input queue holds, and one more again with a request outstanding. When the thread waits for
room in the output queue, the input queue therefore has room for what is on the wire.

With one request at a time `PlaceInv` says that it is in exactly one place (with the host, on
the wire, in the input queue, in the read buffer, in the write buffer, in the output queue) and
what is there: the frame, the bytes of it, the answer. A read delivers the
frame as a whole, since it fits, so that the decoder sees `Frame(r)` and nothing else
(`DecodesReceived`: no text on the way has a zero byte in it, and the rest of `readBuffer` is zeros).
`TurnInv` carries `AnswersItsRequest` and `WidthIsSawtooth` from the decoder to the host.
`NodeImplementsService` reads the refinement off the same places: `DecodesOnce` says that the one step
that touches `board` decodes the request outstanding, and the places exclude a second reply, so
that this step is `Serve` and every other step of the thread and the bus leaves the service as it is.

With many requests (`WholeFrames`) a full read may cut a frame. `FrameInv` says that the wire has whole
frames, that the input queue has whole frames but for the first, which may be the ending of one, and
that what a read has gathered is such an ending and, if the ending has lost its header,
a whole frame behind it. If requests are `Delimited`, an ending on its own is
either a frame, or has no colon and thus no message. For the bounds this is not needed
(`FullReadInBounds`): a read without a zero byte is full, so it starts within the header of a frame
(`CutInTheHeader`) or has a whole one behind the end of another (`EndThenFrame`). Either way its first colon is
followed by all of a payload, with a cell that is not `;` (`Worded`), where `strtok_r` stops skipping, and
behind it by the `;` of that frame, where it stops (`RestKeeps`).

**Netstring.** `Decimal` and `NumberOf` are shown to satisfy their equations from the existence and
uniqueness of a solution on every initial segment (`Recursion`, `Induction`); then `NumberOf` of `Decimal[n]`
is `n`. `strtok_r` is characterised by where the token begins and ends (`Splits`), and each use of
it is an instance. `FrameDecodes` puts these together: the length field of `Frame(r)` is
the length of `r`, the message field is `r`, whatever else `r` contains. The reference definition of fields
speaks of sets of positions; that the k-th token is the k-th run (`FieldsAreRuns`)
is counted, field by field, with cardinalities. The width is 32 bit arithmetic:
`WidthOfProduct` does the division of the wrapped product, `ToothFacts` locates the wraps.

**CanThreads.** `ReceiverWillDrain` is strengthened by the receiver having listened before any
frame (unless `early`), and by a thread that sleeps doing so in its wait only.

**Blinker.** `FlagsWillBeTaken` is strengthened by `SleepsWithoutEvent`: the thread went to sleep in
its wait, having found no event there. That it does not sleep over flags follows from the two.

**AdcSampling.** `OneConversion` ties the driver's state, the thread's suspension and the
two interrupts to one conversion at a time. `SamplesUpToDate` says what `samples` holds in front
of and behind the position of the DMA; a status in progress then mixes the conversion
that was under way when it began with the one before.

**Scheduling.** `SchInv` has the ready list sorted by priority, without duplicates and
equal to the set of ready threads (`ListsAgree`), the running thread not less urgent than
the first of it outside of interrupts (`MostUrgentRuns`), the timers of those who
sleep (`TimersAgree`), and a preempted thread in front of its peers (`PreemptedFirst`), which
only the insertion ahead of them by `chSchReadyAheadI` gives. `NotYetCreated` says that threads `main` has still
to create are nowhere. The priorities and the order of creation are free.
`ChSchReadyI` is given the list that its callers insert into, one thread or two, so that the
lemmas about `Behind` and `Ahead` are all that the proof needs; they rest on the least
position of an insertion (`LeastNumber`).

Model-checked only:

- liveness (`EveryRequestAnswered`, `InputDrains`, `OutputDrains`, the temporal properties of the
  other modules), which needs fairness and `ENABLED`.

## 5. Not modelled

- Functions the firmware never calls: `sduStop`, `sduDisconnectI`, `usbStop`,
  `usbWakeupHost`, the byte-wise and buffer-wise queue functions, CAN sleep.
- The register level: clocks, FIFO RAM, the copying of words, context switches,
  the delta list of the virtual timers (a timer expires at some time after it is
  set), CAN filters (one default filter) and error counters.
- Data without control: descriptor tables, pin tables, the contents of CAN frames, the
  voltages of samples, the text of a status.
- Kernel objects the firmware does not use: mutexes, semaphores, mailboxes,
  heaps, the registry.
- The rest of the ChibiOS tree: ports, boards and drivers that this build
  does not compile.

`PROJECT.json` lists each component with its reason.

## 6. Plan

What the source has to model is modelled, and every safety invariant, action property and
refinement of a passing run is proved. What could still be stated:

- `AnswersItsRequest` for a host that has several requests outstanding and waits long enough
  between them for reads not to join frames, which needs time in the model.
