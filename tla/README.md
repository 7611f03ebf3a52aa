# Verification of the RF power detector

TLA+ models of the power detector in this repository, model-checked with TLC, with theorems
checked by TLAPS. The program is a Teensy 4.1 firmware (`src/src`, `src/include`), the I2C
library it carries (`src/lib/teensy4_i2c`) and the Octave scripts that read its serial port
(`src/*.m`). Paths below are relative to `src/`.

## 1. The system

```
 ADC A B N P --SPI1--> getADCMeasure()          serial port           RF_dBPlotter.m
                            |                   ^        |            columns, plot
   every 5 us         fastMeasure()             |        'M'               ^
   (interrupt)              |   adcSampleBuffer |        v                 |
                            +------------------> loop() every 250 ms ------+
                               rfSampleBufferLength
 I2C library: master driver, slave driver, register slave, I2CDevice, Wire (not called by main.cpp)
```

| Component | Source | State it keeps | Operations | Interacts through |
|---|---|---|---|---|
| Sampling interrupt | `src/main.cpp` `fastMeasure` | `adcSampleBuffer`, `rfSampleBufferLength`, `rfSampleMicroseconds` | take and store one sample | preempts `loop()`; shared buffer and length |
| Report loop | `src/main.cpp` `loop`, `src/dataHelper.cpp`, `src/RFSample.cpp` | report timer, output mode, progress of a report | print a verbose or comma separated report, empty the window, take one byte of input | shared buffer and length; serial port |
| SPI front end | `src/main.cpp` `getADCMeasure`, `src/RFInputADC.cpp` | select pins, latched words | read every enabled ADC | inside the interrupt; one data line for all ADCs |
| Serial line and plotter | `src/main.cpp` prints, `RF_dBPlotter.m` | unread stream, current line, columns | synchronise, read, split, store | bytes over USB |
| I2C slave driver | `lib/.../imx_rt1060_i2c_driver.cpp/.h` | state, buffers and indexes, error, callbacks | interrupt routine, `listen()`, `stop_listening()`, `reset()`, `set_receive_buffer()`, `set_transmit_buffer()` | LPI2C registers; callbacks into the application |
| I2C master driver | same files | state, buffer, FIFOs, error | `begin()`, `end()`, `write_async()`, `read_async()`, interrupt, abort | LPI2C registers; polled by its callers |
| I2CDevice | `lib/.../i2c_device.h` | none beyond a call | blocking register reads and writes with a time limit | the master driver |
| Wire driver | `lib/.../i2c_driver_wire.cpp/.h` | transmit and receive buffers and indexes | the Arduino `Wire` calls, as a master and as a slave | master and slave drivers; the sketch's `loop()` and callbacks |
| Register slave | `lib/.../i2c_register_slave.cpp/.h` | whether a register is selected, write buffer, the registers | two slave callbacks, `listen()` | swaps the buffers of the slave driver inside its callbacks |
| Circular buffer | `include/circular_buffer.h` | head, tail, count | push, pop, block operations, search | included by `main.cpp`, never used |
| Scripts and LED | `HID_CTRL.m`, `toggleLED` | none that matters | plot random numbers; blink | none |

What is hard about it, and what makes each part correct:

* **Interrupt and report loop.** `fastMeasure()` stores samples between any two memory
  accesses of `loop()`, which reads the length anew for every channel, prints from the live
  buffer and empties it with one assignment. Nothing bounds the store. Correct means: a report
  is computed from one window, no sample is in two reports, timestamps of a window grow, the
  store stays in the buffer, a due report is published although samples keep coming.
* **SPI front end.** `getADCMeasure()` moves one select pin only and relies on earlier calls
  having left the others high. Correct means: each channel of a sample is the word of its
  own ADC.
* **Serial line.** No framing beyond line ends, a reader that starts in the middle of a report,
  a mode the device keeps from an earlier reader. Correct means: a column is a whole report,
  consecutive columns are consecutive reports, and the script does not stop.
* **I2C slave driver.** The interrupt may be late and find several events in one status word;
  whether a request starts a read is guessed from the last state; the port asks for one byte
  more than the master; SCL is held until the driver answers; the application replaces a
  buffer in three assignments, and may stop, listen again or reset in the middle of a frame.
  Correct means: callbacks follow the frames, reads are served from the first byte of the
  buffer, errors are told, every frame ends, no store leaves a buffer, and after a disturbance
  the driver finds its way back to the frames.
* **I2C master, I2CDevice, Wire as a master.** A call that times out returns while its transfer
  goes on; the next call aborts it and may find the abort's STOP in the FIFO; a NAK ends a
  transfer whose commands are still queued; results are those of whatever the driver did last;
  buffers live on the caller's stack. Correct means: a frame on the bus is made of the bytes
  of one call, success means that what was asked was done, and no transfer hangs.
* **Wire as a slave.** `loop()` shares two buffers and their indexes with callbacks that run in
  the interrupt, without `volatile` and without protection. Correct means: each byte is read
  once and in order, and a read is sent what was written for it.
* **Register slave.** What a frame means depends on which buffers the frames before it have
  installed. Correct means: reads and writes reach the register selected for them and no
  read only one, and the application is told of each change.
* **Circular buffer.** Two indexes that count twice around and a count, each moved by each
  operation on its own. Correct means: a bounded queue with two ends.

`PROJECT.json` lists the hazards one by one, each at its line.

## 2. The modules

| Module | What it is |
|---|---|
| `WindowReports` | abstract specification: what the detector promises the reader of its serial port |
| `RFSampler` | the sampling interrupt and `loop()`; refines `WindowReports` |
| `MCRFSampler` | constants of `RFSampler` for TLC |
| `RFSamplerProofs` | the theorems about `RFSampler` |
| `AdcFrontEnd` | what happens inside `fastMeasure()`: select pins and SPI transfers |
| `ReportProgress`, `MCReportProgress` | the interrupt of `AdcFrontEnd` (EXTENDS it) and `loop()`: whether a report ever gets through, with a sampling timer that never stops |
| `SerialPlotter` | what `loop()` prints, as tokens, and what the plotter makes of it |
| `I2CSlave` | the slave driver behind the LPI2C port, and the application around it |
| `I2CMaster` | the master driver and its port: state, calls, interrupt, FIFOs, abort |
| `I2CCalls`, `MCI2CCalls` | the blocking calls of `I2CDevice` and of Wire as a master, made one after the other on one `I2CMaster` (EXTENDS it) |
| `WireSlave` | Wire as a slave: callbacks against a sketch's `loop()`, access by access |
| `RegisterFile` | abstract specification: what the register slave promises the master, without buffers |
| `I2CRegisterSlave` | the register slave, one step per frame; refines `RegisterFile` |
| `CircularBuffer` | the class, operation by operation; refines `Deque` |
| `Deque` | abstract specification: a bounded queue with two ends |
| `AdcFrontEndProofs`, `SerialPlotterProofs`, `I2CSlaveProofs`, `I2CCallsProofs`, `WireSlaveProofs`, `I2CRegisterSlaveProofs`, `CircularBufferProofs` | the theorems about the modules of these names |

### WindowReports

State: `window`, the samples since the last report, and `report`, the items of the report being
written. `Acquire` adds a sample, `ReportAverage(c, n)` and `ReportFrame(n)` add an item computed
from the first `n` samples, where `n` never decreases within a report, and `Publish` empties
both. An item printed later may cover more samples than one printed before, because the code
reads the length anew; it may never cover samples of another window.

### RFSampler

| Code | Model |
|---|---|
| `adcSampleBuffer`, `rfSampleBufferLength`, `rfSampleMicroseconds`, `booleanRXKey` | variables of these names |
| `serialOutputTimer` (Metro) | `sinceReport`, in sampling periods; `check()` subtracts one interval, so two reports may fall due at once |
| program counter and locals of `loop()` | `pc`, `selectedADC`, `sampleCount`, `selectedFrame`, `readSoFar` |
| what has been printed | `report` |
| `fastMeasure()` | `fastMeasure`, one step |
| a timer expiry merged with the one being served | `expiryMissed` |
| `serialOutputTimer.check()` | `ReportDue`, `ReportNotDue` |
| header, random frame, `toString()` | `ReadHeaderCount`, `SelectFrame`, `CopyField`, `PrintFrame` |
| `calculateChannelAverage()` and `calculateChannelSum()` | `StartAverage`, `SkipDisabled`, `AddSample`, `PrintAverage` |
| `rfSampleBufferLength = 0` | `ResetWindow` |
| `Serial.read()` and the comparison with `'M'` | `Receive` |

Atomicity: the interrupt preempts `loop()` and is never preempted by it, so it is one step.
`loop()` takes one step per access to the shared length or to one field of one sample. Each
is a single aligned load or store on the processor, so nothing finer can be observed.

Data: a reading is a natural number. An average is kept as the list of readings it is the
mean of, since what can go wrong is which readings are summed and by how many they are
divided; the floating-point arithmetic is left out. A store beyond the last cell leaves the
array as it is and the length too large; `NoOverrun` is the property about it.

Time: one unit is a sampling period (`RF_SAMPLE_INTERVAL`, 5 us). `LATENCY` says how many
periods late `loop()` may be to notice that a report is due: `TimeMayPass` lets no period pass
beyond that. It is an assumption, not something the firmware enforces (section 6), and only the
safety properties of this module, which are about where samples are stored, are stated under it.
Whether `loop()` makes progress is not asked here, because a timer that stops would answer it.

### AdcFrontEnd

One action per pin or bus operation of the interrupt: `Select` (`digitalWrite` LOW),
`TransferBigger` and `TransferSmaller` (`SPI1.transfer`), `Release` (`digitalWrite` HIGH and the
store), `SkipDisabled` for a disabled channel. The ADCs and the bus are external: an ADC whose
pin is low drives the line and advances by one byte per transfer, it latches a new word when
its pin falls, and what is received is undetermined when no ADC or more than one drives the
line. `setup()` makes the pins outputs without writing them, so they start low. `RFSampler`
uses the result of this module as its `Readings`.

### ReportProgress

The same `loop()`, for that question, and the interrupt of `AdcFrontEnd`, after whose last channel the sample is
stored (`interrupt`). `loop()` goes on when the interrupt has returned. Samples come for ever and a report
may be any time late, so nothing limits how many arrive while one is printed. What is kept of the window is
what decides whether a step of `loop()` comes to an end: the length, the timer, the mode, the place
in the report and `left`, the accesses still to make before the next print. `StartAverage` fixes `left` for
a sum from the length, which `calculateChannelSum()` is passed by value; its mutant
`StoreSample_Chased` lets the bound grow with the length, and then the report is never published.
`MAX_SAMPLES` and `MAX_LATE` saturate: at the bound the value stands for every larger one (a timer at
`MAX_LATE` may be there still after an interval has been subtracted), so no interrupt is disabled.

### SerialPlotter

The stream is a sequence of tokens (number, text, separator, line feed, carriage return), as
`Serial.print`, `println` and `toString()` produce them. The script's actions are `Open`
(`srl_flush`, which may discard half a report), `Synchronize` (read up to a carriage return),
`ReadChar` and `StoreLine` (split the line at ", ", convert, extend the matrix). Drawing is left
out. A report is printed in one step: the stream is read one token at a time and the script
cannot tell when a token was written. A report is a function from the places of its tokens (`Times`,
`Value`), not recursive, so that it can be reasoned about. The mode may change between reports
(`ToggleMode`); that it does not change within one is `ReportComplete` of `RFSampler`.

### I2CSlave

| Code | Model |
|---|---|
| fields of `IMX_RT1060_I2CSlave`, `rx_buffer`, `tx_buffer` | record `slave` |
| SSR, SASR, SRDR, STDR | record `port` |
| callbacks made | `slave.calls` |
| `_interrupt_service_routine` | `interrupt_service_routine`, composed of `AfterAddress`, `AfterEnd`, `AfterReceive`, `BeginTransmit`, `AfterTransmit`, `AfterBitError` in the order of the code |
| `I2CBuffer::write`, `read`, `has_data_available` | `rx_write`, `Answer`, `has_data_available` |
| `I2CBuffer::initialise()` called from outside the interrupt | `ResetIndex`, `SetBuffer`, `SetSize` |
| the master and the port (external) | `StartFrame`, `SendByte`, `TakeByte`, `EndFrame`, `BitError` |

The routine is one step, because it takes less than a byte on the bus, but the step may come
arbitrarily late, so that the end of one frame and the first byte of, or request for, the next
are found together.

What is assumed of the port, from how the driver configures it: with RXSTALL and TXDSTALL the
bus waits until SRDR is read and STDR written; once a byte is being shifted out the port asks
for one more; a STOP or repeated START drops what was asked for or given in advance; the bit
error flag raises no interrupt of its own, as `listen()` enables RSIE, SDIE, TDIE and RDIE only.

The application acts at any moment outside the interrupt: `initialise` (both buffers),
`stop_listening`, `listen` and `reset`, `MAX_CHANGES` of them in a behaviour. What they or a bit
error do to a frame that is being transferred is nothing the driver is told of, so no property
can say which callbacks that frame has. `calm` is the history variable that says whether the
driver is in step with the frames: it is FALSE from a disturbance until an interrupt has handled
the end of a frame after it (the disturbed one or a later one), and the log of frames and
callbacks starts again there. The properties of the callbacks and of the bytes hold whenever
`calm.is`; a driver that did not find its way back would be caught there.

`ReadsServed` does not wait for that. `last` says of the last frame whether the driver can know that it
is a new one: it is `"fresh"` unless it was disturbed itself, follows a frame that `stop_listening()` or
`listen()` cut off (`"cut"`, then `"behind"`), or begins before a bit error has been seen. A fresh read
must be served from the first byte, also right after a disturbance and while the driver is out of
step for the callbacks. A read right after `stop_listening()` or `listen()` in the middle of another is served from the middle
of the buffer: `slave_restart` (section 6) is that case. What is sent after the last byte is left open by `ReadsServed`, but
for a byte of the buffer sent again: the driver sends 0x00 where its comment promises 0xFF (section 6).

### I2CMaster and I2CCalls

| Code | Model |
|---|---|
| `state`, `_error`, `ignore_tdf`, `stop_on_completion`, `buff` | lower case fields of the record `i2c`; `done` is what has gone through `buff`, its length is `next_index` |
| MTDR, MRDR and their FIFOs, MSR, MIER[TDIE], MSR[MBF] | upper case fields of `i2c`; a command in MTDR is a record |
| `start`, `write_async`, `read_async`, `abort_transaction_async` | operators of these names, from one value of `i2c` to the next, statement by statement |
| `_interrupt_service_routine` | `AfterFailure`, `AfterStop`, `AfterReceive`, `AfterTransmit`, in the order of the code, on the status word read first |
| `I2CDevice::write`, `read`; `endTransmission`, `requestFrom` | `Begin`, `ReadRegister`, `Return`; `results` is what they returned |
| `finish()` | `Waited` (polled `finished()`), `TimeOut` (at any moment) |
| `begin()`, `end()` of the master and of Wire | `begin`, `Restart` |
| the port and the slaves (external) | `TakeCommand`, `SendStart`, `SendByte`, `ReceiveByte`, `FifoError`, `SendStop`, and the faults: NAKs, `LoseArbitration`, `HoldPinLow` |

A byte is known by the call whose buffer it comes from and its place there. `late` is chosen
once: either interrupts are served before the port goes on, or they may be arbitrarily late. Two
questions are asked of one run: what holds whatever happens (`TypeOK`, `FramesAreCalls`), and what a
caller can rely on who never begins a call unless `finished()` is true and whose interrupts are in
time (`Undisturbed`). `ready` records whether `finished()` was true when a call was made.
Assumed of the port: a command leaves the FIFO when it begins; after a failure the port waits
until the flag is cleared; a STOP on a bus that is not the master's does nothing; clearing
MEN lets the port finish what it was given.

### WireSlave

Frames arrive as `I2CSlave` shows that they do: bytes stored in order as far as there is room,
callbacks once and in order. The callbacks (`on_receive_wrapper`, `before_transmit`) are one
step, in the interrupt. A sketch reads in its callback or in `loop()`, and writes in its callback
or in `loop()` (`role`, chosen at the start). `loop()` is `while (available()) read();` and then perhaps a
`write()`: one step per load or store of a field, and where the language leaves the order or
the number of loads open (`rx_bytes_available - rx_next_byte_to_read`, `rxBuffer[i++]`, the index of
`write()`, none of them volatile) every choice is taken. There is one receive buffer, nothing announces that
it is in use, and nothing in the driver makes a master wait for `loop()`: a frame that comes
before that replaces what has not been read. `role.waits`, chosen once for a sketch that
reads in `loop()`, says whether the master waits all the same (guard of `StartFrame`). That every byte is read, once and in order, by a
sketch that reads in `loop()` is stated for a master that does, as a replaced frame is lost;
everything else is stated and checked without the wait. `loop.overtaken` records that a frame was told
inside a `read()`: from then to the next frame the index may be ahead of the count.

### I2CRegisterSlave

One step per frame: what the driver does with its bytes is the subject of `I2CSlave`. `WriteFrame`
and `ReadFrame` store into or answer from the buffers installed, then call `after_receive` or
`after_transmit`, which are written after the code with `WriteAtOnce`, `Select`, `after_write` and
`wait_for_reg_num` as its parts. The reference is `RegisterFile`, which knows a selected register, a
memory and the replies, and no buffers: `selected` is the number received when `got_reg_num`, and
none otherwise. What the application is told is not part of it: `ChangesTold` is about that.
A selection is used up by the frame after it, as `i2c_register_slave.cpp:41` and
`test_i2c_register_slave.cpp:406-426` have it, whatever the register. The class does not implement that
(`IsRegisterFile`, run `register_discard`): after a selection that cannot be written a write leaves the register
selected. `IsFileButForDiscards` is the refinement with that one step excepted (`StaysSelected`).

`listen()` is one step. In the code the port is enabled first and the callbacks and buffers are set
after it (`i2c_register_slave.cpp:8-11`), outside the interrupt. A frame that ends in between, when
`listen()` is repeated, is one before the step; a frame that arrives while the buffers are
being set, or before the first `listen()` has ended, is not modelled, nor any other that is still
arriving while a callback replaces the buffers.

### CircularBuffer and Deque

`buf` is `head`, `tail`, `_available` and the cells; one action per operation of the class that
changes them, for values (`multi = 0`) and for arrays (`multi > 0`), and the queries as operators.
An array is its key, which `find()` and its relatives compare, and the two elements that keep
its length. Several operations do what their name says only for some arguments (section 6):
each action computes what the code does, the value it returns included, and says (`sound`) whether
this use is one of those. `pop_back()` of a value removes the last item and returns what the cell before it holds: a use of
it is sound if the caller drops the value (`DropBack` of `Deque`), or if the two are equal
(`PopBack`, which returns the item removed).
A behaviour ends with the first other use; until then `IsDeque` must hold. A block operation that
calls the operation on one value in a loop (`write()`, `push_front()`, `readBytes()`) is a step for each
call, `todo` being the calls it has still to make; the class is not used by an interrupt, so nothing
comes between. Each of these steps is one of the deque's. The count may be ahead of the indexes
meanwhile, and `IndexesAgree` is about the buffer between operations.

## 3. Passing runs

| Run | Shows | Bounds, and why they are enough |
|---|---|---|
| `sampler` | `RFSampler` implements `WindowReports` (`Promise`); the store stays in the buffer (`NoOverrun`), timestamps start at 0 and grow (`StampsGrow`), a report is complete: its frames first, then the averages in order, in the mode it was begun in (`ReportComplete`); `TypeOK` | two channels, one enabled (the code treats channels alike, enabled or disabled); two readings, so that samples can be told apart; a buffer and a counter of 4, exactly what `BufferFits` and `ClockFits` require, so that the length grows between any two reads of a report; two intervals may be overdue (592304 states) |
| `acquisition` | from the second sample on every channel is the word of its own ADC (`OwnReadings`); a report that is due is begun and published, however many samples arrive meanwhile and however late it is (`DueIsPublished`); `TypeOK` | three channels, two enabled (the interaction is between two ADCs and one that is not read); two byte values; disabled ADCs not fitted; an interval of one sample, at most 2 samples and 2 intervals kept in mind: both saturate, so that the timer never stops (399616 states) |
| `plotter` | columns are whole, consecutive reports in comma separated mode (`ColumnsFollowReports`), no column mixes reports in any mode (`OneReportPerColumn`), the script never meets a line of no characters (`LineExists`); `TypeOK` | three channels, two enabled; four reports: one lost at `Open`, one cut by `Synchronize`, two stored; two blank lines stand for the eleven of the code |
| `slave` | callbacks follow the frames (`CallbacksFollowFrames`) with their address or a later one (`AddressNotStale`), a read that is fresh (`last`, section 2) starts at the first byte (`ReadsServed`), underflow is told when and only when bytes were missing, up to the one byte asked for in advance (`UnderflowTold`), every frame ends (`FramesEnd`), nothing is stored or sent beyond a buffer (`StoresInBuffer`); `TypeOK` | buffers of 1 byte and frames of 0 to 3: shorter, equal, one more and two more than the buffer; three frames, because what a frame leaves behind is seen by the next and a late interrupt sees two; two addresses; bit errors; one change by the application at any moment, new buffers not smaller than the old (806222 states) |
| `i2c_calls` | write frames are a prefix of one call's buffer (`FramesAreCalls`); FIFOs and buffer stay in bounds (`TypeOK`); for callers that wait until the driver has finished: success is not reported early (`SuccessIsDone`, `ReadsAreWhole`), counts and NAKs belong to their call (`CountTrue`, `NakIsTheirs`), no buffer is used after its call (`BuffersAlive`), no transfer hangs (`NotStuck`) | six kinds of call, of 0 bytes, up to the FIFO of 3 places, one more, and more than the port can read; three calls and two faults of any kind on time, because it takes a second call to be refused and a third to meet what is left, and a failure may meet another; two calls and one fault with late interrupts, and a timeout at any moment of the first two calls, because what a call leaves behind is met by the next (1740628 states) |
| `register_slave` | the class, which swaps buffers, implements a memory with one selected register, but for a selection that outlives discarded writes (`IsFileButForDiscards`), each change is told (`ChangesTold`), buffers stay in the registers (`TypeOK`) | two mutable and two read only registers and a number past both; frames of 0 to 4 bytes against a write buffer of 3; four frames: select, use, and two that meet what is left (837931 states) |
| `wire_slave` | with frames that come at any time: `available()` is negative only after a frame that was told inside a `read()`, and not after the next one (`NeverNegative`); a read is sent what `on_request()` wrote (`ServedAsTold`); nothing is stored beyond a buffer (`WritesInBuffer`, `TypeOK`). Reading in the callback, or with a master that waits until `loop()` has read a frame, each byte is read once and in order (`ReadsAreFrames`), and with that master `loop()` reads all (`AllIsRead`) | both buffers of 2, frames of up to 3 bytes and blocks of 1 and 2, so that each buffer is filled and overrun by one; three frames, so that one replaces another between any two accesses of `loop()` and a third follows (1015021 states) |
| `circular_buffer` | `CircularBuffer` implements `Deque` (`IsDeque`), indexes and count agree (`IndexesAgree`), the queries answer from the items (`QueriesAnswer`) | four cells, so that the indexes wrap twice; two values or keys, two lengths, one of them beyond what one element holds; block operations of up to one more than the capacity (179543 states) |

Every constant above is a bound of the instance; the modules name the ones that only exist to
keep TLC finite: `MAX_REPORTS`, `MAX_LENGTH`, `MAX_FRAMES`, `MAX_CALLS`, `MAX_CHANGES`, `MAX_FAULTS`,
`MAX_LATE_CALLS`, `MAX_LATE_FAULTS`, `MAX_SAMPLES`, `MAX_LATE`.
The runs of `SerialPlotter`, `I2CSlave`, `I2CCalls` and `I2CRegisterSlave` say `CHECK_DEADLOCK FALSE`
because these bounds stop the system, `CircularBuffer` because a behaviour ends with the first use
that is not sound; the others check deadlock. Every property of a passing run is falsified by at least one mutation of the code's
definitions (`PROJECT.json`, "mutants").

## 4. Fairness

* `ReportProgress!ProgressSpec`: weak fairness of `interrupt`, which returns, and strong fairness of `loop`: the interrupt
  takes less than a period, or an expiry is skipped, so that `loop()` goes on between two interrupts; no print
  blocks for ever. The timer is never disabled: samples may keep coming for as long as a report takes. The sum ends
  because its bound is read once.
* `I2CSlave!FairSpec`: weak fairness of the routine (an enabled interrupt is eventually served)
  and of a master that has begun a frame. Starting frames is not fair: a master may stay silent.
* `I2CCalls!FairSpec`: weak fairness of `Transfer`, the interrupt or the port: an enabled interrupt
  is eventually served and the port carries out its commands. The calls need none: `NotStuck` is
  about a transfer that has begun.
* `WireSlave!FairSpec`: weak fairness of `Loop` (a sketch's `loop()` is called for ever and the
  interrupt returns) and of a frame that has begun. `AllIsRead` also needs the wait of the master (`role.waits`).

## 5. Proofs

Eight modules prove theorems for all values of the constants that satisfy the assumptions of
their module. A bound that only exists to keep TLC finite is any natural number there.

| Module | Theorem | Statement |
|---|---|---|
| `RFSamplerProofs` | `TypeCorrect` | `BufferFits` implies `Spec => []TypeOK` |
| | `BufferNeverOverrun` | `BufferFits` implies `Spec => []NoOverrun` |
| | `StampsAlwaysGrow` | `BufferFits` and `ClockFits` imply `Spec => []StampsGrow` |
| | `PromiseKept` | `BufferFits` implies `Spec => Promise`: `RFSampler` implements `WindowReports` |
| | `ReportsAreComplete` | `BufferFits` implies `Spec => []ReportComplete` |
| `AdcFrontEndProofs` | `TypeCorrect` | `Spec => []TypeOK` |
| | `ReadingsAreOwn` | `EnabledFitted` implies `Spec => OwnReadings` |
| `SerialPlotterProofs` | `TypeCorrect` | `Spec => []TypeOK` |
| | `LinesExist` | `Spec => []LineExists` |
| | `ColumnsAreReports` | `Spec => []OneReportPerColumn` |
| | `ColumnsFollow` | `Spec => []ColumnsFollowReports` |
| `I2CSlaveProofs` | `ReadsAreServedInOrder` | `Spec => []ReadsServed`: about reads that are fresh, the bytes of the buffer and not the padding |
| | `EveryFrameIsTold` | `Spec => []CallbacksFollowFrames`: while `calm.is` |
| | `NoStaleAddress` | `Spec => []AddressNotStale` |
| | `UnderflowIsTold` | `Spec => []UnderflowTold` |
| | `TypeCorrect` | `Spec /\ [][NoSmaller]_vars => []TypeOK` |
| | `BuffersAreRespected` | `Spec /\ [][NoSmaller]_vars => StoresInBuffer` |
| `I2CCallsProofs` | `TypeCorrect` | `Spec => []TypeOK` |
| | `FramesAreOfOneCall` | `Spec => []FramesAreCalls` |
| | `BuffersStayAlive` | `Spec => BuffersAlive` |
| | `NaksAreTold` | `Spec => []NakIsTheirs` |
| | `CountsAreTrue` | `Spec => []CountTrue` |
| | `ReadsWhole` | `Spec => []ReadsAreWhole` |
| | `SuccessesAreDone` | `Spec => []SuccessIsDone` |
| `WireSlaveProofs` | `TypeCorrect` | `Spec => []TypeOK` |
| | `WritesStayInBuffer` | `Spec => []WritesInBuffer` |
| | `AvailableIsNatural` | `Spec => []NeverNegative`, whether the master waits or not: negative only after a frame told inside a `read()` |
| | `BytesAreReadInOrder` | `Spec => []ReadsAreFrames`: in `on_receive()`, and in `loop()` if `role.waits` |
| | `ReadsAreServed` | `Spec => []ServedAsTold` |
| `I2CRegisterSlaveProofs` | `TypeCorrect` | `Spec => []TypeOK` |
| | `ClassIsRegisterFile` | `Spec => IsFileButForDiscards`: `I2CRegisterSlave` implements `RegisterFile` but for a write that is discarded |
| | `ChangesAreTold` | `Spec => ChangesTold` |
| `CircularBufferProofs` | `CircularBuffer_IndexesAgree` | `Spec => []IndexesAgree` |
| | `CircularBuffer_QueriesAnswer` | `Spec => []QueriesAnswer` |
| | `CircularBuffer_IsDeque` | `Spec => IsDeque`: in sound uses `CircularBuffer` implements `Deque`, the values it returns included |

The hypotheses that are not assumptions about the domain of a constant:

* `BufferFits` is `2 * OUTPUT_INTERVAL + LATENCY <= RF_BUFFER_LENGTH`: a window lasts one interval
  and the latency until its report is begun, and one more interval at most while the report is
  printed. The firmware has 250002 cells and intervals of 50000 periods, which leaves `loop()`
  150002 periods (0.75 s). `ClockFits` is the same bound for the 32-bit microsecond counter.
* `EnabledFitted`: every enabled channel has an ADC. Without one nothing drives the line.
* `NoSmaller`: the application installs no buffer smaller than the one it replaces. Without
  it the theorem fails (section 6).
* `MasterAssumption`: `NUM_FIFOS` is at least 3, because `start()` and `read_async()` queue up to three
  commands without looking whether there is room. The processor has four places.
* `CallsAssumption`: `requestFrom()` reads into a buffer (32 bytes) no longer than the port can read (256).
* `role.waits` is a premise inside `ReadsAreFrames` (for a sketch that reads in `loop()`), not of the specification.
* `RegisterAssumption`: at most 255 mutable registers and bytes of the write buffer, because
  `buffer_size` is a `uint8_t`; a register number is a byte.

Almost no property is inductive as it stands. What had to be added, and why:

**RFSampler.**

* `NoOverrun`: nothing in the state it mentions bounds the length.
  `IInv == TypeOK /\ LengthBound /\ ReadsInside` adds that the length is at most the time since
  the last report, plus one interval while a report is being printed, and that what `loop()`
  has read or is about to read lies inside the buffer and inside the window.
* `StampsGrow` needs `SInv == ClockBound /\ StampsPast /\ StampsGrow`: the counter is bounded by
  the same time, so it does not wrap within a window, and no stored timestamp is ahead of it.
* The refinement needs `RInv == ReportBound /\ FrameRead /\ ReadingsRead`: the counts of the items
  printed do not exceed the count in hand nor that the length, and what has been copied or summed
  so far equals what the buffer holds in those cells, which the interrupt can no longer change
  because it only writes at the length. That last fact fails for an empty window, which is
  exactly the case `WindowReports` leaves open and `sampler_torn` shows. `StepSimulates` then maps
  every step: `fastMeasure` to `Acquire`, `PrintFrame` to `ReportFrame`, `PrintAverage` to
  `ReportAverage`, `ResetWindow` to `Publish`, every other to a stutter.
* `ReportComplete` needs `Printed`: at each place of `loop()` the report consists of the frames and
  of one average of each covered channel before `selectedADC`, in their order. It uses that the
  mode cannot change between the header and the last average.

**AdcFrontEnd.** `Released`: every enabled channel that was visited has left its pin high, except
the one being read, so that in the second and later samples one ADC drives the line
(`OneDrives`). `Shifting` relates what was received to the bytes the ADC has shifted out since its
pin fell, and `StoredReadings` says that the channels before the current one hold the words of
this sample. The induction starts after the first sample; nothing of it holds before.

**SerialPlotter.** The invariants are about the text not yet read, `Unread == dataIn \o stream`, and
not about the two parts of it. `Text` says which tokens precede a value (`Placed`: those of its own
report, as far back as the text reaches), that each carriage return is followed by a line feed, and
that the text ends with a whole line. With `Reading`, a line starts with a line feed, so it is never
empty (`LineExists`), and from `Placed` the values of a line are those of one report (`OneReportInv`).
`Following`, as long as every report was comma separated, knows each token by its distance from the
end: there is a `q` (`Behind`) such that the script has still to read the last `q` reports and its
columns are the reports before those.

**I2CSlave.** `ReadInv` says where a read is: it waits for its first byte, for another one, or has
one in the port, and `tx_index` is what was loaded, which is one ahead of what was taken
(`Serving`). `Unserved`, `AtRest`, `PortFits` say what a late interrupt can find together;
`SizeKnown` that the frame began with the buffer that is installed. They hold when the driver is in step
with the frames or the last one is fresh (`Followed`), which is why they say nothing of a read after one that was
cut off: there the driver may still be `"transmitting"` at rest (second part of `AtRest`). `Inside` adds the order of
indexes, sizes and buffers, also between the assignments of `initialise()`.

`CallInv` is about the callbacks, and rests on `ReadInv`. `InOrder` makes an equation of what
`CallbacksFollowFrames` says with a prefix: what has been told, and what is `Owed` for the end that the status
register holds, is what is due for the frames that have ended, and the announcement of a read that goes on
once the routine has seen it (`Started`). What is owed for a write is in the driver, so `Arriving` says that what
has arrived is stored as far as it fits (`Stored`), but for the byte in the port, which tells by its
start of frame flag whether it is the first. `Addressed` says where the address of the last frame is, in the port or
in `address_called`; `OwnerOf` gives a callback that is made before its frame has ended to the
last one, which is what it turns out to be. For `UnderflowTold`, `Remembered` says what `trailing_byte_sent` and
`error` are after `n` bytes have been asked for (`Asked`, one more than the master took while one is in the port), and
`Trailing` that outside a read nothing is remembered, unless the read that left it behind was disturbed (`Sure`).
A frame's callbacks do not change once it has ended, and the lemmas about flattened sequences say that one more
frame adds its own after the others.

**I2CCalls.** `DriverInv` relates the FIFO, the command being carried out, the frame and the buffer
installed. `Queued` says that the bytes queued behind a START or during a write frame continue
that frame (`Follows`), that what `FillFifo` will add continues the queue (`Due`), and that a buffer
not begun yet has nothing queued before it (`Fresh`). `Consistent` excludes what an abort, a NAK and the
next `start()` could otherwise mix: a START is first in the FIFO, and no byte is left behind a STOP that
was queued by an abort. One lemma for each part of the interrupt routine and of each
call shows that it keeps `DriverInv`, on the record and not on the state, so that a step that makes
several of them is their composition.

`BuffersAlive` needs more, because a byte may be stored or fetched only through `buffer`, which keeps
pointing to the buffer of a call after that call has returned. `OwnInv` says that, as long as no call has
timed out or begun with the driver busy and no interrupt is late (`Undisturbed`), the driver is in `Own(i2c, Live)`,
where `Live` is: a call is being made and the buffer is its own. `Owned` is the aim: without a live buffer, nothing is
queued, being received or waiting in the FIFO that would use it. It is not inductive alone: a failure,
the STOP of an abort and the end of the call can overtake each other, and `finished()` is not a reliable
sign that the port is at rest (section 6, `i2c_refused`). `Quiet` says what a finished driver may still have at the
port; `Waiting` where a write is whose first byte is not fetched yet; `Shape` and `Ordered` how the queue,
the command being sent and the driver's state belong together, and that the bytes asked for have room in
the buffer; `Prompt` what else can be there while a received byte or a STOP waits for the interrupt. The
failures need not be NAKs: the theorem covers every fault of the model.

`NakIsTheirs` adds `NakInv`: a START in the FIFO or being sent is that of the call being made, which with
`Quiet` ends with its call; and a NAK flag that is met in the state `starting` comes from that START,
because the last byte of an earlier write, when it is refused that late, has a START queued behind it (`Shape`).
`CountTrue` adds `CountInv`: the driver counts the bytes of the reader's buffer, or the read was
`Abandoned`, which neither the interrupt nor the port will end. It uses that `requestFrom()` never asks for more than
the port can read (`CallsAssumption`: 32 bytes, `i2c_driver_wire.h:23`, of 256, `imx_rt1060_i2c_driver.cpp:22`);
otherwise the count could be that of an earlier write.

`ReadsAreWhole` adds `WholeInv`, which follows a read from `Begin` to `Return`. `ReadOf` is the balance of a
transfer that has not failed: what is in the buffer and the FIFO is what its own frame has brought, and with
what is `Left` to receive it makes up the size. A failure upsets the balance and leaves an error
behind, but the first byte that is stored forgets the error (`FirstByte`), so `ReadOf` also has to say that
a failure that comes before the first byte loses none of them, or that none will come. The frame must be the read's own: the NAK of the
register number, when it comes after the read has begun, is such a failure (`Selected`), and so is
what the end of the write left at the port. `NumberOf` is the same for the
register number, whose write has no STOP and ends before its byte is acknowledged. A read that was too
long (`Refusal`) or could not start (`Abandoned`) keeps an error or never ends. `FramesStay`, with `ReceivesOwn`,
says that the frames of calls that have returned do not change any more. As in the code each part of the interrupt
is a function of the driver, and one lemma says what it may do to a read (`Took`, `Failed`, `Ceased`);
`Carries` collects what every step of the interrupt and the port keeps.

`SuccessIsDone` adds `DoneInv`, which holds where the property speaks: callers wait, interrupts are not late
and no pin is held low on top of another failure (`Undisturbed`, `OneReason`). `WriteOf` follows a write from
`Begin` to `Return`: when all its bytes are queued, all but the last are acknowledged in a frame of its own,
and the last one is acknowledged too, is being sent, or has failed. `EmptyOf` is the same for a write of no
bytes, whose START is all there is; `Delivered` is what the calls that have returned keep. They rest on
`Sound`, which says of driver and port together: a failure flag has a fault behind it, except that a byte
sent on a bus that is not the master's fails by itself (`Blamed`); what is sent while the bus is the master's is sent in
the frame of a write (`Framed`); a write that is given up with its bytes queued has its first byte still to fail (`Filling`);
and one that is given up before its first byte will not be filled again (`GivenUp`). The last is where
`OneReason` is needed: a pin held low between the two makes the interrupt take that write up again
(section 6). `SoundServed`, `WriteServed` and `EmptyServed` are the lemmas for the interrupt; the port has one for
each of its steps (`SoundTaken` to `SoundHeld`), which `TransferSends` combines; `WriteBegins`, `SoundRead`,
`SoundReset` and `WriteEnds` are those of the calls.

**WireSlave.** `IInv` has types and indexes (`TInv`), the count (`CountInv`), what is served (`ServeInv`) and,
if the master waits for a reader in `loop()` (`Paced`), what is read (`ReadInv`). `CountInv` is what
`NeverNegative` needs without any wait: the count that `loop()` has loaded is that of the buffer, and
the index it holds is below it, unless a frame has been told since (`overtaken`). In `ReadInv`
`BufferHolds` says that what was told and is unread is what the buffer holds from
`Unread` on, and `LoadsTrue` that a value that `loop()` has loaded is still that of the field unless a
frame has come in between, in which case a byte is certainly there. It rests on `Waited`, which is the master's wait.
The writer's part is `WriteFits`: between the test of the room and the copy, the interrupt can only make room.

**I2CRegisterSlave.** `Installed`: the buffers in the driver are a function of what is selected
(`Selected`, `Waiting`). With it each frame is one step of `RegisterFile`, but for a write while
a register is selected that cannot be written, which changes nothing at all.

**CircularBuffer.** `Agrees` says, as long as every use was sound, that the buffer is a ring (`Rings`) whose
indexes are at most one capacity apart, and that the count equals their distance (`Quiet`); while a block
operation has calls to make, that the calls left bring the two together: the count is full and
enough values follow (`Writing`), there is room for the rest (`Pushing`), or there are as many
items as calls (`Reading`). The proof rests on lemmas about the arithmetic of the ring (`ModSum` and those
that follow it), which say how far apart the cells of two indexes are, and then on one lemma for each way of moving
the indexes, which says what becomes of the contents. Each operation is then one step of `Deque`. A
search uses the least place where a key is found, which exists because the order of the natural numbers is
well founded. The proof uses no more of the capacity than that it is positive.

Model-checked only: `DueIsPublished`, `FramesEnd`, `NotStuck` and `AllIsRead`. They are liveness
properties under fairness, which the prover cannot treat. Every invariant and every action property of
a passing run is a theorem, under the hypotheses the table shows.

## 6. Where the code and its comments disagree

Each is a run that TLC ends with a counterexample.

| Run | Property | What happens |
|---|---|---|
| `sampler_torn` | `FrameIsStored` | With an empty window `main.cpp:134` and the header print cell 0 while the interrupt fills it: half old, half new. |
| `slave_restart` | `ReadsFromStart` | `i2c_driver.h:137-138` says of the transmit buffer that it is what is sent "the next time" the master reads. `stop_listening()` and `listen()` in the middle of a read leave the state `transmitting` and the index; the next read goes on from there (`imx_rt1060_i2c_driver.cpp:522`). |
| `register_discard` | `IsRegisterFile` | `i2c_register_slave.cpp:41` discards "the next write" after a register is selected that cannot be written, and `test_i2c_register_slave.cpp:406-426` expects that write to use the selection up; the driver calls nobody for a frame without a buffer, so every write is discarded until a read. |
| `i2c_refused` | `ReadyIsDone` | `i2c_driver.h:77` says of `finished()` "True when it's Ok to do another read or write". A refused call sets `idle` while the STOP of its abort is still to be sent; that STOP ends the next call, which reports success although no START of it was sent. |

Seen in the code, part of the models and not a run of their own:

* Sampler: with one period more of latency than `BufferFits` allows the interrupt writes beyond
  the array (`main.cpp:198`). A report that falls due before the first sample of its window
  prints 0.0 / 0.0 (`dataHelper.cpp:36`). A reading keeps 15 bits (`main.cpp:299` shifts once)
  while the conversion to volts assumes 14.
* Select pins: they are never driven high before their first transfer (`main.cpp:91`), those of
  disabled channels never, so that several ADCs are selected during the first sample.
* Plotter: it plots whatever numbers a line has; in verbose mode raw codes are drawn as dBm.
* I2C slave: a late interrupt reports the end of a frame with the address of the next
  (`imx_rt1060_i2c_driver.cpp:485`; `AddressNotStale` is what does hold). A bit error at the end
  of a read is seen by the next interrupt and aborts the write that has begun by then. `reset()`
  leaves `trailing_byte_sent` and the bit error flag, although its comment says that it resets
  the internal state. After the end of the transmit buffer the driver sends `DUMMY_BYTE`, which is 0x00, where
  `i2c_driver.h:139-140` promises 0xFF. `imx_rt1060_i2c_driver.h:20-22` says that `initialise()` may be called outside
  the ISR; with a smaller buffer and a frame arriving the interrupt stores beyond it, because `write()` compares
  the index with the size for equality (hence `NoSmaller`).
* I2C master: a call after one that timed out finds the STOP of its own abort in the FIFO, which
  the comment at `imx_rt1060_i2c_driver.cpp:332` says "should never happen", and leaves the state
  at `starting`; the call after it is then not ready. The NAK of the last byte of a write without a STOP comes
  after the write has returned: the driver is busy again, and the next call is refused although its
  caller waited. A pin held low while a NAK is being handled, before the first byte of the next
  write, makes the interrupt take up the aborted write again, and the call reports success. Lost arbitration leaves `stopping` for ever,
  as there is no STOP to wait for; `begin()` does not reset the driver's own state. A stuck pin
  during a STOP queues a second one. A late interrupt may forget the NAK of the last byte, or
  tell it to the next call.
* I2C device: a read that times out has not failed (`i2c_device.h:104`): it returns true with the buffer as
  it was, while line 108 zeroes the buffer of a failed read "to avoid using stale data".
* Wire: `requestFrom()` returns the count of an earlier call when the driver was not ready. A shorter frame told
  between the load and the store of the index (`i2c_driver_wire.cpp:95`) leaves the index ahead of the count: `read()`
  returns -1, "no more data", and `available()` is -1 until the next frame, so that `while (Wire.available())` goes on.
  `i2c_driver_wire.h:101-103` says to fill the transmit buffer during `loop()`, but `before_transmit()` empties it before
  each read (`i2c_driver_wire.cpp:111`), so that only what the callback writes is sent.
* Register slave: `after_read` is called with a stale number when no register was selected.
* Circular buffer: `pop_back()` of a value returns the one before the one it removes; `push_front()`
  of a value on a full buffer does not move the tail; a block `write()` that does not fit before the
  end of the array counts its values twice, and one that fits there but not in the buffer leaves
  the head; `readBytes()` and `peekBytes()` copy from the first cell whatever the head, and
  `readBytes()` takes the length asked for from the count; `push_front()` and `replace()` of an array
  lose the high part of its length; `read()` of an empty buffer moves the head, `remove()` of a cell
  that holds nothing lowers the count; `push_front()` of an empty block runs 65535 times;
  `median()` without `override` sorts a copy and answers from the unsorted cells.

## 7. Not modelled, and why

The LED and `HID_CTRL.m` share no state with anything. Pin, pad and clock configuration of the
I2C ports (`initialise_common`, `set_clock`, `setPadControlConfiguration`) is constant register
writes before the drivers run. Floating point, formatting, byte order and drawing are left out:
no property is about them. Of the circular buffer `print()`, `println()`, `list()`, `isEqual()`,
`variance()`, `deviation()`, `median()`, `min()` and `max()` are left out: they change nothing, or are
another operation with other arguments. Tests and examples were read for what they expect.

## 8. What is left

The code of this repository that has control is modelled, and what the passing runs check of its
safety is proved. Left to TLC are the four liveness properties. Their bounds would be the next to
raise: `NotStuck` is checked for the calls and faults of `i2c_calls` only.
