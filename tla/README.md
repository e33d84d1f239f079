# A TLA+ development of osmo-fl2k

osmo-fl2k turns USB 3.0 VGA adapters with the FL2000 chip into digital-to-analog
converters.  The library (`src/src/libosmo-fl2k.c`, the path as seen from the
directory above this one) streams blocks of samples to the device; command line
programs and a SoapySDR driver feed it.

This directory holds TLA+ models of the code, the TLC configurations that check
them on small instances and proofs, checked by TLAPS, that hold for instances
of every size.  `PROJECT.json` lists the runs, the mutations every property is
tested against, the correspondence of definitions and source lines, the
hazards of the code and the theorems.

## 1. Inventory

| Component | State | Operations | Modules |
|---|---|---|---|
| TX streaming engine (`libosmo-fl2k.c` 475-570, 665-790, 859-1007) | `async_status`, `async_cancel`, `dev_lost`, `underflow_cnt`, state and seq of each transfer, the transfers libusb holds | `fl2k_start_tx`, `fl2k_stop_tx`, `fl2k_close`, USB worker, sample worker, `_libusb_callback` | `Fl2kTx`, its abstract specification `Fl2kStream`, `Fl2kTxProofs`, `Fl2kTxEndProofs` |
| Device open and enumeration (280-495) | the bus, libusb handles, claims, context | `fl2k_get_device_count`, `fl2k_get_device_name`, `fl2k_open`, `fl2k_close` | `Fl2kDevice`, `Fl2kDeviceProofs` |
| Register and I2C access (126-159, 1009-1108) | register 0x8020, the I2C bus | `fl2k_i2c_read`, `fl2k_i2c_write` | `Fl2kDevice`, `Fl2kDeviceProofs` |
| Transfer buffer allocation (572-643, 684-722) | `xfer_buf`, `use_zerocopy` | zero-copy allocation, fallback to malloc, freeing | `Fl2kDevice`, `Fl2kDeviceProofs` |
| Sample rate search (207-278), R/G/B conversion (792-857) | none | `fl2k_reg_to_freq`, `fl2k_set_sample_rate`, `fl2k_convert_r`, `_g`, `_b` | `Fl2kCodec`, `MCCodec`, `CodecProofs` |
| FM transmitter (`fl2k_fm.c`) | ring of frequencies (`readpos`, `writepos`), two sample buffers, `do_exit` | `main`, `fm_worker`, two modulators, callback, signal handler | `Fl2kFm`, `Fl2kFmProofs` |
| RDS encoder (`rds_mod.c`) | group and bit counters, checkwords, ring of samples | `crc`, `get_rds_ct_group`, `get_rds_group`, `get_rds_samples` | `Rds`, `MCCodec`, `CodecProofs` |
| `fl2k_tcp`, `fl2k_file`, `fl2k_test` | `do_exit`, a buffer, a file or a socket, a measurement | `main`, callback, signal handler | `Fl2kApps`, `Fl2kAppsProofs` |
| SoapySDR streaming (`SoapySDR/Streaming.cpp`) | `_buf_head`, `_buf_tail`, `_buf_count`, `_underflowEvent`, `resetBuffer`, `bufferedElems` | setup, (de)activation, `writeStream`, `acquireWriteBuffer`, `releaseWriteBuffer`, `readStreamStatus`, `tx_callback` | `SoapyStream`, `SoapyStreamProofs` |
| SoapySDR settings, registration | sample rate, hardware time, device list | getters and setters | in part: constructor and `setSampleRate` in `SoapyStream` |
| SoapySDR sample rate table | constants | `listSampleRates` | in part: `SoapyRates`, the entries below 2^24 |
| Sessions on one device | the engine's structure, used again | `fl2k_start_tx` before the last session has ended | not modelled |
| RDS waveforms, getopt, build files | constants | | not modelled: data, vendored code |

How they interact.  The application calls `fl2k_open`, `fl2k_start_tx` and,
usually right after it, `fl2k_set_sample_rate`; `fl2k_start_tx` allocates the
transfers, submits `xfer_num` of them and creates two threads.  The *sample
worker* asks the application's callback for a block, takes an EMPTY buffer,
converts the block into it and marks it FILLED; when no buffer is empty it
waits for `buf_cond`.  The *USB worker* runs libusb's event handling, from which
`_libusb_callback` is called for each transfer that ended: it submits the
oldest FILLED buffer in the place of the one that completed, or the old one
again (an underflow), and signals `buf_cond`.  `fl2k_stop_tx` may be called by the
application's thread (a signal handler), by the application's callback inside
the sample worker (end of the input), and by `_libusb_callback` itself when a
transfer failed.  It only sets flags; the USB worker then cancels all transfers,
joins the sample worker, frees the buffers and sets `async_status` to INACTIVE,
for which `fl2k_close` waits.  The SoapySDR driver and `fl2k_fm` put another
ring of buffers, with further threads, between the callback and their input;
`fl2k_fm` may mix the RDS encoder's samples into what it modulates.

Hard behaviours: the structures are shared between threads mostly with no lock
(`buf_mutex` is created but never locked; `fl2k_fm`'s mutexes neither);
condition variables are signalled and waited for without their mutex or a
predicate; `fl2k_stop_tx` tests and writes in separate steps; event handling may
happen on a second thread; transfers fail, are cancelled and are reaped at
libusb's leisure; every step of a start and of an open may fail; an I2C
operation may outlast the call that gave it up; the SoapySDR ring is drained
by one thread while another takes from it.

What makes each part correct: a buffer has one user at a time, blocks are
neither overwritten nor lost nor passed over, the pipeline stays full, nothing
is freed while used, a stop ends (engine); an open device is claimed, a closed one
leaves nothing, a buffer is freed once and as it was allocated, a call takes no
completion from before it (device); a frequency is used once, in order and with its
slope (FM); buffers are handed out in the order they were released (SoapySDR);
a program told to end waits only for a library that is stopped (applications); what the RDS encoder, the
conversions and the rate search compute is what a receiver, the device or an
exhaustive search would find.

## 2. Modules and plan

The library's own streaming is modelled in full detail in `Fl2kTx`.  Its clients
- `SoapyStream`, `Fl2kFm`, `Fl2kApps` - take it reduced to what it does to them:
it calls the callback, one call at a time, until it was stopped or lost the
device, and makes one last call then.  Their two threads and the callback are the
composition; composing them with `Fl2kTx` itself would multiply two large state
spaces and add nothing they could tell apart.

| Module | Composed of | Abstracts from |
|---|---|---|
| `Fl2kStream` | - | the engine's threads, transfers and buffers |
| `Fl2kTx` | the application's calls, USB worker, sample worker, callback; `INSTANCE Fl2kStream` | the contents of blocks |
| `Fl2kDevice` | the process's calls, the bus, the device | what registers hold, but for 0x8020 |
| `SoapyStream` | writer, callback, status poller, setter | samples and their formats, time stamps |
| `Fl2kFm` | modulator, `fm_worker`, callback, signal handler | the values of samples; the oscillator, filters and the stereo mix |
| `Fl2kApps` | `main`, signal handler, callback, of three programs | the data |
| `Fl2kCodec`, `SoapyRates`, `Rds` | calculations, and two loops as state machines | floating point (see below), wave forms |
| `MCCodec` | the bounded inputs and reference definitions of the three above | |
| `Fl2kTxProofs`, `Fl2kTxEndProofs`, `Fl2kDeviceProofs`, `SoapyStreamProofs`, `Fl2kFmProofs`, `Fl2kAppsProofs`, `CodecProofs` | theorems about the module of the name, `CodecProofs` about `MCCodec` | |
| `Numbers` | lemmas about remainders, for the rings; about smallest numbers, and with them what holds along `0..n` and the existence of recursive functions; about powers of two | |

Left for later: a module of several sessions on one device.  An abstract queue that
the rings of `SoapyStream` and `Fl2kFm` implement would say no more than
`HandsOutOldest` and `NoSampleLost` do: a drain that overlaps the callback, a
ring that runs dry and one that is overtaken break the order, and both say
exactly up to which of these it is kept.

## 3. The engine: `Fl2kTx`

### State

The fields of `struct fl2k_dev` keep their names (`async_status`, `async_cancel`,
`dev_lost`, `underflow_cnt`), as do the locals that matter (`next_status`,
`next_buf`, `buf_cnt`, `underflows`).  `state[b]` and `seq[b]` are
`xfer_info[b].state` and `.seq`, `xfer_status[b]` is the `status` of libusb's
transfer.  `uw`, `cb`, `sw`, `app` and `stop[c]` are program counters of the USB
worker, the running callback, the sample worker, the application and the calls
of `fl2k_stop_tx`.  `inflight`, `cancelling` and `plugged` belong to libusb and the
device.  `cb_base` and `notified` are history: the number of blocks published
when the callback began its scan, and whether the application was told of a
lost device.  `reported` is `data_info.underflow_cnt`, `Uninitialized` until the
sample worker first clears the structure.

### Actions

| Code | Actions |
|---|---|
| `fl2k_start_tx`, `fl2k_alloc_submit_transfers` | `StartTx` (with `AllocSubmit`), `StartTxFails`, `SpawnUsbWorker`, `SpawnSampleWorker` |
| `fl2k_close` | `CloseBegin`, `CloseFinish` |
| `fl2k_stop_tx` | `StopRead`, `StopCancel`, `StopFlag`, `StopForce` |
| `fl2k_set_sample_rate` (event handling of its control transfers) | `SetRateBegin`, `SetRateEnd` |
| `_libusb_callback` | `Dispatch`, `CbSubmitNext`, `CbResubmit`, `CbSignal`, `CbCount`, `CbError` |
| `fl2k_get_next_xfer` | `CbScan` (FILLED), `SwScan` (EMPTY), one transfer a step |
| `fl2k_usb_worker` | `UwRun`, `UwEventsReturn`, `UwPoll`, `UwDrainReturn`, `UwCheck`, `UwCancel`, `UwFlushReturn`, `UwCancelEnd`, `UwLastFlushReturn`, `UwJoin`, `UwFinish` |
| `fl2k_sample_worker` | `SwTop`, `SwCallback`, `SwScan`, `SwScanEnd`, `SwWoken`, `SwConvert`, `SwPublish`, `SwExit` |
| libusb, pthreads, the device (external) | outcomes in `Dispatch`, `SubmitResults`, `EventHandlers`, `FlushDone`, `SpuriousWakeup`, `Unplug` |

Accesses another thread can observe are separate steps; a few that it cannot
tell apart are one (in `CbSubmitNext` the two state changes and the submission:
until the transfer completes, which this thread alone learns, nobody acts on the
difference).  `fl2k_start_tx` is one step up to the creation of the first thread.

### Assumptions

- One thread's stores become visible in program order, as they do on x86-64 in
  the code the build produces.
- Calling `pthread_cond_wait` without holding the mutex, which POSIX leaves
  undefined, works as it does in glibc: it waits.
- With a libusb that has `libusb_handle_events_timeout_completed`
  (`cmake/Modules/FindLibUSB.cmake`): called with `async_cancel` already set it
  handles nothing.
- Joining a thread that was not created, and what libusb makes of a transfer
  freed in flight, are undefined; here the join returns and the transfer never
  ends.  After `fl2k_close` has freed the device the model stops.
- A transfer in flight is a member of a set: it may end before an older one, which
  allows more than the device does.
- The application does not call `fl2k_stop_tx` while it is inside `fl2k_close`.

### Constants and bounds

`XferNum` (1 or 2; the code's default is 4, and two buffers are always spare),
`MaxBlocks` (blocks supplied before the application's callback waits for the
stop; enough to fill all spare buffers), `MaxStops` (calls by the application: 2
show the forced path), `CounterRange` (the wrap of `underflow_cnt`; 1 where no
property looks at it), `StopWhen`, `ControlTransfers`, `Faults`, and
`PromptCancel`: whether a cancelled transfer is reaped by the next event
handling, as with Linux usbfs, or any time later, all that libusb promises.
The proofs hold for all values.

### Fairness

Weak fairness for each thread and each call of `fl2k_stop_tx`: the scheduler
runs them.  Strong fairness for each transfer: the device drains its endpoint
in order, so that a transfer in flight is not passed over for ever.  Nothing is
assumed of the application's stops, of spurious wake-ups or of failures.

### The abstract stream

`Fl2kStream` says what the engine does for the application without saying how:
blocks are supplied with consecutive numbers, the engine looks at those that
wait, sends one that is not behind any it saw waiting, or repeats the last; it
does not begin to look after a stop.  `ImplementsStream` is `Stream!Spec` under the
mapping `Waiting` (the numbers in FILLED buffers), `Phase` (from `async_status` and
the application's program counter) and the running scan: a supply is
`SwPublish`, a send is the scan's end and `CbSubmitNext`, everything else is a
stutter.  Blocks published during a scan may be passed over, and so sent in the
wrong order; the abstract specification allows exactly that much.

## 4. The other modules

**`Fl2kDevice`.**  One process's calls, one after the other; `pc` says where it is.
`handles` and `claimed` are libusb's, the handle being the number of the
`fl2k_open` that got it and a claim the handle's; whether an interface that an
earlier open left claimed can be claimed again is libusb's choice.  `driver` says
whether the mass storage driver is on the device, `query` what
`libusb_kernel_driver_active` answers, which may be an error: the code then goes on
as if there were none.  Each failing call of `fl2k_open` (`OpenHandle`,
`OpenDetach`, `OpenClaim`) goes to `err` (`OpenFailed`).  `register` is 0x8020, as far as
bits 31 and 30 go, `pending` the set of operations on the I2C bus, by the numbers of their
calls; 0 is one that `fl2k_init_device` sets going, as the word it writes has bits 31, 30
and 28 set.  `I2cBegin` to `I2cEnd` are the steps of both I2C calls.  `DeviceCompletes` may
come at any time and for any operation in `pending`: starting another takes none of
them back.  `late` records those that were there when the running call began its
own.  `AllocZeroCopy`, `AllocHeap`, `FreeBuffers` are the
buffers' life; in `live` is what memory each pointer really has.  A pointer left over
by two failures in one allocation sets `stale`, a short register read `short`:
what follows is left out of two properties by name.

**`SoapyStream`.**  `buf_head`, `buf_tail`, `buf_count` keep the code's meaning: the
count is of *free* buffers.  `wr`, `st` and `cb` are program counters of the
application's thread, of `readStreamStatus` and of `tx_callback`; `setSampleRate` is
one step, but may come anywhere.  The drain's read, exchange and clearing are
steps of their own (`AcquireReset`, `AcquireEvent`, with `Drain`), the callback's test,
tail, count and notification as well (`CbCheck`, `CbTake`, `CbCount`, `CbNotify`).
`content` and `queue` record which block a buffer holds and which were released;
`faults` records that a drain overlapped the callback ("race") or that
`deactivateStream` has released what nobody held ("stop"), after either of which
the counters may be wrong until the next drain.

**`Fl2kFm`.**  `readpos`, `writepos`, `lastwritepos`, `fmbuf`, `txbuf`, `len` and
`buf_prefilled` are the code's; `fm`, `mod`, `cb` and `sig` are program counters.
`Fm...` are `fm_worker`'s steps, `Mod...` those of the modulators, both of which are one
state machine that `stereo_flag` distinguishes.  `unread` and `sloped` record which
positions of the ring are new and which have their slope, `origin` and `made` which
part of the carrier a buffer holds.  `SpuriousWakeup` lets either wait return without a
signal; `spurious` records that `fm_worker`'s did, until the next callback.  `fm_worker`
does not look whether there is anything new in the ring: `overtaken` records that it passed the modulator while
that was writing, which nothing prevents.

**`Fl2kApps`.**  `program` chooses one of three programs.  `FileRead`, `TcpReceive`,
`TestCallback`, `PpmInit` and `PpmRun` are the callbacks, one round of their loops a
step; `SignalStop` and `SignalExit` the handler, in the order each program has them, which a
signal starts while the program has it installed (`Caught`): in `fl2k_test` that is before
the stream begins.  `early` records that it stopped the library before `fl2k_start_tx`.

**`Fl2kCodec`, `SoapyRates`, `Rds`, `MCCodec`.**  `Closest` is the comparison in the
search's innermost loop and `SearchNext` one round of it; `fl2k_convert` does
nothing for a color without a buffer, and `Converted` is the sample worker's three
calls of it.  `fl2k_reg_to_freq` is in
whole numbers, which the code's doubles are but for the offset it truncates; errors
are floats, exact below 2^24.  In `Rds` a 16-bit word is the set of its bits;
`NextBit` and `SameBit` are the rounds of `get_rds_samples`' loop, a cell of
the ring holds the set of wave forms added into it.  Whether a clock time group
is due is left to choice, as it depends on the clock; `groups` records the
others.

## 5. Runs

| Run | What it shows | Bounds, and why they suffice |
|---|---|---|
| `tx_safety` | With every fault, two stops, cancellation as slow as libusb allows: the buffer the sample worker writes is its own (`WriterExclusive`), waiting and sent blocks are not overwritten (`BlockIsStable`), the callback takes no block newer than one published before its scan (`OldestFilledFirst`), nothing is submitted once cancelling has begun (`NoSubmitWhileCancelling`) | three buffers and three blocks: one in flight, one filled, one converted, every buffer used again; all are proved for every size |
| `tx_control` | The callback also runs on the application's thread, inside control transfers: the cancel loop still ends (`CancelLoopExits`) | one control transfer at a time is all a thread can make |
| `tx_stop_once` | Two in flight, nothing fails, one stop: the pipeline is full while streaming (`PipelineFull`), transfers (`NoPendingAfterFree`) and device (`NoUseAfterFree`) are freed only when unused; the engine implements the stream (`ImplementsStream`) | four buffers, four blocks: both spare ones filled and used again |
| `tx_live` | Every published block is sent (`FilledIsSent`) and every waiting sample worker gets a buffer (`WaiterResumes`) as long as streaming goes on, although signals are lost and transfers may fail | three buffers and three blocks |
| `device` | Index, name and count agree (`IndicesAgree`); `OpenIsReady`, `NothingLeftBehind`, `CompletionIsFresh`, `BuffersFreedOnce` | up to three entries, known or not, in every order; two opens: a failure, or a session, and one over what it left; two I2C calls, the second against the first's late completion and against what the device does of itself; three buffers: failure at the first, in the middle, at the last |
| `soapy` | The ring's ends and count agree (`RingAligned`), blocks are handed out oldest first (`HandsOutOldest`), old data is drained before new is written (`DrainedBeforeWritten`), the writer gets the buffer still being converted only when all others are full (`WriterBehindDriver`), a waiting writer is woken (`WriterIsWoken`) | two buffers, two fragments each, three blocks: full, empty and wrapped; two starts; one setting, at any step of the others; loss of the device and underflows at any time |
| `fm` | `SlopeBeforeUse`, `NoSampleLost`; the buffer being converted is not written, unless a wait has returned without a signal (`TxBufUntouched`), the carrier goes on across buffers (`CarrierContinues`), neither thread waits for ever (`ModulatorIsWoken`, `WorkerIsWoken`) | a ring of four wraps after a block and a half; buffers of three and signals of two samples, which end before, at and after the end of a buffer |
| `apps` | A file is played without gap (`FileIsContinuous`) and ends early only where documented below (`RepeatsUnlessAligned`); `TxBufAlive`, `CountsItsInterval`; whoever sets `do_exit`, main comes to `fl2k_close` with a library that is stopped, unless the handler came before the stream (`ExitStops`) | buffers of four, files shorter, equal, longer and multiples; two signals, the second forcing the stop |
| `codec` | The rate search finds the closest setting, with the larger multiplier among equals (`RateIsClosest`); the driver's table is what the search can choose from (`TableIsAchievable`); `PixelsInPlace`, `CodewordsDivide`, `ClockTimeDecodes`, `GroupsInPattern`, `SamplesOverlapAdd` | all 3720 settings and ten targets, in and out of range; a frame of two pixel groups with any of the three colors supplied; all 2^16 blocks; every month of seven years, with 2000 and its neighbours; every minute of three days; seven bits, of which three overlap in a ring that wraps |
| `tx_stop_hangs`, `tx_two_stops`, `soapy_restart` | expected to fail: see below | the shortest instances that show it |

In all of them the application may stop for good, so deadlock is not checked;
liveness is stated as leads-to properties instead.  Each property is tested by a
mutation of the code it is about (a comparison turned round, a dropped guard,
signal, reset or wait, a loop that ends too early), defined next to the
definition it replaces.

### Fairness

Besides the engine's (section 3): in `SoapyStream` weak fairness of the callback's
steps and of a writer inside `acquireWriteBuffer`, in `Fl2kFm` of `fm_worker` and of the
callback.  Each is a thread the operating system schedules.  In `Fl2kApps` only
`main`, once `do_exit` is set, and a begun signal handler are fair.  Nothing makes the
application write, stop or poll, makes a file or a server deliver, or lets a timeout
expire.  Nor is it assumed in `Fl2kApps` that a stopped library ends: `tx_stop_hangs`
shows that the engine may deny it, and so `ExitStops` goes as far as what the
programs themselves can do.

### Where code and documentation disagree

| Run | Property | Finding |
|---|---|---|
| `tx_stop_hangs` | `StopCompletes` | A stop does not wake a sample worker that waits for an empty buffer, its usual state; the USB worker joins it for ever and `fl2k_close` never returns |
| `tx_two_stops` | `NoUseAfterFree` | A second stop sets INACTIVE at once; `fl2k_close` frees the device under the threads |
| `soapy_restart` | `HandsOutOldest` | `activateStream` forgets that the writer holds a partly filled buffer: from then on `_buf_head` is one ahead and the driver is given buffers that were not filled for it |

Seen while modelling, without a run:

- *Engine.*  Blocks published during a scan may be sent in the wrong order (505).
  The callback is told the total of underflows, not those since the last call (875).
  The one signal after an error may precede the wait, and the application is never
  told of the lost device (566).  After a failed start `fl2k_close` waits for ever
  (960).  The USB worker may join a sample worker not yet created (785).  While
  another thread handles events, cancelled transfers are freed unreaped (777).
  `fl2k_start_tx` returns 0 when a transfer could not be submitted or a thread not
  be created.  The notice of a lost device may carry an uninitialized structure;
  with `dev_lost` set `fl2k_close` does not wait for the threads.  For a color whose
  callback gives no buffer - all but one in `fl2k_fm`, `fl2k_file` and `fl2k_tcp` - nothing
  is converted (800, 822, 844), and the bytes an older block left are sent again.
- *Device.*  A failed `fl2k_open` leaves handle and claims; a list is leaked when no
  device is found; `fl2k_get_device_name` answers for an index that is too large;
  an I2C operation that was given up and completes while the next is polled for is
  taken for it; when the query for the mass storage driver fails (430) the device is
  opened with the driver on it; an index of 2^32 - 1 opens an unknown device that
  comes first; short reads of a register pass; pointers freed on the fallback stay in `xfer_buf`,
  and a `malloc` that fails then frees them again.
- *`fl2k_fm`.*  At the end of the input it closes without stopping and so waits
  for ever; the last signal of `fm_cond` may be lost on exit; after a wait of
  `fm_worker` that returns without a signal (252) it writes the buffer being converted,
  until the next callback comes; a ring that runs dry is repeated as it stands,
  and one that is overtaken loses samples.
- *Applications.*  `fl2k_test` installs its signal handler (274) before it starts to
  stream (288): a signal in between stops nothing and sets `do_exit`, and the program
  waits in `fl2k_close` for a stream that nobody stops (`ExitStops` without `early`
  fails so).  `fl2k_file -r` ends when the file's end is a buffer's end (104);
  a failed `recv` makes the remaining length grow (`fl2k_tcp.c:137`); the comparison
  that should drop `fl2k_test`'s first seconds is inverted (191), and a second call
  that comes too late never starts the measurement.
- *SoapySDR.*  Every sample format but F32 loses data or copies nothing, so that
  the runs use F32; the callback declares a buffer free before the library has
  converted it; a callback between the steps of a drain leaves the counters wrong.
  `deactivateStream` makes the count of free buffers negative, and the next drain
  (559) reduces head and count as an unsigned number: with a number of buffers
  that does not divide 2^64, which the arguments `buffers` and `asyncBuffs` allow,
  the head is wrong from the second activation on (with `Buffs = 3`, `MaxBlocks = 6`
  TLC finds `RingAligned`, `HandsOutOldest` and `WriterBehindDriver` violated).
- *RDS.*  On Linux the clock time's offset is taken from the time since 1970
  (116), not from the time zone; `ClockTimeDecodes` takes the offset as one of a zone.

## 6. Proofs

All theorems hold for every value of the constants the named assumptions allow.
A theorem that needs more says so in its ASSUME, here under "where".

| Module | Theorem | States | where |
|---|---|---|---|
| `Fl2kTxProofs` | `TypeCorrect` | `Spec => []TypeOK` | |
| | `WriterIsExclusive` | `Spec => []WriterExclusive` | |
| | `OldestGoesFirst` | `Spec => []OldestFilledFirst` | |
| | `BlocksAreStable` | `Spec => BlockIsStable` | |
| | `CancellingIsFinal` | `Spec => NoSubmitWhileCancelling` | `~ControlTransfers` |
| | `EngineIsAStream` | `Spec => ImplementsStream` | |
| `Fl2kTxEndProofs` | `NoBufferIsLost` | two buffers are never with libusb | |
| | `PipelineStaysFull` | `Spec => []PipelineFull` | only event handling and the creation of threads may fail |
| | `NobodyUsesFreed` | `Spec => []NoUseAfterFree` | one stop, after `fl2k_start_tx` has returned; no transfer fails, the device stays |
| | `NothingPendingWhenFreed` | `Spec => []NoPendingAfterFree` | one stop; prompt cancellation, no control transfers; submissions, allocation and the creation of threads may fail |
| `Fl2kDeviceProofs` | `OpenDeviceIsReady`, `ClosedLeavesNothing`, `FreshCompletion`, `BuffersAreFreedOnce` | `OpenIsReady`, `NothingLeftBehind`, `CompletionIsFresh`, `BuffersFreedOnce` | |
| | `IndicesDoAgree` | `Spec => []IndicesAgree` | |
| `SoapyStreamProofs` | `DrainComesFirst` | `Spec => []DrainedBeforeWritten` | |
| | `NoWakeupIsLost` | a writer waits for an empty ring, or its notification is still to come | |
| | `RingStaysAligned`, `OldestIsHandedOut`, `WriterStaysBehind` | `RingAligned`, `HandsOutOldest`, `WriterBehindDriver` | `~Abandons`, `Word % Buffs = 0` |
| `Fl2kFmProofs` | `TxBufIsUntouched` | `Spec => TxBufUntouched` | |
| | `CarrierDoesContinue` | `Spec => CarrierContinues` | |
| | `NoSampleIsLost`, `SlopeIsKnown` | `NoSampleLost`, `SlopeBeforeUse` | |
| `Fl2kAppsProofs` | `BufferOutlivesCallbacks`, `IntervalIsCounted`, `RepeatedFileEnds` | `TxBufAlive`, `CountsItsInterval`, `RepeatsUnlessAligned` | |
| | `FileStaysContinuous` | `Spec => []FileIsContinuous` | |
| | `ExitStopsLibrary` | who sets `do_exit` has stopped the library or is about to, unless `early` | |
| `CodecProofs` | `RateFoundIsClosest` | `Spec => []RateIsClosest` | |
| | `GroupsComeInPattern`, `SamplesDoOverlapAdd` | `GroupsInPattern`, `SamplesOverlapAdd` | |
| | `ConversionPlacesPixels`, `BytesOfTransfer`, `PixelsHaveTheirPlace` | transfers of any length, with any of the colors supplied; `PixelsInPlace` follows | |
| | `EveryCodewordDivides` | `Spec => []CodewordsDivide` | |
| | `MonthsHaveTheirLength` | the day number grows by each month's length, in all years from 1901 | |
| | `ClockTimeIsReceived` | every day number of 17 bits, hour, minute and offset is read back | |
| | `ClockTimesDecode` | `Spec => []ClockTimeDecodes`, from the two before | |

None of the assumptions under "where" can be dropped.  In the engine TLC finds a
counterexample as soon as any one of the other faults is allowed (two transfers in
flight show what failing ones do to `NoPendingAfterFree`), a second stop is
(`tx_two_stops`), a stop while `fl2k_start_tx` still runs, control transfers or slow
cancellation: each is one of the code's hazards, not of the proof.  In
`SoapyStream`, `soapy_restart` shows what an abandoned buffer does, and section 5
what `Word % Buffs # 0` does; the driver's default of four buffers divides 2^64.

*Engine.*  None of the invariants is inductive.  `Inv` adds to the types: what holds
before the threads run (`Starting`, without which a start could overwrite buffers),
the number of a block just converted (`Counting`), that a scan's locals are reset
outside it and that `fl2k_stop_tx` called by the callback keeps the callback where
it is (`Resting`), who holds which buffer (`Ownership`: what libusb holds is
SUBMITTED, what the callback chose is FILLED, what the sample worker writes is
EMPTY, so that the three are disjoint without a lock), and what the scan has
established for the transfers it has passed (`Scanning`: a block published
since has a number of at least `cb_base`, so the choice made remains right).
`BasicsStep`, `OwnershipStep` and `ScanningStep` prove the three layers, one step
per action.  `CancellingIsFinal` needs a further invariant, `Quiet`: the callback
runs only where the USB worker handles events, and once that worker has left
its first loop streaming is over.  `EngineIsAStream` rests on the same `Inv`, on
`Numbered` (the numbers in FILLED buffers are all different and below `Published`) and on
the mapping of each action to a step or a stutter.

`NoBufferIsLost` counts by the library's theorems on finite sets: with `Ownership`, the
callback has chosen a FILLED buffer and gives a SUBMITTED one back, so that the number
of the others never changes after `fl2k_start_tx`, which left at least two.

*Its end.*  `Streaming`: the USB worker leaves its first loop only when streaming is
over, which it never is again, and nothing is cancelled before.  `Healthy`: the
callback then never stops the stream and the device stays.  With these
`PipelineFull` is inductive, counted in the same way: a completion takes one transfer away, the scan's end puts one back.  `SingleStop`
follows the one stop there is, which is never forced; `Ending` says that whoever
waits in `fl2k_close` does so after it, so that INACTIVE means both workers
have ended.  `Reaping`: no transfer below the cancel loop's index is in flight, and
none when the loop is left.

*Device.*  `Opening` says how far an open has come: what each `pc` implies for the
handle, the claims, the driver and the context; `Clean` that without a failed open
there is at most one handle and no stale claim.  `Polling`: while a call polls, the bus
works for this call or for those it found there, and bit 31, which the call cleared, was
set by one of these.  `Allocated`: which pointers have memory behind them at each `pc`.
`IndicesDoAgree` is an induction over the list: `CountIsKnown` shows that the recursive
`Count` equals the number of known devices among the first ones.  The library's
induction takes an operator, which the provers cannot instantiate; `Induction` in
`Numbers` is about a *set* of numbers instead, and rests on the smallest number
outside it (`SmallestNat`, from the well-foundedness of the naturals).

*SoapySDR.*  `Announced`: as long as the counters are spoiled by `deactivateStream`,
the stream is inactive or `resetBuffer` is set.  `RingInv` is what the ring rests on.
`Aligned` relates head, count and tail modulo the ring with no condition, also
where the count is wrong: a drain adds the count to the head, so this is what makes
the head right again.  `Counted` and `Held` say, while nothing is spoiled, that every
buffer is free, filled or on its way and where the writer's, the callback's and the
library's buffers lie; `Stored`, that the filled ones hold the released blocks in order.
`WakeupIsDue` is the safety half of `WriterIsWoken` and needs nothing of this, nor any
of the assumptions: the writer tests the count and begins to wait under the mutex
under which the callback increments it, so that who waits has seen every increment
but the one whose notification is still to come.

*FM.*  `TwoBuffers`: the two pointers differ, and unless a wait has returned without a
signal `fm_worker` owns the buffer the library converts only while it waits for the
callback.  `Carrier`: how far the carrier
has gone on since the start of either buffer, for each place `fm_worker` can be in;
the rest of a signal that did not fit must be something, or the place would repeat.
`RingInv`: the positions not yet read lie right behind `writepos` (`Consecutive`),
between the two positions (`Window`) and end at `lastwritepos` (`Newest`).  Equal
positions mean a full ring or an empty one; what decides is that the modulator, once
it has measured its room, writes no more than that, while `fm_worker` only adds to it.

*Applications.*  `Closing`: the library is INACTIVE with a callback running only after
a second stop or the loss of the device.  `Rewound`: in the middle of a buffer a
repeated file is not at its end.  `Continuous`: what was played and what is in the
buffer end, modulo the file's length, where the file is read next.  `StopIsDue`, the
safety half of `ExitStops`: the handler of `fl2k_tcp` sets `do_exit` before it stops,
those of the other two after it, and the callbacks set it as well; in every order
somebody has stopped the library or is on the way to.  Only a handler that ran before
the start can be undone by it.

*Calculations.*  `SearchInv`: the result is no worse than any setting the loops have passed,
and its multiplier at least theirs; `fl2k_reg_to_freq` takes the fields back out of
a register word (`RegFields`).  `GroupsInv` gives each counter of `get_rds_group` by
the number of groups.  In `get_rds_samples` the cells, from the one put out next, hold
what the bits taken so far add to the following samples (`AddedIsDue`, `PutOutTakesDue`): a
ring of `SAMPLES_PER_BIT + FILTER_SIZE` cells is just long enough for no two samples to meet.
The pixel theorems show that the tables of the three loops are one rule (`TablesAreSwapped`: the
halves of each eight bytes change places) and that no two samples have one place
(`PixelsAreApart`).  `crc` and the receiver's division are recursive functions: that
they exist is `RecursionExists` in `Numbers`, and `CodewordDivides` follows both along
their sixteen steps, where what is left of the codeword after `i` steps is the part
of the block not yet looked at, then the register of `crc`, then the check bits
(`Left`).  A field of the clock time is a sum of powers of two in an order that is not
given: `SumIsWeight` shows that the order does not matter, `SumOfBits` that the sum
over a number's bits is the number, and `BitsPlaced` and `FieldReads` that a receiver
finds in a field what was put there and nothing of its neighbours.

Only model-checked:

- all liveness (`CancelLoopExits`, `FilledIsSent`, `WaiterResumes`, `WriterIsWoken`,
  `ModulatorIsWoken`, `WorkerIsWoken`, `ExitStops`), which is beyond the prover; of
  `WriterIsWoken` and `ExitStops` the safety halves above are proved;
- `TableIsAchievable`, a statement about 916 given numbers: TLC looks at each, and a
  proof could only do the same.

## 7. Not modelled

- Several sessions on one device at a time: `fl2k_start_tx` does not look whether
  the last session's workers have ended.  `SoapyStream` takes the application to wait.
- The oscillator, filters and the stereo mix of `fl2k_fm`, the sample conversions of
  the SoapySDR driver, the RDS wave forms: arithmetic on samples.
- The settings that return constants, the registration, the entries of the rate
  table above 2^24 (rounded by their type to floats), `getopt`, the build files.
