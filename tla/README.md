# RTLSDR-Airband in TLA+

RTLSDR-Airband receives many narrow-band voice channels with software-defined
radios, demodulates them, and sends the audio to files, streams, other
machines or *mixers* that sum several channels.  The program is one process
with many threads that share `devices[]` and `mixers[]` with few locks.  A
control socket changes all of that while it runs: channels are added, replaced,
removed, enabled and disabled; devices are retuned and change their sample rate.
The specifications here are about what can go wrong *between* those threads.

All paths below are relative to the repository; the sources are in `src/`.

## The system

| Component | Source | State | Operations | Hard because |
|---|---|---|---|---|
| Mixer engine | `mixer.cpp` | slots (`inputs`, `input_mask`, `input_removed`, `inputs_todo`), `enabled`, `interval`, `channel.state`, `channel.waveout` | connect, disable, enable an input; put samples; the half-batch loop; enable and disable the mixer | four threads, one mutex per slot, everything else unlocked |
| Live channel editing | `live_reconfig.cpp`, `control_socket.cpp` | `channel_count`, per channel `enabled`, `removed`, the two request fields, the encoder, `config_signature`; `pending_channel_frees` | `reload_diff`, `channel_enable`, `channel_disable`, teardown, reclaim | requests that time out and stay posted, indices that are reused, memory freed by a timer |
| Live device reconfiguration | `live_reconfig.cpp`, `rtl_airband.cpp`, `input-common.cpp` | `pending_centerfreq_request`, `pending_sample_rate_request`, their results, `bins`, the receiver thread | request, confirm, apply, roll back | a request overwritten by the next, hardware that fails half way |
| Batch pipeline | `rtl_airband.cpp`, `output.cpp`, `rtl_airband.h`, `input-helpers.cpp` | the ring buffer, `waveavail`, `Signal::pending_`, `devices_running`, `do_exit` | append, demodulate, output, flush, shut down | overruns, wake-ups that collapse, exit in the middle of a batch |
| Scan controller, tag queue | `rtl_airband.cpp`, `util.cpp` | `freq_idx`, `tag_queue` | hop, put, get, advance | a ring at its limit, tags late for their audio |
| Squelch | `squelch.cpp` | `current_state_`, `next_state_`, `delay_`, the counters | raw, filtered and audio sample | a long sequence of samples; counters at their thresholds |
| Configuration parser | `config.cpp`, `rtl_airband.cpp` | what it builds: devices, channels, mixers, their capacities | parse channels, outputs, mixers, devices | used at startup *and* live, where an error must not end the process and the result must be the same |
| Output writers | `output.cpp`, `helper_functions.cpp` | `output_t`, files, connections | write, split, drop, reconnect, disable | names that repeat within a second, a reconnecting thread without a lock |
| Statistics | `output.cpp`, `stats_http.cpp`, `device_stats.cpp` | - | write, serve | reads everything with no lock |
| Remote mixer transport | `mixer_remote.cpp`, `mixer_remote_wire.cpp` | routes, sequence counters | send, dispatch | lost and reordered datagrams |
| Automatic PPM | `auto_ppm.cpp`, `device_stats.cpp` | measured offsets per channel, the tracking state of `auto_ppm_device` | measure, decide, step, revert, reload | evidence older than the last step, an operator who sets the correction too |
| Rdio uploader, icecast metadata | `rdio_scanner.cpp`, `icecast_metadata.cpp` | queues | enqueue, upload, retry, update, shut down | bounded queue, coalescing, a shutdown in the middle |
| Drivers, DSP, UDP, PulseAudio, logging | `input-*.cpp`, `ctcss.cpp`, `filters.cpp`, `udp_stream.cpp`, `pulse.cpp`, `logging.cpp` | - | - | hardware, numeric code, plain I/O |

How they interact.  A receiver thread appends samples to its device's ring
buffer; a *demodulator* thread (one, or one per device) takes a batch, demodulates
every enabled channel, sets `waveavail` and signals the *output* thread of the
device.  The output thread hands each channel's batch to its outputs; an
`O_MIXER` output calls `mixer_put_samples()`.  The *mixer* thread wakes every half
batch, sums the inputs that are ready, sets the mixer's channel to `CH_READY` and
signals the output thread that owns the mixers.  The *control socket* thread
serves one client at a time.  It never changes a channel itself: it posts a
request in an atomic field and polls until the owning thread has reset it to -1,
or a timeout passes.  It does parse new channels, in slots beyond `channel_count`,
and publishes them by raising the count.  The *statistics* thread reads all of it.

What makes each correct:

- Mixer: one owner per slot; no audio of a previous owner; nothing lost or torn;
  the reserve lasts; output at a steady rate whatever the inputs do.
- Channel editing: nothing enabled without an encoder; memory outlives its readers
  and is freed once; an index is reused only after its teardown; a reload leaves the
  device as the file says; every request is consumed and every client answered.
- Device reconfiguration: the bins match the frequency and rate the hardware has; what
  a client is told about its request is true.
- Pipeline: every batch is output once or counted as an overrun; no wake-up is lost; shutdown ends.
- Sample ring: a window read across the end of the ring is contiguous in the stream.
- Scan: the outputs' metadata follows the receiver's frequency, in order.
- Files: nothing recorded is overwritten, only whole short transmissions are dropped.
- Icecast: no freed handle is used, a connected one is lost only where two threads were opening at once, a stream that
  is lost comes back.
- Titles: out of date for at most the delay, the last one wins.
- Uploads: every transmission is in one place and counted, and tried before the exit.
- Remote mixing: batches in order; what is lost is counted where it was lost.
- Automatic PPM: fresh evidence, bounded steps, rest.
- Configuration: a reload that reports no restart makes the restart unnecessary.
- Squelch: audio only after a signal was watched for the whole opening delay; each
  transmission framed exactly, nothing of the last one deciding about the next; it settles
  when the signal does.

## Modules

| Module | What it is |
|---|---|
| `Mixer` | One mixer with all the threads that touch it |
| `MCMixer` | Its instances for TLC |
| `MixerProofs` | The inductive invariant of `Mixer` and the theorems that follow |
| `ChannelLifecycle` | The channels of one device under live editing |
| `MCChannelLifecycle` | Its config files and instances for TLC |
| `ChannelLifecycleProofs` | Its invariants and theorems: teardown, convergence, memory |
| `Squelch` | The squelch of one frequency, sample by sample |
| `SquelchGate` | What a squelch promises the demodulator: the abstract gate `Squelch` implements |
| `MCSquelch` | Its instances for TLC |
| `SquelchProofs` | The inductive invariant of `Squelch`, the theorems that follow, the refinement |
| `DeviceReconfig` | The receivers, their live retuning and their end |
| `DeviceReconfigProofs` | The invariants and theorems of `DeviceReconfig` and `AutoPpm`: bins, handles, answers, the count of receivers; evidence and bounds |
| `AutoPpm` | The automatic correction of one device |
| `MCTuning` | Instances of these two for TLC |
| `InputBuffer` | The sample ring of a device |
| `Pipeline` | Batches from the demodulators to the output threads, and the shutdown |
| `ScanTags` | The scan controller and its tag queue |
| `OutputFile` | One file or rawfile output |
| `Icecast` | One icecast connection, with the two threads that share it and the server |
| `TagUpdates` | Titles of icecast streams |
| `Uploads` | The rdio-scanner upload queue |
| `RemoteMixer` | A channel here, a mixer input in another process |
| `ConfigFile` | What startup and `reload_diff` make of a configuration file |
| `Folding` | A fold keeps what each of its steps keeps |
| `ConfigFileProofs` | The invariant of `ConfigFile`, operator by operator, and `ConfigSound` |
| `DeliveryProofs` | Invariants of the other eight service modules, from the sample ring to the titles |
| `MCServices` | Instances of the nine service modules for TLC |
| `ServicesProofs` | What holds of each service holds of all together |

The components meet in the code at narrow points, and the modules are cut there.  What an O_MIXER
output hands over is `Mixer!ChannelPut`; what `RemoteMixer` puts is `Mixer!RemotePut`; the batch that
`Pipeline` flags is the one `ChannelLifecycle` visits and `OutputFile` writes; `close_file()` is
where `Uploads` begins, a due tag of `ScanTags` and the tag of `TagUpdates` are read in the same pass;
`DeviceReconfig` and `AutoPpm` call the same input functions under the same mutex.  `ConfigFile`
composes the file, the parser, the channel edits and the mixers' slots with every request answered;
`ChannelLifecycle` and `DeviceReconfig` have the requests that are not.

### Mixer

The arrays never move after `mixer_finalize_capacity()`, so a slot's fields are
functions over `0 .. Capacity - 1`.  Variables have the names of the fields.  The
rest are where each thread is (`mixPc`, `outPc`, `devPc`, `ctlPc`), the owner of each
slot as the channels know it (`slotOf`, that is `mixer_data::input`) and two history
variables: `taken`, the slots the mixer thread consumed since the last delivery, and
`peak`, the most slots ever in use at once.  Audio is where it came from: `wavein` of a
slot is the source that filled it, `waveout` the set of slots summed since it was
last cleared.

| Actions | Code |
|---|---|
| `TickWait`, `TickGather`, `MixInput`, `Emit`, `Postpone` | `mixer_thread()`: the wait for a batch not taken yet, one step per slot of the pass (under the slot's mutex), the end of the pass |
| `ApplyMixerEnable`, `FinishMixerEnable`, `ApplyMixerDisable`, `DeliverBegin`, `DeliverEnd` | the mixer part of `output_thread()`, `mixer_enable()`, `mixer_disable()` |
| `ChannelPut`, `RemotePut` | `mixer_put_samples()` from a channel or from `mixer_remote_dispatch_packet()` |
| `ChannelEnable`, `ChannelDisable`, `ChannelRemove`, `ScanInputs`, `AllInputsDied` | `mixer_enable_input()`, `mixer_disable_input()`: masking, the scan and the disable are separate steps |
| `PostMixerRequest`, `ReuseSlot`, `PublishReused`, `FreshSlot`, `PublishFresh`, `AppendSucceeds`, `AppendFails` | the control thread: requests and `mixer_connect_input()` from a live append, split where another thread may look |

Where the code leaves an order open the model does too: the mixer thread may look
between the reset of a reused slot and its publication, the outputs read `waveout`
between `DeliverBegin` and `DeliverEnd`, and so on.  Not modelled: amplification and
balance, the overrun counters, an output that disables itself after a write error
(so `outputs_enabled` is only about `mixer_disable()` and re-arming), and the fields
`mixer_connect_input()` resets for the tags.  The plain stores of `ReuseSlot` before
the publication are one step: nobody looks at a masked slot's fields between them
except the tag lookup.  One device's output thread and one mixer are modelled;
`MultipleOutputThreads` says whether the mixer has an output thread of its own.

### ChannelLifecycle

The channels of one `R_MULTICHANNEL` device.  What a `channel_t` points to - outputs,
frequency list, signature - is one block of memory with an identity, so that a slot
parsed anew points to a new block while the old one waits to be freed.  A config file
is a sequence of definitions with an `enabled` flag; a definition is `Good`, `Bad`
(parsing throws) or `Legacy` (`parse_channel()` returns false).  `RemoveTimesOut` and
the second branch of `RequestReturns` are the timeouts of `post_request_and_wait()`; the
request stays posted, as in the code.

The grace period of `reclaim_pending_channel_frees()` is 30 s, "must comfortably exceed
the widest window any reader could still be using a captured pointer".  The model
takes that at its word and no further: a queued block may be freed as soon as everyone
who was in the middle of a pass when it was queued, or entered it since, has finished,
and so has the control request that was running (`graceFor`).  It does not take it that
readers can no longer *find* the block: that is what the properties are about.  The
readers are the demodulator, which looks at enabled channels only, and the statistics
writer, which looks at all.

`Init`'s channels are those the program was started with.  `ReloadDiff` needs memory for
the channels the file would append (`MaxBlock`); both bounds stop behaviours, which is why the runs do
not check for deadlock.

### Squelch

One frequency's squelch as `demodulate()` calls it.  `phase` is what is left to do for the
current sample: `update_current_state()` and the rest of `process_raw_sample()`, then
`process_filtered_sample()` and `process_audio_sample()` where the demodulator calls them.
Nothing interleaves: the phases always follow each other, and the two halves of
`process_raw_sample()` are apart only so that each branch of `update_current_state()` is an
action with a name.

| Actions | Code |
|---|---|
| `BeginOpening`, `WaitOpening`, `OpeningOver`, `BeginClosing`, `WaitClosing`, `ClosingOver`, `BeginAbort`, `WaitAbort`, `Open`, `Close`, `StayClosed`, `StayOpen` | the branches of `update_current_state()`; `Enter` and `Stay` are what the branches that change and keep `current_state_` share |
| `RawSample` | the rest of `process_raw_sample()` |
| `FilterSkips`, `FilteredSample` | `process_filtered_sample()` |
| `AudioSample` | `process_audio_sample()` and `CTCSS::process_audio_sample()` of both detectors |

A level is the outcome of the comparison the code makes with it.  `pre_signal` is
`has_pre_filter_signal()`, chosen anew with every sample; `post_signal` is the post-filter
average against the buffered value, chosen anew when the buffer advances and when the
average is updated, and unchanged in between, which is when `update_current_state()`
reads it.  An open that makes the squelch flap lowers the squelch level, so there the
comparison may turn true.  Whether there is a lowpass filter and whether CTCSS is on is
chosen in `Init`.  Left out: the averages and the noise floor, the buffer's contents, and the
statistics (`open_count_`, `flappy_count_`, the CTCSS counts).  `recent_open_count` stops at
the threshold, beyond which the code does not tell values apart.

`SquelchGate` has two variables and five actions: shut, arming while a signal is watched,
passing.  The mapping is `OPENING` to arming with `delay_` as the age, `OPEN` and `CLOSING`
to passing, the rest to shut.

### DeviceReconfig

`hw` is what the radio is tuned to, `centerfreq`, `sample_rate` and a channel's bin what the program
believes; a bin is the tuning it was computed for.  `rx` is the life of a receiver thread, `handle`
whether the driver's device is open.  Three drivers differ in what their stop does: RTL-SDR's
ends the reader (and fails if there is none), the file's closes the `FILE` and leaves the reader,
SoapySDR has none and its reader closes the device itself.

| Actions | Code |
|---|---|
| `SeesExit`, `AllReceiversFailed`, `SkipDevice`, `FoldFailed`, `Decrement`, `VisitDevice` | the top of `demodulate()`; `devices_running--` is a load and a store |
| `Retune`, `RetuneClear`, `NoRateRequest`, `TakeRateRequest`, `StopRx`, `StopRxFails`, `Reopen`, `AdoptRate`, `Rollback`, `RateClear` | `device_apply_retune()`, `device_apply_sample_rate()`, the result published before the request is cleared |
| `RxStarts`, `RxDies`, `RxSeesExit`, `RxReadsClosedFile` | the receiver threads |
| `RequestRetune`, `RequestRate`, `AnswerRetune`, `AnswerRate`, `TimeOut`, `ControlCall`, `ParseChannel`, `PublishChannel` | the control thread |
| `SigHandler`, `JoinDemods`, `InputStop`, `JoinRx` | the end of `main()` |

A request times out when no demodulator will look at it, which is not a fault, or `MaxLate` times
although one would.  A joined thread joined again is nothing or a crash.

### AutoPpm

Offsets are in eighths of a ppm.  `Commit` is a measurement: the batch it rests on was received
under `sampledAt`, and the first one after a change of the tuning is skipped (the code skips
`FREQ_OFFSET_SETTLE_BATCHES`).  `TickReverts`, `TickHolds`, `TickWaits`, `TickAdjusts` are the outcomes of
`auto_ppm_decide()`, `TickSets` and `TickSetFails` the driver's call, apart from the decision because the
control socket may come between.  An estimate is the latest measurement where the code
averages, one measurement makes a voter, and where the code compares sums of update counts
the model knows which channels were measured since (`newer`) or, when the voters changed, lets the
comparison go either way.  A dongle may be `inverted`, which is what the divergence guard is for.

### The nine services

`InputBuffer`: a cell holds the position in the stream of its sample.  A window is read
after the lock was released, so appends come in between; `shortHead` marks the case the code does not
handle (below).

`Pipeline`: `manyDemods`, `manyOutputs` and `mixers` are chosen in `Init`, and with them the threads
and devices of each as `main()` sets them up.  The write of a batch, its flag and its signal are
three steps, the outputs' pass over a device two.  `Signal` is its pending flag.

`ScanTags`: `tag_queue_get()` and `tag_queue_advance()` are two steps, between which the controller may
put.  A tag is its number and its frequency.  A tick of the controller is one action.

`OutputFile`: a batch is its tick.  The functions of `output.cpp` are operators on a record of the
open file, the closed ones and the history.  Ticks make seconds (2) and hours (4), so that names
repeat and hours turn within a behaviour.

`Icecast`: a connection is a number with two ends, the handle (`unclosed` until `shout_close()`, `freed` after
`shout_free()`) and the source the server holds (`held`).  The server may drop a source at any time, long before a
nonblocking `shout_send()` fails.  In `shout_setup()` the server's acceptance and `icecast->shout = shouttemp`, at least
100 ms later, are two steps (`Accepted`, `Stores`); a teardown is three (`Closes`, `Frees`, `Forgets`), and each reads
`icecast->shout` again, as lines 661 to 663 do.  Merged are only the change of `channel->enabled` and the read of
`icecast->shout` after it, `shout_send()` with the `shout_queuelen()` behind it, and the checker's reads of the receiver's state and of
`icecast->shout`.  `overlaps` counts the connections stored while the other thread was opening one too: each is a
chance to overwrite a handle, or to have it forgotten.

`TagUpdates`: `deadline` counts down; the queue, the coalesced value and the worker are the code's.

`Uploads`: a transmission is its number.  The outcome of a request for the client and for the
server may differ.

`RemoteMixer`: `verdict` is what the receiver makes of this sender's packets; `lastSeen`, `holes` and
`jumpedBack` are what a perfect observer would count.

`ConfigFile`: a file is a record of what the parser's checks tell apart.  `Startable` and `Started` are startup;
`compute_and_apply_diff` folds the steps of the code over devices and mixers, with the same early ends.  An append
connects each mixer output as it is parsed, so one that throws later, over a bad output or one `init_output()` cannot set
up (`fails`), has taken slots by then.

## Runs

| Run | Instance | What it shows |
|---|---|---|
| `mixer_slots` | 2 channels, 1 connected at the start, 1 reserved slot, separate output threads | ownership, audio, reserve (`TypeOK`, `SlotSafety`, `NoForeignAudio`, `NoLostContribution`, `SlotsNotBurned`, `NoTornBatch`) |
| `mixer_flow` | 1 channel, 1 remote input, mixer requests, one output thread for all | liveness (`InputEventuallyTaken`, `MixerKeepsEmitting`, `BatchEventuallyDelivered`) |
| `channel_lifecycle` | capacity 2, 6 files, 4 blocks, 1 timeout, statistics reader | teardown, memory, convergence, requests |
| `squelch` | delays 4, buffer 3, abort after 2, flapping after 2 opens, windows 2 and 5, with and without filter and CTCSS | framing, the gate, what is forgotten, settling |
| `tuning`, `DeviceReconfig` | 2 devices, drivers RTL-SDR twice or file and SoapySDR, one or two demodulators, 2 frequencies, 2 rates, 2 requests, 2 faults, 1 late answer | `ClientToldTruth`, `BinsMatchHardware`, `HandleSafe`, `ExitsWhenAllFailed` |
| `tuning`, `AutoPpm` | 2 channels, needs 0 and 5.5 ppm, limit 6, steps of 3, 1 drift or command | `AutoPpmSound`: evidence, bounds, convergence |
| `services`, `InputBuffer` | ring of 12, steps of 2, windows of 4, chunks of 3 and 5, 30 samples | `WindowIntact` |
| `services`, `Pipeline` | 2 devices, 2 batches each, 3 arrangements of threads, with and without mixers | `PipelineSound`: accounting, draining, shutdown |
| `services`, `ScanTags` | 2 frequencies, a queue of 3, 8 tags | `MetadataFollows` |
| `services`, `OutputFile` | 5 settings, 8 ticks of 2 to a second and 4 to an hour | `FilesSound` |
| `services`, `Icecast` | 3 disables and enables, 2 lost connections or refusals, a receiver that may fail | `IcecastSound`: handles, recovery |
| `services`, `TagUpdates` | 2 streams, 3 tags, 3 changes | `TagsSound` |
| `services`, `Uploads` | queue of 2, 1 retry, 4 transmissions | `UploadsSound` |
| `services`, `RemoteMixer` | socket of 2, 4 packets, 2 restarts | `RemoteSound` |
| `services`, `ConfigFile` | 13 files | `ConfigSound` |
| `mixer_replay`, `mixer_half_armed`, `lifecycle_encoder`, `lifecycle_free`, `lifecycle_hole`, `squelch_idle_filter` | as above, some smaller | six statements of the repository that the code does not keep (next section) |

Two runs check several components.  Those share no state, so a variable `focus` picks the one that
runs in a behaviour and the others rest: the state space is the sum of theirs and not their
product, and every property is checked over all behaviours of its component, with that component's
own fairness.

Bounds.  `mixer_slots`: two channels and two slots are the least with which a slot can
pass from one channel to the other, be leaked by a failed append, and a fresh slot be
taken while another is being disabled.  `mixer_flow`: liveness needs one input that is
late and one that is not; the requests need nothing more.  `channel_lifecycle`: two
channels make a prefix and a tail; the files shrink, swap, toggle, fail half way, end in a
skipped channel and outgrow the reserve; four blocks are the two of the start and two
appends, so that each index can be replaced once, or one of them twice.  One timeout is
enough for a request to outlive its client.  `squelch`: the opening delay is one more than the
buffer, the tightest the constructor's assertion allows; the abort threshold is below the
delays, as in the code (88, 102, 197); the slow CTCSS window is longer than the fast one, and
both end inside and outside a transmission; the proofs do not depend on any of these.  `tuning`: two
requests and one late answer make a request meet the leftovers of the one before; two faults make
an attempt and its rollback fail, or a receiver die during a change; two devices make the round robin,
two demodulators and the count of running devices matter.  Half the needs are out of reach of one
step and beyond a whole ppm.  `services`: chunks that divide neither each other nor the ring wrap at every offset; two batches make
an overrun; eight tags overrun a queue of three and lap it, so that `tq_tail` stands one past its end and the output thread reads there; eight ticks hold two transmissions, a split one and a turn
of the hour; three toggles and two losses let a reconnect begin before a disable and end after the next enable, the source of the
one thread be dropped while the other's is accepted, and a handle be overwritten or forgotten; four
transmissions overflow the queue while one is retried; two restarts are one of each side; the files
differ in every way `compute_and_apply_diff()` distinguishes.

Fairness.  `Mixer!FairSpec`: the mixer thread sleeps for a fixed time and takes no lock held
across a wait (weak fairness of its steps); an output thread finishes the handler it is
in, and visits its mixers on every pass, so a batch that is ready again and again is
delivered (strong fairness of `DeliverBegin`: another thread's handlers and the mixer's
own flags may take the chance away between two passes).  Nothing is assumed of producers, the control socket or
channel edits.  `ChannelLifecycle!FairSpec`: the device is running, so batches keep coming
and the output thread keeps making passes; the control thread keeps polling; a reader's
pass ends.  `Squelch!FairSpec`: samples keep coming.  `DeviceReconfig`: demodulators loop, receivers that were
started start and see the exit, the control thread polls until its answer or timeout, `main()` goes on; clients, failures,
signals and driver calls need not happen.  `AutoPpm`: channels keep talking and the worker keeps ticking.  `Pipeline`: threads
that have something to do do it; samples need not come, nor a signal.  `ScanTags`: the device delivers batches, so due
tags are looked at.  `Icecast`: the two threads go on, an opening returns (it has a timeout), the server drops a source
that is silent, and a thread that goes on sending to a source the server dropped is told in the end, by a reset or by a backlog
over `MAX_SHOUT_QUEUELEN` (strong fairness of `LossNoticed`: between two sends the thread does other things).  `TagUpdates`: batches come, requests end (they have timeouts).  `Uploads`: the same for uploads.
`RemoteMixer`: a receiver reads what its socket holds, an enabled sender sends.  `InputBuffer`, `OutputFile` and `ConfigFile`
have safety properties only.  When a device has failed its output thread never applies a request and the
code answers with a timeout: no property here covers that case.

## Where the code and its comments differ

1. `mixer_replay` - a mixer whose inputs are all late for a whole batch sends the previous
   batch again: `waveout` is cleared by the first input of a batch, and there was none
   (`mixer.cpp:345`, `mixer.cpp:401`), while the comment at `mixer.cpp:305` says late inputs
   are "filled with 0s".
2. `mixer_half_armed` - `mixer_connect_input()` sets `enabled` but does not re-arm outputs that
   `mixer_disable()` took down (`mixer.cpp:116`, `mixer.cpp:168`), against `mixer.cpp:63`.
3. `lifecycle_encoder` - an enable request that outlived its client's wait is applied after
   the channel was torn down: it is enabled with no encoder, the "real crash" of
   `rtl_airband.h:488`.
4. `lifecycle_free` - a removal that timed out leaves its index within `channel_count`; the
   memory behind it is freed 30 s after the late teardown, while the output thread and the
   statistics writer still visit the index.
5. `lifecycle_hole` - a definition `parse_channel()` returns false for is counted if a later
   channel of the same append parses (`live_reconfig.cpp:630`), where startup would not.

6. `squelch_idle_filter` - `should_filter_sample()` lets filtered samples through while the squelch is
   CLOSED and a signal is rising: the post-filter average is updated and may veto the opening
   (`squelch.cpp:137`, `squelch.cpp:268`), against `squelch.h:47-48`.

3 and 4 need a request that misses its timeout; the passing run shows that without one
(`timeouts = 0`) the same properties hold (`EncoderPresentOnTime`, `NoReadAfterFreeOnTime`,
`FreedOnceOnTime`).

### Limits of the properties

Some properties except a case, because the code does not do better there.  Each was met as a
counterexample, and is part of what the modules say:

- `WindowIntact` (`shortHead`): the tail copy goes only as far as the chunk that begins the ring.  If
  less than a window of it lands there, the rest of the copy stays that of the last round, although
  `input-helpers.cpp:31` promises a whole FFT batch without wrapping.  Drivers deliver chunks far longer than a window,
  so it takes an odd chunk length.
- `PipelineDrains`: an output thread that sees `do_exit` may flush and end before the demodulator flags its last
  batch; a mixer's last batch is not flushed at all.
- `MetadataFollows`: a hop that fails leaves `freq_idx` on the new frequency, so the next tag names it.
- `FilesSound`: `min_rx_seconds` deletes the short last part of a split transmission; a file reopened within its second after a
  failed write or a disable is appended to, and dropped with what it held; with `append = false` it is truncated.
- `IcecastSound`, of handles (`StreamHandleSafe`): holds while the receiver works, as `output_check_thread()`'s close for a failed one races the output
  thread.  A reconnect that overlaps a `channel_enable` of its channel may lose a connected handle: the second
  `icecast->shout = shouttemp` overwrites the first (`output.cpp:154`), which takes a source the server dropped in between,
  or line 663 forgets the one that was stored since line 661.  The property bounds how many are lost that way by how often
  it happened, and says none is lost in any other.
- `IcecastSound`, of recovery (`StreamRecovers`): only for a receiver that goes on working; with `INPUT_DISABLED` nobody reconnects.
  No property says that a disabled channel is silent: a reconnect begun before a `channel_disable` stores its connection after it
  (`output.cpp:154`), as the teardown found `icecast->shout` NULL (`output.cpp:771`), against `output.cpp:1821-1822`.  The server
  drops that source as silent, and after the next enable the first sends find it out.
- `TagsSound`: a failed title update is not repeated, nor is the title sent again after a reconnect.
- `UploadsSound`: a worker is only started at startup, so an rdio-scanner output appended live uploads nothing; an answer that is
  lost makes the server hold a transmission twice.
- `AutoPpmSound`: two channels that disagree and talk in turn make the correction hunt; a correction set between a decision and its
  step is overwritten; one set beyond the limit while automatic correction is off stays after it is switched on.
- `RemoteSound`: after `channel_disable` and `channel_enable` a remote output sends nothing more; a restarted sender's packets
  count as duplicates until its numbers pass the old ones.
- `ConfigSound`: a failed append keeps the mixer slots it took (`lost`), those of the channel it failed in included, so the advice of `live_reconfig.cpp:841` to fix the file and
  reload may fail for want of slots; a file with a channel that ends parsing early makes other channels than a restart would; what
  a file no longer sets is left as it is; `sample_rate` equal to `WAVE_RATE` is accepted and then fails an assertion.
- `HandleSafe`: the file driver's stop closes its `FILE` under the reader (`input-file.cpp:160`); the SoapySDR reader
  closes its device at the exit while a command may call it; after a failed rollback the receiver thread is joined twice.
- `ExitsWhenAllFailed`: a file that ends just before its stop is counted out and reopened; several demodulators may lose a
  decrement of `devices_running`, and then the program does not exit.
- `ClientToldTruth` and `BinsMatchHardware` hold as long as no request misses its timeout while a demodulator lives: one
  that does may swallow the next (`live_reconfig.cpp:428`).

## Proofs

`MixerProofs` proves for all values of the constants that meet `MixerAssumption` (any number of
channels, remote inputs and reserved slots): `TypeCorrect`, `SlotsAreOwned`, `NoForeignAudioEver`,
`ContributionsKept`, `ReserveIsKept` and `BatchesNotTorn`.  The invariant is

    IInv == TypeOK /\ IntervalInv /\ OwnerInv /\ AppendInv /\ BatchInv /\ SlotsNotBurned

- `IntervalInv`: while `CH_READY` is waiting the interval is positive, and in a pass over a batch
  not taken yet it is 0.  Without it `interval - 1` could leave its range and a batch be torn.
- `OwnerInv`: `SlotSafety` and what keeps it so: an enabled channel's slot is unmasked, a slot in
  the hands of the control thread belongs to nobody.
- `AppendInv`: what the control thread has promised about the slot it is connecting: it is a
  tombstone or the first one beyond `input_count`, reset, and nobody writes to it.  This is why
  the publication can come last without a lock.
- `BatchInv`: what was taken is in `waveout` unless the batch was delivered.
- `SlotsNotBurned` is inductive with `OwnerInv`; it needs cardinalities of `InUse`.

Each conjunct has a lemma of its own with one step per action; `Inductive` puts them together.
Like every invariant here it was model-checked before it was proved.

`SquelchProofs` proves, for all delays, buffer sizes, thresholds and windows that meet
`SquelchAssumption`, every safety property its run checks: `TypeCorrect`,
`LowSamplesBounded`, `FilteredOpenings`, `ToneGate`, `AudioFramed`, that only the documented pairs of states occur (`TransitionsValid`), and that `Squelch` implements
`SquelchGate` (`Refinement`).  The invariant is

    IInv == TypeOK /\ PairInv /\ DelayInv /\ LowInv /\ FilterInv /\ ToneInv

- `PairInv`: the pairs of current and next state that do occur, fewer than the comment in
  `set_state()` lists (never OPENING to CLOSING, never CLOSING to OPENING).
- `DelayInv`: in OPENING the delay is below `open_delay_` until it is over, and exactly that when
  OPEN is next: the refinement rests on it.
- `LowInv`: a count at the limit has already turned the squelch away from OPEN when the sample is
  done.  The post-filter level may turn the abort into a CLOSING, hence the one more sample.
- `FilterInv`: past `buffer_size_`, every sample of an opening has gone through the filter.
- `ToneInv`: the detectors are blank until OPEN, and what they know later was heard since.

`ChannelLifecycleProofs` proves every safety property of `channel_lifecycle` for any capacity, files, blocks,
readers and number of timeouts (`LifecycleAssumption`).  Three need nothing more: `TypeCorrect`,
`TornDownBeforeReuse` (`RemovedWhenTornDown`) and `ReloadsConverge` (`ReloadConverges`), from

    IInv == TypeOK /\ ControlInv /\ TeardownInv /\ MemoryInv /\ RequestInv /\ ConvergeInv

- `ControlInv`: where the control thread is in the file and in the channels; without it an index could leave the array.
- `TeardownInv`: a removal request is reset only by a teardown that is complete.
- `MemoryInv`: no block is two channels'.
- `RequestInv`: while nothing was late, the one posted request is the one the control thread waits for, and a removed
  channel is the last one, with its removal under way.
- `ConvergeInv`: the prefix kept has the file's signatures, the appended channels have the file's definitions and flags, and so
  have the toggles behind the loop.

The others, `PublishedAreParsed`, `EncodersPresent`, `NoReadsAfterFree` and `FreedOnlyOnce`, rest on `HoleFreeInv`:
`ParsedInv` (what is published, or about to be, has its encoder and a block that is not queued) and `GraceInv` (a reader
inside a queued block is one of those the free waits for, and so is the control thread for a channel still counted).  They assume
`NoHoles`, that no file has a channel that parses after one `parse_channel()` returned false for.  That is a restriction of
the *files*, and the theorems are false without it: it is what `lifecycle_hole` shows (finding 5).  The last three say something only
as long as `timeouts = 0`, as the properties themselves do (findings 3 and 4).

`DeviceReconfigProofs` proves, for any number of devices, drivers, frequencies, rates, requests and faults
(`DeviceAssumption`), `TypeCorrect`, `BinsFollowHardware`, `HandlesSafe`, `ClientsToldTruth` and `GivesUpInTheEnd`, from

    DInv == DevTypeOK /\ LocalsOK /\ PlaceInv /\ TuningInv /\ WaitInv /\ BinsInv /\ TruthInv
            /\ RxInv /\ HandleInv /\ CountInv

- `PlaceInv`: which demodulator is at which device, and that one is between `StopRx` and the end of an attempt exactly if
  it holds `control_mutex`.  All the rest needs this: two threads at one device would break every line below.
- `TuningInv`: the program's belief is the hardware's tuning, save for the rate until a rollback is over.
- `WaitInv`: unless something was late, whatever is posted is what the client waits for, or nobody will ever look at it
  (`Deaf`), and a demodulator works only on what is posted.
- `BinsInv`, `TruthInv`: the bins, and what the client is about to be told, in terms of where the demodulator is.
- `RxInv`, `HandleInv`: receiver threads and open devices, without file inputs and with at most one fault; these are the
  conditions of `HandleSafe`, and why it has them is under its name above.
- `CountInv`: `devices_running`, and each value a thread has read of it, plus the devices counted out is at least the
  number of devices.  A lost decrement only raises the sum, so the program never gives up too early.

The module also has the proofs of `AutoPpm` (`AutoPpmAssumption`: any needs, limits, steps and commands, with at most two
channels, as in the module).  `EvidenceIsFresh`: a channel that has a vote has measured under the present correction, since every change makes
the ones before stale (`FreshInv`).  `AdjustmentsBounded`: between a decision and its step what `ppmSets` holds is within the
limit, and (`StepInv`) within a step of the correction it was decided on (`wasAt`), which an operator may have moved meanwhile
or had put outside the limit before.
`TuningTypeCorrect` joins the types of both components for the specification that `tuning` checks.

`DeliveryProofs` has the services from the sample ring to the titles, one part per module.  It proves `WindowHolds` and `BufferTypeCorrect` for every ring, step, window and set of chunks
(`BufAssumption`).  `PositionInv` says that the laps of the reader and the writer are a whole number of ring sizes apart, `RingInv` which
sample each cell holds, of this lap or the last, and `TailInv` that the copy behind the end is the ring's head.  A
window in the middle of an append is safe because the writer stays a lap less the window away.

That nothing handed on is lost, in three components:

- `BatchesNeverVanish` and `PipelineTypeCorrect` (`PipeAssumption`: any number of devices).  `PInv` adds to the accounting
  which thread is at which device (`DemodPlace`, `OutputPlace`): a batch being output is still flagged, and only its own
  demodulator counts an overrun.
- `UploadsAccounted`, `TriedBeforeExit`, `UploadsTypeCorrect` (`UploadsAssumption`: any queue length and number of
  retries).  `WorkInv` ties the worker to the transmission at the head of its work, `ApartInv` keeps the places of a transmission apart.
- `PacketsAccounted`, `PutsNeverGoBack`, `RemoteTypeCorrect` (`RemoteAssumption`: any socket and number of packets and
  restarts).  `FifoInv`: what is in the socket is in the order it was sent, of the runs of the sender in their order; `SeqInv`: the
  receiver's expectation is behind it; `SentInv`: every number drawn is dropped, lost, waiting or processed.

The safety parts of three more, each from an invariant of its own:

- `HandleStaysSafe` (`StreamHandleSafe`, the safety half of `IcecastSound`) and `StreamTypeCorrect` (no assumption at all: any number of toggles and lost
  connections).  `HandedOver` has three parts, of the time while the receiver works.  `HandleInv`: only the output thread closes, and
  between its `shout_free()` and the assignment `icecast->shout` may name an open handle the checker has just stored, anywhere
  else it names an open one.  `OpeningInv`: what a thread is about to store is open and nobody else's, and if both are
  opening nothing is stored yet.  `LossInv`: the handles lost so far, and the one at stake (`Stake`: about to be overwritten, or
  stored and about to be forgotten), are no more than the overlaps.  `HandOverKept` has one step per action; where `Stores` or
  `Forgets` loses a handle it is the one that was at stake (`OneLost`), and no other step loses any (`NoneLost`).
- `TagsStayPrompt`, `TitlesNotOvertaken` and `TagTypeCorrect` (`TagsAssumption`: any streams, titles and delay).  `WaitInv`: how long a
  title was out of date and what is left of its delay add up to the delay, so a flapping tag cannot postpone it; `QueueInv`: a
  stream is in the worker's queue exactly while it has a value to send; `TitleInv`: that value is the one applied last.
- `TagsInOrder`, `TagsNameTheFrequency` and `ScanTypeCorrect` (`ScanAssumption`: any ring of at least two slots, any number of
  frequencies and tags).  `SlotsWritten` says which tag each slot was last written with, this lap of the head or the one before;
  `OrderInv` that what the outputs show is older than everything between tail and head, and what the output thread holds is not
  behind the tail.  `tag_queue_put()` moves the tail on an overrun without the wrap, and with the tail one past the end the next
  laps go unnoticed: `Behind` counts a whole lap there, and the order holds all the same.

The ring's invariant was written for that case, and TLC showed that four tags in a ring of three never reach it; hence the
eight of `services`.

And of files `FilesStaySound` (`FilesSound`) and `FileTypeCorrect` for every combination of settings and all
split times (`FileSettings`, and `FileTimesAssumption`, which is what `valid_split_file_times()` accepts).  The functions of
`output.cpp` are proved one by one: `Sound` is the invariant of a world before and after each (`CloseSound`, `RenameSound`,
`CloseIfNecessary`, `OpenNewSound`, `WrittenSound`), and `FPreserved` puts them together.

- `NameInv`: each name on the disk is past, that is, no file opened from now on is given it, and free of the open file's
  name, also after `RenameFirst` gave that one the second its transmission began in.
- `FreshInv`: without an interruption every file on the disk is of an earlier second or hour.  Closing keeps this because
  `split_min_file_time` is at least a second.
- `FirstInv`: the first file of a transmission holds all of it, so that dropping it drops no part of a longer one.
- `LostInv`, `DropInv`, `HourInv`: the three properties.

`ConfigFileProofs` proves `ConfTypeCorrect` and `ConfigStaysSound` (`ConfigSound`) for every set of files that meets
`ConfigAssumption`: lists are lists, a setting has the type the parser asks libconfig for, and no two mixers have the same name,
which libconfig's grammar guarantees for the keys of one group.  Nothing is assumed of the files' contents beyond that: they may
fail any check of the parser.  The invariant is

    ConfInv == conf_file \in Files /\ (running = NotRunning \/ RunOk(running))

where `RunOk` says that each device has the channels of a parser (`DevOk`, no more than its capacity), each mixer has room for what it
holds (`Fits`) under a name of its own, and its inputs are exactly those of the published channels that feed it (`Fed`).

- What startup and `reload_diff` do is loops over lists, and a statement about a loop is an induction over its list.  `Folding` makes
  that induction once: its step and its invariant are constants of the module, `FoldKeeps` says that a fold keeps what each step
  keeps, and each loop of the code is an instance (`OfKept`, `OfCounted`, `OfOutputs`, `OfChannels`, `OfToggles`, `OfDevices`, `OfMixers`).
  Induction over the natural numbers is there a theorem about a set (`Induction`), from the well-foundedness of their order.
- Every operator of the diff has a lemma that says what it leaves (`Removed`, `AppendedOk`, `AppendedNot`, `EnabledSet`, `Toggled`,
  `TailIs`, `ReloadedChannels`, `TunerIs`, `ReloadedDevice`, `ReloadedMixers`, `AppliedDiff`): the state is `RunOk`, the
  other devices are untouched, and if nothing was skipped the part it is about is as the file says.  `OwnedGrown` and `OwnedCut` are
  why the slots stay owned: what an append connects and what a removal masks are exactly the inputs of the channels that come and go.
- `StartedIs` says the same of a start, so that `RestartStep` may compare the two; `IdleStep` runs the diff from there.

For this the parser's filters became folds like the other loops, the tuner's settings operators on one device, and `RunsAs` compares the
numbers of devices and mixers too.

`ServicesProofs` proves `ServicesTypeCorrect` and `ServicesStaySound` of the specification that `services` checks: a step of
all is a step of one and leaves the others alone (`EachTurn`), so each behaves as it does by itself (`EachByItself`).  No fairness is used.

Proved as parts of what a run checks: `BatchesNeverVanish`, `UploadsAccounted`, `TriedBeforeExit`, `PacketsAccounted`,
`PutsNeverGoBack`, `GivesUpInTheEnd`, `HandleStaysSafe`, `TagsStayPrompt`, `TitlesNotOvertaken`, `TagsInOrder`,
`TagsNameTheFrequency`, `EvidenceIsFresh` and `AdjustmentsBounded` are the safety parts of `PipelineSound`, `UploadsSound`,
`RemoteSound`, `ExitsWhenAllFailed`, `IcecastSound`, `TagsSound`, `MetadataFollows` and `AutoPpmSound`, which have liveness in them too.

Only model-checked:

- all liveness, as the prover has no fairness (`RequestsServed`, the three of `mixer_flow`, the settling of the squelch, the
  exit, the draining, recovery and convergence inside the `...Sound` properties);
- the second half of `FreshEvidence`, that a dongle which follows is not given up: it depends on how far a series of steps can
  diverge, so on the numbers, and TLC has those.

Assumed: the constants' assumptions, that a `std::atomic` access is one step, that `rtlsdr_read_async()` returns 0 after a
cancel, and the atomicity named above.

## Not modelled, and the plan

Left to do: `Mixer` composed with the outputs of its own channel, for `mixer_disable()` on another thread, and the
labels `mixer_tx_tag()` reads.

Left out for good: FFT, filters, demodulation and the tone powers behind CTCSS (numeric code); vendor libraries
behind the drivers, sample formats, gains and bandwidths (each is one guarded call, `ControlCall`); UDP and
PulseAudio outputs (one `sendto()`, one library call, no state of their own that another thread sees); the text of
statistics and their HTTP server (a reader, which `ChannelLifecycle` has); the wire formats and JSON; the control
socket's accept loop, limits and peer check; the text interface; logging.
