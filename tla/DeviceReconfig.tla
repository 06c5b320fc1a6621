--------------------------- MODULE DeviceReconfig ---------------------------
(***************************************************************************)
(* The receivers and their live reconfiguration: clients of the control    *)
(* socket retune a device or change its sample rate, the demodulator that  *)
(* owns the device applies what was posted (src/src/live_reconfig.cpp,     *)
(* src/src/rtl_airband.cpp), receiver threads start, die and are joined    *)
(* (src/src/input-*.cpp), and main() stops the devices at the end.         *)
(*                                                                         *)
(* `hw' is what the radio is really tuned to; the fields of input_t and    *)
(* the channels' bins are what the program believes.  A channel's bin is   *)
(* the pair (centerfreq, sample_rate) it was computed for.                 *)
(***************************************************************************)
EXTENDS Integers, FiniteSets

CONSTANTS
  DeviceCount,      \* devices 0 .. DeviceCount - 1
  Drivers,          \* the drivers the devices may have: functions to rtlsdr, soapysdr, file
  Tunable,          \* the R_MULTICHANNEL devices clients reconfigure
  Freqs, Rates,     \* what they may ask for
  StartFreq, StartRate,
  MaxChannels,      \* channel_capacity
  MaxRequests,      \* bound: requests of a behaviour
  MaxFaults,        \* bound: hardware calls that fail, receivers that die, signals
  MaxLate,          \* bound: requests whose timeout a live demodulator misses
  None              \* no request (-1)

Devices == 0 .. DeviceCount - 1
Tuning(f, r) == [freq |-> f, rate |-> r]

ASSUME DeviceAssumption ==
  /\ DeviceCount \in Nat \ {0}
  /\ Drivers \subseteq [Devices -> {"rtlsdr", "soapysdr", "file"}]
  /\ Tunable \subseteq Devices
  /\ StartFreq \in Freqs /\ StartRate \in Rates
  /\ MaxChannels \in Nat \ {0}
  /\ MaxRequests \in Nat /\ MaxFaults \in Nat /\ MaxLate \in Nat
  /\ None \notin Devices \union Freqs \union Rates

VARIABLES
  state, rx, handle, driver, centerfreq, sample_rate, hw,       \* input_t
  bins, channel_count,
  reqFreq, freqFailed, reqRate, rateFailed,                     \* pending_*_request, *_apply_failed
  demodPc, cur, got, ok, oldRate,                               \* the demodulators
  control_mutex, devices_running, do_exit, multiple_demod_threads,
  ctl,                                                          \* the control thread's request
  mainPc,                                                       \* "run", the device being stopped, "done"
  crashed, badCalls,                                            \* history
  requests, faults, late                                        \* bounds

inputVars == <<state, rx, handle, driver, centerfreq, sample_rate, hw>>
binVars   == <<bins, channel_count>>
reqVars   == <<reqFreq, freqFailed, reqRate, rateFailed>>
demodVars == <<demodPc, cur, got, ok, oldRate>>
progVars  == <<control_mutex, devices_running, do_exit, multiple_demod_threads>>
histVars  == <<mainPc, crashed, badCalls>>
budget    == <<requests, faults, late>>
devVars   == <<inputVars, binVars, reqVars, demodVars, progVars, ctl, histVars, budget>>

Idle == [pc |-> "idle"]
Thread == IF multiple_demod_threads THEN Devices ELSE {0}

\* Mutant: the round robin does not wrap.
next_device_unwrapped(t) == IF multiple_demod_threads THEN t ELSE cur[t] + 1

(* next_device(): round robin over the devices of the thread. *)
next_device(t) == IF multiple_demod_threads THEN t ELSE (cur[t] + 1) % DeviceCount

Init ==
  /\ driver \in Drivers
  /\ state = [d \in Devices |-> "RUNNING"]
  /\ rx = [d \in Devices |-> "alive"]
  /\ handle = [d \in Devices |-> TRUE]
  /\ centerfreq = [d \in Devices |-> StartFreq]
  /\ sample_rate = [d \in Devices |-> StartRate]
  /\ hw = [d \in Devices |-> Tuning(StartFreq, StartRate)]
  /\ channel_count = [d \in Devices |-> 1]
  /\ bins = [d \in Devices |-> [j \in 1 .. MaxChannels |-> Tuning(StartFreq, StartRate)]]
  /\ reqFreq = [d \in Devices |-> None] /\ freqFailed = [d \in Devices |-> FALSE]
  /\ reqRate = [d \in Devices |-> None] /\ rateFailed = [d \in Devices |-> FALSE]
  /\ multiple_demod_threads \in BOOLEAN
  /\ demodPc = [t \in Devices |-> "loop"] /\ cur = [t \in Devices |-> t]
  /\ got = [t \in Devices |-> None] /\ ok = [t \in Devices |-> TRUE]
  /\ oldRate = [t \in Devices |-> StartRate]
  /\ control_mutex = None /\ devices_running = DeviceCount /\ do_exit = FALSE
  /\ ctl = Idle /\ mainPc = "run" /\ crashed = FALSE /\ badCalls = {}
  /\ requests = 0 /\ faults = 0 /\ late = 0

Fault == faults < MaxFaults /\ faults' = faults + 1

(***************************************************************************)
(* demodulate(): the top of the loop.                                      *)
(***************************************************************************)
Goto(t, pc) == demodPc' = [demodPc EXCEPT ![t] = pc]
NextDevice(t) == Goto(t, "loop") /\ cur' = [cur EXCEPT ![t] = next_device(t)]

SeesExit(t) ==
  /\ demodPc[t] = "loop" /\ do_exit
  /\ Goto(t, "exited")
  /\ UNCHANGED <<inputVars, binVars, reqVars, cur, got, ok, oldRate, progVars, ctl, histVars, budget>>

(* "All receivers failed, exiting" *)
AllReceiversFailed(t) ==
  /\ demodPc[t] = "loop" /\ ~do_exit /\ devices_running = 0
  /\ do_exit' = TRUE
  /\ UNCHANGED <<inputVars, binVars, reqVars, demodVars, control_mutex, devices_running, multiple_demod_threads, ctl, histVars, budget>>

AtDevice(t) == demodPc[t] = "loop" /\ ~do_exit /\ devices_running # 0

SkipDevice(t) ==
  /\ AtDevice(t) /\ state[cur[t]] \notin {"RUNNING", "FAILED"}
  /\ NextDevice(t)
  /\ UNCHANGED <<inputVars, binVars, reqVars, got, ok, oldRate, progVars, ctl, histVars, budget>>

\* Mutant: the failed device stays FAILED and is counted at every visit.
FoldFailedAgain(t) ==
  /\ AtDevice(t) /\ state[cur[t]] = "FAILED"
  /\ got' = [got EXCEPT ![t] = devices_running]
  /\ Goto(t, "decrement")
  /\ UNCHANGED <<inputVars, binVars, reqVars, cur, ok, oldRate, progVars, ctl, histVars, budget>>

(* INPUT_FAILED becomes INPUT_DISABLED and devices_running--, a load and a store. *)
FoldFailed(t) ==
  /\ AtDevice(t) /\ state[cur[t]] = "FAILED"
  /\ state' = [state EXCEPT ![cur[t]] = "DISABLED"]
  /\ got' = [got EXCEPT ![t] = devices_running]
  /\ Goto(t, "decrement")
  /\ UNCHANGED <<rx, handle, driver, centerfreq, sample_rate, hw, binVars, reqVars, cur, ok, oldRate, progVars, ctl, histVars, budget>>

Decrement(t) ==
  /\ demodPc[t] = "decrement"
  /\ devices_running' = got[t] - 1
  /\ got' = [got EXCEPT ![t] = None]
  /\ NextDevice(t)
  /\ UNCHANGED <<inputVars, binVars, reqVars, ok, oldRate, control_mutex, do_exit, multiple_demod_threads, ctl, histVars, budget>>

VisitDevice(t) ==
  /\ AtDevice(t) /\ state[cur[t]] = "RUNNING"
  /\ got' = [got EXCEPT ![t] = reqFreq[cur[t]]]
  /\ Goto(t, IF reqFreq[cur[t]] = None THEN "rate" ELSE "retune")
  /\ UNCHANGED <<inputVars, binVars, reqVars, cur, ok, oldRate, progVars, ctl, histVars, budget>>

(***************************************************************************)
(* device_apply_retune() with input_set_centerfreq(): bins are recomputed  *)
(* only for a frequency the hardware reached.                              *)
(***************************************************************************)
recompute_channel_bins(d, f, r) ==
  bins' = [bins EXCEPT ![d] = [j \in 1 .. MaxChannels |-> IF j <= channel_count[d] THEN Tuning(f, r) ELSE @[j]]]

RetuneWorks(t) == LET d == cur[t] IN
  /\ state[d] = "RUNNING"
  /\ hw' = [hw EXCEPT ![d] = Tuning(got[t], @.rate)]
  /\ centerfreq' = [centerfreq EXCEPT ![d] = got[t]]
  /\ recompute_channel_bins(d, got[t], sample_rate[d])
  /\ ok' = [ok EXCEPT ![t] = TRUE]
  /\ UNCHANGED faults

\* Mutant: the bins are recomputed although the hardware refused.
RetuneFailsRecomputes(t) ==
  /\ state[cur[t]] = "RUNNING" => Fault
  /\ state[cur[t]] # "RUNNING" => UNCHANGED faults
  /\ ok' = [ok EXCEPT ![t] = FALSE]
  /\ recompute_channel_bins(cur[t], got[t], sample_rate[cur[t]])
  /\ UNCHANGED <<hw, centerfreq>>

RetuneFails(t) ==
  /\ state[cur[t]] = "RUNNING" => Fault
  /\ state[cur[t]] # "RUNNING" => UNCHANGED faults
  /\ ok' = [ok EXCEPT ![t] = FALSE]
  /\ UNCHANGED <<hw, centerfreq, bins>>

Retune(t) ==
  /\ demodPc[t] = "retune" /\ control_mutex = None
  /\ RetuneWorks(t) \/ RetuneFails(t)
  /\ freqFailed' = [freqFailed EXCEPT ![cur[t]] = ~ok'[t]]
  /\ Goto(t, "retuneClear")
  /\ UNCHANGED <<state, rx, handle, driver, sample_rate, channel_count, reqFreq, reqRate, rateFailed, cur, got, oldRate, progVars, ctl, histVars, requests, late>>

RetuneClear(t) ==
  /\ demodPc[t] = "retuneClear"
  /\ reqFreq' = [reqFreq EXCEPT ![cur[t]] = None]
  /\ Goto(t, "rate")
  /\ UNCHANGED <<inputVars, binVars, freqFailed, reqRate, rateFailed, cur, got, ok, oldRate, progVars, ctl, histVars, budget>>

(***************************************************************************)
(* device_apply_sample_rate().  The control mutex is held from the stop of *)
(* the receiver to the end.                                                *)
(***************************************************************************)
NoRateRequest(t) ==
  /\ demodPc[t] = "rate" /\ reqRate[cur[t]] = None
  /\ NextDevice(t)
  /\ got' = [got EXCEPT ![t] = None]
  /\ UNCHANGED <<inputVars, binVars, reqVars, ok, oldRate, progVars, ctl, histVars, budget>>

\* Mutant: without the control mutex.
TakeRateRequestUnlocked(t) ==
  /\ demodPc[t] = "rate" /\ reqRate[cur[t]] # None
  /\ got' = [got EXCEPT ![t] = reqRate[cur[t]]]
  /\ oldRate' = [oldRate EXCEPT ![t] = sample_rate[cur[t]]]
  /\ Goto(t, "stop")
  /\ UNCHANGED <<inputVars, binVars, reqVars, cur, ok, progVars, ctl, histVars, budget>>

TakeRateRequest(t) ==
  /\ demodPc[t] = "rate" /\ reqRate[cur[t]] # None /\ control_mutex = None
  /\ got' = [got EXCEPT ![t] = reqRate[cur[t]]]
  /\ oldRate' = [oldRate EXCEPT ![t] = sample_rate[cur[t]]]
  /\ control_mutex' = t
  /\ Goto(t, "stop")
  /\ UNCHANGED <<inputVars, binVars, reqVars, cur, ok, devices_running, do_exit, multiple_demod_threads, ctl, histVars, budget>>

(* input->stop(): librtlsdr's cancel ends the reader's rtlsdr_read_async() and fails if there
   is none; file_stop() closes the file and leaves the reader running. *)
StopWorks(d) ==
  /\ driver[d] = "rtlsdr" => rx[d] = "alive"
  /\ handle' = [handle EXCEPT ![d] = FALSE]
  /\ rx' = IF driver[d] = "rtlsdr" THEN [rx EXCEPT ![d] = "ended"] ELSE rx

\* Mutant: the result of the attempt before.
PublishRateOfLast(t) == rateFailed' = [rateFailed EXCEPT ![cur[t]] = ~ok[t]]

(* The result is published before the request is cleared. *)
PublishRate(t) == rateFailed' = [rateFailed EXCEPT ![cur[t]] = ~ok'[t]]

StopRx(t) ==
  /\ demodPc[t] = "stop" /\ StopWorks(cur[t])
  /\ Goto(t, "reopen")
  /\ UNCHANGED <<state, driver, centerfreq, sample_rate, hw, binVars, reqVars, cur, got, ok, oldRate, progVars, ctl, histVars, budget>>

StopRxFails(t) ==
  /\ demodPc[t] = "stop" /\ driver[cur[t]] = "rtlsdr"
  /\ \/ rx[cur[t]] # "alive" /\ UNCHANGED faults
     \/ rx[cur[t]] = "alive" /\ Fault
  /\ ok' = [ok EXCEPT ![t] = FALSE]
  /\ control_mutex' = None
  /\ PublishRate(t)
  /\ Goto(t, "rateClear")
  /\ UNCHANGED <<inputVars, binVars, reqFreq, freqFailed, reqRate, cur, got, oldRate, devices_running, do_exit, multiple_demod_threads, ctl, histVars, requests, late>>

(* Join the reader, then device_reopen_recoverable(): init() opens the device at input's fields,
   or fails and leaves it closed. *)
Opened(d, r) == handle' = [handle EXCEPT ![d] = TRUE] /\ hw' = [hw EXCEPT ![d] = Tuning(centerfreq[d], r)]

Reopen(t) == LET d == cur[t] IN
  /\ demodPc[t] = "reopen" /\ rx[d] = "ended"
  /\ rx' = [rx EXCEPT ![d] = "joined"]
  /\ sample_rate' = [sample_rate EXCEPT ![d] = got[t]]
  /\ \/ Opened(d, got[t]) /\ Goto(t, "adopt") /\ UNCHANGED faults
     \/ Fault /\ Goto(t, "rollback") /\ UNCHANGED <<handle, hw>>
  /\ UNCHANGED <<state, driver, centerfreq, binVars, reqVars, cur, got, ok, oldRate, progVars, ctl, histVars, requests, late>>

StartRx(d) == rx' = [rx EXCEPT ![d] = "starting"]

AdoptRate(t) == LET d == cur[t] IN
  /\ demodPc[t] = "adopt"
  /\ StartRx(d)
  /\ recompute_channel_bins(d, centerfreq[d], got[t])
  /\ ok' = [ok EXCEPT ![t] = TRUE]
  /\ control_mutex' = None
  /\ PublishRate(t)
  /\ Goto(t, "rateClear")
  /\ UNCHANGED <<state, handle, driver, centerfreq, sample_rate, hw, channel_count, reqFreq, freqFailed, reqRate, cur, got, oldRate, devices_running, do_exit, multiple_demod_threads, ctl, histVars, budget>>

RolledBack(d, r) == Opened(d, r) /\ StartRx(d) /\ UNCHANGED <<state, faults>>
DeviceDown(d) == Fault /\ state' = [state EXCEPT ![d] = "FAILED"] /\ UNCHANGED <<handle, hw, rx>>

Rollback(t) == LET d == cur[t] IN
  /\ demodPc[t] = "rollback"
  /\ sample_rate' = [sample_rate EXCEPT ![d] = oldRate[t]]
  /\ RolledBack(d, oldRate[t]) \/ DeviceDown(d)
  /\ ok' = [ok EXCEPT ![t] = FALSE]
  /\ control_mutex' = None
  /\ PublishRate(t)
  /\ Goto(t, "rateClear")
  /\ UNCHANGED <<driver, centerfreq, binVars, reqFreq, freqFailed, reqRate, cur, got, oldRate, devices_running, do_exit, multiple_demod_threads, ctl, histVars, requests, late>>

RateClear(t) ==
  /\ demodPc[t] = "rateClear"
  /\ reqRate' = [reqRate EXCEPT ![cur[t]] = None]
  /\ got' = [got EXCEPT ![t] = None]
  /\ NextDevice(t)
  /\ UNCHANGED <<inputVars, binVars, reqFreq, freqFailed, rateFailed, ok, oldRate, progVars, ctl, histVars, budget>>

ApplyRequests(t) ==
  \/ Retune(t) \/ RetuneClear(t)
  \/ NoRateRequest(t) \/ TakeRateRequest(t) \/ StopRx(t) \/ StopRxFails(t)
  \/ Reopen(t) \/ AdoptRate(t) \/ Rollback(t) \/ RateClear(t)

Demodulate(t) ==
  \/ SeesExit(t) \/ AllReceiversFailed(t) \/ SkipDevice(t) \/ FoldFailed(t) \/ Decrement(t)
  \/ VisitDevice(t) \/ ApplyRequests(t)

(***************************************************************************)
(* The receiver threads.                                                   *)
(***************************************************************************)
RxStarts(d) ==
  /\ rx[d] = "starting"
  /\ rx' = [rx EXCEPT ![d] = "alive"]
  /\ state' = [state EXCEPT ![d] = "RUNNING"]
  /\ badCalls' = IF handle[d] THEN badCalls ELSE badCalls \union {"rx_thread"}
  /\ UNCHANGED <<handle, driver, centerfreq, sample_rate, hw, binVars, reqVars, demodVars, progVars, ctl, mainPc, crashed, budget>>

(* The asynchronous read fails, the file ends; a SoapySDR reader retries for ever. *)
RxDies(d) ==
  /\ rx[d] = "alive" /\ driver[d] # "soapysdr" /\ Fault
  /\ rx' = [rx EXCEPT ![d] = "ended"]
  /\ state' = [state EXCEPT ![d] = "FAILED"]
  /\ UNCHANGED <<handle, driver, centerfreq, sample_rate, hw, binVars, reqVars, demodVars, progVars, ctl, histVars, requests, late>>

(* soapysdr_rx_thread() closes the device on its way out. *)
RxSeesExit(d) ==
  /\ rx[d] = "alive" /\ driver[d] # "rtlsdr" /\ do_exit
  /\ rx' = [rx EXCEPT ![d] = "ended"]
  /\ handle' = IF driver[d] = "soapysdr" THEN [handle EXCEPT ![d] = FALSE] ELSE handle
  /\ UNCHANGED <<state, driver, centerfreq, sample_rate, hw, binVars, reqVars, demodVars, progVars, ctl, histVars, budget>>

(* feof(), fread() on the FILE that file_stop() has closed *)
RxReadsClosedFile(d) ==
  /\ rx[d] = "alive" /\ driver[d] = "file" /\ ~handle[d]
  /\ crashed' = TRUE
  /\ UNCHANGED <<inputVars, binVars, reqVars, demodVars, progVars, ctl, mainPc, badCalls, budget>>

Receive(d) == RxStarts(d) \/ RxSeesExit(d) \/ RxReadsClosedFile(d)

(***************************************************************************)
(* The control thread: one request at a time.                              *)
(***************************************************************************)
ctlElse == <<inputVars, binVars, demodVars, progVars, mainPc, crashed>>

RequestRetune(d, f) ==
  /\ ctl.pc = "idle" /\ requests < MaxRequests
  /\ reqFreq' = [reqFreq EXCEPT ![d] = f]
  /\ ctl' = [pc |-> "waitFreq", dev |-> d, val |-> f, was |-> hw[d]]
  /\ requests' = requests + 1
  /\ UNCHANGED <<ctlElse, freqFailed, reqRate, rateFailed, badCalls, faults, late>>

(* Rejected for a driver that cannot stop. *)
RequestRate(d, r) ==
  /\ ctl.pc = "idle" /\ requests < MaxRequests /\ driver[d] # "soapysdr"
  /\ reqRate' = [reqRate EXCEPT ![d] = r]
  /\ ctl' = [pc |-> "waitRate", dev |-> d, val |-> r, was |-> hw[d]]
  /\ requests' = requests + 1
  /\ UNCHANGED <<ctlElse, reqFreq, freqFailed, rateFailed, badCalls, faults, late>>

AnswerRetune(d, works) ==
  /\ ctl.pc = "waitFreq" /\ ctl.dev = d /\ reqFreq[d] = None
  /\ works = ~freqFailed[d]
  /\ ctl' = Idle
  /\ UNCHANGED <<ctlElse, reqVars, badCalls, budget>>

AnswerRate(d, works) ==
  /\ ctl.pc = "waitRate" /\ ctl.dev = d /\ reqRate[d] = None
  /\ works = ~rateFailed[d]
  /\ ctl' = Idle
  /\ UNCHANGED <<ctlElse, reqVars, badCalls, budget>>

(* Whether no demodulator is going to look at the request. *)
Deaf(d) ==
  /\ \A t \in Thread : demodPc[t] = "exited" \/ cur[t] # d \/ demodPc[t] \in {"loop", "decrement"}
  /\ \/ state[d] # "RUNNING" /\ rx[d] # "starting"
     \/ \A t \in Thread : demodPc[t] = "exited"

TimeOut ==
  /\ \/ ctl.pc = "waitFreq" /\ reqFreq[ctl.dev] # None
     \/ ctl.pc = "waitRate" /\ reqRate[ctl.dev] # None
  /\ \/ Deaf(ctl.dev) /\ UNCHANGED late
     \/ late < MaxLate /\ late' = late + 1
  /\ ctl' = Idle
  /\ UNCHANGED <<ctlElse, reqVars, badCalls, requests, faults>>

(* input_set_gain(), _bandwidth(), _correction() from a handler: the driver is called if the
   device is running, under the control mutex. *)
ControlCall(d) ==
  /\ ctl.pc = "idle" /\ control_mutex = None /\ state[d] = "RUNNING" /\ ~handle[d]
  /\ badCalls' = badCalls \union {IF do_exit THEN "exiting" ELSE "running"}
  /\ UNCHANGED <<ctlElse, reqVars, ctl, budget>>

(* reload_diff appends a channel: parse_channel() computes its bin from the fields of that moment. *)
ParseChannel(d) ==
  /\ ctl.pc = "idle" /\ channel_count[d] < MaxChannels /\ requests < MaxRequests
  /\ requests' = requests + 1
  /\ bins' = [bins EXCEPT ![d] = [@ EXCEPT ![channel_count[d] + 1] = Tuning(centerfreq[d], sample_rate[d])]]
  /\ ctl' = [pc |-> "publish", dev |-> d]
  /\ UNCHANGED <<inputVars, channel_count, reqVars, demodVars, progVars, histVars, faults, late>>

PublishChannel ==
  /\ ctl.pc = "publish"
  /\ channel_count' = [channel_count EXCEPT ![ctl.dev] = @ + 1]
  /\ ctl' = Idle
  /\ UNCHANGED <<inputVars, bins, reqVars, demodVars, progVars, histVars, budget>>

Control ==
  \/ \E d \in Tunable :
       \/ \E f \in Freqs : RequestRetune(d, f)
       \/ \E r \in Rates : RequestRate(d, r)
       \/ ParseChannel(d)
  \/ \E d \in Devices : ControlCall(d)

ControlAnswers ==
  \/ \E d \in Tunable, works \in BOOLEAN : AnswerRetune(d, works) \/ AnswerRate(d, works)
  \/ PublishChannel

(***************************************************************************)
(* main(): once every demodulator has returned, the devices are stopped    *)
(* one after the other.  A signal may end the program at any time.         *)
(***************************************************************************)
SigHandler ==
  /\ ~do_exit /\ do_exit' = TRUE /\ Fault
  /\ UNCHANGED <<inputVars, binVars, reqVars, demodVars, control_mutex, devices_running, multiple_demod_threads, ctl, histVars, requests, late>>

JoinDemods ==
  /\ mainPc = "run" /\ \A t \in Thread : demodPc[t] = "exited"
  /\ mainPc' = "stop"
  /\ cur' = [cur EXCEPT ![0] = 0]
  /\ UNCHANGED <<inputVars, binVars, reqVars, demodPc, got, ok, oldRate, progVars, ctl, crashed, badCalls, budget>>

(* input_stop(): the driver's stop only of a running device; if it fails there is no join. *)
NextToStop(d) ==
  IF d + 1 = DeviceCount THEN mainPc' = "done" /\ UNCHANGED cur
  ELSE mainPc' = "stop" /\ cur' = [cur EXCEPT ![0] = d + 1]

Becomes(d, s) == state' = [state EXCEPT ![d] = s]
MustStop(d) == state[d] = "RUNNING" /\ driver[d] # "soapysdr"

InputStop == LET d == cur[0] IN
  /\ mainPc = "stop"
  /\ \/ MustStop(d) /\ StopWorks(d) /\ Becomes(d, "STOPPED") /\ mainPc' = "join" /\ UNCHANGED <<cur, faults>>
     \/ ~MustStop(d) /\ Becomes(d, "STOPPED") /\ mainPc' = "join" /\ UNCHANGED <<cur, rx, handle, faults>>
     \/ MustStop(d) /\ driver[d] = "rtlsdr" /\ rx[d] # "alive" /\ Becomes(d, "FAILED") /\ NextToStop(d) /\ UNCHANGED <<rx, handle, faults>>
  /\ UNCHANGED <<driver, centerfreq, sample_rate, hw, binVars, reqVars, demodPc, got, ok, oldRate, progVars, ctl, crashed, badCalls, requests, late>>

(* pthread_join(); of a thread already joined it is undefined, here: nothing or a crash. *)
JoinRx == LET d == cur[0] IN
  /\ mainPc = "join" /\ rx[d] \in {"ended", "joined"}
  /\ crashed' \in IF rx[d] = "joined" THEN BOOLEAN ELSE {FALSE}
  /\ rx' = [rx EXCEPT ![d] = "joined"]
  /\ NextToStop(d)
  /\ UNCHANGED <<state, handle, driver, centerfreq, sample_rate, hw, binVars, reqVars, demodPc, got, ok, oldRate, progVars, ctl, badCalls, budget>>

Shutdown == JoinDemods \/ InputStop \/ JoinRx

Next ==
  /\ ~crashed
  /\ \/ \E t \in Thread : Demodulate(t)
     \/ \E d \in Devices : Receive(d) \/ RxDies(d)
     \/ Control \/ ControlAnswers \/ TimeOut
     \/ Shutdown \/ SigHandler

Spec == Init /\ [][Next]_devVars

Fairness ==
  /\ \A t \in Devices : WF_devVars(~crashed /\ t \in Thread /\ Demodulate(t))
  /\ \A d \in Devices : WF_devVars(~crashed /\ Receive(d))
  /\ WF_devVars(~crashed /\ (ControlAnswers \/ TimeOut))
  /\ WF_devVars(~crashed /\ Shutdown)

FairSpec == Spec /\ Fairness

(***************************************************************************)
(* Properties.                                                             *)
(***************************************************************************)
DevTypeOK ==
  /\ state \in [Devices -> {"RUNNING", "FAILED", "DISABLED", "STOPPED"}]
  /\ rx \in [Devices -> {"starting", "alive", "ended", "joined"}]
  /\ handle \in [Devices -> BOOLEAN]
  /\ centerfreq \in [Devices -> Freqs] /\ sample_rate \in [Devices -> Rates]
  /\ hw \in [Devices -> [freq : Freqs, rate : Rates]]
  /\ bins \in [Devices -> [1 .. MaxChannels -> [freq : Freqs, rate : Rates]]]
  /\ channel_count \in [Devices -> 1 .. MaxChannels]
  /\ reqFreq \in [Devices -> Freqs \union {None}] /\ reqRate \in [Devices -> Rates \union {None}]
  /\ control_mutex \in Devices \union {None}
  /\ devices_running \in 0 .. DeviceCount
  /\ cur \in [Devices -> Devices]

\* In device_apply_sample_rate(), between the stop and the end of the attempt.
Reworking(d) == \E t \in Thread : cur[t] = d /\ control_mutex = t
Down(d) == state[d] # "RUNNING" \/ rx[d] # "alive"

\* What a client is told is what happened to its own request: "ok" only if the hardware is where
\* it was asked to go, "failed" only if it is where it was (live_reconfig.h:60: "the real
\* outcome, not just request consumed") or the device is down.  As long as no request misses
\* its timeout.
ClientToldTruth ==
  [][late = 0 => \A d \in Tunable :
       /\ AnswerRetune(d, TRUE) => hw[d].freq = ctl.val
       /\ AnswerRetune(d, FALSE) => hw[d] = ctl.was
       /\ AnswerRate(d, TRUE) => hw[d].rate = ctl.val
       /\ AnswerRate(d, FALSE) => hw[d] = ctl.was]_devVars

\* Every published channel of a device that is not in the middle of a change is demodulated
\* with bins computed for the frequency and rate its hardware has (recompute_channel_bins()):
\* also a channel appended between two changes, and after a failed change.
BinsMatchHardware ==
  late = 0 => \A d \in Devices :
    ~Reworking(d) => \A j \in 1 .. channel_count[d] : bins[d][j] = hw[d]

\* Until the program is told to exit no driver call and no reader meets a closed device
\* (live_reconfig.cpp:492: no other thread may issue a control call against it meanwhile), and
\* no thread is joined twice, unless the driver is the file's or a rollback failed.
HandleSafe ==
  (\A d \in Devices : driver[d] # "file") /\ faults < 2 => ~crashed /\ badCalls \subseteq {"exiting"}

\* The program gives up only when no device receives any more: devices_running counts each
\* failed device once, however its failure races with a change of its sample rate.  (Not so for
\* a file that ends just before its stop: reopened, it is counted out and starts again.)
GivesUpOnlyWhenAllFailed ==
  [][\A t \in Thread : AllReceiversFailed(t) /\ (\A d \in Devices : driver[d] # "file")
       => \A d \in Devices : Down(d)]_devVars

\* Once told to exit the program stops its devices and ends; and with one demodulator it
\* exits when all its receivers have failed.
Exits ==
  /\ do_exit ~> mainPc = "done" \/ crashed
  /\ <>[](~multiple_demod_threads /\ \A d \in Devices : state[d] \in {"FAILED", "DISABLED"}) => <>(do_exit \/ crashed)

\* The program exits when all its receivers have failed, and only then (rtl_airband.cpp:442).
ExitsWhenAllFailed == GivesUpOnlyWhenAllFailed /\ Exits
=============================================================================
