------------------------ MODULE DeviceReconfigProofs ------------------------
(***************************************************************************)
(* Proofs about what changes a receiver's tuning.  DeviceReconfig, for any *)
(* number of devices, drivers, frequencies, rates, requests and faults:    *)
(* type correctness, the bins of the channels match the hardware           *)
(* (BinsMatchHardware), a client is told the truth (ClientToldTruth), no   *)
(* driver call meets a closed device (HandleSafe) and the program gives up *)
(* only when all its receivers failed (GivesUpOnlyWhenAllFailed).  AutoPpm: *)
(* a decision rests on measurements of the present correction, and steps   *)
(* are bounded (StepsBounded).                                             *)
(***************************************************************************)
EXTENDS MCTuning, FiniteSetTheorems, TLAPS

\* Where a thread holds the control mutex, and where it is at work on its device.
Rework == {"stop", "reopen", "adopt", "rollback"}
AtWork == Rework \union {"retune", "retuneClear", "rate", "rateClear"}
NoFile == \A d \in Devices : driver[d] # "file"

\* What DevTypeOK leaves out: the locals of the demodulators, the control thread's request.
LocalsOK ==
  /\ driver \in [Devices -> {"rtlsdr", "soapysdr", "file"}]
  /\ freqFailed \in [Devices -> BOOLEAN] /\ rateFailed \in [Devices -> BOOLEAN]
  /\ demodPc \in [Devices -> AtWork \union {"loop", "decrement", "exited"}]
  /\ got \in [Devices -> Freqs \union Rates \union (1 .. DeviceCount) \union {None}]
  /\ ok \in [Devices -> BOOLEAN] /\ oldRate \in [Devices -> Rates]
  /\ do_exit \in BOOLEAN /\ multiple_demod_threads \in BOOLEAN
  /\ mainPc \in {"run", "stop", "join", "done"}
  /\ crashed \in BOOLEAN /\ badCalls \subseteq {"rx_thread", "exiting", "running"}
  /\ faults \in Nat /\ late \in Nat
  /\ \A t \in Devices :
       /\ demodPc[t] = "retune" => got[t] \in Freqs
       /\ demodPc[t] \in Rework => got[t] \in Rates
       /\ demodPc[t] = "decrement" => got[t] \in 1 .. DeviceCount
  /\ ctl.pc \in {"idle", "waitFreq", "waitRate", "publish"}
  /\ ctl.pc # "idle" => ctl.dev \in Tunable
  /\ ctl.pc = "publish" => channel_count[ctl.dev] < MaxChannels

\* Who is where: the threads have devices of their own, one of them holds the control mutex, and
\* main() stops the devices after the last of them has returned.
PlaceInv ==
  /\ \A t \in Thread : demodPc[t] = "exited" => do_exit
  /\ mainPc # "run" => \A t \in Thread : demodPc[t] = "exited"
  /\ multiple_demod_threads /\ mainPc = "run" => \A t \in Devices : cur[t] = t
  /\ control_mutex # None => control_mutex \in Thread
  /\ \A t \in Thread : demodPc[t] \in Rework <=> control_mutex = t

\* What the program believes of the hardware is true, except where an attempt failed and the old
\* rate is not back yet.
TuningInv ==
  /\ \A d \in Devices :
       /\ centerfreq[d] = hw[d].freq
       /\ (\A t \in Thread : cur[t] = d => demodPc[t] # "rollback") => sample_rate[d] = hw[d].rate
  /\ \A t \in Thread :
       /\ demodPc[t] \in {"stop", "reopen", "rollback"} => hw[cur[t]].rate = oldRate[t]
       /\ demodPc[t] = "adopt" => hw[cur[t]].rate = got[t]

\* As long as no request is late, the control thread waits for each request that is posted, or gave
\* it up because nobody is ever going to look at it; and a demodulator works only on a posted one.
Awaited(d) ==
  /\ reqFreq[d] # None => (ctl.pc = "waitFreq" /\ ctl.dev = d /\ reqFreq[d] = ctl.val) \/ Deaf(d)
  /\ reqRate[d] # None => (ctl.pc = "waitRate" /\ ctl.dev = d /\ reqRate[d] = ctl.val) \/ Deaf(d)
Posted(t) ==
  /\ demodPc[t] \in {"retune", "retuneClear"} => reqFreq[cur[t]] # None
  /\ demodPc[t] = "retune" => got[t] = reqFreq[cur[t]]
  /\ demodPc[t] \in Rework \union {"rateClear"} => reqRate[cur[t]] # None
  /\ demodPc[t] \in Rework => got[t] = reqRate[cur[t]]
WaitInv == late = 0 => (\A d \in Devices : Awaited(d)) /\ \A t \in Thread : Posted(t)

\* As long as no request is late, the bins are those of the hardware until a new rate is adopted.
BinsInv ==
  late = 0 =>
    /\ \A d \in Devices : (\A t \in Thread : cur[t] = d => demodPc[t] # "adopt") =>
         \A j \in 1 .. channel_count[d] : bins[d][j] = hw[d]
    /\ ctl.pc = "publish" => bins[ctl.dev][channel_count[ctl.dev] + 1] = hw[ctl.dev]

\* As long as no request is late, what the client is about to be told: its request was tried and the
\* hardware is where it asked, or it has not moved.
RetuneTried(d) == reqFreq[d] = None \/ \E t \in Thread : cur[t] = d /\ demodPc[t] = "retuneClear"
RateTried(d) == reqRate[d] = None \/ \E t \in Thread : cur[t] = d /\ demodPc[t] = "rateClear"
Adopting(d) == \E t \in Thread : cur[t] = d /\ demodPc[t] = "adopt"
TruthInv ==
  late = 0 =>
    /\ ctl.pc = "waitFreq" /\ RetuneTried(ctl.dev) /\ ~freqFailed[ctl.dev] => hw[ctl.dev].freq = ctl.val
    /\ ctl.pc = "waitFreq" => (RetuneTried(ctl.dev) /\ ~freqFailed[ctl.dev]) \/ hw[ctl.dev] = ctl.was
    /\ ctl.pc = "waitRate" /\ RateTried(ctl.dev) /\ ~rateFailed[ctl.dev] => hw[ctl.dev].rate = ctl.val
    /\ ctl.pc = "waitRate" =>
         (RateTried(ctl.dev) /\ ~rateFailed[ctl.dev]) \/ Adopting(ctl.dev) \/ hw[ctl.dev] = ctl.was

\* No driver but a file's: the receiver threads and the devices they have open.
RxInv ==
  /\ \A d \in Devices : reqRate[d] # None => driver[d] # "soapysdr"
  /\ \A t \in Thread : demodPc[t] \in Rework => driver[cur[t]] # "soapysdr"
  /\ NoFile =>
       /\ \A d \in Devices : rx[d] = "starting" => handle[d]
       /\ \A t \in Thread :
            /\ demodPc[t] = "reopen" => rx[cur[t]] = "ended"
            /\ demodPc[t] \in {"adopt", "rollback"} => rx[cur[t]] = "joined"
            /\ demodPc[t] = "adopt" => handle[cur[t]]

\* With one fault at most: a closed device is being reopened, a joined thread started again.
Reopening(d) == ~handle[d] => do_exit \/ \E t \in Thread : cur[t] = d /\ demodPc[t] \in {"reopen", "rollback"}
Restarting(d) ==
  rx[d] = "joined" =>
    \/ \E t \in Thread : cur[t] = d /\ demodPc[t] \in {"adopt", "rollback"}
    \/ mainPc = "done"
    \/ mainPc \in {"stop", "join"} /\ d < cur[0]
HandleInv ==
  NoFile /\ faults < 2 =>
    /\ ~crashed /\ badCalls \subseteq {"exiting"}
    /\ \A t \in Thread : demodPc[t] = "rollback" => faults > 0
    /\ \A d \in Devices : Reopening(d) /\ Restarting(d)

\* The devices that were counted out; a number that, with them, misses no device.
Counted == {d \in Devices : state[d] = "DISABLED" /\ \A t \in Thread : cur[t] = d => demodPc[t] # "decrement"}
CountsRest(n) == n + Cardinality(Counted) >= DeviceCount

\* While the demodulators run a device that failed stays down, and each is counted out once.
StaysDown(d) == state[d] # "STOPPED" /\ (state[d] # "RUNNING" => rx[d] \in {"ended", "joined"})
CountsOnce(t) ==
  /\ demodPc[t] \in {"reopen", "adopt", "rollback"} => state[cur[t]] = "RUNNING"
  /\ demodPc[t] = "decrement" => state[cur[t]] = "DISABLED" /\ CountsRest(got[t])
CountInv ==
  mainPc = "run" /\ NoFile =>
    (\A d \in Devices : StaysDown(d)) /\ (\A t \in Thread : CountsOnce(t)) /\ CountsRest(devices_running)

DInv == DevTypeOK /\ LocalsOK /\ PlaceInv /\ TuningInv /\ WaitInv /\ BinsInv /\ TruthInv /\ RxInv /\ HandleInv /\ CountInv
-----------------------------------------------------------------------------

\* What the steps need of the constants.
LEMMA Constants ==
  /\ DeviceCount \in Nat /\ DeviceCount > 0 /\ MaxChannels \in Nat /\ MaxChannels > 0
  /\ 0 \in Devices /\ \A d : d \in Devices <=> d \in Int /\ 0 <= d /\ d < DeviceCount
  /\ None \notin Devices /\ None \notin Freqs /\ None \notin Rates
  /\ Tunable \subseteq Devices /\ Thread \subseteq Devices
  BY DeviceAssumption DEF Devices, Thread

\* main() stops the next device, if there is one.
LEMMA NextToStopOK ==
  ASSUME cur \in [Devices -> Devices], NextToStop(cur[0])
  PROVE  cur' \in [Devices -> Devices] /\ mainPc' \in {"stop", "done"}
         /\ (mainPc' = "stop" => cur[0] < cur'[0])
<1>1. 0 \in Devices /\ cur[0] \in Devices /\ cur[0] \in Int
  BY Constants
<1>2. CASE cur[0] + 1 = DeviceCount
  BY <1>2 DEF NextToStop
<1>3. CASE cur[0] + 1 # DeviceCount
  <2>1. \A d \in 0 .. DeviceCount - 1 : d + 1 # DeviceCount => d + 1 \in 0 .. DeviceCount - 1
    BY DeviceAssumption
  <2>2. cur[0] + 1 \in Devices
    BY <1>1, <1>3, <2>1, Zenon DEF Devices
  <2>3. mainPc' = "stop" /\ cur' = [cur EXCEPT ![0] = cur[0] + 1]
    BY <1>3 DEF NextToStop
  <2> QED
    BY <1>1, <2>2, <2>3
<1> QED
  BY <1>2, <1>3

\* The threads and the drivers are fixed.
LEMMA FixedStep == [Next]_devVars => Thread' = Thread /\ driver' = driver
<1> USE DEF inputVars, binVars, reqVars, demodVars, progVars, histVars, budget, ctlElse
<1> SUFFICES ASSUME [Next]_devVars PROVE multiple_demod_threads' = multiple_demod_threads /\ driver' = driver
  BY DEF Thread
<1>1. ASSUME NEW t \in Thread, Demodulate(t)
      PROVE  multiple_demod_threads' = multiple_demod_threads /\ driver' = driver
  BY <1>1 DEF Demodulate, ApplyRequests, SeesExit, AllReceiversFailed, SkipDevice, FoldFailed, Decrement, VisitDevice,
              Retune, RetuneClear, NoRateRequest, TakeRateRequest, StopRx, StopRxFails, Reopen, AdoptRate, Rollback,
              RateClear
<1>2. ASSUME NEW d \in Devices, Receive(d) \/ RxDies(d)
      PROVE  multiple_demod_threads' = multiple_demod_threads /\ driver' = driver
  BY <1>2 DEF Receive, RxStarts, RxDies, RxSeesExit, RxReadsClosedFile
<1>3. CASE Control \/ ControlAnswers \/ TimeOut
  BY <1>3 DEF Control, ControlAnswers, RequestRetune, RequestRate, ParseChannel, ControlCall, AnswerRetune, AnswerRate,
              PublishChannel, TimeOut
<1>4. CASE Shutdown \/ SigHandler
  BY <1>4 DEF Shutdown, SigHandler, JoinDemods, InputStop, JoinRx
<1> QED
  BY <1>1, <1>2, <1>3, <1>4 DEF Next, devVars

\* Two threads are never at the same device while the demodulators run.
LEMMA OwnDevice ==
  ASSUME DevTypeOK, PlaceInv, mainPc = "run", NEW t \in Thread, NEW u \in Thread, cur[t] = cur[u]
  PROVE  t = u
  BY Constants DEF PlaceInv, Thread

\* A step of a demodulator leaves the others where they are, which is at other devices.
LEMMA ThreadStep ==
  ASSUME DevTypeOK, LocalsOK, PlaceInv, NEW t \in Thread, Demodulate(t)
  PROVE  /\ \A u \in Devices \ {t} : /\ demodPc'[u] = demodPc[u] /\ cur'[u] = cur[u] /\ got'[u] = got[u]
                                     /\ ok'[u] = ok[u] /\ oldRate'[u] = oldRate[u]
         /\ \A u \in Thread \ {t} : cur[u] # cur[t]
         /\ mainPc = "run" /\ mainPc' = "run" /\ Thread' = Thread
         /\ multiple_demod_threads => cur'[t] = t
         /\ demodPc'[t] # "loop" => cur'[t] = cur[t]
<1> USE DEF demodVars, Demodulate, ApplyRequests, SeesExit, AllReceiversFailed, SkipDevice, FoldFailed, Decrement,
            VisitDevice, Retune, RetuneWorks, RetuneFails, RetuneClear, NoRateRequest, TakeRateRequest, StopRx,
            StopRxFails, Reopen, AdoptRate, Rollback, RateClear
<1>1. \A u \in Devices \ {t} : /\ demodPc'[u] = demodPc[u] /\ cur'[u] = cur[u] /\ got'[u] = got[u]
                               /\ ok'[u] = ok[u] /\ oldRate'[u] = oldRate[u]
  BY DEF DevTypeOK, LocalsOK, Goto, NextDevice
<1>2. demodPc[t] # "exited" /\ mainPc' = mainPc /\ multiple_demod_threads' = multiple_demod_threads
  BY DEF AtDevice, progVars, histVars
<1>3. mainPc = "run"
  BY <1>2 DEF PlaceInv
<1>4. cur' = cur \/ NextDevice(t)
  OBVIOUS
<1>5. NextDevice(t) => demodPc'[t] = "loop" /\ (multiple_demod_threads => cur'[t] = t)
  BY Constants DEF NextDevice, Goto, next_device, DevTypeOK, LocalsOK
<1> HIDE DEF Demodulate, ApplyRequests, demodVars
<1>6. multiple_demod_threads => cur[t] = t
  BY <1>3, Constants DEF PlaceInv
<1>7. \A u \in Thread \ {t} : cur[u] # cur[t]
  BY <1>3, OwnDevice
<1>8. Thread' = Thread
  BY <1>2 DEF Thread
<1> QED
  BY <1>1, <1>2, <1>3, <1>4, <1>5, <1>6, <1>7, <1>8

\* The types are kept by every step.
LEMMA TypeStep == DevTypeOK /\ LocalsOK /\ PlaceInv /\ [Next]_devVars => DevTypeOK' /\ LocalsOK'
<1> SUFFICES ASSUME DevTypeOK, LocalsOK, PlaceInv, [Next]_devVars PROVE DevTypeOK' /\ LocalsOK'
  OBVIOUS
<1> USE Constants DEF DevTypeOK, LocalsOK, Rework, AtWork, Goto, Fault,
                      inputVars, binVars, reqVars, demodVars, progVars, histVars, budget, ctlElse
<1>next. \A t \in Thread : next_device(t) \in Devices
  <2> SUFFICES ASSUME NEW t \in Thread PROVE next_device(t) \in Devices
    OBVIOUS
  <2>0. cur[t] \in Nat /\ DeviceCount \in Nat /\ DeviceCount > 0
    BY Constants
  <2>1. (cur[t] + 1) % DeviceCount \in 0 .. DeviceCount - 1
    BY ONLY <2>0
  <2>2. t \in Devices
    BY Constants
  <2> QED
    BY <2>1, <2>2, Zenon DEF next_device, Devices
<1>moves. ASSUME NEW t \in Thread, NextDevice(t)
          PROVE  cur' \in [Devices -> Devices] /\ demodPc' = [demodPc EXCEPT ![t] = "loop"]
  BY <1>next, <1>moves DEF NextDevice
<1>1. ASSUME NEW t \in Thread, SeesExit(t) PROVE DevTypeOK' /\ LocalsOK'
  BY <1>1 DEF SeesExit
<1>2. ASSUME NEW t \in Thread, AllReceiversFailed(t) PROVE DevTypeOK' /\ LocalsOK'
  BY <1>2 DEF AllReceiversFailed
<1>3. ASSUME NEW t \in Thread, SkipDevice(t) PROVE DevTypeOK' /\ LocalsOK'
  <2>1. cur' \in [Devices -> Devices] /\ demodPc' = [demodPc EXCEPT ![t] = "loop"]
    BY <1>3, <1>moves DEF SkipDevice
  <2> QED
    BY <1>3, <2>1 DEF SkipDevice
<1>4. ASSUME NEW t \in Thread, FoldFailed(t) PROVE DevTypeOK' /\ LocalsOK'
  BY SMTT(30), <1>4 DEF FoldFailed, AtDevice
<1>5. ASSUME NEW t \in Thread, Decrement(t) PROVE DevTypeOK' /\ LocalsOK'
  <2>1. cur' \in [Devices -> Devices] /\ demodPc' = [demodPc EXCEPT ![t] = "loop"]
    BY <1>5, <1>moves DEF Decrement
  <2>2. devices_running' \in 0 .. DeviceCount /\ got' = [got EXCEPT ![t] = None]
    BY <1>5 DEF Decrement
  <2> QED
    BY <1>5, <2>1, <2>2 DEF Decrement
<1>6. ASSUME NEW t \in Thread, VisitDevice(t) PROVE DevTypeOK' /\ LocalsOK'
  BY <1>6 DEF VisitDevice
<1>7. ASSUME NEW t \in Thread, Retune(t) PROVE DevTypeOK' /\ LocalsOK'
  <2>1. CASE RetuneWorks(t)
    <3>1. got[t] \in Freqs /\ cur[t] \in Devices /\ hw[cur[t]].rate \in Rates /\ sample_rate[cur[t]] \in Rates
      BY <1>7 DEF Retune
    <3>2. hw' \in [Devices -> [freq : Freqs, rate : Rates]] /\ centerfreq' \in [Devices -> Freqs]
      BY <2>1, <3>1 DEF RetuneWorks, Tuning
    <3>3. bins' \in [Devices -> [1 .. MaxChannels -> [freq : Freqs, rate : Rates]]]
      BY <2>1, <3>1 DEF RetuneWorks, recompute_channel_bins, Tuning
    <3>4. ok' \in [Devices -> BOOLEAN] /\ faults' \in Nat
      BY <2>1 DEF RetuneWorks
    <3> QED
      BY <1>7, <3>2, <3>3, <3>4 DEF Retune
  <2>2. CASE RetuneFails(t)
    BY SMTT(30), <1>7, <2>2 DEF Retune, RetuneFails
  <2> QED
    BY <1>7, <2>1, <2>2 DEF Retune
<1>8. ASSUME NEW t \in Thread, RetuneClear(t) PROVE DevTypeOK' /\ LocalsOK'
  BY <1>8 DEF RetuneClear
<1>9. ASSUME NEW t \in Thread, NoRateRequest(t) PROVE DevTypeOK' /\ LocalsOK'
  <2>1. cur' \in [Devices -> Devices] /\ demodPc' = [demodPc EXCEPT ![t] = "loop"]
    BY <1>9, <1>moves DEF NoRateRequest
  <2> QED
    BY SMTT(30), <1>9, <2>1 DEF NoRateRequest
<1>10. ASSUME NEW t \in Thread, TakeRateRequest(t) PROVE DevTypeOK' /\ LocalsOK'
  BY <1>10 DEF TakeRateRequest
<1>11. ASSUME NEW t \in Thread, StopRx(t) PROVE DevTypeOK' /\ LocalsOK'
  BY SMTT(30), <1>11 DEF StopRx, StopWorks
<1>12. ASSUME NEW t \in Thread, StopRxFails(t) PROVE DevTypeOK' /\ LocalsOK'
  BY SMTT(30), <1>12 DEF StopRxFails, PublishRate
<1>13. ASSUME NEW t \in Thread, Reopen(t) PROVE DevTypeOK' /\ LocalsOK'
  <2>1. got[t] \in Rates /\ cur[t] \in Devices /\ centerfreq[cur[t]] \in Freqs
    BY <1>13 DEF Reopen
  <2>2. /\ hw' \in [Devices -> [freq : Freqs, rate : Rates]] /\ handle' \in [Devices -> BOOLEAN] /\ faults' \in Nat
        /\ demodPc' \in {[demodPc EXCEPT ![t] = "adopt"], [demodPc EXCEPT ![t] = "rollback"]}
    <3>1. CASE Opened(cur[t], got[t]) /\ Goto(t, "adopt") /\ UNCHANGED faults
      BY <2>1, <3>1 DEF Opened, Tuning
    <3>2. CASE Fault /\ Goto(t, "rollback") /\ UNCHANGED <<handle, hw>>
      BY <3>2
    <3> QED
      BY <1>13, <3>1, <3>2 DEF Reopen
  <2>3. sample_rate' \in [Devices -> Rates] /\ rx' \in [Devices -> {"starting", "alive", "ended", "joined"}]
    BY <1>13, <2>1 DEF Reopen
  <2>4. demodPc'[t] \in {"adopt", "rollback"} /\ \A u \in Devices : u # t => demodPc'[u] = demodPc[u]
    BY <1>13, <2>2 DEF Reopen
  <2>5. \A u \in Devices :
          /\ demodPc'[u] = "retune" => got'[u] \in Freqs
          /\ demodPc'[u] \in Rework => got'[u] \in Rates
          /\ demodPc'[u] = "decrement" => got'[u] \in 1 .. DeviceCount
    BY <1>13, <2>1, <2>4 DEF Reopen
  <2>6. demodPc' \in [Devices -> AtWork \union {"loop", "decrement", "exited"}]
    BY <2>2
  <2>7. UNCHANGED <<state, driver, centerfreq, binVars, reqVars, cur, got, ok, oldRate, progVars, ctl, mainPc, crashed, badCalls, late>>
    BY <1>13 DEF Reopen
  <2>8. DevTypeOK'
    BY <2>2, <2>3, <2>7
  <2>9. LocalsOK'
    BY <2>2, <2>5, <2>6, <2>7
  <2> QED
    BY <2>8, <2>9
<1>14. ASSUME NEW t \in Thread, AdoptRate(t) PROVE DevTypeOK' /\ LocalsOK'
  BY <1>14 DEF AdoptRate, StartRx, recompute_channel_bins, PublishRate, Tuning
<1>15. ASSUME NEW t \in Thread, Rollback(t) PROVE DevTypeOK' /\ LocalsOK'
  <2>1. oldRate[t] \in Rates /\ cur[t] \in Devices /\ centerfreq[cur[t]] \in Freqs
    BY <1>15 DEF Rollback
  <2>2. /\ hw' \in [Devices -> [freq : Freqs, rate : Rates]] /\ handle' \in [Devices -> BOOLEAN] /\ faults' \in Nat
        /\ rx' \in [Devices -> {"starting", "alive", "ended", "joined"}]
        /\ state' \in [Devices -> {"RUNNING", "FAILED", "DISABLED", "STOPPED"}]
    <3>1. CASE RolledBack(cur[t], oldRate[t])
      BY <2>1, <3>1 DEF RolledBack, Opened, StartRx, Tuning
    <3>2. CASE DeviceDown(cur[t])
      BY <2>1, <3>2 DEF DeviceDown
    <3> QED
      BY <1>15, <3>1, <3>2 DEF Rollback
  <2>3. sample_rate' \in [Devices -> Rates] /\ ok' \in [Devices -> BOOLEAN] /\ rateFailed' \in [Devices -> BOOLEAN]
    BY <1>15, <2>1 DEF Rollback, PublishRate
  <2> QED
    BY <1>15, <2>1, <2>2, <2>3 DEF Rollback
<1>16. ASSUME NEW t \in Thread, RateClear(t) PROVE DevTypeOK' /\ LocalsOK'
  <2>1. cur' \in [Devices -> Devices] /\ demodPc' = [demodPc EXCEPT ![t] = "loop"]
    BY <1>16, <1>moves DEF RateClear
  <2> QED
    BY <1>16, <2>1 DEF RateClear
<1>17. ASSUME NEW d \in Devices, RxStarts(d) PROVE DevTypeOK' /\ LocalsOK'
  BY <1>17 DEF RxStarts
<1>18. ASSUME NEW d \in Devices, RxDies(d) PROVE DevTypeOK' /\ LocalsOK'
  BY <1>18 DEF RxDies
<1>19. ASSUME NEW d \in Devices, RxSeesExit(d) PROVE DevTypeOK' /\ LocalsOK'
  BY <1>19 DEF RxSeesExit
<1>20. ASSUME NEW d \in Devices, RxReadsClosedFile(d) PROVE DevTypeOK' /\ LocalsOK'
  BY <1>20 DEF RxReadsClosedFile
<1>21. ASSUME NEW d \in Tunable, NEW f \in Freqs, RequestRetune(d, f) PROVE DevTypeOK' /\ LocalsOK'
  BY <1>21 DEF RequestRetune
<1>22. ASSUME NEW d \in Tunable, NEW r \in Rates, RequestRate(d, r) PROVE DevTypeOK' /\ LocalsOK'
  BY <1>22 DEF RequestRate
<1>23. ASSUME NEW d \in Tunable, ParseChannel(d) PROVE DevTypeOK' /\ LocalsOK'
  BY <1>23 DEF ParseChannel, Tuning
<1>24. ASSUME NEW d \in Devices, ControlCall(d) PROVE DevTypeOK' /\ LocalsOK'
  BY <1>24 DEF ControlCall
<1>25. ASSUME NEW d \in Tunable, NEW works \in BOOLEAN, AnswerRetune(d, works) PROVE DevTypeOK' /\ LocalsOK'
  BY <1>25 DEF AnswerRetune, Idle
<1>26. ASSUME NEW d \in Tunable, NEW works \in BOOLEAN, AnswerRate(d, works) PROVE DevTypeOK' /\ LocalsOK'
  BY <1>26 DEF AnswerRate, Idle
<1>27. CASE PublishChannel
  BY <1>27 DEF PublishChannel, Idle
<1>28. CASE TimeOut
  BY SMTT(30), <1>28 DEF TimeOut, Idle
<1>29. CASE JoinDemods
  BY <1>29 DEF JoinDemods
<1>30. CASE InputStop
  <2>1. /\ state' \in [Devices -> {"RUNNING", "FAILED", "DISABLED", "STOPPED"}]
        /\ rx' \in [Devices -> {"starting", "alive", "ended", "joined"}] /\ handle' \in [Devices -> BOOLEAN]
        /\ cur' \in [Devices -> Devices] /\ mainPc' \in {"run", "stop", "join", "done"} /\ faults' = faults
    <3>1. CASE StopWorks(cur[0]) /\ Becomes(cur[0], "STOPPED") /\ mainPc' = "join" /\ UNCHANGED <<cur, faults>>
      BY <3>1 DEF StopWorks, Becomes
    <3>2. CASE Becomes(cur[0], "STOPPED") /\ mainPc' = "join" /\ UNCHANGED <<cur, rx, handle, faults>>
      BY <3>2 DEF Becomes
    <3>3. CASE Becomes(cur[0], "FAILED") /\ NextToStop(cur[0]) /\ UNCHANGED <<rx, handle, faults>>
      BY NextToStopOK, <3>3 DEF Becomes
    <3> QED
      BY <1>30, <3>1, <3>2, <3>3 DEF InputStop
  <2> QED
    BY <1>30, <2>1 DEF InputStop
<1>31. CASE JoinRx
  <2>1. cur' \in [Devices -> Devices] /\ mainPc' \in {"run", "stop", "join", "done"}
    BY <1>31, NextToStopOK DEF JoinRx
  <2>2. rx' \in [Devices -> {"starting", "alive", "ended", "joined"}] /\ crashed' \in BOOLEAN
    BY <1>31 DEF JoinRx
  <2> QED
    BY <1>31, <2>1, <2>2 DEF JoinRx
<1>32. CASE SigHandler
  BY <1>32 DEF SigHandler
<1>33. CASE UNCHANGED devVars
  BY <1>33 DEF devVars
<1> HIDE Constants DEF DevTypeOK, LocalsOK
<1> QED
  BY <1>1, <1>2, <1>3, <1>4, <1>5, <1>6, <1>7, <1>8, <1>9, <1>10, <1>11, <1>12, <1>13, <1>14, <1>15, <1>16, <1>17,
     <1>18, <1>19, <1>20, <1>21, <1>22, <1>23, <1>24, <1>25, <1>26, <1>27, <1>28, <1>29, <1>30, <1>31, <1>32, <1>33
     DEF Next, Demodulate, ApplyRequests, Receive, Control, ControlAnswers, Shutdown

\* Every step keeps the threads and main() in their places.
LEMMA PlaceStep == DevTypeOK /\ LocalsOK /\ PlaceInv /\ [Next]_devVars => PlaceInv'
<1> SUFFICES ASSUME DevTypeOK, LocalsOK, PlaceInv, [Next]_devVars PROVE PlaceInv'
  OBVIOUS
<1> USE DEF Goto, inputVars, binVars, reqVars, demodVars, progVars, histVars, budget, ctlElse
<1>0. /\ Thread' = Thread /\ Thread \subseteq Devices /\ None \notin Thread
      /\ demodPc \in [Devices -> AtWork \union {"loop", "decrement", "exited"}]
  BY Constants, FixedStep DEF LocalsOK
<1>thread. ASSUME NEW t \in Thread, Demodulate(t), demodPc'[t] = "exited" => do_exit, do_exit => do_exit',
                  multiple_demod_threads' = multiple_demod_threads,
                  \/ demodPc[t] \notin Rework /\ demodPc'[t] \notin Rework /\ control_mutex' = control_mutex
                  \/ demodPc[t] \in Rework /\ demodPc'[t] \in Rework /\ control_mutex' = control_mutex
                  \/ control_mutex = None /\ demodPc'[t] \in Rework /\ control_mutex' = t
                  \/ control_mutex = t /\ demodPc'[t] \notin Rework /\ control_mutex' = None
           PROVE  PlaceInv'
  <2>1. \A u \in Devices \ {t} : demodPc'[u] = demodPc[u] /\ cur'[u] = cur[u]
    BY <1>thread, ThreadStep
  <2>2. mainPc = "run" /\ mainPc' = "run" /\ (multiple_demod_threads => cur'[t] = t)
    BY <1>thread, ThreadStep
  <2>3. \A u \in Thread : demodPc'[u] = "exited" => do_exit'
    BY <1>0, <1>thread, <2>1 DEF PlaceInv
  <2>4. multiple_demod_threads => \A u \in Devices : cur'[u] = u
    BY <2>1, <2>2 DEF PlaceInv
  <2>5. /\ control_mutex' # None => control_mutex' \in Thread
        /\ \A u \in Thread : demodPc'[u] \in Rework <=> control_mutex' = u
    BY <1>0, <1>thread, <2>1 DEF PlaceInv
  <2> QED
    BY <1>0, <1>thread, <2>2, <2>3, <2>4, <2>5 DEF PlaceInv
<1>frame. ASSUME UNCHANGED <<demodPc, mainPc, multiple_demod_threads, cur, control_mutex>>, do_exit => do_exit'
          PROVE  PlaceInv'
  BY <1>0, <1>frame DEF PlaceInv
<1>stop. ASSUME UNCHANGED <<demodPc, multiple_demod_threads, control_mutex, do_exit>>, mainPc' # "run",
                \A t \in Thread : demodPc[t] = "exited"
         PROVE  PlaceInv'
  BY <1>0, <1>stop DEF PlaceInv
<1>1. ASSUME NEW t \in Thread, SeesExit(t) PROVE PlaceInv'
  BY <1>0, <1>1, <1>thread DEF SeesExit, Demodulate, Rework
<1>2. ASSUME NEW t \in Thread, AllReceiversFailed(t) PROVE PlaceInv'
  BY <1>2, <1>frame DEF AllReceiversFailed
<1>3. ASSUME NEW t \in Thread, SkipDevice(t) PROVE PlaceInv'
  BY <1>0, <1>3, <1>thread DEF SkipDevice, AtDevice, NextDevice, Demodulate, Rework
<1>4. ASSUME NEW t \in Thread, FoldFailed(t) PROVE PlaceInv'
  BY <1>0, <1>4, <1>thread DEF FoldFailed, AtDevice, Demodulate, Rework
<1>5. ASSUME NEW t \in Thread, Decrement(t) PROVE PlaceInv'
  BY <1>0, <1>5, <1>thread DEF Decrement, NextDevice, Demodulate, Rework
<1>6. ASSUME NEW t \in Thread, VisitDevice(t) PROVE PlaceInv'
  BY <1>0, <1>6, <1>thread DEF VisitDevice, AtDevice, Demodulate, Rework
<1>7. ASSUME NEW t \in Thread, Retune(t) PROVE PlaceInv'
  BY <1>0, <1>7, <1>thread DEF Retune, Demodulate, ApplyRequests, Rework
<1>8. ASSUME NEW t \in Thread, RetuneClear(t) PROVE PlaceInv'
  BY <1>0, <1>8, <1>thread DEF RetuneClear, Demodulate, ApplyRequests, Rework
<1>9. ASSUME NEW t \in Thread, NoRateRequest(t) PROVE PlaceInv'
  BY <1>0, <1>9, <1>thread DEF NoRateRequest, NextDevice, Demodulate, ApplyRequests, Rework
<1>10. ASSUME NEW t \in Thread, TakeRateRequest(t) PROVE PlaceInv'
  BY <1>0, <1>10, <1>thread DEF TakeRateRequest, Demodulate, ApplyRequests, Rework
<1>11. ASSUME NEW t \in Thread, StopRx(t) PROVE PlaceInv'
  BY <1>0, <1>11, <1>thread DEF StopRx, Demodulate, ApplyRequests, Rework
<1>12. ASSUME NEW t \in Thread, StopRxFails(t) PROVE PlaceInv'
  <2>1. control_mutex = t
    BY <1>12 DEF StopRxFails, PlaceInv, Rework
  <2> QED
    BY <1>0, <1>12, <2>1, <1>thread DEF StopRxFails, Demodulate, ApplyRequests, Rework
<1>13. ASSUME NEW t \in Thread, Reopen(t) PROVE PlaceInv'
  BY <1>0, <1>13, <1>thread DEF Reopen, Demodulate, ApplyRequests, Rework
<1>14. ASSUME NEW t \in Thread, AdoptRate(t) PROVE PlaceInv'
  <2>1. control_mutex = t
    BY <1>14 DEF AdoptRate, PlaceInv, Rework
  <2> QED
    BY <1>0, <1>14, <2>1, <1>thread DEF AdoptRate, Demodulate, ApplyRequests, Rework
<1>15. ASSUME NEW t \in Thread, Rollback(t) PROVE PlaceInv'
  <2>1. control_mutex = t
    BY <1>15 DEF Rollback, PlaceInv, Rework
  <2> QED
    BY <1>0, <1>15, <2>1, <1>thread DEF Rollback, Demodulate, ApplyRequests, Rework
<1>16. ASSUME NEW t \in Thread, RateClear(t) PROVE PlaceInv'
  BY <1>0, <1>16, <1>thread DEF RateClear, NextDevice, Demodulate, ApplyRequests, Rework
<1>17. ASSUME NEW d \in Devices, Receive(d) \/ RxDies(d) PROVE PlaceInv'
  BY <1>17, <1>frame DEF Receive, RxStarts, RxDies, RxSeesExit, RxReadsClosedFile
<1>18. CASE Control \/ ControlAnswers \/ TimeOut
  BY <1>18, <1>frame DEF Control, ControlAnswers, RequestRetune, RequestRate, ParseChannel, ControlCall, AnswerRetune,
                         AnswerRate, PublishChannel, TimeOut
<1>19. CASE JoinDemods
  BY <1>19, <1>stop DEF JoinDemods
<1>20. CASE InputStop
  <2>1. mainPc' # "run"
    BY <1>20, NextToStopOK DEF InputStop, NextToStop
  <2>2. \A t \in Thread : demodPc[t] = "exited"
    BY <1>20 DEF InputStop, PlaceInv
  <2> QED
    BY <1>20, <1>stop, <2>1, <2>2 DEF InputStop
<1>21. CASE JoinRx
  <2>1. mainPc' # "run"
    BY <1>21 DEF JoinRx, NextToStop
  <2>2. \A t \in Thread : demodPc[t] = "exited"
    BY <1>21 DEF JoinRx, PlaceInv
  <2> QED
    BY <1>21, <1>stop, <2>1, <2>2 DEF JoinRx
<1>22. CASE SigHandler
  BY <1>22, <1>frame DEF SigHandler
<1>23. CASE UNCHANGED devVars
  BY <1>23, <1>frame DEF devVars
<1> QED
  BY <1>1, <1>2, <1>3, <1>4, <1>5, <1>6, <1>7, <1>8, <1>9, <1>10, <1>11, <1>12, <1>13, <1>14, <1>15, <1>16, <1>17,
     <1>18, <1>19, <1>20, <1>21, <1>22, <1>23 DEF Next, Demodulate, ApplyRequests, Shutdown

\* Every step keeps what the program believes of the hardware.
LEMMA TuningStep == DevTypeOK /\ LocalsOK /\ PlaceInv /\ TuningInv /\ [Next]_devVars => TuningInv'
<1> SUFFICES ASSUME DevTypeOK, LocalsOK, PlaceInv, TuningInv, [Next]_devVars PROVE TuningInv'
  OBVIOUS
<1> USE DEF Goto, inputVars, binVars, reqVars, demodVars, progVars, histVars, budget, ctlElse
<1>0. /\ Thread' = Thread /\ Thread \subseteq Devices
      /\ demodPc \in [Devices -> AtWork \union {"loop", "decrement", "exited"}]
      /\ cur \in [Devices -> Devices]
      /\ hw \in [Devices -> [freq : Freqs, rate : Rates]] /\ centerfreq \in [Devices -> Freqs]
      /\ sample_rate \in [Devices -> Rates] /\ oldRate \in [Devices -> Rates]
      /\ got \in [Devices -> Freqs \union Rates \union (1 .. DeviceCount) \union {None}]
  BY Constants, FixedStep DEF LocalsOK, DevTypeOK
<1>believed. \A d \in Devices, t \in Thread : cur[t] = d /\ mainPc = "run" /\ demodPc[t] # "rollback" =>
               sample_rate[d] = hw[d].rate
  <2> SUFFICES ASSUME NEW t \in Thread, mainPc = "run", demodPc[t] # "rollback"
               PROVE  sample_rate[cur[t]] = hw[cur[t]].rate
    OBVIOUS
  <2>1. \A u \in Thread : cur[u] = cur[t] => u = t
    BY OwnDevice
  <2> QED
    BY <1>0, <2>1 DEF TuningInv
<1>frame. ASSUME UNCHANGED <<centerfreq, sample_rate, hw, oldRate, demodPc, got>>,
                 cur' = cur \/ \A t \in Thread : demodPc[t] = "exited"
          PROVE  TuningInv'
  BY <1>0, <1>frame DEF TuningInv
<1>thread. ASSUME NEW t \in Thread, Demodulate(t), UNCHANGED <<centerfreq, sample_rate, hw, oldRate>>,
                  demodPc[t] \notin {"adopt", "rollback"}, demodPc'[t] \notin Rework
           PROVE  TuningInv'
  <2>1. \A u \in Thread : u # t => demodPc'[u] = demodPc[u] /\ cur'[u] = cur[u] /\ got'[u] = got[u]
    BY <1>0, <1>thread, ThreadStep
  <2>2. \A d \in Devices : (\A u \in Thread : cur'[u] = d => demodPc'[u] # "rollback") =>
          \A u \in Thread : cur[u] = d => demodPc[u] # "rollback"
    BY <1>thread, <2>1
  <2> QED
    BY ZenonT(30), <1>0, <1>thread, <2>1, <2>2 DEF TuningInv, Rework
<1>1. ASSUME NEW t \in Thread, SeesExit(t) PROVE TuningInv'
  BY <1>0, <1>1, <1>thread DEF SeesExit, Demodulate, Rework
<1>2. ASSUME NEW t \in Thread, AllReceiversFailed(t) PROVE TuningInv'
  BY <1>2, <1>frame DEF AllReceiversFailed
<1>3. ASSUME NEW t \in Thread, SkipDevice(t) PROVE TuningInv'
  BY <1>0, <1>3, <1>thread DEF SkipDevice, AtDevice, NextDevice, Demodulate, Rework
<1>4. ASSUME NEW t \in Thread, FoldFailed(t) PROVE TuningInv'
  BY <1>0, <1>4, <1>thread DEF FoldFailed, AtDevice, Demodulate, Rework
<1>5. ASSUME NEW t \in Thread, Decrement(t) PROVE TuningInv'
  BY <1>0, <1>5, <1>thread DEF Decrement, NextDevice, Demodulate, Rework
<1>6. ASSUME NEW t \in Thread, VisitDevice(t) PROVE TuningInv'
  BY <1>0, <1>6, <1>thread DEF VisitDevice, AtDevice, Demodulate, Rework
<1>7. ASSUME NEW t \in Thread, Retune(t) PROVE TuningInv'
  <2>1. CASE RetuneWorks(t)
    <3>1. /\ \A u \in Thread : u # t => demodPc'[u] = demodPc[u] /\ cur[u] # cur[t]
          /\ demodPc[t] = "retune" /\ demodPc'[t] = "retuneClear" /\ UNCHANGED <<cur, sample_rate, oldRate, got>>
      BY <1>0, <1>7, ThreadStep DEF Retune, Demodulate, ApplyRequests
    <3>2. /\ hw'[cur[t]].freq = got[t] /\ centerfreq'[cur[t]] = got[t] /\ hw'[cur[t]].rate = hw[cur[t]].rate
          /\ \A d \in Devices : d # cur[t] => hw'[d] = hw[d] /\ centerfreq'[d] = centerfreq[d]
      BY <1>0, <2>1 DEF RetuneWorks, Tuning
    <3>3. \A d \in Devices : hw'[d].rate = hw[d].rate
      BY <1>0, <3>2
    <3>4. \A u \in Thread : demodPc'[u] = "rollback" <=> demodPc[u] = "rollback"
      BY <1>0, <3>1
    <3>5. \A d \in Devices : centerfreq'[d] = hw'[d].freq
      BY <1>0, <3>2 DEF TuningInv
    <3>6. \A d \in Devices : (\A u \in Thread : cur[u] = d => demodPc'[u] # "rollback") => sample_rate[d] = hw'[d].rate
      BY <1>0, <3>3, <3>4 DEF TuningInv
    <3>7. \A u \in Thread : /\ demodPc'[u] \in {"stop", "reopen", "rollback"} => hw'[cur[u]].rate = oldRate[u]
                            /\ demodPc'[u] = "adopt" => hw'[cur[u]].rate = got[u]
      BY <1>0, <3>1, <3>3 DEF TuningInv
    <3> QED
      BY <1>0, <3>1, <3>5, <3>6, <3>7 DEF TuningInv
  <2>2. CASE RetuneFails(t)
    BY <1>0, <1>7, <2>2, <1>thread DEF Retune, RetuneFails, Demodulate, ApplyRequests, Rework
  <2> QED
    BY <1>7, <2>1, <2>2 DEF Retune
<1>8. ASSUME NEW t \in Thread, RetuneClear(t) PROVE TuningInv'
  BY <1>0, <1>8, <1>thread DEF RetuneClear, Demodulate, ApplyRequests, Rework
<1>9. ASSUME NEW t \in Thread, NoRateRequest(t) PROVE TuningInv'
  BY <1>0, <1>9, <1>thread DEF NoRateRequest, NextDevice, Demodulate, ApplyRequests, Rework
<1>10. ASSUME NEW t \in Thread, TakeRateRequest(t) PROVE TuningInv'
  <2>1. /\ \A u \in Thread : u # t => demodPc'[u] = demodPc[u] /\ got'[u] = got[u] /\ oldRate'[u] = oldRate[u]
        /\ demodPc[t] = "rate" /\ demodPc'[t] = "stop" /\ UNCHANGED <<cur, sample_rate, centerfreq, hw>>
        /\ oldRate'[t] = sample_rate[cur[t]] /\ mainPc = "run"
    BY <1>0, <1>10, ThreadStep DEF TakeRateRequest, Demodulate, ApplyRequests
  <2>2. oldRate'[t] = hw[cur[t]].rate
    BY <1>0, <1>believed, <2>1
  <2>3. \A u \in Thread : demodPc'[u] = "rollback" <=> demodPc[u] = "rollback"
    BY <2>1
  <2>4. \A u \in Thread : /\ demodPc'[u] \in {"stop", "reopen", "rollback"} => hw[cur[u]].rate = oldRate'[u]
                          /\ demodPc'[u] = "adopt" => hw[cur[u]].rate = got'[u]
    BY <1>0, <2>1, <2>2 DEF TuningInv
  <2> QED
    BY <1>0, <2>1, <2>3, <2>4 DEF TuningInv
<1>11. ASSUME NEW t \in Thread, StopRx(t) PROVE TuningInv'
  <2>1. /\ \A u \in Thread : u # t => demodPc'[u] = demodPc[u]
        /\ demodPc[t] = "stop" /\ demodPc'[t] = "reopen" /\ UNCHANGED <<cur, sample_rate, centerfreq, hw, got, oldRate>>
    BY <1>0, <1>11, ThreadStep DEF StopRx, Demodulate, ApplyRequests
  <2> QED
    BY <1>0, <2>1 DEF TuningInv
<1>12. ASSUME NEW t \in Thread, StopRxFails(t) PROVE TuningInv'
  BY <1>0, <1>12, <1>thread DEF StopRxFails, Demodulate, ApplyRequests, Rework
<1>13. ASSUME NEW t \in Thread, Reopen(t) PROVE TuningInv'
  <2>1. /\ \A u \in Thread : u # t => demodPc'[u] = demodPc[u] /\ cur[u] # cur[t]
        /\ demodPc[t] = "reopen" /\ UNCHANGED <<cur, centerfreq, got, oldRate>>
        /\ sample_rate'[cur[t]] = got[t] /\ \A d \in Devices : d # cur[t] => sample_rate'[d] = sample_rate[d]
    BY <1>0, <1>13, ThreadStep DEF Reopen, Demodulate, ApplyRequests
  <2>2. CASE Opened(cur[t], got[t]) /\ Goto(t, "adopt") /\ UNCHANGED faults
    <3>1. /\ hw'[cur[t]].freq = centerfreq[cur[t]] /\ hw'[cur[t]].rate = got[t] /\ demodPc'[t] = "adopt"
          /\ \A d \in Devices : d # cur[t] => hw'[d] = hw[d]
      BY <1>0, <2>2 DEF Opened, Tuning
    <3>2. \A d \in Devices : d # cur[t] =>
            ((\A u \in Thread : cur[u] = d => demodPc'[u] # "rollback") => \A u \in Thread : cur[u] = d => demodPc[u] # "rollback")
      BY <2>1
    <3>3. \A d \in Devices : (\A u \in Thread : cur[u] = d => demodPc'[u] # "rollback") => sample_rate'[d] = hw'[d].rate
      BY <2>1, <3>1, <3>2 DEF TuningInv
    <3>4. \A d \in Devices : centerfreq[d] = hw'[d].freq
      BY <3>1 DEF TuningInv
    <3>5. \A u \in Thread : /\ demodPc'[u] \in {"stop", "reopen", "rollback"} => hw'[cur[u]].rate = oldRate[u]
                            /\ demodPc'[u] = "adopt" => hw'[cur[u]].rate = got[u]
      BY <1>0, <2>1, <3>1 DEF TuningInv
    <3> QED
      BY <1>0, <2>1, <3>3, <3>4, <3>5 DEF TuningInv
  <2>3. CASE Fault /\ Goto(t, "rollback") /\ UNCHANGED <<handle, hw>>
    <3>1. demodPc'[t] = "rollback" /\ hw' = hw
      BY <1>0, <2>3
    <3>2. \A d \in Devices : (\A u \in Thread : cur[u] = d => demodPc'[u] # "rollback") =>
            d # cur[t] /\ (\A u \in Thread : cur[u] = d => demodPc[u] # "rollback")
      BY <2>1, <3>1
    <3>3. \A d \in Devices : (\A u \in Thread : cur[u] = d => demodPc'[u] # "rollback") => sample_rate'[d] = hw[d].rate
      BY <2>1, <3>2 DEF TuningInv
    <3>4. \A u \in Thread : /\ demodPc'[u] \in {"stop", "reopen", "rollback"} => hw[cur[u]].rate = oldRate[u]
                            /\ demodPc'[u] = "adopt" => hw[cur[u]].rate = got[u]
      BY <2>1, <3>1 DEF TuningInv
    <3> QED
      BY <1>0, <2>1, <3>1, <3>3, <3>4 DEF TuningInv
  <2> QED
    BY <1>13, <2>2, <2>3 DEF Reopen
<1>14. ASSUME NEW t \in Thread, AdoptRate(t) PROVE TuningInv'
  <2>1. /\ \A u \in Thread : u # t => demodPc'[u] = demodPc[u]
        /\ demodPc[t] = "adopt" /\ demodPc'[t] = "rateClear"
        /\ UNCHANGED <<cur, sample_rate, centerfreq, hw, got, oldRate>>
    BY <1>0, <1>14, ThreadStep DEF AdoptRate, Demodulate, ApplyRequests
  <2>2. \A u \in Thread : demodPc'[u] = "rollback" <=> demodPc[u] = "rollback"
    BY <2>1
  <2> QED
    BY <1>0, <2>1, <2>2 DEF TuningInv
<1>15. ASSUME NEW t \in Thread, Rollback(t) PROVE TuningInv'
  <2>1. /\ \A u \in Thread : u # t => demodPc'[u] = demodPc[u] /\ cur[u] # cur[t]
        /\ demodPc[t] = "rollback" /\ demodPc'[t] = "rateClear" /\ UNCHANGED <<cur, centerfreq, got, oldRate>>
        /\ sample_rate'[cur[t]] = oldRate[t] /\ \A d \in Devices : d # cur[t] => sample_rate'[d] = sample_rate[d]
    BY <1>0, <1>15, ThreadStep DEF Rollback, Demodulate, ApplyRequests
  <2>2. /\ hw'[cur[t]].freq = centerfreq[cur[t]] /\ hw'[cur[t]].rate = oldRate[t]
        /\ \A d \in Devices : d # cur[t] => hw'[d] = hw[d]
    <3>1. CASE RolledBack(cur[t], oldRate[t])
      BY <1>0, <3>1 DEF RolledBack, Opened, Tuning
    <3>2. CASE DeviceDown(cur[t])
      BY <1>0, <2>1, <3>2 DEF DeviceDown, TuningInv
    <3> QED
      BY <1>15, <3>1, <3>2 DEF Rollback
  <2>3. \A d \in Devices : d # cur[t] =>
          ((\A u \in Thread : cur[u] = d => demodPc'[u] # "rollback") => \A u \in Thread : cur[u] = d => demodPc[u] # "rollback")
    BY <2>1
  <2>4. \A d \in Devices : (\A u \in Thread : cur[u] = d => demodPc'[u] # "rollback") => sample_rate'[d] = hw'[d].rate
    BY <2>1, <2>2, <2>3 DEF TuningInv
  <2>5. \A d \in Devices : centerfreq[d] = hw'[d].freq
    BY <2>2 DEF TuningInv
  <2>6. \A u \in Thread : /\ demodPc'[u] \in {"stop", "reopen", "rollback"} => hw'[cur[u]].rate = oldRate[u]
                          /\ demodPc'[u] = "adopt" => hw'[cur[u]].rate = got[u]
    BY <1>0, <2>1, <2>2 DEF TuningInv
  <2> QED
    BY <1>0, <2>1, <2>4, <2>5, <2>6 DEF TuningInv
<1>16. ASSUME NEW t \in Thread, RateClear(t) PROVE TuningInv'
  BY <1>0, <1>16, <1>thread DEF RateClear, NextDevice, Demodulate, ApplyRequests, Rework
<1>17. ASSUME NEW d \in Devices, Receive(d) \/ RxDies(d) PROVE TuningInv'
  BY <1>17, <1>frame DEF Receive, RxStarts, RxDies, RxSeesExit, RxReadsClosedFile
<1>18. CASE Control \/ ControlAnswers \/ TimeOut
  BY <1>18, <1>frame DEF Control, ControlAnswers, RequestRetune, RequestRate, ParseChannel, ControlCall, AnswerRetune,
                         AnswerRate, PublishChannel, TimeOut
<1>19. CASE JoinDemods
  BY <1>19, <1>frame DEF JoinDemods
<1>20. CASE InputStop
  BY <1>20, <1>frame DEF InputStop, PlaceInv
<1>21. CASE JoinRx
  BY <1>21, <1>frame DEF JoinRx, PlaceInv
<1>22. CASE SigHandler
  BY <1>22, <1>frame DEF SigHandler
<1>23. CASE UNCHANGED devVars
  BY <1>23, <1>frame DEF devVars
<1> QED
  BY <1>1, <1>2, <1>3, <1>4, <1>5, <1>6, <1>7, <1>8, <1>9, <1>10, <1>11, <1>12, <1>13, <1>14, <1>15, <1>16, <1>17,
     <1>18, <1>19, <1>20, <1>21, <1>22, <1>23 DEF Next, Demodulate, ApplyRequests, Shutdown


\* A demodulator that works on a request works on the one the control thread waits for.
LEMMA WorkIsAwaited ==
  ASSUME WaitInv, late = 0, Thread \subseteq Devices, cur \in [Devices -> Devices], NEW t \in Thread
  PROVE  /\ demodPc[t] \in {"retune", "retuneClear"} =>
              ctl.pc = "waitFreq" /\ ctl.dev = cur[t] /\ reqFreq[cur[t]] = ctl.val /\ reqFreq[cur[t]] # None
         /\ demodPc[t] = "retune" => got[t] = ctl.val
         /\ demodPc[t] \in Rework \union {"rateClear"} =>
              ctl.pc = "waitRate" /\ ctl.dev = cur[t] /\ reqRate[cur[t]] = ctl.val /\ reqRate[cur[t]] # None
         /\ demodPc[t] \in Rework => got[t] = ctl.val
<1>1. demodPc[t] \in Rework \union {"rateClear", "retune", "retuneClear"} => ~Deaf(cur[t])
  BY DEF Deaf, Rework
<1>2. cur[t] \in Devices /\ Awaited(cur[t]) /\ Posted(t)
  BY DEF WaitInv
<1> QED
  BY <1>1, <1>2 DEF Awaited, Posted

\* The bound on late requests is not given back.
LEMMA LateStep == LocalsOK /\ [Next]_devVars /\ late' = 0 => late = 0
<1> USE DEF inputVars, binVars, reqVars, demodVars, progVars, histVars, budget, ctlElse
<1> SUFFICES ASSUME LocalsOK, [Next]_devVars PROVE late' = late \/ late' = late + 1
  BY DEF LocalsOK
<1>1. ASSUME NEW t \in Thread, Demodulate(t) PROVE late' = late
  BY <1>1 DEF Demodulate, ApplyRequests, SeesExit, AllReceiversFailed, SkipDevice, FoldFailed, Decrement, VisitDevice,
              Retune, RetuneClear, NoRateRequest, TakeRateRequest, StopRx, StopRxFails, Reopen, AdoptRate, Rollback,
              RateClear
<1>2. ASSUME NEW d \in Devices, Receive(d) \/ RxDies(d) PROVE late' = late
  BY <1>2 DEF Receive, RxStarts, RxDies, RxSeesExit, RxReadsClosedFile
<1>3. CASE Control \/ ControlAnswers
  BY <1>3 DEF Control, ControlAnswers, RequestRetune, RequestRate, ParseChannel, ControlCall, AnswerRetune, AnswerRate,
              PublishChannel
<1>4. CASE TimeOut
  BY <1>4 DEF TimeOut
<1>5. CASE Shutdown \/ SigHandler
  BY <1>5 DEF Shutdown, SigHandler, JoinDemods, InputStop, JoinRx
<1> QED
  BY <1>1, <1>2, <1>3, <1>4, <1>5 DEF Next, devVars

\* A device nobody looks at stays so.
LEMMA DeafStep ==
  ASSUME DevTypeOK, LocalsOK, PlaceInv, [Next]_devVars, NEW d \in Devices, Deaf(d)
  PROVE  Deaf(d)'
<1> USE DEF inputVars, binVars, reqVars, demodVars, progVars, histVars, budget, ctlElse
<1>0. /\ Thread' = Thread /\ Thread \subseteq Devices
      /\ demodPc \in [Devices -> AtWork \union {"loop", "decrement", "exited"}] /\ cur \in [Devices -> Devices]
      /\ state \in [Devices -> {"RUNNING", "FAILED", "DISABLED", "STOPPED"}]
      /\ rx \in [Devices -> {"starting", "alive", "ended", "joined"}]
  BY Constants, FixedStep DEF LocalsOK, DevTypeOK
<1>1. ASSUME NEW t \in Thread, Demodulate(t) PROVE Deaf(d)'
  <2>1. demodPc[t] # "exited"
    BY <1>1 DEF Demodulate, ApplyRequests, SeesExit, AllReceiversFailed, SkipDevice, FoldFailed, Decrement, VisitDevice,
                Retune, RetuneClear, NoRateRequest, TakeRateRequest, StopRx, StopRxFails, Reopen, AdoptRate, Rollback,
                RateClear, AtDevice
  <2>2. state[d] # "RUNNING" /\ rx[d] # "starting" /\ (cur[t] # d \/ demodPc[t] \in {"loop", "decrement"})
    BY <2>1 DEF Deaf
  <2>3. \A u \in Thread : u # t => demodPc'[u] = demodPc[u] /\ cur'[u] = cur[u]
    BY <1>0, <1>1, ThreadStep
  <2>4. demodPc'[t] # "loop" => cur'[t] = cur[t]
    BY <1>1, ThreadStep
  <2>5. cur[t] = d => demodPc'[t] \in {"loop", "decrement", "exited"}
    BY <1>0, <1>1, <2>2 DEF Demodulate, ApplyRequests, SeesExit, AllReceiversFailed, SkipDevice, FoldFailed, Decrement,
         VisitDevice, Retune, RetuneClear, NoRateRequest, TakeRateRequest, StopRx, StopRxFails, Reopen, AdoptRate,
         Rollback, RateClear, AtDevice, NextDevice, Goto
  <2>6. state'[d] # "RUNNING"
    BY <1>0, <1>1, <2>2 DEF Demodulate, ApplyRequests, SeesExit, AllReceiversFailed, SkipDevice, FoldFailed, Decrement,
         VisitDevice, Retune, RetuneClear, NoRateRequest, TakeRateRequest, StopRx, StopRxFails, Reopen, AdoptRate,
         Rollback, RateClear, RolledBack, DeviceDown
  <2>7. rx'[d] # "starting"
    <3>1. CASE AdoptRate(t) \/ Rollback(t)
      BY <1>0, <2>2, <3>1 DEF AdoptRate, Rollback, RolledBack, DeviceDown, StartRx
    <3>2. CASE ~(AdoptRate(t) \/ Rollback(t))
      BY <1>0, <1>1, <2>2, <3>2 DEF Demodulate, ApplyRequests, SeesExit, AllReceiversFailed, SkipDevice, FoldFailed,
           Decrement, VisitDevice, Retune, RetuneClear, NoRateRequest, TakeRateRequest, StopRx, StopRxFails, Reopen,
           RateClear, StopWorks
    <3> QED
      BY <3>1, <3>2
  <2> QED
    BY <1>0, <2>2, <2>3, <2>4, <2>5, <2>6, <2>7 DEF Deaf
<1>2. ASSUME NEW e \in Devices, Receive(e) \/ RxDies(e) PROVE Deaf(d)'
  BY <1>0, <1>2 DEF Receive, RxStarts, RxDies, RxSeesExit, RxReadsClosedFile, Deaf
<1>3. CASE Control \/ ControlAnswers \/ TimeOut
  <2>1. UNCHANGED <<demodPc, cur, state, rx>>
    BY <1>3 DEF Control, ControlAnswers, RequestRetune, RequestRate, ParseChannel, ControlCall, AnswerRetune, AnswerRate,
                PublishChannel, TimeOut
  <2> QED
    BY <1>0, <2>1 DEF Deaf
<1>4. CASE Shutdown
  <2>1. demodPc' = demodPc /\ \A t \in Thread : demodPc[t] = "exited"
    BY <1>4 DEF Shutdown, JoinDemods, InputStop, JoinRx, PlaceInv
  <2> QED
    BY <1>0, <2>1 DEF Deaf
<1>5. CASE SigHandler \/ UNCHANGED devVars
  BY <1>0, <1>5 DEF SigHandler, devVars, Deaf
<1> QED
  BY <1>1, <1>2, <1>3, <1>4, <1>5 DEF Next


\* Every step keeps the requests awaited.
LEMMA WaitStep == DevTypeOK /\ LocalsOK /\ PlaceInv /\ WaitInv /\ [Next]_devVars => WaitInv'
<1> SUFFICES ASSUME DevTypeOK, LocalsOK, PlaceInv, WaitInv, [Next]_devVars, late' = 0
             PROVE  (\A d \in Devices : Awaited(d)') /\ \A t \in Thread' : Posted(t)'
  BY DEF WaitInv
<1> DEFINE Kept == (\A d \in Devices : Awaited(d)') /\ \A t \in Thread' : Posted(t)'
<1> HIDE DEF Kept
<1> SUFFICES Kept
  BY DEF Kept
<1> USE DEF Goto, inputVars, binVars, reqVars, demodVars, progVars, histVars, budget, ctlElse
<1>0. /\ Thread' = Thread /\ Thread \subseteq Devices
      /\ demodPc \in [Devices -> AtWork \union {"loop", "decrement", "exited"}] /\ cur \in [Devices -> Devices]
      /\ got \in [Devices -> Freqs \union Rates \union (1 .. DeviceCount) \union {None}]
      /\ reqFreq \in [Devices -> Freqs \union {None}] /\ reqRate \in [Devices -> Rates \union {None}]
      /\ None \notin Freqs /\ None \notin Rates
  BY Constants, FixedStep DEF LocalsOK, DevTypeOK
<1>late. late = 0 /\ (\A d \in Devices : Awaited(d)) /\ \A t \in Thread : Posted(t)
  BY LateStep DEF WaitInv
<1>deaf. \A d \in Devices : Deaf(d) => Deaf(d)'
  BY DeafStep
<1>frame. ASSUME UNCHANGED <<reqFreq, reqRate, ctl, demodPc, got>>, cur' = cur \/ \A t \in Thread : demodPc[t] = "exited"
          PROVE  Kept
  <2>1. \A d \in Devices : Awaited(d)'
    BY <1>frame, <1>late, <1>deaf DEF Awaited
  <2>2. \A t \in Thread : Posted(t)'
    BY <1>frame, <1>late DEF Posted, Rework
  <2> QED
    BY <1>0, <2>1, <2>2 DEF Kept
<1>thread. ASSUME NEW t \in Thread, Demodulate(t), ctl' = ctl,
                  reqFreq' = reqFreq \/ reqFreq' = [reqFreq EXCEPT ![cur[t]] = None],
                  reqRate' = reqRate \/ reqRate' = [reqRate EXCEPT ![cur[t]] = None],
                  Posted(t)'
           PROVE  Kept
  <2>1. \A u \in Thread : u # t => demodPc'[u] = demodPc[u] /\ cur'[u] = cur[u] /\ got'[u] = got[u] /\ cur[u] # cur[t]
    BY <1>0, <1>thread, ThreadStep
  <2>2. \A d \in Devices : /\ reqFreq'[d] = reqFreq[d] \/ reqFreq'[d] = None
                           /\ reqRate'[d] = reqRate[d] \/ reqRate'[d] = None
                           /\ d # cur[t] => reqFreq'[d] = reqFreq[d] /\ reqRate'[d] = reqRate[d]
    BY <1>0, <1>thread
  <2>3. \A d \in Devices : Awaited(d)'
    BY <1>thread, <1>late, <1>deaf, <2>2 DEF Awaited
  <2>4. \A u \in Thread : u # t => Posted(u)'
    BY <1>0, <1>late, <2>1, <2>2 DEF Posted
  <2> QED
    BY <1>0, <1>thread, <2>3, <2>4 DEF Kept
<1>1. ASSUME NEW t \in Thread, SeesExit(t) PROVE Kept
  <2>1. Posted(t)'
    BY <1>0, <1>1 DEF SeesExit, Posted, Rework
  <2> QED
    BY <1>1, <2>1, <1>thread DEF SeesExit, Demodulate
<1>2. ASSUME NEW t \in Thread, AllReceiversFailed(t) PROVE Kept
  BY <1>2, <1>frame DEF AllReceiversFailed
<1>3. ASSUME NEW t \in Thread, SkipDevice(t) PROVE Kept
  <2>1. Posted(t)'
    BY <1>0, <1>3 DEF SkipDevice, NextDevice, Posted, Rework
  <2> QED
    BY <1>3, <2>1, <1>thread DEF SkipDevice, Demodulate
<1>4. ASSUME NEW t \in Thread, FoldFailed(t) PROVE Kept
  <2>1. Posted(t)'
    BY <1>0, <1>4 DEF FoldFailed, Posted, Rework
  <2> QED
    BY <1>4, <2>1, <1>thread DEF FoldFailed, Demodulate
<1>5. ASSUME NEW t \in Thread, Decrement(t) PROVE Kept
  <2>1. Posted(t)'
    BY <1>0, <1>5 DEF Decrement, NextDevice, Posted, Rework
  <2> QED
    BY <1>5, <2>1, <1>thread DEF Decrement, Demodulate
<1>6. ASSUME NEW t \in Thread, VisitDevice(t) PROVE Kept
  <2>1. Posted(t)'
    BY <1>0, <1>6 DEF VisitDevice, Posted, Rework
  <2> QED
    BY <1>6, <2>1, <1>thread DEF VisitDevice, Demodulate
<1>7. ASSUME NEW t \in Thread, Retune(t) PROVE Kept
  <2>1. Posted(t)'
    BY <1>0, <1>late, <1>7 DEF Retune, Posted, Rework
  <2> QED
    BY <1>7, <2>1, <1>thread DEF Retune, Demodulate, ApplyRequests
<1>8. ASSUME NEW t \in Thread, RetuneClear(t) PROVE Kept
  <2>1. Posted(t)'
    BY <1>0, <1>8 DEF RetuneClear, Posted, Rework
  <2> QED
    BY <1>8, <2>1, <1>thread DEF RetuneClear, Demodulate, ApplyRequests
<1>9. ASSUME NEW t \in Thread, NoRateRequest(t) PROVE Kept
  <2>1. Posted(t)'
    BY <1>0, <1>9 DEF NoRateRequest, NextDevice, Posted, Rework
  <2> QED
    BY <1>9, <2>1, <1>thread DEF NoRateRequest, Demodulate, ApplyRequests
<1>10. ASSUME NEW t \in Thread, TakeRateRequest(t) PROVE Kept
  <2>1. Posted(t)'
    BY <1>0, <1>10 DEF TakeRateRequest, Posted, Rework
  <2> QED
    BY <1>10, <2>1, <1>thread DEF TakeRateRequest, Demodulate, ApplyRequests
<1>11. ASSUME NEW t \in Thread, StopRx(t) PROVE Kept
  <2>1. Posted(t)'
    BY <1>0, <1>late, <1>11 DEF StopRx, Posted, Rework
  <2> QED
    BY <1>11, <2>1, <1>thread DEF StopRx, Demodulate, ApplyRequests
<1>12. ASSUME NEW t \in Thread, StopRxFails(t) PROVE Kept
  <2>1. Posted(t)'
    BY <1>0, <1>late, <1>12 DEF StopRxFails, Posted, Rework
  <2> QED
    BY <1>12, <2>1, <1>thread DEF StopRxFails, Demodulate, ApplyRequests
<1>13. ASSUME NEW t \in Thread, Reopen(t) PROVE Kept
  <2>1. demodPc[t] = "reopen" /\ demodPc'[t] \in {"adopt", "rollback"} /\ UNCHANGED <<cur, got, reqVars>>
    BY <1>0, <1>13 DEF Reopen
  <2>2. Posted(t)'
    BY <1>late, <2>1 DEF Posted, Rework
  <2> QED
    BY <1>13, <2>1, <2>2, <1>thread DEF Reopen, Demodulate, ApplyRequests
<1>14. ASSUME NEW t \in Thread, AdoptRate(t) PROVE Kept
  <2>1. Posted(t)'
    BY <1>0, <1>late, <1>14 DEF AdoptRate, Posted, Rework
  <2> QED
    BY <1>14, <2>1, <1>thread DEF AdoptRate, Demodulate, ApplyRequests
<1>15. ASSUME NEW t \in Thread, Rollback(t) PROVE Kept
  <2>1. Posted(t)'
    BY <1>0, <1>late, <1>15 DEF Rollback, Posted, Rework
  <2> QED
    BY <1>15, <2>1, <1>thread DEF Rollback, Demodulate, ApplyRequests
<1>16. ASSUME NEW t \in Thread, RateClear(t) PROVE Kept
  <2>1. Posted(t)'
    BY <1>0, <1>16 DEF RateClear, NextDevice, Posted, Rework
  <2> QED
    BY <1>16, <2>1, <1>thread DEF RateClear, Demodulate, ApplyRequests
<1>17. ASSUME NEW d \in Devices, Receive(d) \/ RxDies(d) PROVE Kept
  BY <1>17, <1>frame DEF Receive, RxStarts, RxDies, RxSeesExit, RxReadsClosedFile
<1>idle. ASSUME UNCHANGED <<demodPc, cur, got>>, ctl.pc \notin {"waitFreq", "waitRate"},
                NEW d \in Devices, \A e \in Devices : e # d => reqFreq'[e] = reqFreq[e] /\ reqRate'[e] = reqRate[e],
                Awaited(d)', reqFreq'[d] = None => reqFreq[d] = None, reqRate'[d] = None => reqRate[d] = None
         PROVE  Kept
  <2>1. \A e \in Devices : Awaited(e)'
    BY <1>late, <1>deaf, <1>idle DEF Awaited
  <2>2. \A t \in Thread : demodPc[t] \notin Rework \union {"retune", "retuneClear", "rateClear"}
    BY <1>0, <1>late, <1>idle, WorkIsAwaited
  <2>3. \A t \in Thread : Posted(t)'
    BY <1>idle, <2>2 DEF Posted
  <2> QED
    BY <1>0, <2>1, <2>3 DEF Kept
<1>18. ASSUME NEW d \in Tunable, NEW f \in Freqs, RequestRetune(d, f) PROVE Kept
  <2>1. d \in Devices
    BY Constants
  <2>2. /\ reqFreq'[d] = f /\ f # None /\ reqRate' = reqRate /\ \A e \in Devices : e # d => reqFreq'[e] = reqFreq[e]
        /\ ctl'.pc = "waitFreq" /\ ctl'.dev = d /\ ctl'.val = f /\ ctl.pc = "idle" /\ UNCHANGED <<demodPc, cur, got>>
    BY <1>0, <1>18, <2>1 DEF RequestRetune
  <2>3. Awaited(d)'
    BY <1>late, <1>deaf, <2>1, <2>2 DEF Awaited
  <2> QED
    BY <1>idle, <2>1, <2>2, <2>3
<1>19. ASSUME NEW d \in Tunable, NEW r \in Rates, RequestRate(d, r) PROVE Kept
  <2>1. d \in Devices
    BY Constants
  <2>2. /\ reqRate'[d] = r /\ r # None /\ reqFreq' = reqFreq /\ \A e \in Devices : e # d => reqRate'[e] = reqRate[e]
        /\ ctl'.pc = "waitRate" /\ ctl'.dev = d /\ ctl'.val = r /\ ctl.pc = "idle" /\ UNCHANGED <<demodPc, cur, got>>
    BY <1>0, <1>19, <2>1 DEF RequestRate
  <2>3. Awaited(d)'
    BY <1>late, <1>deaf, <2>1, <2>2 DEF Awaited
  <2> QED
    BY <1>idle, <2>1, <2>2, <2>3
<1>gone. ASSUME UNCHANGED <<reqFreq, reqRate, demodPc, cur, got>>,
                \A d \in Devices : /\ ctl.pc = "waitFreq" /\ ctl.dev = d /\ reqFreq[d] # None => Deaf(d)
                                   /\ ctl.pc = "waitRate" /\ ctl.dev = d /\ reqRate[d] # None => Deaf(d)
         PROVE  Kept
  <2>1. \A d \in Devices : Awaited(d)'
    BY <1>late, <1>deaf, <1>gone DEF Awaited
  <2>2. \A t \in Thread : Posted(t)'
    BY <1>late, <1>gone DEF Posted
  <2> QED
    BY <1>0, <2>1, <2>2 DEF Kept
<1>20. ASSUME NEW d \in Devices, ParseChannel(d) \/ ControlCall(d) PROVE Kept
  BY <1>20, <1>gone DEF ParseChannel, ControlCall
<1>21. CASE ControlAnswers
  BY <1>21, <1>gone DEF ControlAnswers, AnswerRetune, AnswerRate, PublishChannel
<1>22. CASE TimeOut
  <2>1. Deaf(ctl.dev)
    BY <1>22, <1>late DEF TimeOut
  <2> QED
    BY <1>22, <1>gone, <2>1 DEF TimeOut
<1>23. CASE Shutdown
  BY <1>23, <1>frame DEF Shutdown, JoinDemods, InputStop, JoinRx, PlaceInv
<1>24. CASE SigHandler \/ UNCHANGED devVars
  BY <1>24, <1>frame DEF SigHandler, devVars
<1> QED
  BY <1>1, <1>2, <1>3, <1>4, <1>5, <1>6, <1>7, <1>8, <1>9, <1>10, <1>11, <1>12, <1>13, <1>14, <1>15, <1>16, <1>17,
     <1>18, <1>19, <1>20, <1>21, <1>22, <1>23, <1>24, Constants DEF Next, Demodulate, ApplyRequests, Control


\* Every step keeps the bins those of the hardware.
LEMMA BinsStep ==
  DevTypeOK /\ LocalsOK /\ PlaceInv /\ TuningInv /\ WaitInv /\ BinsInv /\ [Next]_devVars => BinsInv'
<1> DEFINE Matches(d) == (\A t \in Thread : cur[t] = d => demodPc[t] # "adopt") =>
                           \A j \in 1 .. channel_count[d] : bins[d][j] = hw[d]
           Parsed == ctl.pc = "publish" => bins[ctl.dev][channel_count[ctl.dev] + 1] = hw[ctl.dev]
           Kept == (\A d \in Devices : Matches(d)') /\ Parsed'
<1> HIDE DEF Kept
<1> SUFFICES ASSUME DevTypeOK, LocalsOK, PlaceInv, TuningInv, WaitInv, BinsInv, [Next]_devVars, late' = 0 PROVE Kept
  BY DEF BinsInv, Kept
<1> USE DEF Goto, inputVars, binVars, reqVars, demodVars, progVars, histVars, budget, ctlElse
<1>0. /\ Thread' = Thread /\ Thread \subseteq Devices
      /\ demodPc \in [Devices -> AtWork \union {"loop", "decrement", "exited"}] /\ cur \in [Devices -> Devices]
      /\ hw \in [Devices -> [freq : Freqs, rate : Rates]]
      /\ bins \in [Devices -> [1 .. MaxChannels -> [freq : Freqs, rate : Rates]]]
      /\ channel_count \in [Devices -> 1 .. MaxChannels] /\ MaxChannels \in Nat
  BY Constants, FixedStep DEF LocalsOK, DevTypeOK
<1>late. late = 0 /\ (\A d \in Devices : Matches(d)) /\ Parsed
  BY LateStep DEF BinsInv
<1>work. \A t \in Thread : /\ demodPc[t] = "retune" => ctl.pc = "waitFreq"
                           /\ demodPc[t] \in Rework => ctl.pc = "waitRate"
  BY <1>0, <1>late, WorkIsAwaited
<1>frame. ASSUME UNCHANGED <<bins, hw, channel_count>>, ctl' = ctl \/ ctl'.pc # "publish",
                 \A d \in Devices : (\A t \in Thread : cur'[t] = d => demodPc'[t] # "adopt") =>
                    \A t \in Thread : cur[t] = d => demodPc[t] # "adopt"
          PROVE  Kept
  <2>1. \A d \in Devices : Matches(d)'
    BY <1>0, <1>frame, <1>late
  <2>2. Parsed'
    BY <1>frame, <1>late
  <2> QED
    BY <2>1, <2>2 DEF Kept
<1>still. ASSUME UNCHANGED <<bins, hw, channel_count, demodPc>>, ctl' = ctl \/ ctl'.pc # "publish",
                 cur' = cur \/ \A t \in Thread : demodPc[t] = "exited"
          PROVE  Kept
  BY <1>frame, <1>still
<1>thread. ASSUME NEW t \in Thread, Demodulate(t), UNCHANGED <<bins, hw, channel_count, ctl>>, demodPc[t] # "adopt"
           PROVE  Kept
  <2>1. \A u \in Thread : u # t => demodPc'[u] = demodPc[u] /\ cur'[u] = cur[u]
    BY <1>0, <1>thread, ThreadStep
  <2> QED
    BY <1>frame, <1>thread, <2>1
\* The bins and the hardware of the device at work.
<1>own. ASSUME NEW t \in Thread, Demodulate(t), UNCHANGED <<cur, channel_count, ctl>>, ctl.pc # "publish",
               \A d \in Devices : d # cur[t] => bins'[d] = bins[d] /\ hw'[d] = hw[d],
               demodPc'[t] # "adopt" => \A j \in 1 .. channel_count[cur[t]] : bins'[cur[t]][j] = hw'[cur[t]]
        PROVE  Kept
  <2>1. \A u \in Thread : u # t => demodPc'[u] = demodPc[u] /\ cur[u] # cur[t]
    BY <1>0, <1>own, ThreadStep
  <2>2. ASSUME NEW d \in Devices PROVE Matches(d)'
    <3>1. CASE d = cur[t]
      BY <1>0, <1>own, <3>1
    <3>2. CASE d # cur[t]
      <4>1. (\A u \in Thread : cur[u] = d => demodPc'[u] # "adopt") => \A u \in Thread : cur[u] = d => demodPc[u] # "adopt"
        BY <2>1, <3>2
      <4>2. Matches(d)
        BY <1>late
      <4> QED
        BY <1>0, <1>own, <3>2, <4>1, <4>2
    <3> QED
      BY <3>1, <3>2
  <2>3. Parsed'
    BY <1>own
  <2> QED
    BY <2>2, <2>3 DEF Kept
<1>same. ASSUME NEW t \in Thread, demodPc[t] # "adopt", mainPc = "run"
         PROVE  \A j \in 1 .. channel_count[cur[t]] : bins[cur[t]][j] = hw[cur[t]]
  <2>1. \A u \in Thread : cur[u] = cur[t] => u = t
    BY OwnDevice, <1>same
  <2> QED
    BY <1>0, <1>late, <1>same, <2>1
<1>1. ASSUME NEW t \in Thread, SeesExit(t) PROVE Kept
  BY <1>1, <1>thread DEF SeesExit, Demodulate
<1>2. ASSUME NEW t \in Thread, AllReceiversFailed(t) PROVE Kept
  BY <1>2, <1>still DEF AllReceiversFailed
<1>3. ASSUME NEW t \in Thread, SkipDevice(t) PROVE Kept
  BY <1>3, <1>thread DEF SkipDevice, AtDevice, Demodulate
<1>4. ASSUME NEW t \in Thread, FoldFailed(t) PROVE Kept
  BY <1>4, <1>thread DEF FoldFailed, AtDevice, Demodulate
<1>5. ASSUME NEW t \in Thread, Decrement(t) PROVE Kept
  BY <1>5, <1>thread DEF Decrement, Demodulate
<1>6. ASSUME NEW t \in Thread, VisitDevice(t) PROVE Kept
  BY <1>6, <1>thread DEF VisitDevice, AtDevice, Demodulate
<1>7. ASSUME NEW t \in Thread, Retune(t) PROVE Kept
  <2>1. CASE RetuneWorks(t)
    <3>1. demodPc[t] = "retune" /\ mainPc = "run" /\ Demodulate(t) /\ UNCHANGED <<cur, channel_count, ctl>>
      BY <1>7, ThreadStep DEF Retune, Demodulate, ApplyRequests
    <3>2. sample_rate[cur[t]] = hw[cur[t]].rate
      <4>1. \A u \in Thread : cur[u] = cur[t] => u = t
        BY OwnDevice, <3>1
      <4> QED
        BY <1>0, <3>1, <4>1 DEF TuningInv
    <3>3. /\ hw'[cur[t]] = Tuning(got[t], hw[cur[t]].rate)
          /\ \A j \in 1 .. channel_count[cur[t]] : bins'[cur[t]][j] = Tuning(got[t], sample_rate[cur[t]])
          /\ \A d \in Devices : d # cur[t] => bins'[d] = bins[d] /\ hw'[d] = hw[d]
      BY <1>0, <2>1 DEF RetuneWorks, recompute_channel_bins
    <3>4. ctl.pc # "publish"
      BY <1>work, <3>1
    <3> QED
      BY <1>own, <3>1, <3>2, <3>3, <3>4
  <2>2. CASE RetuneFails(t)
    BY <1>7, <2>2, <1>thread DEF Retune, RetuneFails, Demodulate, ApplyRequests
  <2> QED
    BY <1>7, <2>1, <2>2 DEF Retune
<1>8. ASSUME NEW t \in Thread, RetuneClear(t) PROVE Kept
  BY <1>8, <1>thread DEF RetuneClear, Demodulate, ApplyRequests
<1>9. ASSUME NEW t \in Thread, NoRateRequest(t) PROVE Kept
  BY <1>9, <1>thread DEF NoRateRequest, Demodulate, ApplyRequests
<1>10. ASSUME NEW t \in Thread, TakeRateRequest(t) PROVE Kept
  BY <1>10, <1>thread DEF TakeRateRequest, Demodulate, ApplyRequests
<1>11. ASSUME NEW t \in Thread, StopRx(t) PROVE Kept
  BY <1>11, <1>thread DEF StopRx, Demodulate, ApplyRequests
<1>12. ASSUME NEW t \in Thread, StopRxFails(t) PROVE Kept
  BY <1>12, <1>thread DEF StopRxFails, Demodulate, ApplyRequests
<1>13. ASSUME NEW t \in Thread, Reopen(t) PROVE Kept
  <2>1. /\ demodPc[t] = "reopen" /\ mainPc = "run" /\ Demodulate(t) /\ UNCHANGED <<cur, channel_count, bins, ctl>>
        /\ \/ demodPc'[t] = "rollback" /\ hw' = hw
           \/ demodPc'[t] = "adopt" /\ hw' = [hw EXCEPT ![cur[t]] = Tuning(centerfreq[cur[t]], got[t])]
    BY <1>0, <1>13, ThreadStep DEF Reopen, Opened, Demodulate, ApplyRequests
  <2>2. ctl.pc # "publish"
    BY <1>work, <2>1 DEF Rework
  <2>3. \A d \in Devices : d # cur[t] => hw'[d] = hw[d]
    BY <1>0, <2>1
  <2>4. demodPc'[t] # "adopt" => \A j \in 1 .. channel_count[cur[t]] : bins'[cur[t]][j] = hw'[cur[t]]
    BY <1>same, <2>1
  <2> QED
    BY <1>own, <2>1, <2>2, <2>3, <2>4
<1>14. ASSUME NEW t \in Thread, AdoptRate(t) PROVE Kept
  <2>1. demodPc[t] = "adopt" /\ Demodulate(t) /\ UNCHANGED <<cur, channel_count, hw, ctl>>
    BY <1>14 DEF AdoptRate, Demodulate, ApplyRequests
  <2>2. ctl.pc # "publish"
    BY <1>work, <2>1 DEF Rework
  <2>3. hw[cur[t]] = Tuning(centerfreq[cur[t]], got[t])
    BY <1>0, <2>1 DEF TuningInv, Tuning
  <2>4. /\ \A j \in 1 .. channel_count[cur[t]] : bins'[cur[t]][j] = Tuning(centerfreq[cur[t]], got[t])
        /\ \A d \in Devices : d # cur[t] => bins'[d] = bins[d]
    BY <1>0, <1>14 DEF AdoptRate, recompute_channel_bins
  <2> QED
    BY <1>own, <2>1, <2>2, <2>3, <2>4
<1>15. ASSUME NEW t \in Thread, Rollback(t) PROVE Kept
  <2>1. demodPc[t] = "rollback" /\ mainPc = "run" /\ Demodulate(t) /\ UNCHANGED <<cur, channel_count, bins, ctl>>
    BY <1>15, ThreadStep DEF Rollback, Demodulate, ApplyRequests
  <2>2. ctl.pc # "publish"
    BY <1>work, <2>1 DEF Rework
  <2>3. hw[cur[t]] = Tuning(centerfreq[cur[t]], oldRate[t])
    BY <1>0, <2>1 DEF TuningInv, Tuning
  <2>4. \A d \in Devices : hw'[d] = hw[d]
    BY <1>0, <1>15, <2>3 DEF Rollback, RolledBack, Opened, DeviceDown
  <2>5. \A j \in 1 .. channel_count[cur[t]] : bins[cur[t]][j] = hw[cur[t]]
    BY <1>same, <2>1
  <2> QED
    BY <1>0, <1>own, <2>1, <2>2, <2>4, <2>5
<1>16. ASSUME NEW t \in Thread, RateClear(t) PROVE Kept
  BY <1>16, <1>thread DEF RateClear, Demodulate, ApplyRequests
<1>17. ASSUME NEW d \in Devices, Receive(d) \/ RxDies(d) PROVE Kept
  BY <1>17, <1>still DEF Receive, RxStarts, RxDies, RxSeesExit, RxReadsClosedFile
<1>18. ASSUME NEW d \in Tunable, (\E f \in Freqs : RequestRetune(d, f)) \/ \E r \in Rates : RequestRate(d, r) PROVE Kept
  BY <1>18, <1>still DEF RequestRetune, RequestRate
<1>19. ASSUME NEW d \in Devices, ControlCall(d) PROVE Kept
  BY <1>19, <1>still DEF ControlCall
<1>20. ASSUME NEW d \in Tunable, ParseChannel(d) PROVE Kept
  <2>0. d \in Devices /\ channel_count[d] \in 1 .. MaxChannels /\ channel_count[d] < MaxChannels
    BY <1>0, <1>20, Constants DEF ParseChannel
  <2>1. /\ channel_count[d] + 1 \in 1 .. MaxChannels
        /\ \A e \in Devices : \A j \in 1 .. channel_count[e] : j \in 1 .. MaxChannels
        /\ \A j \in 1 .. channel_count[d] : j # channel_count[d] + 1
    BY <1>0, <2>0
  <2>2. bins' = [bins EXCEPT ![d] = [bins[d] EXCEPT ![channel_count[d] + 1] = Tuning(centerfreq[d], sample_rate[d])]]
    BY <1>20 DEF ParseChannel
  <2>3. /\ bins'[d][channel_count[d] + 1] = Tuning(centerfreq[d], sample_rate[d])
        /\ \A j \in 1 .. MaxChannels : j # channel_count[d] + 1 => bins'[d][j] = bins[d][j]
        /\ \A e \in Devices : e # d => bins'[e] = bins[e]
    BY <1>0, <2>0, <2>1, <2>2, Zenon
  <2>4. ctl.pc = "idle" /\ ctl'.pc = "publish" /\ ctl'.dev = d /\ UNCHANGED <<hw, channel_count, demodPc, cur>>
    BY <1>20 DEF ParseChannel
  <2>5. Tuning(centerfreq[d], sample_rate[d]) = hw[d]
    <3>1. \A t \in Thread : demodPc[t] # "rollback"
      BY <1>work, <2>4 DEF Rework
    <3> QED
      BY <1>0, <2>0, <3>1 DEF TuningInv, Tuning
  <2>6. \A e \in Devices : \A j \in 1 .. channel_count[e] : bins'[e][j] = bins[e][j]
    BY <2>1, <2>3, Zenon
  <2>7. ASSUME NEW e \in Devices PROVE Matches(e)'
    <3>1. Matches(e)
      BY <1>late
    <3> QED
      BY <1>0, <2>4, <2>6, <3>1
  <2>8. Parsed'
    BY <2>3, <2>4, <2>5
  <2> QED
    BY <2>7, <2>8 DEF Kept
<1>21. CASE PublishChannel
  <2>1. ctl.pc = "publish" /\ ctl.dev \in Devices /\ ctl'.pc = "idle" /\ UNCHANGED <<hw, bins, demodPc, cur>>
    BY <1>21, Constants DEF PublishChannel, Idle, LocalsOK
  <2>2. /\ channel_count'[ctl.dev] = channel_count[ctl.dev] + 1
        /\ \A d \in Devices : d # ctl.dev => channel_count'[d] = channel_count[d]
    BY <1>0, <1>21, <2>1 DEF PublishChannel
  <2>3. \A d \in Devices : \A j \in 1 .. channel_count'[d] :
          j \in 1 .. channel_count[d] \/ (d = ctl.dev /\ j = channel_count[d] + 1)
    <3>1. \A k \in 1 .. MaxChannels : \A j \in 1 .. k + 1 : j \in 1 .. k \/ j = k + 1
      BY <1>0
    <3> QED
      BY <1>0, <2>1, <2>2, <3>1, Zenon
  <2>4. \A d \in Devices : Matches(d)'
    BY <1>0, <1>late, <2>1, <2>3
  <2> QED
    BY <2>1, <2>4 DEF Kept
<1>22. CASE TimeOut
  BY <1>22, <1>still DEF TimeOut, Idle
<1>23. ASSUME NEW d \in Tunable, NEW works \in BOOLEAN, AnswerRetune(d, works) \/ AnswerRate(d, works) PROVE Kept
  BY <1>23, <1>still DEF AnswerRetune, AnswerRate, Idle
<1>24. CASE Shutdown
  BY <1>24, <1>still DEF Shutdown, JoinDemods, InputStop, JoinRx, PlaceInv
<1>25. CASE SigHandler \/ UNCHANGED devVars
  BY <1>25, <1>still DEF SigHandler, devVars
<1> QED
  BY <1>1, <1>2, <1>3, <1>4, <1>5, <1>6, <1>7, <1>8, <1>9, <1>10, <1>11, <1>12, <1>13, <1>14, <1>15, <1>16, <1>17,
     <1>18, <1>19, <1>20, <1>21, <1>22, <1>23, <1>24, <1>25
  DEF Next, Demodulate, ApplyRequests, Control, ControlAnswers


\* Every step keeps what the client is about to be told true.
LEMMA TruthStep ==
  DevTypeOK /\ LocalsOK /\ PlaceInv /\ TuningInv /\ WaitInv /\ TruthInv /\ [Next]_devVars => TruthInv'
<1> DEFINE Told ==
      /\ ctl.pc = "waitFreq" /\ RetuneTried(ctl.dev) /\ ~freqFailed[ctl.dev] => hw[ctl.dev].freq = ctl.val
      /\ ctl.pc = "waitFreq" => (RetuneTried(ctl.dev) /\ ~freqFailed[ctl.dev]) \/ hw[ctl.dev] = ctl.was
      /\ ctl.pc = "waitRate" /\ RateTried(ctl.dev) /\ ~rateFailed[ctl.dev] => hw[ctl.dev].rate = ctl.val
      /\ ctl.pc = "waitRate" =>
           (RateTried(ctl.dev) /\ ~rateFailed[ctl.dev]) \/ Adopting(ctl.dev) \/ hw[ctl.dev] = ctl.was
<1> SUFFICES ASSUME DevTypeOK, LocalsOK, PlaceInv, TuningInv, WaitInv, TruthInv, [Next]_devVars, late' = 0 PROVE Told'
  BY DEF TruthInv
<1> USE DEF Goto, inputVars, binVars, reqVars, demodVars, progVars, histVars, budget, ctlElse
<1>0. /\ Thread' = Thread /\ Thread \subseteq Devices
      /\ demodPc \in [Devices -> AtWork \union {"loop", "decrement", "exited"}] /\ cur \in [Devices -> Devices]
      /\ hw \in [Devices -> [freq : Freqs, rate : Rates]] /\ ok \in [Devices -> BOOLEAN]
      /\ freqFailed \in [Devices -> BOOLEAN] /\ rateFailed \in [Devices -> BOOLEAN]
      /\ reqFreq \in [Devices -> Freqs \union {None}] /\ reqRate \in [Devices -> Rates \union {None}]
      /\ None \notin Freqs /\ None \notin Rates
  BY Constants, FixedStep DEF LocalsOK, DevTypeOK
<1>late. late = 0 /\ Told
  BY LateStep DEF TruthInv
<1>work. \A t \in Thread : /\ demodPc[t] \in {"retune", "retuneClear"} =>
                                ctl.pc = "waitFreq" /\ ctl.dev = cur[t] /\ reqFreq[cur[t]] # None
                           /\ demodPc[t] = "retune" => got[t] = ctl.val
                           /\ demodPc[t] \in Rework \union {"rateClear"} =>
                                ctl.pc = "waitRate" /\ ctl.dev = cur[t] /\ reqRate[cur[t]] # None
                           /\ demodPc[t] \in Rework => got[t] = ctl.val
  BY <1>0, <1>late, WorkIsAwaited
<1>frame. ASSUME UNCHANGED <<hw, freqFailed, rateFailed, reqFreq, reqRate>>, ctl' = ctl \/ ctl'.pc \notin {"waitFreq", "waitRate"},
                 \A d \in Devices : /\ RetuneTried(d)' <=> RetuneTried(d)
                                    /\ RateTried(d)' <=> RateTried(d)
                                    /\ Adopting(d)' <=> Adopting(d)
          PROVE  Told'
  <2>1. ctl.pc \in {"waitFreq", "waitRate"} => ctl.dev \in Devices
    BY Constants DEF LocalsOK
  <2> HIDE DEF Told
  <2>2. CASE ctl' = ctl
    BY <1>frame, <1>late, <2>1, <2>2 DEF Told
  <2>3. CASE ctl'.pc \notin {"waitFreq", "waitRate"}
    BY <2>3 DEF Told
  <2> QED
    BY <1>frame, <2>2, <2>3
<1>still. ASSUME UNCHANGED <<hw, freqFailed, rateFailed, reqFreq, reqRate, demodPc>>,
                 ctl' = ctl \/ ctl'.pc \notin {"waitFreq", "waitRate"},
                 cur' = cur \/ \A t \in Thread : demodPc[t] = "exited"
          PROVE  Told'
  <2>1. \A d \in Devices : /\ RetuneTried(d)' <=> RetuneTried(d)
                           /\ RateTried(d)' <=> RateTried(d)
                           /\ Adopting(d)' <=> Adopting(d)
    BY <1>0, <1>still DEF RetuneTried, RateTried, Adopting
  <2> HIDE DEF Told
  <2> QED
    BY <1>frame, <1>still, <2>1
<1>thread. ASSUME NEW t \in Thread, Demodulate(t), UNCHANGED <<hw, freqFailed, rateFailed, reqFreq, reqRate, ctl>>,
                  demodPc[t] \notin {"retuneClear", "rateClear", "adopt"},
                  demodPc'[t] \notin {"retuneClear", "rateClear", "adopt"}
           PROVE  Told'
  <2>1. \A u \in Thread : u # t => demodPc'[u] = demodPc[u] /\ cur'[u] = cur[u]
    BY <1>0, <1>thread, ThreadStep
  <2>2. \A d \in Devices : /\ RetuneTried(d)' <=> RetuneTried(d)
                           /\ RateTried(d)' <=> RateTried(d)
                           /\ Adopting(d)' <=> Adopting(d)
    BY <1>0, <1>thread, <2>1 DEF RetuneTried, RateTried, Adopting
  <2> HIDE DEF Told
  <2> QED
    BY <1>frame, <1>thread, <2>2
\* The device at work is the one the client waits for: nobody else moves it or reports on it.
<1>own. ASSUME NEW t \in Thread, mainPc = "run", demodPc[t] # "retuneClear", demodPc[t] # "rateClear", demodPc[t] # "adopt"
        PROVE  /\ demodPc[t] = "retune" => hw[cur[t]] = ctl.was
               /\ demodPc[t] \in Rework => hw[cur[t]] = ctl.was
  <2>1. \A u \in Thread : cur[u] = cur[t] => u = t
    BY OwnDevice, <1>own
  <2>2. demodPc[t] = "retune" => ~RetuneTried(cur[t])
    BY <1>work, <1>own, <2>1 DEF RetuneTried
  <2>3. demodPc[t] \in Rework => ~RateTried(cur[t]) /\ ~Adopting(cur[t])
    BY <1>work, <1>own, <2>1 DEF RateTried, Adopting
  <2> QED
    BY <1>late, <1>work, <2>2, <2>3
<1>1. ASSUME NEW t \in Thread, SeesExit(t) PROVE Told'
  <2> HIDE DEF Told
  <2> QED
    BY <1>0, <1>1, <1>thread DEF SeesExit, Demodulate
<1>2. ASSUME NEW t \in Thread, AllReceiversFailed(t) PROVE Told'
  <2> HIDE DEF Told
  <2> QED
    BY <1>2, <1>still DEF AllReceiversFailed
<1>3. ASSUME NEW t \in Thread, SkipDevice(t) PROVE Told'
  <2> HIDE DEF Told
  <2> QED
    BY <1>0, <1>3, <1>thread DEF SkipDevice, AtDevice, NextDevice, Demodulate
<1>4. ASSUME NEW t \in Thread, FoldFailed(t) PROVE Told'
  <2> HIDE DEF Told
  <2> QED
    BY <1>0, <1>4, <1>thread DEF FoldFailed, AtDevice, Demodulate
<1>5. ASSUME NEW t \in Thread, Decrement(t) PROVE Told'
  <2> HIDE DEF Told
  <2> QED
    BY <1>0, <1>5, <1>thread DEF Decrement, NextDevice, Demodulate
<1>6. ASSUME NEW t \in Thread, VisitDevice(t) PROVE Told'
  <2> HIDE DEF Told
  <2> QED
    BY <1>0, <1>6, <1>thread DEF VisitDevice, AtDevice, Demodulate
<1>7. ASSUME NEW t \in Thread, Retune(t) PROVE Told'
  <2>1. /\ demodPc[t] = "retune" /\ mainPc = "run" /\ UNCHANGED <<ctl, cur>>
        /\ demodPc'[t] = "retuneClear" /\ freqFailed'[cur[t]] = ~ok'[t]
    BY ZenonT(30), <1>0, <1>7, ThreadStep DEF Retune, Demodulate, ApplyRequests
  <2>2. ctl.pc = "waitFreq" /\ ctl.dev = cur[t] /\ got[t] = ctl.val /\ hw[cur[t]] = ctl.was
    BY <1>work, <1>own, <2>1
  <2>3. (ok'[t] = TRUE /\ hw'[cur[t]].freq = got[t]) \/ (ok'[t] = FALSE /\ hw' = hw)
    BY <1>0, <1>7 DEF Retune, RetuneWorks, RetuneFails, Tuning
  <2>4. RetuneTried(cur[t])'
    BY <1>0, <2>1 DEF RetuneTried
  <2> QED
    BY <2>1, <2>2, <2>3, <2>4
<1>8. ASSUME NEW t \in Thread, RetuneClear(t) PROVE Told'
  <2>1. /\ demodPc[t] = "retuneClear" /\ UNCHANGED <<ctl, cur, hw, freqFailed>>
        /\ reqFreq'[cur[t]] = None
    BY <1>0, <1>8 DEF RetuneClear
  <2>2. ctl.pc = "waitFreq" /\ ctl.dev = cur[t]
    BY <1>work, <2>1
  <2>3. RetuneTried(cur[t]) /\ RetuneTried(cur[t])'
    BY <2>1 DEF RetuneTried
  <2> QED
    BY <1>late, <2>1, <2>2, <2>3
<1>9. ASSUME NEW t \in Thread, NoRateRequest(t) PROVE Told'
  <2> HIDE DEF Told
  <2> QED
    BY <1>0, <1>9, <1>thread DEF NoRateRequest, NextDevice, Demodulate, ApplyRequests
<1>10. ASSUME NEW t \in Thread, TakeRateRequest(t) PROVE Told'
  <2> HIDE DEF Told
  <2> QED
    BY <1>0, <1>10, <1>thread DEF TakeRateRequest, Demodulate, ApplyRequests
<1>11. ASSUME NEW t \in Thread, StopRx(t) PROVE Told'
  <2> HIDE DEF Told
  <2> QED
    BY <1>0, <1>11, <1>thread DEF StopRx, Demodulate, ApplyRequests
<1>failed. ASSUME NEW t \in Thread, Demodulate(t), demodPc[t] \in {"stop", "rollback"}, demodPc'[t] = "rateClear",
                  UNCHANGED <<ctl, cur>>, hw'[cur[t]] = hw[cur[t]], rateFailed'[cur[t]] = TRUE
           PROVE  Told'
  <2>1. ctl.pc = "waitRate" /\ ctl.dev = cur[t] /\ hw[cur[t]] = ctl.was
    BY <1>work, <1>own, <1>failed, ThreadStep DEF Rework
  <2> QED
    BY <1>failed, <2>1
<1>12. ASSUME NEW t \in Thread, StopRxFails(t) PROVE Told'
  <2> HIDE DEF Told
  <2> QED
    BY <1>0, <1>12, <1>failed DEF StopRxFails, PublishRate, Demodulate, ApplyRequests
<1>13. ASSUME NEW t \in Thread, Reopen(t) PROVE Told'
  <2>1. /\ demodPc[t] = "reopen" /\ mainPc = "run" /\ UNCHANGED <<ctl, cur, reqRate>>
        /\ demodPc'[t] = "adopt" \/ (demodPc'[t] = "rollback" /\ hw' = hw)
        /\ \A u \in Thread : cur[u] = cur[t] => u = t
    BY <1>0, <1>13, ThreadStep DEF Reopen, Demodulate, ApplyRequests
  <2>2. ctl.pc = "waitRate" /\ ctl.dev = cur[t] /\ reqRate[cur[t]] # None /\ hw[cur[t]] = ctl.was
    BY <1>work, <1>own, <2>1 DEF Rework
  <2>3. ~RateTried(cur[t])' /\ (demodPc'[t] = "adopt" => Adopting(cur[t])')
    BY <1>0, <2>1, <2>2 DEF RateTried, Adopting
  <2> QED
    BY <2>1, <2>2, <2>3
<1>14. ASSUME NEW t \in Thread, AdoptRate(t) PROVE Told'
  <2>1. /\ demodPc[t] = "adopt" /\ UNCHANGED <<ctl, cur, hw>> /\ demodPc'[t] = "rateClear"
        /\ rateFailed'[cur[t]] = FALSE
    BY <1>0, <1>14 DEF AdoptRate, PublishRate
  <2>2. ctl.pc = "waitRate" /\ ctl.dev = cur[t] /\ got[t] = ctl.val
    BY <1>work, <2>1 DEF Rework
  <2>3. hw[cur[t]].rate = got[t]
    BY <2>1 DEF TuningInv
  <2>4. RateTried(cur[t])'
    BY <1>0, <2>1 DEF RateTried
  <2> QED
    BY <2>1, <2>2, <2>3, <2>4
<1>15. ASSUME NEW t \in Thread, Rollback(t) PROVE Told'
  <2>1. /\ demodPc[t] = "rollback" /\ Demodulate(t) /\ UNCHANGED <<ctl, cur>> /\ demodPc'[t] = "rateClear"
        /\ rateFailed'[cur[t]] = TRUE
    BY <1>0, <1>15 DEF Rollback, PublishRate, Demodulate, ApplyRequests
  <2>2. hw[cur[t]] = Tuning(centerfreq[cur[t]], oldRate[t])
    BY <1>0, <2>1 DEF TuningInv, Tuning
  <2>3. hw'[cur[t]] = hw[cur[t]]
    BY <1>0, <1>15, <2>2 DEF Rollback, RolledBack, Opened, DeviceDown
  <2> HIDE DEF Told
  <2> QED
    BY <1>failed, <2>1, <2>3
<1>16. ASSUME NEW t \in Thread, RateClear(t) PROVE Told'
  <2>1. /\ demodPc[t] = "rateClear" /\ UNCHANGED <<ctl, hw, rateFailed>> /\ reqRate'[cur[t]] = None
        /\ mainPc = "run" /\ \A u \in Thread : cur[u] = cur[t] => u = t
    BY <1>0, <1>16, ThreadStep DEF RateClear, Demodulate, ApplyRequests
  <2>2. ctl.pc = "waitRate" /\ ctl.dev = cur[t]
    BY <1>work, <2>1
  <2>3. RateTried(ctl.dev) /\ RateTried(ctl.dev)' /\ ~Adopting(ctl.dev)
    BY <2>1, <2>2 DEF RateTried, Adopting
  <2> QED
    BY <1>late, <2>1, <2>2, <2>3
<1>17. ASSUME NEW d \in Devices, Receive(d) \/ RxDies(d) PROVE Told'
  <2> HIDE DEF Told
  <2> QED
    BY <1>17, <1>still DEF Receive, RxStarts, RxDies, RxSeesExit, RxReadsClosedFile
<1>18. ASSUME NEW d \in Tunable, NEW f \in Freqs, RequestRetune(d, f) PROVE Told'
  <2>1. /\ d \in Devices /\ ctl.pc = "idle" /\ ctl'.pc = "waitFreq" /\ ctl'.dev = d /\ ctl'.was = hw[d]
        /\ UNCHANGED <<hw, demodPc, cur>> /\ reqFreq'[d] # None
    BY <1>0, <1>18, Constants DEF RequestRetune
  <2>2. ~RetuneTried(d)'
    BY <1>0, <1>work, <2>1 DEF RetuneTried
  <2> QED
    BY <2>1, <2>2
<1>19. ASSUME NEW d \in Tunable, NEW r \in Rates, RequestRate(d, r) PROVE Told'
  <2>1. /\ d \in Devices /\ ctl.pc = "idle" /\ ctl'.pc = "waitRate" /\ ctl'.dev = d /\ ctl'.was = hw[d]
        /\ UNCHANGED <<hw, demodPc, cur>> /\ reqRate'[d] # None
    BY <1>0, <1>19, Constants DEF RequestRate
  <2>2. ~RateTried(d)'
    BY <1>0, <1>work, <2>1 DEF RateTried
  <2> QED
    BY <2>1, <2>2
<1>20. ASSUME NEW d \in Devices, ParseChannel(d) \/ ControlCall(d) PROVE Told'
  <2> HIDE DEF Told
  <2> QED
    BY <1>20, <1>still DEF ParseChannel, ControlCall
<1>21. CASE ControlAnswers \/ TimeOut
  <2> HIDE DEF Told
  <2> QED
    BY <1>21, <1>still DEF ControlAnswers, AnswerRetune, AnswerRate, PublishChannel, TimeOut, Idle
<1>22. CASE Shutdown
  <2> HIDE DEF Told
  <2> QED
    BY <1>22, <1>still DEF Shutdown, JoinDemods, InputStop, JoinRx, PlaceInv
<1>23. CASE SigHandler \/ UNCHANGED devVars
  <2> HIDE DEF Told
  <2> QED
    BY <1>23, <1>still DEF SigHandler, devVars
<1> HIDE DEF Told
<1> QED
  BY <1>1, <1>2, <1>3, <1>4, <1>5, <1>6, <1>7, <1>8, <1>9, <1>10, <1>11, <1>12, <1>13, <1>14, <1>15, <1>16, <1>17,
     <1>18, <1>19, <1>20, <1>21, <1>22, <1>23, Constants DEF Next, Demodulate, ApplyRequests, Control


\* The bound on faults is not given back, and a program that was told to exit stays so.
LEMMA FaultStep == LocalsOK /\ [Next]_devVars => faults' \in {faults, faults + 1} /\ (do_exit => do_exit')
<1> USE DEF inputVars, binVars, reqVars, demodVars, progVars, histVars, budget, ctlElse, Fault
<1> SUFFICES ASSUME LocalsOK, [Next]_devVars PROVE faults' \in {faults, faults + 1} /\ (do_exit => do_exit')
  OBVIOUS
<1>1. ASSUME NEW t \in Thread, Demodulate(t) PROVE faults' \in {faults, faults + 1} /\ (do_exit => do_exit')
  BY <1>1 DEF Demodulate, ApplyRequests, SeesExit, AllReceiversFailed, SkipDevice, FoldFailed, Decrement, VisitDevice,
              Retune, RetuneWorks, RetuneFails, RetuneClear, NoRateRequest, TakeRateRequest, StopRx, StopRxFails, Reopen,
              AdoptRate, Rollback, RolledBack, DeviceDown, RateClear
<1>2. ASSUME NEW d \in Devices, Receive(d) \/ RxDies(d) PROVE faults' \in {faults, faults + 1} /\ (do_exit => do_exit')
  BY <1>2 DEF Receive, RxStarts, RxDies, RxSeesExit, RxReadsClosedFile
<1>3. CASE Control \/ ControlAnswers \/ TimeOut
  BY <1>3 DEF Control, ControlAnswers, RequestRetune, RequestRate, ParseChannel, ControlCall, AnswerRetune, AnswerRate,
              PublishChannel, TimeOut
<1>4. CASE Shutdown
  <2>1. CASE JoinDemods
    BY <2>1 DEF JoinDemods
  <2>2. CASE InputStop
    BY <2>2 DEF InputStop
  <2>3. CASE JoinRx
    BY <2>3 DEF JoinRx
  <2> QED
    BY <1>4, <2>1, <2>2, <2>3 DEF Shutdown
<1>5. CASE SigHandler
  BY <1>5 DEF SigHandler
<1>6. CASE UNCHANGED devVars
  BY <1>6 DEF devVars
<1> QED
  BY <1>1, <1>2, <1>3, <1>4, <1>5, <1>6 DEF Next

\* Every step keeps the state of the receivers and the step of the change of rate together.
LEMMA RxStep == DevTypeOK /\ LocalsOK /\ PlaceInv /\ RxInv /\ [Next]_devVars => RxInv'
<1> DEFINE CanStop == /\ \A d \in Devices : reqRate[d] # None => driver[d] # "soapysdr"
                      /\ \A t \in Thread : demodPc[t] \in Rework => driver[cur[t]] # "soapysdr"
           Started == \A d \in Devices : rx[d] = "starting" => handle[d]
           At(t) == /\ demodPc[t] = "reopen" => rx[cur[t]] = "ended"
                    /\ demodPc[t] \in {"adopt", "rollback"} => rx[cur[t]] = "joined"
                    /\ demodPc[t] = "adopt" => handle[cur[t]]
<1> SUFFICES ASSUME DevTypeOK, LocalsOK, PlaceInv, RxInv, [Next]_devVars
             PROVE  CanStop' /\ (NoFile => Started' /\ \A t \in Thread : At(t)')
  BY FixedStep DEF RxInv, NoFile
<1> USE DEF Goto, inputVars, binVars, reqVars, demodVars, progVars, histVars, budget, ctlElse
<1>0. /\ Thread' = Thread /\ Thread \subseteq Devices /\ driver' = driver
      /\ driver \in [Devices -> {"rtlsdr", "soapysdr", "file"}]
      /\ demodPc \in [Devices -> AtWork \union {"loop", "decrement", "exited"}] /\ cur \in [Devices -> Devices]
      /\ rx \in [Devices -> {"starting", "alive", "ended", "joined"}] /\ handle \in [Devices -> BOOLEAN]
      /\ reqRate \in [Devices -> Rates \union {None}]
  BY Constants, FixedStep DEF LocalsOK, DevTypeOK
<1>inv. CanStop /\ (NoFile => Started /\ \A t \in Thread : At(t))
  BY DEF RxInv
<1>can. CanStop'
  <2>frame. ASSUME UNCHANGED <<demodPc, reqRate>>, cur' = cur \/ \A t \in Thread : demodPc[t] = "exited"
            PROVE  CanStop'
    BY <1>0, <1>inv, <2>frame DEF Rework
  <2>1. ASSUME NEW t \in Thread, Demodulate(t) PROVE CanStop'
    <3>1. \A u \in Thread : u # t => demodPc'[u] = demodPc[u] /\ cur'[u] = cur[u]
      BY <1>0, <2>1, ThreadStep
    <3>2. \A d \in Devices : reqRate'[d] = reqRate[d] \/ reqRate'[d] = None
      BY <1>0, <2>1 DEF Demodulate, ApplyRequests, SeesExit, AllReceiversFailed, SkipDevice, FoldFailed, Decrement,
           VisitDevice, Retune, RetuneClear, NoRateRequest, TakeRateRequest, StopRx, StopRxFails, Reopen, AdoptRate,
           Rollback, RateClear
    <3>3. demodPc'[t] \in Rework => cur'[t] = cur[t] /\ (demodPc[t] \in Rework \/ reqRate[cur[t]] # None)
      BY <1>0, <2>1 DEF Demodulate, ApplyRequests, SeesExit, AllReceiversFailed, SkipDevice, FoldFailed, Decrement,
           VisitDevice, Retune, RetuneClear, NoRateRequest, TakeRateRequest, StopRx, StopRxFails, Reopen, AdoptRate,
           Rollback, RateClear, NextDevice, Rework
    <3> QED
      BY <1>0, <1>inv, <3>1, <3>2, <3>3
  <2>2. ASSUME NEW d \in Devices, Receive(d) \/ RxDies(d) PROVE CanStop'
    BY <2>2, <2>frame DEF Receive, RxStarts, RxDies, RxSeesExit, RxReadsClosedFile
  <2>3. ASSUME NEW d \in Tunable, NEW r \in Rates, RequestRate(d, r) PROVE CanStop'
    BY <1>0, <1>inv, <2>3, Constants DEF RequestRate
  <2>4. ASSUME NEW d \in Devices, (\E f \in Freqs : RequestRetune(d, f)) \/ ParseChannel(d) \/ ControlCall(d) PROVE CanStop'
    BY <2>4, <2>frame DEF RequestRetune, ParseChannel, ControlCall
  <2>5. CASE ControlAnswers \/ TimeOut
    BY <2>5, <2>frame DEF ControlAnswers, AnswerRetune, AnswerRate, PublishChannel, TimeOut
  <2>6. CASE Shutdown
    BY <2>6, <2>frame DEF Shutdown, JoinDemods, InputStop, JoinRx, PlaceInv
  <2>7. CASE SigHandler \/ UNCHANGED devVars
    BY <2>7, <2>frame DEF SigHandler, devVars
  <2> HIDE DEF CanStop
  <2> QED
    BY <2>1, <2>2, <2>3, <2>4, <2>5, <2>6, <2>7, Constants DEF Next, Control
<1> SUFFICES ASSUME NoFile PROVE Started' /\ \A t \in Thread : At(t)'
  BY <1>can
<1>nofile. \A d \in Devices : driver[d] # "soapysdr" => driver[d] = "rtlsdr"
  BY <1>0 DEF NoFile
<1>frame. ASSUME UNCHANGED <<rx, handle, demodPc>>, cur' = cur \/ \A t \in Thread : demodPc[t] = "exited"
          PROVE  Started' /\ \A t \in Thread : At(t)'
  BY <1>0, <1>inv, <1>frame
<1>thread. ASSUME NEW t \in Thread, Demodulate(t),
                  \A d \in Devices : d # cur[t] => rx'[d] = rx[d] /\ handle'[d] = handle[d],
                  rx'[cur[t]] = "starting" => handle'[cur[t]], At(t)'
           PROVE  Started' /\ \A u \in Thread : At(u)'
  <2>1. \A u \in Thread : u # t => demodPc'[u] = demodPc[u] /\ cur'[u] = cur[u] /\ cur[u] # cur[t]
    BY <1>0, <1>thread, ThreadStep
  <2>2. Started'
    BY <1>inv, <1>thread
  <2>3. \A u \in Thread : u # t => At(u)'
    BY <1>0, <1>inv, <1>thread, <2>1
  <2> QED
    BY <1>thread, <2>2, <2>3
<1>away. ASSUME NEW t \in Thread, Demodulate(t), UNCHANGED <<rx, handle>>, demodPc'[t] \notin {"reopen", "adopt", "rollback"}
         PROVE  Started' /\ \A u \in Thread : At(u)'
  BY <1>0, <1>away, <1>inv, <1>thread
\* A receiver moves by itself only while it is starting or alive.
<1>receiver. ASSUME NEW d \in Devices, UNCHANGED <<demodPc, cur>>, rx[d] \in {"starting", "alive"},
                    \A e \in Devices : e # d => rx'[e] = rx[e] /\ handle'[e] = handle[e], rx'[d] # "starting"
             PROVE  Started' /\ \A u \in Thread : At(u)'
  BY <1>0, <1>inv, <1>receiver
<1>exited. ASSUME \A t \in Thread : demodPc[t] = "exited", demodPc' = demodPc,
                  \A d \in Devices : rx'[d] = "starting" => rx[d] = "starting" /\ handle'[d] = handle[d]
           PROVE  Started' /\ \A u \in Thread : At(u)'
  BY <1>0, <1>inv, <1>exited
<1> DEFINE Kept == Started' /\ \A t \in Thread : At(t)'
<1> HIDE DEF Kept
<1> SUFFICES Kept
  BY DEF Kept
<1>1. ASSUME NEW t \in Thread, SeesExit(t) \/ AllReceiversFailed(t) \/ SkipDevice(t) \/ FoldFailed(t) PROVE Kept
  BY <1>0, <1>1, <1>away, <1>frame DEF SeesExit, AllReceiversFailed, SkipDevice, FoldFailed, NextDevice, Demodulate, Kept
<1>2. ASSUME NEW t \in Thread, Decrement(t) \/ VisitDevice(t) PROVE Kept
  BY <1>0, <1>2, <1>away DEF Decrement, VisitDevice, NextDevice, Demodulate, Kept
<1>3. ASSUME NEW t \in Thread, Retune(t) \/ RetuneClear(t) \/ NoRateRequest(t) \/ TakeRateRequest(t) \/ RateClear(t) PROVE Kept
  BY <1>0, <1>3, <1>away DEF Retune, RetuneClear, NoRateRequest, TakeRateRequest, RateClear, NextDevice, Demodulate,
                             ApplyRequests, Kept
<1>4. ASSUME NEW t \in Thread, StopRx(t) PROVE Kept
  <2>1. /\ demodPc[t] = "stop" /\ demodPc'[t] = "reopen" /\ cur' = cur /\ StopWorks(cur[t]) /\ Demodulate(t)
    BY <1>0, <1>4 DEF StopRx, Demodulate, ApplyRequests
  <2>2. driver[cur[t]] = "rtlsdr"
    BY <1>0, <1>inv, <1>nofile, <2>1 DEF Rework
  <2>3. rx'[cur[t]] = "ended" /\ \A d \in Devices : d # cur[t] => rx'[d] = rx[d] /\ handle'[d] = handle[d]
    BY <1>0, <2>1, <2>2 DEF StopWorks
  <2> QED
    BY <1>thread, <2>1, <2>3 DEF Kept
<1>5. ASSUME NEW t \in Thread, StopRxFails(t) PROVE Kept
  BY <1>0, <1>5, <1>away DEF StopRxFails, Demodulate, ApplyRequests, Kept
<1>6. ASSUME NEW t \in Thread, Reopen(t) PROVE Kept
  <2>1. /\ cur' = cur /\ rx'[cur[t]] = "joined" /\ Demodulate(t)
        /\ \A d \in Devices : d # cur[t] => rx'[d] = rx[d] /\ handle'[d] = handle[d]
        /\ (demodPc'[t] = "adopt" /\ handle'[cur[t]]) \/ demodPc'[t] = "rollback"
    BY <1>0, <1>6 DEF Reopen, Opened, Demodulate, ApplyRequests
  <2> QED
    BY <1>thread, <2>1 DEF Kept
<1>7. ASSUME NEW t \in Thread, AdoptRate(t) PROVE Kept
  <2>1. /\ demodPc[t] = "adopt" /\ demodPc'[t] = "rateClear" /\ Demodulate(t) /\ handle' = handle
        /\ \A d \in Devices : d # cur[t] => rx'[d] = rx[d]
    BY <1>0, <1>7 DEF AdoptRate, StartRx, Demodulate, ApplyRequests
  <2> QED
    BY <1>inv, <1>thread, <2>1 DEF Kept
<1>8. ASSUME NEW t \in Thread, Rollback(t) PROVE Kept
  <2>1. /\ demodPc[t] = "rollback" /\ demodPc'[t] = "rateClear" /\ Demodulate(t)
        /\ \A d \in Devices : d # cur[t] => rx'[d] = rx[d] /\ handle'[d] = handle[d]
        /\ handle'[cur[t]] \/ rx' = rx
    BY <1>0, <1>8 DEF Rollback, RolledBack, Opened, DeviceDown, StartRx, Demodulate, ApplyRequests
  <2>2. rx[cur[t]] = "joined"
    BY <1>inv, <2>1
  <2> QED
    BY <1>thread, <2>1, <2>2 DEF Kept
<1>9. ASSUME NEW d \in Devices, RxStarts(d) \/ RxDies(d) \/ RxSeesExit(d) PROVE Kept
  BY <1>0, <1>9, <1>receiver DEF RxStarts, RxDies, RxSeesExit, Kept
<1>10. ASSUME NEW d \in Devices, RxReadsClosedFile(d) PROVE Kept
  BY <1>10, <1>frame DEF RxReadsClosedFile, Kept
<1>11. CASE Control \/ ControlAnswers \/ TimeOut
  BY <1>11, <1>frame DEF Control, ControlAnswers, RequestRetune, RequestRate, ParseChannel, ControlCall, AnswerRetune,
                         AnswerRate, PublishChannel, TimeOut, Kept
<1>12. CASE JoinDemods
  BY <1>12, <1>frame DEF JoinDemods, Kept
<1>13. CASE InputStop
  <2>1. demodPc' = demodPc /\ \A t \in Thread : demodPc[t] = "exited"
    BY <1>13 DEF InputStop, PlaceInv
  <2>2. cur[0] \in Devices
    BY <1>0, Constants
  <2>3. CASE MustStop(cur[0]) /\ StopWorks(cur[0])
    <3>1. rx'[cur[0]] = "ended" /\ \A d \in Devices : d # cur[0] => rx'[d] = rx[d] /\ handle'[d] = handle[d]
      BY <1>0, <1>nofile, <2>2, <2>3 DEF StopWorks, MustStop
    <3> QED
      BY <1>exited, <2>1, <3>1 DEF Kept
  <2>4. CASE UNCHANGED <<rx, handle>>
    BY <1>exited, <2>1, <2>4 DEF Kept
  <2> QED
    BY <1>13, <2>3, <2>4 DEF InputStop
<1>14. CASE JoinRx
  <2>1. demodPc' = demodPc /\ \A t \in Thread : demodPc[t] = "exited"
    BY <1>14 DEF JoinRx, PlaceInv
  <2>2. cur[0] \in Devices /\ handle' = handle /\ rx' = [rx EXCEPT ![cur[0]] = "joined"]
    BY <1>0, <1>14, Constants DEF JoinRx
  <2> QED
    BY <1>0, <1>exited, <2>1, <2>2 DEF Kept
<1>15. CASE SigHandler \/ UNCHANGED devVars
  BY <1>15, <1>frame DEF SigHandler, devVars, Kept
<1> QED
  BY <1>1, <1>2, <1>3, <1>4, <1>5, <1>6, <1>7, <1>8, <1>9, <1>10, <1>11, <1>12, <1>13, <1>14, <1>15
  DEF Next, Demodulate, ApplyRequests, Receive, Shutdown


\* Every step keeps the closed devices being reopened and the joined threads being restarted.
LEMMA HandleStep ==
  DevTypeOK /\ LocalsOK /\ PlaceInv /\ RxInv /\ HandleInv /\ [Next]_devVars => HandleInv'
<1> DEFINE Failing == \A t \in Thread : demodPc[t] = "rollback" => faults > 0
           Good(d) == Reopening(d) /\ Restarting(d)
           Kept == (~crashed /\ badCalls \subseteq {"exiting"})' /\ Failing' /\ \A d \in Devices : Good(d)'
<1> HIDE DEF Kept
<1> SUFFICES ASSUME DevTypeOK, LocalsOK, PlaceInv, RxInv, HandleInv, [Next]_devVars, NoFile, faults' < 2 PROVE Kept
  BY FixedStep DEF HandleInv, NoFile, Kept
<1> USE DEF Goto, inputVars, binVars, reqVars, demodVars, progVars, histVars, budget, ctlElse
<1>0. /\ Thread' = Thread /\ Thread \subseteq Devices /\ driver' = driver
      /\ driver \in [Devices -> {"rtlsdr", "soapysdr", "file"}]
      /\ demodPc \in [Devices -> AtWork \union {"loop", "decrement", "exited"}] /\ cur \in [Devices -> Devices]
      /\ rx \in [Devices -> {"starting", "alive", "ended", "joined"}] /\ handle \in [Devices -> BOOLEAN]
      /\ Devices \subseteq Int /\ 0 \in Devices
  BY Constants, FixedStep DEF LocalsOK, DevTypeOK
<1>mono. faults \in Nat /\ faults' \in {faults, faults + 1} /\ (do_exit => do_exit')
  BY FaultStep DEF LocalsOK
<1>inv. ~crashed /\ badCalls \subseteq {"exiting"} /\ Failing /\ \A d \in Devices : Good(d)
  BY <1>mono DEF HandleInv
<1>nofile. \A d \in Devices : driver[d] # "soapysdr" => driver[d] = "rtlsdr"
  BY <1>0 DEF NoFile
<1>frame. ASSUME UNCHANGED <<handle, rx, demodPc, cur, mainPc, crashed, badCalls>> PROVE Kept
  <2>1. Failing'
    BY <1>0, <1>mono, <1>inv, <1>frame
  <2>2. \A d \in Devices : Good(d)'
    BY <1>0, <1>mono, <1>inv, <1>frame DEF Reopening, Restarting
  <2> QED
    BY <1>inv, <1>frame, <2>1, <2>2 DEF Kept
<1>thread. ASSUME NEW t \in Thread, Demodulate(t), UNCHANGED <<crashed, badCalls>>,
                  \A d \in Devices : d # cur[t] => rx'[d] = rx[d] /\ handle'[d] = handle[d],
                  demodPc'[t] = "rollback" => faults' > 0, Good(cur[t])', cur' = cur
           PROVE  Kept
  <2>1. /\ \A u \in Thread : u # t => demodPc'[u] = demodPc[u] /\ cur[u] # cur[t]
        /\ mainPc = "run" /\ mainPc' = "run"
    <3>1. Demodulate(t)
      BY <1>thread
    <3>2. /\ \A u \in Devices \ {t} : demodPc'[u] = demodPc[u]
          /\ \A u \in Thread \ {t} : cur[u] # cur[t]
          /\ mainPc = "run" /\ mainPc' = "run"
      BY <3>1, ThreadStep, Zenon
    <3> QED
      BY ONLY <1>0, <3>2
  <2>2. Failing'
    BY <1>0, <1>mono, <1>inv, <1>thread, <2>1
  <2>3. ASSUME NEW d \in Devices, d # cur[t] PROVE Good(d)'
    <3>1. Good(d) /\ rx'[d] = rx[d] /\ handle'[d] = handle[d]
      BY <1>inv, <1>thread, <2>3
    <3>2. \A u \in Thread : cur[u] = d => demodPc'[u] = demodPc[u] /\ cur'[u] = d
      BY <1>thread, <2>1, <2>3
    <3> QED
      BY <1>0, <1>mono, <2>1, <3>1, <3>2 DEF Reopening, Restarting
  <2>4. \A d \in Devices : Good(d)'
    BY <1>thread, <2>3
  <2> QED
    BY <1>inv, <1>thread, <2>2, <2>4 DEF Kept
<1>away. ASSUME NEW t \in Thread, Demodulate(t), UNCHANGED <<crashed, badCalls, rx, handle>>,
                demodPc[t] \notin {"reopen", "adopt", "rollback"}, demodPc'[t] # "rollback"
         PROVE  Kept
  <2>1. /\ \A u \in Thread : u # t => demodPc'[u] = demodPc[u] /\ cur'[u] = cur[u]
        /\ mainPc = "run" /\ mainPc' = "run"
    BY <1>0, <1>away, ThreadStep
  <2>2. Failing'
    BY <1>0, <1>mono, <1>inv, <1>away, <2>1
  <2>3. \A d \in Devices : Good(d)'
    BY <1>0, <1>mono, <1>inv, <1>away, <2>1 DEF Reopening, Restarting
  <2> QED
    BY <1>inv, <1>away, <2>2, <2>3 DEF Kept
<1>receiver. ASSUME NEW d \in Devices, UNCHANGED <<demodPc, cur, mainPc, crashed>>, badCalls' \subseteq {"exiting"},
                    \A e \in Devices : e # d => rx'[e] = rx[e] /\ handle'[e] = handle[e],
                    rx'[d] # "joined", handle'[d] = handle[d] \/ do_exit
             PROVE  Kept
  <2>1. Failing'
    BY <1>0, <1>mono, <1>inv, <1>receiver
  <2>2. \A e \in Devices : Good(e)'
    BY <1>0, <1>mono, <1>inv, <1>receiver DEF Reopening, Restarting
  <2> QED
    BY <1>inv, <1>receiver, <2>1, <2>2 DEF Kept
<1>order. \A d, e, f \in Devices : ~(d < d) /\ (d < e /\ e < f => d < f)
  BY DEF Devices
<1>exiting. \A t \in Thread : demodPc[t] = "exited" => do_exit /\ do_exit'
  BY <1>mono DEF PlaceInv
<1>main. ASSUME \A t \in Thread : demodPc[t] = "exited", demodPc' = demodPc, badCalls' = badCalls, ~crashed',
                \/ mainPc = "run" /\ mainPc' # "run" /\ rx' = rx
                \/ /\ mainPc \in {"stop", "join"} /\ mainPc' \in {"stop", "join", "done"}
                   /\ \A d \in Devices : rx'[d] = "joined" =>
                         mainPc' = "done" \/ d < cur'[0] \/ (rx[d] = "joined" /\ cur'[0] = cur[0])
         PROVE  Kept
  <2>0. 0 \in Thread
    BY Constants DEF Thread
  <2>1. Failing'
    BY <1>0, <1>main
  <2>2. \A d \in Devices : Reopening(d)'
    BY <1>exiting, <1>main, <2>0 DEF Reopening
  <2>3. \A d \in Devices : Restarting(d)'
    BY <1>inv, <1>main DEF Restarting
  <2> QED
    BY <1>inv, <1>main, <2>1, <2>2, <2>3 DEF Kept
<1>1. ASSUME NEW t \in Thread, SeesExit(t) \/ SkipDevice(t) \/ FoldFailed(t) PROVE Kept
  BY <1>0, <1>1, <1>away DEF SeesExit, SkipDevice, FoldFailed, AtDevice, NextDevice, Demodulate
<1>2. ASSUME NEW t \in Thread, AllReceiversFailed(t) PROVE Kept
  BY <1>2, <1>frame DEF AllReceiversFailed
<1>3. ASSUME NEW t \in Thread, Decrement(t) \/ VisitDevice(t) PROVE Kept
  BY <1>0, <1>3, <1>away DEF Decrement, VisitDevice, AtDevice, NextDevice, Demodulate
<1>4. ASSUME NEW t \in Thread, Retune(t) \/ RetuneClear(t) \/ NoRateRequest(t) \/ TakeRateRequest(t) \/ RateClear(t) PROVE Kept
  BY <1>0, <1>4, <1>away DEF Retune, RetuneClear, NoRateRequest, TakeRateRequest, RateClear, NextDevice, Demodulate,
                             ApplyRequests
<1>5. ASSUME NEW t \in Thread, StopRx(t) PROVE Kept
  <2>1. /\ demodPc[t] = "stop" /\ demodPc'[t] = "reopen" /\ cur' = cur /\ StopWorks(cur[t]) /\ Demodulate(t)
        /\ UNCHANGED <<crashed, badCalls>>
    BY <1>0, <1>5 DEF StopRx, Demodulate, ApplyRequests
  <2>2. driver[cur[t]] = "rtlsdr"
    BY <1>0, <1>nofile, <2>1 DEF RxInv, Rework
  <2>3. rx'[cur[t]] = "ended" /\ \A d \in Devices : d # cur[t] => rx'[d] = rx[d] /\ handle'[d] = handle[d]
    BY <1>0, <2>1, <2>2 DEF StopWorks
  <2>4. Good(cur[t])'
    BY <1>0, <2>1, <2>3 DEF Reopening, Restarting
  <2> QED
    BY <1>thread, <2>1, <2>3, <2>4
<1>6. ASSUME NEW t \in Thread, StopRxFails(t) PROVE Kept
  BY <1>0, <1>6, <1>away DEF StopRxFails, Demodulate, ApplyRequests
<1>7. ASSUME NEW t \in Thread, Reopen(t) PROVE Kept
  <2>1. /\ cur' = cur /\ Demodulate(t) /\ UNCHANGED <<crashed, badCalls>>
        /\ \A d \in Devices : d # cur[t] => rx'[d] = rx[d] /\ handle'[d] = handle[d]
        /\ (demodPc'[t] = "adopt" /\ handle'[cur[t]]) \/ (demodPc'[t] = "rollback" /\ faults' = faults + 1)
    BY <1>0, <1>7 DEF Reopen, Opened, Fault, Demodulate, ApplyRequests
  <2>2. Good(cur[t])'
    BY <1>0, <2>1 DEF Reopening, Restarting
  <2>3. demodPc'[t] = "rollback" => faults' > 0
    BY <1>mono, <2>1
  <2> QED
    BY <1>thread, <2>1, <2>2, <2>3
<1>8. ASSUME NEW t \in Thread, AdoptRate(t) PROVE Kept
  <2>1. /\ cur' = cur /\ Demodulate(t) /\ UNCHANGED <<crashed, badCalls, handle>>
        /\ \A d \in Devices : d # cur[t] => rx'[d] = rx[d]
        /\ demodPc[t] = "adopt" /\ demodPc'[t] = "rateClear" /\ rx'[cur[t]] = "starting"
    BY <1>0, <1>8 DEF AdoptRate, StartRx, Demodulate, ApplyRequests
  <2>2. handle[cur[t]]
    BY <2>1 DEF RxInv
  <2>3. Good(cur[t])'
    BY <2>1, <2>2 DEF Reopening, Restarting
  <2> QED
    BY <1>thread, <2>1, <2>3
<1>9. ASSUME NEW t \in Thread, Rollback(t) PROVE Kept
  <2>1. /\ cur' = cur /\ Demodulate(t) /\ UNCHANGED <<crashed, badCalls>>
        /\ demodPc[t] = "rollback" /\ demodPc'[t] = "rateClear"
        /\ RolledBack(cur[t], oldRate[t]) \/ DeviceDown(cur[t])
    BY <1>0, <1>9 DEF Rollback, Demodulate, ApplyRequests
  <2>2. ~DeviceDown(cur[t])
    BY <1>mono, <1>inv, <2>1 DEF DeviceDown, Fault
  <2>3. /\ handle'[cur[t]] /\ rx'[cur[t]] = "starting"
        /\ \A d \in Devices : d # cur[t] => rx'[d] = rx[d] /\ handle'[d] = handle[d]
    BY <1>0, <2>1, <2>2 DEF RolledBack, Opened, StartRx
  <2>4. Good(cur[t])'
    BY <2>1, <2>3 DEF Reopening, Restarting
  <2> QED
    BY <1>thread, <2>1, <2>3, <2>4
<1>10. ASSUME NEW d \in Devices, RxStarts(d) PROVE Kept
  <2>1. handle[d]
    BY <1>10 DEF RxStarts, RxInv
  <2> QED
    BY <1>0, <1>inv, <1>10, <1>receiver, <2>1 DEF RxStarts
<1>11. ASSUME NEW d \in Devices, RxDies(d) \/ RxSeesExit(d) PROVE Kept
  BY <1>0, <1>inv, <1>11, <1>receiver DEF RxDies, RxSeesExit
<1>12. ASSUME NEW d \in Devices, RxReadsClosedFile(d) PROVE Kept
  BY <1>12 DEF RxReadsClosedFile, NoFile
<1>13. ASSUME NEW d \in Devices, ControlCall(d) PROVE Kept
  <2>1. do_exit
    <3>1. control_mutex = None /\ ~handle[d]
      BY <1>13 DEF ControlCall
    <3>2. \A t \in Thread : demodPc[t] \notin Rework
      BY <1>0, <3>1, Constants DEF PlaceInv
    <3> QED
      BY <1>inv, <3>1, <3>2 DEF Reopening, Rework
  <2>2. badCalls' \subseteq {"exiting"} /\ UNCHANGED <<demodPc, cur, mainPc, crashed, rx, handle>>
    BY <1>inv, <1>13, <2>1 DEF ControlCall
  <2>3. \A e \in Devices : Good(e)'
    BY <1>0, <1>mono, <1>inv, <2>2 DEF Reopening, Restarting
  <2>4. Failing'
    BY <1>0, <1>mono, <1>inv, <2>2
  <2> QED
    BY <1>inv, <2>2, <2>3, <2>4 DEF Kept
<1>14. CASE (\E d \in Tunable : (\E f \in Freqs : RequestRetune(d, f)) \/ (\E r \in Rates : RequestRate(d, r)) \/ ParseChannel(d))
            \/ ControlAnswers \/ TimeOut
  BY <1>14, <1>frame DEF ControlAnswers, RequestRetune, RequestRate, ParseChannel, AnswerRetune, AnswerRate,
                         PublishChannel, TimeOut
<1>15. CASE JoinDemods
  BY <1>15, <1>main, <1>inv DEF JoinDemods
<1>16. CASE InputStop
  <2>1. /\ demodPc' = demodPc /\ mainPc = "stop" /\ UNCHANGED <<crashed, badCalls>>
        /\ \A t \in Thread : demodPc[t] = "exited"
    BY <1>16 DEF InputStop, PlaceInv
  <2>2. cur[0] \in Devices
    BY <1>0
  <2>3. CASE MustStop(cur[0]) /\ StopWorks(cur[0]) /\ mainPc' = "join" /\ cur' = cur
    <3>1. driver[cur[0]] = "rtlsdr"
      BY <1>nofile, <2>2, <2>3 DEF MustStop
    <3>2. \A d \in Devices : rx'[d] = "joined" => rx[d] = "joined"
      BY <1>0, <2>2, <2>3, <3>1 DEF StopWorks
    <3> QED
      BY <1>inv, <1>main, <2>1, <2>3, <3>2
  <2>4. CASE mainPc' = "join" /\ UNCHANGED <<cur, rx>>
    BY <1>inv, <1>main, <2>1, <2>4
  <2>5. CASE NextToStop(cur[0]) /\ rx' = rx /\ rx[cur[0]] # "alive"
    <3>1. mainPc' \in {"stop", "done"} /\ (mainPc' = "stop" => cur[0] < cur'[0]) /\ cur'[0] \in Devices
      BY <1>0, <2>5, NextToStopOK
    <3>2. \A d \in Devices : rx[d] = "joined" => d < cur[0]
      BY <1>inv, <2>1 DEF Restarting
    <3>3. \A d \in Devices : d < cur[0] => mainPc' = "done" \/ d < cur'[0]
      BY <1>order, <2>2, <3>1
    <3> QED
      BY <1>inv, <1>main, <2>1, <2>5, <3>1, <3>2, <3>3
  <2> QED
    BY <1>16, <2>3, <2>4, <2>5 DEF InputStop
<1>17. CASE JoinRx
  <2>1. /\ demodPc' = demodPc /\ mainPc = "join" /\ badCalls' = badCalls /\ NextToStop(cur[0])
        /\ crashed' \in IF rx[cur[0]] = "joined" THEN BOOLEAN ELSE {FALSE}
        /\ rx' = [rx EXCEPT ![cur[0]] = "joined"]
        /\ \A t \in Thread : demodPc[t] = "exited"
    BY <1>17 DEF JoinRx, PlaceInv
  <2>2. \A d \in Devices : rx[d] = "joined" => d < cur[0]
    BY <1>inv, <2>1 DEF Restarting
  <2>3. mainPc' \in {"stop", "done"} /\ (mainPc' = "stop" => cur[0] < cur'[0]) /\ cur'[0] \in Devices /\ cur[0] \in Devices
    BY <1>0, <2>1, NextToStopOK
  <2>4. \A d \in Devices : (d < cur[0] \/ d = cur[0] => mainPc' = "done" \/ d < cur'[0]) /\ ~(cur[0] < cur[0])
    BY <1>order, <2>3
  <2>5. ~crashed'
    BY <2>1, <2>2, <2>3, <2>4
  <2>6. \A d \in Devices : rx'[d] = "joined" => mainPc' = "done" \/ d < cur'[0]
    BY <1>0, <2>1, <2>2, <2>3, <2>4
  <2> QED
    BY <1>main, <2>1, <2>3, <2>5, <2>6
<1>18. CASE SigHandler \/ UNCHANGED devVars
  BY <1>18, <1>frame DEF SigHandler, devVars
<1> QED
  BY <1>1, <1>2, <1>3, <1>4, <1>5, <1>6, <1>7, <1>8, <1>9, <1>10, <1>11, <1>12, <1>13, <1>14, <1>15, <1>16, <1>17, <1>18
  DEF Next, Demodulate, ApplyRequests, Receive, Control, Shutdown


\* Every step keeps the count of the devices that receive.
LEMMA CountStep == DevTypeOK /\ LocalsOK /\ PlaceInv /\ RxInv /\ CountInv /\ [Next]_devVars => CountInv'
<1> DEFINE Kept == (\A d \in Devices : StaysDown(d))' /\ (\A t \in Thread : CountsOnce(t))' /\ CountsRest(devices_running)'
<1> HIDE DEF Kept
<1> SUFFICES ASSUME DevTypeOK, LocalsOK, PlaceInv, RxInv, CountInv, [Next]_devVars, mainPc' = "run", NoFile PROVE Kept
  BY FixedStep DEF CountInv, NoFile, Kept
<1> USE DEF Goto, inputVars, binVars, reqVars, demodVars, progVars, histVars, budget, ctlElse
<1>0. /\ Thread' = Thread /\ Thread \subseteq Devices /\ driver' = driver
      /\ driver \in [Devices -> {"rtlsdr", "soapysdr", "file"}]
      /\ demodPc \in [Devices -> AtWork \union {"loop", "decrement", "exited"}] /\ cur \in [Devices -> Devices]
      /\ rx \in [Devices -> {"starting", "alive", "ended", "joined"}]
      /\ state \in [Devices -> {"RUNNING", "FAILED", "DISABLED", "STOPPED"}]
      /\ got \in [Devices -> Freqs \union Rates \union (1 .. DeviceCount) \union {None}]
  BY Constants, FixedStep DEF LocalsOK, DevTypeOK
<1>n. DeviceCount \in Nat /\ devices_running \in Nat /\ \A t \in Thread : demodPc[t] = "decrement" => got[t] \in Nat
  BY Constants DEF LocalsOK, DevTypeOK
<1>finite. IsFiniteSet(Counted) /\ Cardinality(Counted) \in Nat
  <2>1. IsFiniteSet(Devices)
    BY FS_Interval, DeviceAssumption DEF Devices
  <2> QED
    BY <2>1, FS_Subset, FS_CardinalityType DEF Counted
<1>inv. mainPc = "run" => (\A d \in Devices : StaysDown(d)) /\ (\A t \in Thread : CountsOnce(t)) /\ CountsRest(devices_running)
  BY DEF CountInv
<1>frame. ASSUME UNCHANGED <<state, rx, demodPc, cur, got, devices_running, mainPc>> PROVE Kept
  <2>1. Counted' = Counted
    BY <1>0, <1>frame DEF Counted
  <2> QED
    BY <1>0, <1>inv, <1>frame, <2>1 DEF Kept, StaysDown, CountsOnce, CountsRest
<1>thread. ASSUME NEW t \in Thread, Demodulate(t), demodPc[t] # "decrement", demodPc'[t] # "decrement",
                  devices_running' = devices_running,
                  \A d \in Devices : d # cur[t] => state'[d] = state[d] /\ rx'[d] = rx[d],
                  state'[cur[t]] = "DISABLED" <=> state[cur[t]] = "DISABLED", state'[cur[t]] # "STOPPED",
                  state'[cur[t]] # "RUNNING" => rx'[cur[t]] \in {"ended", "joined"},
                  demodPc'[t] \in {"reopen", "adopt", "rollback"} => state'[cur[t]] = "RUNNING"
           PROVE  Kept
  <2>1. /\ \A u \in Thread : u # t => demodPc'[u] = demodPc[u] /\ cur'[u] = cur[u] /\ got'[u] = got[u] /\ cur[u] # cur[t]
        /\ mainPc = "run" /\ (demodPc'[t] # "loop" => cur'[t] = cur[t])
    BY <1>0, <1>thread, ThreadStep
  <2>2. \A d \in Devices : state'[d] = "DISABLED" <=> state[d] = "DISABLED"
    BY <1>thread
  <2>3. \A d \in Devices : (\A u \in Thread : cur'[u] = d => demodPc'[u] # "decrement") <=>
                           (\A u \in Thread : cur[u] = d => demodPc[u] # "decrement")
    BY <1>0, <1>thread, <2>1
  <2>4. Counted' = Counted
    BY <1>0, <2>2, <2>3 DEF Counted
  <2>5. CountsRest(devices_running)'
    BY <1>inv, <1>thread, <2>1, <2>4 DEF CountsRest
  <2>6. \A d \in Devices : StaysDown(d)'
    BY <1>0, <1>inv, <1>thread, <2>1 DEF StaysDown
  <2>7. \A u \in Thread : u # t => CountsOnce(u)'
    BY <1>0, <1>inv, <1>thread, <2>1, <2>4 DEF CountsOnce, CountsRest
  <2>8. CountsOnce(t)'
    BY <1>thread, <2>1 DEF CountsOnce
  <2> QED
    BY <1>0, <2>5, <2>6, <2>7, <2>8 DEF Kept
<1>away. ASSUME NEW t \in Thread, Demodulate(t), demodPc[t] # "decrement",
                UNCHANGED <<state, rx, devices_running>>, demodPc'[t] \notin {"decrement", "reopen", "adopt", "rollback"}
         PROVE  Kept
  <2>1. state'[cur[t]] # "STOPPED" /\ (state'[cur[t]] # "RUNNING" => rx'[cur[t]] \in {"ended", "joined"})
    BY <1>0, <1>inv, <1>away, ThreadStep DEF StaysDown
  <2> QED
    BY <1>thread, <1>away, <2>1
\* A receiver moves by itself only while it is starting or alive: the device has not failed.
<1>receiver. ASSUME NEW d \in Devices, UNCHANGED <<demodPc, cur, got, devices_running, mainPc>>,
                    rx[d] \in {"starting", "alive"}, \A e \in Devices : e # d => state'[e] = state[e] /\ rx'[e] = rx[e],
                    state'[d] \in {"RUNNING", "FAILED", state[d]}, state'[d] # "RUNNING" => rx'[d] \in {"ended", "joined"}
             PROVE  Kept
  <2>1. state[d] = "RUNNING" /\ mainPc = "run"
    BY <1>inv, <1>receiver DEF StaysDown
  <2>2. Counted' = Counted
    BY <1>0, <1>receiver, <2>1 DEF Counted
  <2>3. \A e \in Devices : StaysDown(e)'
    BY <1>inv, <1>receiver, <2>1 DEF StaysDown
  <2>4. \A t \in Thread : cur[t] = d => demodPc[t] \notin {"reopen", "adopt", "rollback", "decrement"}
    BY <1>inv, <1>receiver, <2>1 DEF RxInv, CountsOnce
  <2>5. \A t \in Thread : CountsOnce(t)'
    BY <1>0, <1>inv, <1>receiver, <2>1, <2>2, <2>4 DEF CountsOnce, CountsRest
  <2>6. CountsRest(devices_running)'
    BY <1>inv, <1>receiver, <2>1, <2>2 DEF CountsRest
  <2> QED
    BY <1>0, <2>3, <2>5, <2>6 DEF Kept
<1>1. ASSUME NEW t \in Thread, SeesExit(t) \/ SkipDevice(t) PROVE Kept
  BY <1>0, <1>1, <1>away DEF SeesExit, SkipDevice, AtDevice, NextDevice, Demodulate
<1>2. ASSUME NEW t \in Thread, AllReceiversFailed(t) PROVE Kept
  BY <1>2, <1>frame DEF AllReceiversFailed
<1>3. ASSUME NEW t \in Thread, FoldFailed(t) PROVE Kept
  <2>1. /\ \A u \in Thread : u # t => demodPc'[u] = demodPc[u] /\ cur'[u] = cur[u] /\ got'[u] = got[u] /\ cur[u] # cur[t]
        /\ mainPc = "run" /\ cur' = cur /\ demodPc[t] = "loop" /\ demodPc'[t] = "decrement"
        /\ UNCHANGED <<rx, devices_running>> /\ got'[t] = devices_running
        /\ state[cur[t]] = "FAILED" /\ state' = [state EXCEPT ![cur[t]] = "DISABLED"]
    BY ZenonT(40), <1>0, <1>3, ThreadStep DEF FoldFailed, AtDevice, Demodulate
  <2>2. Counted' = Counted
    <3>1. \A d \in Devices : d # cur[t] =>
            /\ state'[d] = state[d]
            /\ (\A u \in Thread : cur[u] = d => demodPc'[u] # "decrement") <=>
               (\A u \in Thread : cur[u] = d => demodPc[u] # "decrement")
      BY <1>0, <2>1
    <3>2. cur[t] \notin Counted /\ cur[t] \notin Counted'
      BY <1>0, <2>1 DEF Counted
    <3>3. \A d \in Devices : d \in Counted' <=> d \in Counted
      BY <1>0, <2>1, <3>1, <3>2 DEF Counted
    <3> QED
      BY <3>3 DEF Counted
  <2>3. \A d \in Devices : StaysDown(d)'
    BY <1>0, <1>inv, <2>1 DEF StaysDown
  <2>4. CountsOnce(t)'
    BY <1>0, <1>inv, <2>1, <2>2 DEF CountsOnce, CountsRest
  <2>5. \A u \in Thread : u # t => CountsOnce(u)'
    BY <1>0, <1>inv, <2>1, <2>2 DEF CountsOnce, CountsRest
  <2>6. CountsRest(devices_running)'
    BY <1>inv, <2>1, <2>2 DEF CountsRest
  <2> QED
    BY <1>0, <2>3, <2>4, <2>5, <2>6 DEF Kept
<1>4. ASSUME NEW t \in Thread, Decrement(t) PROVE Kept
  <2>1. /\ \A u \in Thread : u # t => demodPc'[u] = demodPc[u] /\ cur'[u] = cur[u] /\ got'[u] = got[u] /\ cur[u] # cur[t]
        /\ mainPc = "run" /\ demodPc[t] = "decrement" /\ demodPc'[t] = "loop"
        /\ UNCHANGED <<rx, state>> /\ devices_running' = got[t] - 1
    BY <1>0, <1>4, ThreadStep DEF Decrement, NextDevice, Demodulate
  <2>2. cur[t] \in Devices /\ state[cur[t]] = "DISABLED" /\ CountsRest(got[t]) /\ got[t] \in Nat
    BY <1>0, <1>n, <1>inv, <2>1 DEF CountsOnce
  <2>3. cur[t] \notin Counted /\ cur[t] \in Counted'
    BY <1>0, <2>1, <2>2 DEF Counted
  <2>4. \A d \in Devices : d # cur[t] => (d \in Counted' <=> d \in Counted)
    BY <1>0, <2>1 DEF Counted
  <2>5. Counted' = Counted \union {cur[t]}
    BY <2>2, <2>3, <2>4 DEF Counted
  <2>6. Cardinality(Counted') = Cardinality(Counted) + 1
    BY <1>finite, <2>3, <2>5, FS_AddElement
  <2>7. CountsRest(devices_running)'
    BY <1>n, <1>finite, <2>1, <2>2, <2>6 DEF CountsRest
  <2>8. \A n \in Nat : CountsRest(n) => n + Cardinality(Counted') >= DeviceCount
    BY <1>n, <1>finite, <2>6 DEF CountsRest
  <2>9. \A u \in Thread : u # t => CountsOnce(u)'
    BY <1>0, <1>n, <1>inv, <2>1, <2>8 DEF CountsOnce, CountsRest
  <2>10. CountsOnce(t)'
    BY <2>1 DEF CountsOnce
  <2>11. \A d \in Devices : StaysDown(d)'
    BY <1>inv, <2>1 DEF StaysDown
  <2> QED
    BY <1>0, <2>7, <2>9, <2>10, <2>11 DEF Kept
<1>5. ASSUME NEW t \in Thread, VisitDevice(t) PROVE Kept
  BY <1>0, <1>5, <1>away DEF VisitDevice, AtDevice, Demodulate
<1>6. ASSUME NEW t \in Thread, Retune(t) \/ RetuneClear(t) \/ NoRateRequest(t) \/ TakeRateRequest(t) \/ RateClear(t) PROVE Kept
  BY <1>0, <1>6, <1>away DEF Retune, RetuneClear, NoRateRequest, TakeRateRequest, RateClear, NextDevice, Demodulate,
                             ApplyRequests
<1>7. ASSUME NEW t \in Thread, StopRx(t) PROVE Kept
  <2>1. /\ demodPc[t] = "stop" /\ demodPc'[t] = "reopen" /\ StopWorks(cur[t]) /\ Demodulate(t)
        /\ UNCHANGED <<state, devices_running>> /\ mainPc = "run"
    BY <1>0, <1>7, ThreadStep DEF StopRx, Demodulate, ApplyRequests
  <2>2. driver[cur[t]] = "rtlsdr"
    BY <1>0, <2>1 DEF RxInv, Rework, NoFile
  <2>3. rx[cur[t]] = "alive" /\ \A d \in Devices : d # cur[t] => rx'[d] = rx[d]
    BY <1>0, <2>1, <2>2 DEF StopWorks
  <2>4. state[cur[t]] = "RUNNING"
    BY <1>0, <1>inv, <2>1, <2>3 DEF StaysDown
  <2>5. state'[cur[t]] # "STOPPED" /\ (state'[cur[t]] # "RUNNING" => rx'[cur[t]] \in {"ended", "joined"})
    BY <2>1, <2>4 DEF StaysDown
  <2> QED
    BY <1>thread, <2>1, <2>3, <2>4, <2>5
<1>8. ASSUME NEW t \in Thread, StopRxFails(t) PROVE Kept
  BY <1>0, <1>8, <1>away DEF StopRxFails, Demodulate, ApplyRequests
<1>9. ASSUME NEW t \in Thread, Reopen(t) PROVE Kept
  <2>1. /\ demodPc[t] = "reopen" /\ demodPc'[t] \in {"adopt", "rollback"} /\ Demodulate(t)
        /\ UNCHANGED <<state, devices_running>> /\ mainPc = "run" /\ \A d \in Devices : d # cur[t] => rx'[d] = rx[d]
    BY <1>0, <1>9, ThreadStep DEF Reopen, Demodulate, ApplyRequests
  <2>2. state[cur[t]] = "RUNNING"
    BY <1>inv, <2>1 DEF CountsOnce
  <2>3. state'[cur[t]] # "STOPPED" /\ (state'[cur[t]] # "RUNNING" => rx'[cur[t]] \in {"ended", "joined"})
    BY <2>1, <2>2 DEF StaysDown
  <2> QED
    BY <1>thread, <2>1, <2>2, <2>3
<1>10. ASSUME NEW t \in Thread, AdoptRate(t) PROVE Kept
  <2>1. /\ demodPc[t] = "adopt" /\ demodPc'[t] = "rateClear" /\ Demodulate(t)
        /\ UNCHANGED <<state, devices_running>> /\ mainPc = "run" /\ \A d \in Devices : d # cur[t] => rx'[d] = rx[d]
    BY <1>0, <1>10, ThreadStep DEF AdoptRate, StartRx, Demodulate, ApplyRequests
  <2>2. state[cur[t]] = "RUNNING"
    BY <1>inv, <2>1 DEF CountsOnce
  <2>3. state'[cur[t]] # "STOPPED" /\ (state'[cur[t]] # "RUNNING" => rx'[cur[t]] \in {"ended", "joined"})
    BY <2>1, <2>2 DEF StaysDown
  <2> QED
    BY <1>thread, <2>1, <2>2, <2>3
<1>11. ASSUME NEW t \in Thread, Rollback(t) PROVE Kept
  <2>1. /\ demodPc[t] = "rollback" /\ demodPc'[t] = "rateClear" /\ Demodulate(t)
        /\ UNCHANGED <<devices_running>> /\ mainPc = "run" /\ rx[cur[t]] = "joined" /\ state[cur[t]] = "RUNNING"
    BY <1>0, <1>inv, <1>11, ThreadStep DEF Rollback, Demodulate, ApplyRequests, RxInv, CountsOnce
  <2>2. /\ \A d \in Devices : d # cur[t] => state'[d] = state[d] /\ rx'[d] = rx[d]
        /\ state'[cur[t]] = "RUNNING" \/ (state'[cur[t]] = "FAILED" /\ rx' = rx)
    BY <1>0, <1>11, <2>1 DEF Rollback, RolledBack, StartRx, DeviceDown
  <2>3. state'[cur[t]] # "STOPPED" /\ (state'[cur[t]] # "RUNNING" => rx'[cur[t]] \in {"ended", "joined"})
    BY <2>1, <2>2 DEF StaysDown
  <2> QED
    BY <1>thread, <2>1, <2>2, <2>3
<1>12. ASSUME NEW d \in Devices, RxStarts(d) \/ RxDies(d) \/ RxSeesExit(d) PROVE Kept
  BY <1>0, <1>inv, <1>12, <1>receiver DEF RxStarts, RxDies, RxSeesExit
<1>13. ASSUME NEW d \in Devices, RxReadsClosedFile(d) PROVE Kept
  BY <1>13, <1>frame DEF RxReadsClosedFile
<1>14. CASE Control \/ ControlAnswers \/ TimeOut
  BY <1>14, <1>frame DEF Control, ControlAnswers, RequestRetune, RequestRate, ParseChannel, ControlCall, AnswerRetune,
                         AnswerRate, PublishChannel, TimeOut
<1>15. CASE Shutdown
  BY <1>15 DEF Shutdown, JoinDemods, InputStop, JoinRx, NextToStop
<1>16. CASE SigHandler \/ UNCHANGED devVars
  BY <1>16, <1>frame DEF SigHandler, devVars
<1> QED
  BY <1>1, <1>2, <1>3, <1>4, <1>5, <1>6, <1>7, <1>8, <1>9, <1>10, <1>11, <1>12, <1>13, <1>14, <1>15, <1>16
  DEF Next, Demodulate, ApplyRequests, Receive


LEMMA InitDInv == Init => DInv
<1> SUFFICES ASSUME Init PROVE DInv
  OBVIOUS
<1> USE Constants DEF Init
<1>1. DevTypeOK
  BY DeviceAssumption DEF DevTypeOK, Tuning
<1>2. LocalsOK
  BY DeviceAssumption DEF LocalsOK, AtWork, Rework, Idle
<1>3. PlaceInv
  BY DEF PlaceInv, Rework
<1>4. TuningInv
  BY DEF TuningInv, Tuning
<1>5. WaitInv
  BY DEF WaitInv, Awaited, Posted, Rework
<1>6. BinsInv
  <2>1. \A d \in Devices : channel_count[d] = 1 /\ 1 \in 1 .. MaxChannels
    OBVIOUS
  <2> QED
    BY <2>1 DEF BinsInv, Idle
<1>7. TruthInv /\ RxInv
  BY DEF TruthInv, RxInv, Idle, Rework
<1>8. HandleInv
  BY DEF HandleInv, Reopening, Restarting
<1>9. CountInv
  <2>1. Counted = {}
    BY DEF Counted
  <2> QED
    BY <2>1, FS_EmptySet DEF CountInv, StaysDown, CountsOnce, CountsRest
<1> QED
  BY <1>1, <1>2, <1>3, <1>4, <1>5, <1>6, <1>7, <1>8, <1>9 DEF DInv

LEMMA Inductive == DInv /\ [Next]_devVars => DInv'
  BY TypeStep, PlaceStep, TuningStep, WaitStep, BinsStep, TruthStep, RxStep, HandleStep, CountStep DEF DInv

THEOREM Invariance == Spec => []DInv
  BY InitDInv, Inductive, PTL DEF Spec

\* The devices, their receivers, their channels and the requests of the clients stay in their
\* ranges, and so does devices_running, which several demodulators decrement without a lock
\* (rtl_airband.cpp:451).
THEOREM TypeCorrect == Spec => []DevTypeOK
<1>1. DInv => DevTypeOK
  BY DEF DInv
<1> QED
  BY <1>1, Invariance, PTL

\* A published channel is demodulated with bins of the frequency and rate its hardware has
\* (recompute_channel_bins(), parse_channel()), whatever fails on the way.
THEOREM BinsFollowHardware == Spec => []BinsMatchHardware
<1>1. DInv => BinsMatchHardware
  <2> SUFFICES ASSUME DInv, late = 0, NEW d \in Devices, ~Reworking(d), NEW j \in 1 .. channel_count[d]
               PROVE  bins[d][j] = hw[d]
    BY DEF BinsMatchHardware
  <2>1. \A t \in Thread : cur[t] = d => demodPc[t] # "adopt"
    BY DEF DInv, PlaceInv, Reworking, Rework
  <2> QED
    BY <2>1 DEF DInv, BinsInv
<1> QED
  BY <1>1, Invariance, PTL

\* With one fault at most and no file for an input no driver call and no reader meets a closed
\* device before the exit, and no receiver thread is joined twice (device_apply_sample_rate(),
\* input_stop()).
THEOREM HandlesSafe == Spec => []HandleSafe
<1>1. DInv => HandleSafe
  BY DEF DInv, HandleInv, HandleSafe, NoFile
<1> QED
  BY <1>1, Invariance, PTL

\* A client is told what happened to its own request (control_retune(), control_set_sample_rate()),
\* as long as no request misses its timeout.
THEOREM ClientsToldTruth == Spec => ClientToldTruth
<1>1. DInv /\ [Next]_devVars =>
        [late = 0 => \A d \in Tunable :
           /\ AnswerRetune(d, TRUE) => hw[d].freq = ctl.val
           /\ AnswerRetune(d, FALSE) => hw[d] = ctl.was
           /\ AnswerRate(d, TRUE) => hw[d].rate = ctl.val
           /\ AnswerRate(d, FALSE) => hw[d] = ctl.was]_devVars
  <2> SUFFICES ASSUME DInv, late = 0, NEW d \in Tunable
               PROVE  /\ AnswerRetune(d, TRUE) => hw[d].freq = ctl.val
                      /\ AnswerRetune(d, FALSE) => hw[d] = ctl.was
                      /\ AnswerRate(d, TRUE) => hw[d].rate = ctl.val
                      /\ AnswerRate(d, FALSE) => hw[d] = ctl.was
    OBVIOUS
  <2>1. reqFreq[d] = None => RetuneTried(d)
    BY DEF RetuneTried
  <2>2. reqRate[d] = None => RateTried(d) /\ ~Adopting(d)
    BY DEF DInv, WaitInv, Posted, RateTried, Adopting, Rework
  <2>3. ctl.pc = "waitFreq" /\ ctl.dev = d /\ reqFreq[d] = None =>
          IF freqFailed[d] THEN hw[d] = ctl.was ELSE hw[d].freq = ctl.val
    BY <2>1 DEF DInv, TruthInv
  <2>4. ctl.pc = "waitRate" /\ ctl.dev = d /\ reqRate[d] = None =>
          IF rateFailed[d] THEN hw[d] = ctl.was ELSE hw[d].rate = ctl.val
    BY <2>2 DEF DInv, TruthInv
  <2> QED
    BY <2>3, <2>4 DEF AnswerRetune, AnswerRate
<1> QED
  BY <1>1, Invariance, PTL DEF Spec, ClientToldTruth

\* The demodulators give up (rtl_airband.cpp:442) only when no device receives any more, however
\* the decrements of devices_running race with each other and with changes of a sample rate.
THEOREM GivesUpInTheEnd == Spec => GivesUpOnlyWhenAllFailed
<1>1. DInv /\ [Next]_devVars =>
        [\A t \in Thread : AllReceiversFailed(t) /\ (\A d \in Devices : driver[d] # "file")
           => \A d \in Devices : Down(d)]_devVars
  <2> SUFFICES ASSUME DInv, NEW t \in Thread, AllReceiversFailed(t), NoFile PROVE \A d \in Devices : Down(d)
    BY DEF NoFile
  <2>1. mainPc = "run" /\ devices_running = 0
    BY DEF DInv, PlaceInv, AllReceiversFailed
  <2>2. Cardinality(Counted) >= DeviceCount
    <3>1. CountsRest(0)
      BY <2>1 DEF DInv, CountInv
    <3>2. IsFiniteSet(Counted) /\ Cardinality(Counted) \in Nat
      <4>1. IsFiniteSet(Devices)
        BY FS_Interval, DeviceAssumption DEF Devices
      <4> QED
        BY <4>1, FS_Subset, FS_CardinalityType DEF Counted
    <3> QED
      BY <3>1, <3>2 DEF CountsRest
  <2>3. IsFiniteSet(Devices) /\ Cardinality(Devices) = DeviceCount
    BY FS_Interval, DeviceAssumption DEF Devices
  <2>4. Counted = Devices
    <3>1. Counted \subseteq Devices
      BY DEF Counted
    <3>2. Cardinality(Counted) \in Nat /\ Cardinality(Counted) <= Cardinality(Devices)
          /\ (Cardinality(Counted) = Cardinality(Devices) => Counted = Devices)
      BY <2>3, <3>1, FS_Subset, FS_CardinalityType
    <3> QED
      BY <2>2, <2>3, <3>2, Constants
  <2> QED
    BY <2>4 DEF Counted, Down
<1> QED
  BY <1>1, Invariance, PTL DEF Spec, GivesUpOnlyWhenAllFailed

-----------------------------------------------------------------------------
(***************************************************************************)
(* AutoPpm                                                                 *)
(***************************************************************************)

Settable == Corrections \union -max_ppm .. max_ppm
Tracking == [awaiting : BOOLEAN, before : Int, growing : 0 .. DIVERGENCE_STEPS, sign : {-1, 0, 1}, count : 0 .. PERSIST_EVALS,
             voters : SUBSET Voters, lastSign : {-1, 0, 1}, converged : BOOLEAN, settled : BOOLEAN]

PpmTypes ==
  /\ correction \in Settable /\ need \in [Voters -> Needs] /\ inverted \in BOOLEAN
  /\ sampledAt \in [Voters -> Int] /\ estimate \in [Voters -> Int] /\ takenAt \in [Voters -> Int]
  /\ stage \in [Voters -> {"stale", "settled", "measured"}]
  /\ ap \in [enabled : BOOLEAN, tripped : BOOLEAN, base : Settable, state : Tracking]
  /\ ppmSets \in {NoOrder} \union -max_ppm .. max_ppm /\ wasAt \in Int
  /\ orderSets \in {NoOrder} \union Corrections

\* A channel that settled was last sampled under the present correction, and measured under it: a
\* batch of the old tuning only ever meets a stale channel.
FreshInv == \A c \in Voters : /\ stage[c] # "stale" => sampledAt[c] = correction
                              /\ stage[c] = "measured" => takenAt[c] = correction

\* The correction the worker is about to set is at most a step away from the one it read.
StepInv == ppmSets # NoOrder /\ ~ap.tripped => Abs(ppmSets - wasAt) <= max_step \/ Abs(wasAt) > max_ppm

PpmInv == PpmTypes /\ FreshInv /\ StepInv

LEMMA PpmConstants ==
  /\ IsFiniteSet(Voters) /\ max_ppm \in Nat /\ max_ppm > 0 /\ max_step \in Nat /\ max_step > 0
  /\ Needs \subseteq Int /\ Corrections \subseteq Int /\ NoOrder \notin Int /\ Settable \subseteq Int /\ 0 \in Settable
  /\ PpmUnit = 8 /\ DIVERGENCE_STEPS = 2 /\ PERSIST_EVALS = 2
  BY AutoPpmAssumption DEF Settable, PpmUnit, DIVERGENCE_STEPS, PERSIST_EVALS

\* What is clamped is within the limit, and no farther from a place within it than before.
LEMMA Clamped ==
  ASSUME NEW x \in Int, NEW limit \in Nat
  PROVE  /\ Clamp(x, limit) \in -limit .. limit
         /\ \A y \in -limit .. limit : Abs(Clamp(x, limit) - y) <= Abs(x - y)
  BY DEF Clamp, Abs

LEMMA Arithmetic ==
  ASSUME NEW x \in Int
  PROVE  Abs(x) \in Nat /\ Sign(x) \in {-1, 1} /\ Round(x) \in Int /\ (x \div 2) \in Int
<1>1. Abs(x) \in Nat /\ Sign(x) \in {-1, 1}
  BY DEF Abs, Sign
<1>2. (Abs(x) + 4) \div 8 \in Int
  BY <1>1
<1>3. PpmUnit \div 2 = 4 /\ PpmUnit = 8
  BY DEF PpmUnit
<1>4. Round(x) \in Int
  <2> DEFINE a == Abs(x)
             q == (a + 4) \div 8
             s == Sign(x)
  <2>1. Round(x) = s * q
    BY <1>3 DEF Round
  <2>2. s \in {-1, 1} /\ q \in Int
    BY <1>1, <1>2
  <2> HIDE DEF s, q
  <2> QED
    BY <2>1, <2>2
<1> QED
  BY <1>1, <1>4

\* The values an evaluation starts again from.
LEMMA Cleared ==
  /\ 0 \in Int /\ 0 \in 0 .. DIVERGENCE_STEPS /\ 0 \in 0 .. PERSIST_EVALS /\ 0 \in {-1, 0, 1}
  /\ {} \in SUBSET Voters /\ TRUE \in BOOLEAN /\ FALSE \in BOOLEAN
  BY PpmConstants

\* The median of what the trusted channels measured is a number.
LEMMA ReadingIsInt == PpmTypes /\ HasReading => Reading \in Int
<1> SUFFICES ASSUME PpmTypes, HasReading PROVE Reading \in Int
  OBVIOUS
<1>1. /\ Trusted # {} /\ IsFiniteSet(Trusted) /\ \A a \in Trusted : estimate[a] \in Int
  <2>1. Trusted \subseteq Voters
    BY DEF Trusted, Plausible, Eligible
  <2> QED
    BY <2>1, PpmConstants, FS_Subset DEF HasReading, PpmTypes
<1>2. Total(Trusted) \in Int
  <2>1. CASE Cardinality(Trusted) = 2
    <3>1. PICK a \in Trusted, b \in Trusted : a # b
      <4>1. PICK a \in Trusted : TRUE
        BY <1>1
      <4>2. Cardinality({a}) = 1
        BY FS_Singleton
      <4>3. Trusted # {a}
        BY <2>1, <4>2
      <4> QED
        BY <4>1, <4>3
    <3> DEFINE sums == {estimate[x] + estimate[y] : x, y \in Trusted}
               Is(t) == \E x, y \in Trusted : x # y /\ t = estimate[x] + estimate[y]
    <3>2. estimate[a] + estimate[b] \in sums /\ Is(estimate[a] + estimate[b])
      BY <3>1
    <3>3. (CHOOSE t \in sums : Is(t)) \in sums
      BY <3>2
    <3>4. Total(Trusted) = CHOOSE t \in sums : Is(t)
      BY <2>1 DEF Total
    <3>5. sums \subseteq Int
      BY <1>1
    <3> HIDE DEF sums, Is
    <3> QED
      BY <3>3, <3>4, <3>5
  <2>2. CASE Cardinality(Trusted) # 2
    <3> DEFINE doubles == {2 * estimate[x] : x \in Trusted}
    <3>1. PICK a \in Trusted : TRUE
      BY <1>1
    <3>2. 2 * estimate[a] \in doubles
      OBVIOUS
    <3>3. (CHOOSE t \in doubles : TRUE) \in doubles
      BY <3>2
    <3>4. Total(Trusted) = CHOOSE t \in doubles : TRUE
      BY <2>2 DEF Total
    <3>5. doubles \subseteq Int
      BY <1>1
    <3> HIDE DEF doubles
    <3> QED
      BY <3>3, <3>4, <3>5
  <2> QED
    BY <2>1, <2>2
<1> QED
  BY <1>2, Arithmetic DEF Reading, Median

LEMMA PpmStart == PpmInit => PpmInv
<1> SUFFICES ASSUME PpmInit PROVE PpmInv
  OBVIOUS
<1>1. Untracked \in Tracking
  BY PpmConstants DEF Untracked, Tracking
<1>2. PpmTypes
  BY <1>1, PpmConstants DEF PpmInit, PpmTypes
<1>3. FreshInv /\ StepInv
  BY DEF PpmInit, FreshInv, StepInv
<1> QED
  BY <1>2, <1>3 DEF PpmInv

\* A channel's measurement: of the correction its batch was received under.
LEMMA CommitKeeps == PpmInv /\ (\E c \in Voters : Commit(c)) => PpmInv'
<1> SUFFICES ASSUME PpmInv, NEW c \in Voters, Commit(c) PROVE PpmInv'
  OBVIOUS
<1>1. /\ sampledAt' = [sampledAt EXCEPT ![c] = correction]
      /\ IF stage[c] = "stale"
         THEN stage' = [stage EXCEPT ![c] = "settled"] /\ UNCHANGED <<estimate, takenAt>>
         ELSE /\ stage' = [stage EXCEPT ![c] = "measured"]
              /\ estimate' = [estimate EXCEPT ![c] = ResidualAt(c, sampledAt[c])]
              /\ takenAt' = [takenAt EXCEPT ![c] = sampledAt[c]]
      /\ UNCHANGED <<correction, need, inverted, ap, ppmSets, wasAt, orderSets>>
  BY DEF Commit
<1>2. correction \in Int /\ sampledAt[c] \in Int /\ ResidualAt(c, sampledAt[c]) \in Int
  <2>1. correction \in Int /\ sampledAt[c] \in Int /\ need[c] \in Int
    BY PpmConstants DEF PpmInv, PpmTypes
  <2>2. ResidualAt(c, sampledAt[c]) = need[c] - 8 * (IF inverted THEN -sampledAt[c] ELSE sampledAt[c])
    BY PpmConstants DEF ResidualAt
  <2> QED
    BY <2>1, <2>2
<1>3. PpmTypes'
  BY <1>1, <1>2 DEF PpmInv, PpmTypes
<1>4. FreshInv'
  BY <1>1 DEF PpmInv, PpmTypes, FreshInv
<1>5. StepInv'
  BY <1>1 DEF PpmInv, StepInv
<1> QED
  BY <1>3, <1>4, <1>5 DEF PpmInv

\* Setting the correction, from either thread, makes every channel stale.
LEMMA SettingKeeps ==
  ASSUME PpmInv, NEW v \in Settable, SetCorrection(v), UNCHANGED <<need, inverted, sampledAt>>
  PROVE  FreshInv' /\ correction' \in Settable /\ stage' \in [Voters -> {"stale", "settled", "measured"}]
         /\ estimate' \in [Voters -> Int] /\ takenAt' \in [Voters -> Int]
<1>1. correction' = v /\ stage' = [c \in Voters |-> "stale"] /\ estimate' = [c \in Voters |-> 0]
      /\ takenAt' = [c \in Voters |-> 0]
  BY DEF SetCorrection
<1> QED
  BY <1>1 DEF FreshInv

\* The worker's ticks that decide: what the record becomes, and the correction to set.
LEMMA TickKeeps == PpmInv /\ (PpmTick \/ TickSetFails) => PpmInv'
<1> SUFFICES ASSUME PpmInv, PpmTick \/ TickSetFails PROVE PpmInv'
  OBVIOUS
<1>inv. PpmTypes /\ FreshInv /\ StepInv
  BY DEF PpmInv
<1>ap. /\ ap.enabled \in BOOLEAN /\ ap.tripped \in BOOLEAN /\ ap.base \in Settable /\ ap.state \in Tracking
  BY <1>inv DEF PpmTypes
\* A decision leaves the measurements and the correction alone.
<1>decides. ASSUME NEW tracked \in Tracking, NEW sets \in {NoOrder} \union -max_ppm .. max_ppm, NEW was \in Int,
                   NEW gaveUp \in BOOLEAN, ap' = [ap EXCEPT !.tripped = gaveUp, !.state = tracked],
                   ppmSets' = sets, wasAt' = was,
                   UNCHANGED <<correction, need, inverted, sampledAt, stage, estimate, takenAt, orderSets>>,
                   sets # NoOrder /\ ~gaveUp => Abs(sets - was) <= max_step \/ Abs(was) > max_ppm
            PROVE  PpmInv'
  <2>1. ap' \in [enabled : BOOLEAN, tripped : BOOLEAN, base : Settable, state : Tracking] /\ ap'.tripped = gaveUp
    BY <1>inv, <1>decides DEF PpmTypes
  <2>2. PpmTypes'
    BY <1>inv, <1>decides, <2>1 DEF PpmTypes
  <2>3. FreshInv'
    BY <1>inv, <1>decides DEF FreshInv
  <2>4. StepInv'
    BY <1>decides, <2>1 DEF StepInv
  <2> QED
    BY <2>2, <2>3, <2>4 DEF PpmInv
<1>1. CASE TickReverts
  <2> DEFINE tracked == [ap.state EXCEPT !.awaiting = FALSE, !.before = 0, !.growing = 0, !.lastSign = 0, !.sign = 0, !.count = 0]
  <2>1. tracked \in Tracking
    BY Zenon, <1>ap, Cleared DEF Tracking
  <2>2. Clamp(ap.base, max_ppm) \in -max_ppm .. max_ppm /\ correction \in Int
    BY <1>inv, <1>ap, PpmConstants, Clamped DEF PpmTypes
  <2>3. /\ ap' = [ap EXCEPT !.tripped = TRUE, !.state = tracked] /\ ppmSets' = Clamp(ap.base, max_ppm) /\ wasAt' = correction
        /\ UNCHANGED <<correction, need, inverted, sampledAt, stage, estimate, takenAt, orderSets>>
    BY <1>1 DEF TickReverts
  <2> HIDE DEF tracked
  <2> QED
    BY <1>decides, <2>1, <2>2, <2>3
<1>counts. ASSUME HasReading, ~Diverges
           PROVE  /\ Reading \in Int /\ Abs(Reading) \in Int /\ Sign(Reading) \in {-1, 1}
                  /\ Growing \in 0 .. DIVERGENCE_STEPS
                  /\ Trusted \in SUBSET Voters
  <2>1. Reading \in Int /\ Abs(Reading) \in Int /\ Sign(Reading) \in {-1, 1}
    BY <1>inv, <1>counts, ReadingIsInt, Arithmetic
  <2>2. ap.state.growing \in 0 .. 2 /\ ap.state.awaiting \in BOOLEAN
    BY <1>ap, PpmConstants DEF Tracking
  <2>3. Growing \in 0 .. DIVERGENCE_STEPS
    BY <1>counts, <2>2, PpmConstants DEF Growing, Diverges
  <2>4. Trusted \in SUBSET Voters
    BY DEF Trusted, Plausible, Eligible
  <2> QED
    BY <2>1, <2>3, <2>4
<1>2. CASE TickHolds
  <2> DEFINE tracked == [ap.state EXCEPT !.awaiting = FALSE, !.before = 0, !.growing = Growing, !.settled = TRUE, !.sign = 0,
                                         !.count = 0, !.voters = {}, !.converged = @ \/ Cardinality(Trusted) >= 2]
  <2>1. Growing \in 0 .. DIVERGENCE_STEPS
    BY <1>2, <1>counts DEF TickHolds
  <2>2. tracked \in Tracking
    BY Zenon, <1>ap, <2>1, Cleared DEF Tracking
  <2>3. /\ ap' = [ap EXCEPT !.state = tracked]
        /\ UNCHANGED <<correction, need, inverted, sampledAt, stage, estimate, takenAt, orderSets, ppmSets, wasAt>>
        /\ ppmSets = NoOrder
    BY <1>2 DEF TickHolds, Decided, Ticks
  <2> HIDE DEF tracked
  <2>4. ap' = [ap EXCEPT !.tripped = ap.tripped, !.state = tracked]
    BY <1>inv, <2>3 DEF PpmTypes
  <2> QED
    BY <1>inv, <1>ap, <1>decides, <2>2, <2>3, <2>4 DEF PpmTypes
<1>3. CASE TickWaits
  <2>1. HasReading /\ ~Diverges /\ ppmSets = NoOrder
        /\ UNCHANGED <<correction, need, inverted, sampledAt, stage, estimate, takenAt, orderSets, ppmSets, wasAt>>
    BY <1>3 DEF TickWaits, Ticks
  <2>2. PICK isNewer \in Newer :
          Decided([ap.state EXCEPT !.awaiting = FALSE, !.before = 0, !.growing = Growing, !.sign = Sign(Reading),
                                   !.count = IF Count(isNewer) > PERSIST_EVALS THEN PERSIST_EVALS ELSE Count(isNewer),
                                   !.voters = Trusted])
    BY <1>3 DEF TickWaits
  <2> DEFINE n == IF Count(isNewer) > PERSIST_EVALS THEN PERSIST_EVALS ELSE Count(isNewer)
             tracked == [ap.state EXCEPT !.awaiting = FALSE, !.before = 0, !.growing = Growing, !.sign = Sign(Reading),
                                         !.count = n, !.voters = Trusted]
  <2>3. n \in 0 .. PERSIST_EVALS
    <3>1. ap.state.count \in 0 .. 2
      BY <1>ap, PpmConstants DEF Tracking
    <3>2. Count(isNewer) \in 0 .. 3
      BY <3>1 DEF Count
    <3> QED
      BY <3>2, PpmConstants
  <2> HIDE DEF n
  <2>4. tracked \in Tracking
    BY <1>ap, <1>counts, <2>1, <2>3, PpmConstants DEF Tracking
  <2>5. ap' = [ap EXCEPT !.state = tracked]
    BY <2>2 DEF Decided, n
  <2> HIDE DEF tracked
  <2>6. ap' = [ap EXCEPT !.tripped = ap.tripped, !.state = tracked]
    BY <1>inv, <2>5 DEF PpmTypes
  <2> QED
    BY <1>inv, <1>ap, <1>decides, <2>1, <2>4, <2>6 DEF PpmTypes
<1>4. CASE TickAdjusts
  <2> DEFINE step_sign == Sign(Stepped - correction)
             grew == IF step_sign # ap.state.lastSign THEN 0 ELSE Growing
             tracked == [ap.state EXCEPT !.awaiting = TRUE, !.before = Abs(Reading), !.growing = grew, !.lastSign = step_sign,
                                         !.sign = 0, !.count = 0, !.voters = {}]
  <2>1. HasReading /\ ~Diverges /\ ppmSets' = Stepped /\ wasAt' = correction
        /\ UNCHANGED <<correction, need, inverted, sampledAt, stage, estimate, takenAt, orderSets>>
    BY <1>4 DEF TickAdjusts
  <2>2. ap' = [ap EXCEPT !.state = tracked] /\ ~ap.tripped
    BY <1>4 DEF TickAdjusts, Decided, Ticks
  <2>3. correction \in Int /\ NextStep \in -max_step .. max_step
    <3>1. correction \in Int /\ Reading \in Int /\ 8 * correction + Reading \in Int
      BY <1>inv, <1>counts, <2>1, PpmConstants DEF PpmTypes
    <3>2. Round(PpmUnit * correction + Reading) - correction \in Int
      BY <3>1, Arithmetic, PpmConstants
    <3> QED
      BY <3>1, <3>2, Clamped, PpmConstants DEF NextStep
  <2>4. Stepped \in -max_ppm .. max_ppm /\ (Abs(Stepped - correction) <= max_step \/ Abs(correction) > max_ppm)
    <3>1. correction + NextStep \in Int
      BY <2>3, PpmConstants
    <3>2. Stepped \in -max_ppm .. max_ppm
      BY <3>1, Clamped, PpmConstants DEF Stepped
    <3>3. ASSUME Abs(correction) <= max_ppm PROVE Abs(Stepped - correction) <= max_step
      <4>1. correction \in -max_ppm .. max_ppm
        BY <2>3, <3>3, PpmConstants DEF Abs
      <4>2. Abs(Stepped - correction) <= Abs((correction + NextStep) - correction)
        BY <3>1, <4>1, Clamped, PpmConstants DEF Stepped
      <4>3. Abs((correction + NextStep) - correction) <= max_step
        BY <2>3, PpmConstants DEF Abs
      <4>4. Abs(Stepped - correction) \in Int /\ Abs((correction + NextStep) - correction) \in Int
        BY <2>3, <3>1, <3>2, PpmConstants DEF Abs
      <4> QED
        BY <4>2, <4>3, <4>4, PpmConstants
    <3>4. Abs(correction) \in Int
      BY <2>3, Arithmetic
    <3> QED
      BY <3>2, <3>3, <3>4, PpmConstants
  <2>5. step_sign \in {-1, 1} /\ grew \in 0 .. DIVERGENCE_STEPS
    <3>1. Stepped - correction \in Int
      BY <2>3, <2>4
    <3> QED
      BY <1>counts, <2>1, <3>1, Arithmetic, PpmConstants
  <2> HIDE DEF step_sign, grew
  <2>6. tracked \in Tracking
    BY Zenon, <1>ap, <1>counts, <2>1, <2>5, Cleared DEF Tracking
  <2> HIDE DEF tracked
  <2>7. ap' = [ap EXCEPT !.tripped = FALSE, !.state = tracked]
    BY <1>inv, <2>2 DEF PpmTypes
  <2> QED
    BY <1>decides, <2>1, <2>3, <2>4, <2>6, <2>7
<1>5. CASE TickSets
  <2>1. ppmSets \in Settable /\ SetCorrection(ppmSets) /\ ppmSets' = NoOrder /\ wasAt' = 0
        /\ UNCHANGED <<need, inverted, sampledAt, ap, orderSets>>
    BY <1>5, <1>inv DEF TickSets, PpmTypes, Settable
  <2>2. FreshInv' /\ PpmTypes'
    BY <1>inv, <2>1, SettingKeeps DEF PpmTypes, PpmInv
  <2>3. StepInv'
    BY <2>1 DEF StepInv
  <2> QED
    BY <2>2, <2>3 DEF PpmInv
<1>6. CASE TickSetFails
  <2> DEFINE tracked == [ap.state EXCEPT !.awaiting = FALSE, !.before = 0]
  <2>1. tracked \in Tracking
    BY Zenon, <1>ap, Cleared DEF Tracking
  <2>2. /\ ap' = [ap EXCEPT !.state = tracked] /\ ppmSets' = NoOrder /\ wasAt' = 0
        /\ UNCHANGED <<correction, need, inverted, sampledAt, stage, estimate, takenAt, orderSets>>
    BY <1>6 DEF TickSetFails
  <2> HIDE DEF tracked
  <2>3. PpmTypes' /\ FreshInv'
    <3>1. ap' \in [enabled : BOOLEAN, tripped : BOOLEAN, base : Settable, state : Tracking]
      BY <1>inv, <2>1, <2>2 DEF PpmTypes
    <3> QED
      BY <1>inv, <2>2, <3>1, PpmConstants DEF PpmTypes, FreshInv
  <2>4. StepInv'
    BY <2>2 DEF StepInv
  <2> QED
    BY <2>3, <2>4 DEF PpmInv
<1> QED
  BY <1>1, <1>2, <1>3, <1>4, <1>5, <1>6 DEF PpmTick

\* The control socket's thread.
LEMMA OrdersKeep ==
  /\ PpmInv
  /\ (\E v \in Corrections : OrderCorrection(v)) \/ (\E v \in Corrections, want \in BOOLEAN : Reload(want, v)) \/ OrderSets
  => PpmInv'
<1> SUFFICES ASSUME PpmInv,
                    (\E v \in Corrections : OrderCorrection(v))
                    \/ (\E v \in Corrections, want \in BOOLEAN : Reload(want, v)) \/ OrderSets
             PROVE  PpmInv'
  OBVIOUS
<1>inv. PpmTypes /\ FreshInv /\ StepInv
  BY DEF PpmInv
<1>1. ASSUME NEW v \in Corrections, OrderCorrection(v) PROVE PpmInv'
  <2>1. orderSets' = v /\ UNCHANGED <<correction, need, inverted, sampledAt, stage, estimate, takenAt, ap, ppmSets, wasAt>>
    BY <1>1 DEF OrderCorrection, OrdersElse
  <2> QED
    BY <1>inv, <2>1 DEF PpmInv, PpmTypes, FreshInv, StepInv
<1>2. ASSUME NEW v \in Corrections, NEW want \in BOOLEAN, Reload(want, v) PROVE PpmInv'
  <2>1. /\ orderSets' \in {NoOrder, v} /\ ppmSets = NoOrder
        /\ ap' = [enabled |-> want, tripped |-> FALSE, base |-> v, state |-> Untracked] \/ ap' = [ap EXCEPT !.base = v]
        /\ UNCHANGED <<correction, need, inverted, sampledAt, stage, estimate, takenAt, ppmSets, wasAt>>
    BY <1>2 DEF Reload, Orders, OrdersElse
  <2>2. Untracked \in Tracking /\ v \in Settable
    BY PpmConstants DEF Untracked, Tracking, Settable
  <2>3. ap' \in [enabled : BOOLEAN, tripped : BOOLEAN, base : Settable, state : Tracking]
    <3>1. CASE ap' = [enabled |-> want, tripped |-> FALSE, base |-> v, state |-> Untracked]
      BY <2>2, <3>1
    <3>2. CASE ap' = [ap EXCEPT !.base = v]
      BY <1>inv, <2>2, <3>2 DEF PpmTypes
    <3> QED
      BY <2>1, <3>1, <3>2
  <2> QED
    BY <1>inv, <2>1, <2>3 DEF PpmInv, PpmTypes, FreshInv, StepInv
<1>3. CASE OrderSets
  <2>1. orderSets \in Settable /\ SetCorrection(orderSets) /\ orderSets' = NoOrder
        /\ UNCHANGED <<need, inverted, sampledAt, ap, ppmSets, wasAt>>
    BY <1>3, <1>inv DEF OrderSets, PpmTypes, Settable
  <2> QED
    BY <1>inv, <2>1, SettingKeeps DEF PpmTypes, PpmInv, StepInv
<1> QED
  BY <1>1, <1>2, <1>3

LEMMA PpmInductive == PpmInv /\ [PpmNext]_ppmVars => PpmInv'
<1> SUFFICES ASSUME PpmInv, [PpmNext]_ppmVars PROVE PpmInv'
  OBVIOUS
<1>1. CASE Drift
  <2>1. /\ need' \in [Voters -> Needs]
        /\ UNCHANGED <<correction, inverted, sampledAt, stage, estimate, takenAt, ap, ppmSets, wasAt, orderSets>>
    BY <1>1 DEF Drift
  <2> QED
    BY <2>1 DEF PpmInv, PpmTypes, FreshInv, StepInv
<1>2. CASE UNCHANGED ppmVars
  BY <1>2 DEF ppmVars, PpmInv, PpmTypes, FreshInv, StepInv
<1> QED
  BY <1>1, <1>2, CommitKeeps, TickKeeps, OrdersKeep DEF PpmNext

LEMMA PpmInvariant == PpmSpec => []PpmInv
  BY PpmStart, PpmInductive, PTL DEF PpmSpec

\* A decision only rests on measurements taken wholly under the correction it starts from, although
\* a batch of the old tuning is committed after every change, whoever makes it.
THEOREM EvidenceIsFresh == PpmSpec => [](\A c \in Eligible : takenAt[c] = correction)
<1>1. PpmInv => \A c \in Eligible : takenAt[c] = correction
  BY DEF PpmInv, FreshInv, Eligible
<1> QED
  BY PpmInvariant, <1>1, PTL

\* No adjustment of the worker's leaves the limit or is larger than a step, unless an operator moved
\* the correction while it was being decided or had put it outside the limit before.
THEOREM AdjustmentsBounded == PpmSpec => StepsBounded
<1>1. PpmInv /\ [PpmNext]_ppmVars =>
        [TickSets /\ ~ap.tripped =>
           Abs(correction') <= max_ppm
           /\ (Abs(correction' - correction) <= max_step \/ correction # wasAt \/ Abs(correction) > max_ppm)]_ppmVars
  <2> SUFFICES ASSUME PpmInv, TickSets, ~ap.tripped
               PROVE  Abs(correction') <= max_ppm
                      /\ (Abs(correction' - correction) <= max_step \/ correction # wasAt \/ Abs(correction) > max_ppm)
    OBVIOUS
  <2>1. correction' = ppmSets /\ ppmSets \in -max_ppm .. max_ppm /\ ppmSets # NoOrder
    BY DEF TickSets, SetCorrection, PpmInv, PpmTypes
  <2>2. Abs(ppmSets) <= max_ppm
    BY <2>1, PpmConstants DEF Abs
  <2>3. Abs(ppmSets - wasAt) <= max_step \/ Abs(wasAt) > max_ppm
    BY <2>1 DEF PpmInv, StepInv
  <2> QED
    BY <2>1, <2>2, <2>3
<1> QED
  BY PpmInvariant, <1>1, PTL DEF PpmSpec, StepsBounded

\* Every variable of the correction has its type.
THEOREM PpmTypeCorrect == PpmSpec => []PpmTypeOK
<1>1. PpmInv => PpmTypeOK
  BY DEF PpmInv, PpmTypes, PpmTypeOK, Settable, Tracking
<1> QED
  BY PpmInvariant, <1>1, PTL

-----------------------------------------------------------------------------
(***************************************************************************)
(* The two together, as the tuning run checks them.                        *)
(***************************************************************************)

\* Every variable of a receiver's tuning has its type, whichever of the two changes it.
THEOREM TuningTypeCorrect == TuningSpec => []TuningTypeOK
<1> DEFINE Both == focus \in {"device", "auto_ppm"} /\ DInv /\ PpmInv
<1>1. TuningInit => Both
  BY InitDInv, PpmStart DEF TuningInit
<1>2. Both /\ [TuningNext]_tuningVars => Both'
  <2> SUFFICES ASSUME Both, [TuningNext]_tuningVars PROVE Both'
    OBVIOUS
  <2>1. [Next]_devVars /\ [PpmNext]_ppmVars /\ focus' = focus
    BY DEF TuningNext, tuningVars
  <2> QED
    BY <2>1, Inductive, PpmInductive
<1>3. Both => TuningTypeOK
  BY DEF TuningTypeOK, DInv, PpmInv, PpmTypes, PpmTypeOK, Settable, Tracking
<1> HIDE DEF Both
<1> QED
  BY <1>1, <1>2, <1>3, PTL DEF TuningSpec
=============================================================================
