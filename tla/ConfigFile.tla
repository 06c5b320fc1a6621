----------------------------- MODULE ConfigFile -----------------------------
(* The configuration file: what main() and the parsers of config.cpp accept *)
(* and build at startup, and what reload_diff (parse_config_snapshot() and  *)
(* compute_and_apply_diff(), live_reconfig.cpp) makes of an edited file     *)
(* while the program runs.  A file is a record of settings; `bad' is any    *)
(* value its parser reports with error(), `legacy' a channel whose parsing  *)
(* ends early (bandwidth = 0, squelch_snr_threshold = -1).  That requests   *)
(* can go unanswered is the business of DeviceReconfig and ChannelLifecycle:*)
(* here each one is answered.                                               *)
EXTENDS Integers, Sequences, SequencesExt

CONSTANTS
  Files,        \* the files an operator writes
  MaxPpm,       \* auto_ppm_max_ppm
  WaveRate      \* WAVE_RATE

(* What libconfig gives of any file: lists, settings that have a type, names *)
(* that occur once in a group.  A negative reserve is `bad'.                *)
IsList(s) == s \in Seq(ToSet(s))
ChannelSettings(c) == {"enabled", "outputs"} \subseteq DOMAIN c /\ IsList(c.outputs)
DeviceSettings(d) ==
  /\ d.reserve \in Nat /\ d.correction \in Int /\ d.auto_ppm \in {"absent", "off", "on"}
  /\ IsList(d.channels) /\ \A j \in DOMAIN d.channels : ChannelSettings(d.channels[j])
MixerSettings(m) == m.reserve \in Nat /\ m.remote \in Nat /\ m.enabled \in BOOLEAN
DistinctNames(mix) == \A m, n \in DOMAIN mix : mix[m].name = mix[n].name => m = n

ASSUME ConfigAssumption ==
  /\ MaxPpm \in Nat /\ WaveRate \in Nat
  /\ \A f \in Files :
       /\ IsList(f.devices) /\ \A i \in DOMAIN f.devices : DeviceSettings(f.devices[i])
       /\ IsList(f.mixers) /\ \A n \in DOMAIN f.mixers : MixerSettings(f.mixers[n])
       /\ DistinctNames(f.mixers)

VARIABLES
  conf_file,    \* the file on disk
  running,      \* what the threads run: up, devices and mixers
  skipped       \* skipped_requires_restart, if the last thing done was a reload_diff

confVars == <<conf_file, running, skipped>>

Unset == 99              \* a setting the file does not have
Kept(s) == FoldLeft(LAMBDA t, x : IF x.disable THEN t ELSE Append(t, x), <<>>, s)
Indices(m, n) == [k \in 1 .. n - m |-> m + k]     \* the loop from m + 1 to n
Magnitude(x) == IF x < 0 THEN -x ELSE x
-----------------------------------------------------------------------------
(* parse_outputs(): which outputs are accepted; `mixing' is parsing_mixers, *)
(* `scan' that the device is in scan mode, `names' the mixers of the file.  *)

check_split_only_settings(o, mixing) == o.times => ~mixing
parse_split_file_times(o, mixing) == check_split_only_settings(o, mixing) /\ ~o.bad
IcecastOk(o, scan) == ~o.bad /\ (o.tags => ~scan)
FileOk(o, mixing, scan) ==
  /\ parse_split_file_times(o, mixing)
  /\ o.rdio => o.split /\ ~scan
  /\ o.split => ~mixing /\ ~o.continuous
RawfileOk(o, mixing) == ~mixing /\ parse_split_file_times(o, mixing) /\ ~(o.continuous /\ o.split)
RemoteOutputOk(o) == ~o.bad
MixerOutputOk(o, mixing, names) == ~mixing /\ ~o.bad /\ o.to \in names
StreamOk(o) == ~o.bad

OutputOk(o, mixing, scan, names) ==
  \/ o.kind = "icecast" /\ IcecastOk(o, scan)
  \/ o.kind = "file" /\ FileOk(o, mixing, scan)
  \/ o.kind = "rawfile" /\ RawfileOk(o, mixing)
  \/ o.kind = "mixer_remote" /\ RemoteOutputOk(o)
  \/ o.kind = "mixer" /\ MixerOutputOk(o, mixing, names)
  \/ o.kind \in {"udp_stream", "pulse"} /\ StreamOk(o)
OutputsOk(outputs, mixing, scan, names) ==
  LET outs == Kept(outputs) IN outs # <<>> /\ \A k \in DOMAIN outs : OutputOk(outs[k], mixing, scan, names)

(* init_output(): `fails' is an output it cannot set up (a host that does   *)
(* not resolve, an encoder it does not get).                                *)
init_outputs(outputs) == LET outs == Kept(outputs) IN \A k \in DOMAIN outs : ~outs[k].fails
-----------------------------------------------------------------------------
(* parse_channel(): accepted, and whether it returns true; init_output()    *)
(* follows for the channels that count.                                     *)

SettingsOk(c) == ~c.bad
Counts(c) == ~c.legacy
ChannelOk(c, scan, names) ==
  SettingsOk(c) /\ (Counts(c) => OutputsOk(c.outputs, FALSE, scan, names) /\ init_outputs(c.outputs))

(* build_channel_identity_signature(): everything but "enabled".            *)
Signature(c) == [c EXCEPT !.enabled = TRUE]
Parsed(c) == [signature |-> Signature(c), enabled |-> c.enabled, outputs |-> Kept(c.outputs)]
(* A slot parse_channel() has left half filled: no signature, no outputs.   *)
NoSignature == [id |-> "none"]
HalfParsed(c) == [signature |-> NoSignature, enabled |-> c.enabled, outputs |-> <<>>]

parse_channels(d) == FoldLeft(LAMBDA t, c : IF Counts(c) THEN Append(t, c) ELSE t, <<>>, Kept(d.channels))
Capacity(d) == Len(parse_channels(d)) + d.reserve
Scans(d) == d.mode = "scan"

AutoPpmOk(d) ==
  d.auto_ppm # "absent" =>
    /\ d.type # "file"                            \* no set_correction()
    /\ d.min_voters > 0
    /\ Scans(d) => d.min_voters = 1
    /\ d.min_voters <= Len(d.channels) + d.reserve
    /\ d.correction # Unset => Magnitude(d.correction) <= MaxPpm

DeviceOk(d, names) ==
  /\ ~d.bad
  /\ d.sample_rate > WaveRate                     \* an equal rate fails the assertion
  /\ Scans(d) => d.reserve = 0
  /\ AutoPpmOk(d)
  /\ \A j \in DOMAIN Kept(d.channels) : ChannelOk(Kept(d.channels)[j], Scans(d), names)
  /\ parse_channels(d) # <<>>
  /\ Scans(d) => Len(parse_channels(d)) = 1

MixerOk(m) == ~m.bad /\ OutputsOk(m.outputs, TRUE, FALSE, {}) /\ init_outputs(m.outputs)

MixerNames(f) == {m.name : m \in ToSet(Kept(f.mixers))}

(* What main() accepts; anything else ends the program with error().        *)
Startable(f) ==
  /\ ~f.bad
  /\ Kept(f.devices) # <<>>
  /\ \A i \in DOMAIN Kept(f.mixers) : MixerOk(Kept(f.mixers)[i])
  /\ \A i \in DOMAIN Kept(f.devices) : DeviceOk(Kept(f.devices)[i], MixerNames(f))
-----------------------------------------------------------------------------
(* What the parsers build.  A mixer's inputs are named after the device,    *)
(* channel and output they come from; `live' are those with input_mask set, *)
(* `lost' counts slots taken by channels that were never published.         *)

Input(i, j, k) == [dev |-> i, chan |-> j, out |-> k]
ChannelInputs(i, j, outputs, name) ==
  {Input(i, j, k) : k \in {n \in DOMAIN outputs : outputs[n].kind = "mixer" /\ outputs[n].to = name}}
OwnedInputs(devs, name) ==
  UNION {UNION {ChannelInputs(i, j, devs[i].channels[j].outputs, name) : j \in DOMAIN devs[i].channels} : i \in DOMAIN devs}

StartDevice(d) ==
  LET chans == parse_channels(d)
  IN [type |-> d.type, mode |-> d.mode, sample_rate |-> d.sample_rate, centerfreq |-> d.centerfreq,
      gain |-> d.gain, correction |-> IF d.correction = Unset THEN 0 ELSE d.correction,
      auto_ppm |-> d.auto_ppm, min_voters |-> d.min_voters,
      base |-> IF d.correction = Unset THEN 0 ELSE d.correction,
      capacity |-> Capacity(d), channels |-> [j \in DOMAIN chans |-> Parsed(chans[j])]]

(* mixer_connect_input() enables the mixer; main() then disables the ones   *)
(* the file wants disabled and mixer_finalize_capacity() adds the reserve.  *)
StartMixer(m, devs) ==
  LET inputs == OwnedInputs(devs, m.name)
  IN [name |-> m.name, remote |-> m.remote, inputs |-> inputs, live |-> inputs, lost |-> 0,
      capacity |-> Cardinality(inputs) + m.remote + m.reserve,
      enabled |-> m.enabled /\ Cardinality(inputs) + m.remote > 0]

Running(devs, mix) == [up |-> TRUE, devices |-> devs, mixers |-> mix]
Started(f) ==
  LET devs == [i \in DOMAIN Kept(f.devices) |-> StartDevice(Kept(f.devices)[i])]
  IN Running(devs, [i \in DOMAIN Kept(f.mixers) |-> StartMixer(Kept(f.mixers)[i], devs)])

NotRunning == [up |-> FALSE, devices |-> <<>>, mixers |-> <<>>]

ConfInit == conf_file \in Files /\ running = NotRunning /\ skipped = {}
-----------------------------------------------------------------------------
(* The mixers' side of live edits.                                          *)

HasInput(m) == m.live # {} \/ m.lost > 0 \/ m.remote > 0
SlotFree(m) == Cardinality(m.inputs) + m.lost + m.remote < m.capacity

(* mixer_disable_input(): a mixer without a live input is disabled.         *)
Masked(m, gone, forever) ==
  LET n == [m EXCEPT !.live = @ \ gone, !.inputs = IF forever THEN @ \ gone ELSE @]
  IN IF gone = {} THEN m ELSE [n EXCEPT !.enabled = @ /\ HasInput(n)]

ConnectInput(m, input) ==
  [m EXCEPT !.inputs = @ \union {input}, !.live = @ \union {input}, !.enabled = TRUE]

(* One output of a channel being appended, then all of them, one channel    *)
(* and all of them: s = [ok, mixers].  Outputs are checked and connected in *)
(* their order: those before a bad one are connected when it throws.        *)
Throws(s) == [ok |-> FALSE, mixers |-> s.mixers]
Connect(s, o, input) ==
  [s EXCEPT !.mixers = [n \in DOMAIN @ |-> IF @[n].name = o.to THEN ConnectInput(@[n], input) ELSE @[n]]]
AppendOutput(s, i, j, outputs, k, scan) ==
  LET o == outputs[k]
  IN IF ~s.ok THEN s
     ELSE IF ~OutputOk(o, FALSE, scan, {s.mixers[n].name : n \in DOMAIN s.mixers}) THEN Throws(s)
     ELSE IF o.kind # "mixer" THEN s
     ELSE IF \E n \in DOMAIN s.mixers : s.mixers[n].name = o.to /\ SlotFree(s.mixers[n]) THEN Connect(s, o, Input(i, j, k))
     ELSE Throws(s)
AppendOutputs(s, i, j, outputs, scan) ==
  FoldLeft(LAMBDA t, k : AppendOutput(t, i, j, outputs, k, scan), s, Indices(0, Len(outputs)))
InitOutputs(s, outputs) == IF init_outputs(outputs) THEN s ELSE Throws(s)
AppendChannel(s, i, j, c, scan) ==
  IF ~s.ok \/ (SettingsOk(c) /\ ~Counts(c)) THEN s
  ELSE IF ~SettingsOk(c) \/ Kept(c.outputs) = <<>> THEN Throws(s)
  ELSE InitOutputs(AppendOutputs(s, i, j, Kept(c.outputs), scan), c.outputs)
AppendChannels(s, i, old, chans, scan) ==
  FoldLeft(LAMBDA t, j : AppendChannel(t, i, j, chans[j], scan), s, Indices(old, Len(chans)))

(* try_append_channels(): all or nothing for the channels, but the slots    *)
(* taken before the failure stay taken.                                     *)
try_append_channels(r, i, old, chans) ==
  LET s == AppendChannels([ok |-> TRUE, mixers |-> r.mixers], i, old, chans, Scans(r.devices[i]))
      newCount == Max({old} \union {j \in DOMAIN chans : j > old /\ Counts(chans[j])})
      Published(j) == IF j <= old THEN r.devices[i].channels[j]
                      ELSE IF Counts(chans[j]) THEN Parsed(chans[j]) ELSE HalfParsed(chans[j])
      Lost(n) == Cardinality(s.mixers[n].inputs) - Cardinality(r.mixers[n].inputs)
  IN IF s.ok
     THEN [ok |-> TRUE,
           r |-> Running([r.devices EXCEPT ![i].channels = [j \in 1 .. newCount |-> Published(j)]], s.mixers)]
     ELSE [ok |-> FALSE,
           r |-> Running(r.devices, [n \in DOMAIN r.mixers |->
                   [r.mixers[n] EXCEPT !.lost = @ + Lost(n), !.enabled = s.mixers[n].enabled]])]

(* try_remove_channels(): down to `keep' channels.                          *)
try_remove_channels(r, i, keep) ==
  LET Gone(m) == {x \in m.inputs : x.dev = i /\ x.chan > keep}
  IN Running([r.devices EXCEPT ![i].channels = [j \in 1 .. keep |-> r.devices[i].channels[j]]],
             [n \in DOMAIN r.mixers |-> Masked(r.mixers[n], Gone(r.mixers[n]), TRUE)])

(* channel_request_enable(), channel_request_disable().                     *)
SetEnabled(r, i, j, on) ==
  LET Of(m) == {x \in m.inputs : x.dev = i /\ x.chan = j}
  IN IF r.devices[i].channels[j].enabled = on THEN r
     ELSE Running([r.devices EXCEPT ![i].channels[j].enabled = on],
                  [n \in DOMAIN r.mixers |->
                     IF on THEN [r.mixers[n] EXCEPT !.live = @ \union Of(r.mixers[n])]
                     ELSE Masked(r.mixers[n], Of(r.mixers[n]), FALSE)])
-----------------------------------------------------------------------------
(* compute_and_apply_diff(), one step per part: s = [r, skipped], of which  *)
(* the tuner's settings see one device, x = [live, skipped].                *)

Skip(s, what) == [s EXCEPT !.skipped = @ \union {what}]

CommonPrefix(live, chans) ==
  Max({n \in 0 .. Len(live) : n <= Len(chans) /\ \A j \in 1 .. n : live[j].signature = Signature(chans[j])})

ReplaceTail(s, i, chans) ==
  LET old == Len(s.r.devices[i].channels)
      keep == CommonPrefix(s.r.devices[i].channels, chans)
      kept == IF keep < old THEN try_remove_channels(s.r, i, keep) ELSE s.r
      added == try_append_channels(kept, i, keep, chans)
  IN IF keep = old /\ keep = Len(chans) THEN s
     ELSE IF Scans(s.r.devices[i]) THEN Skip(s, "scan")
     ELSE IF keep = Len(chans) THEN [s EXCEPT !.r = kept]
     ELSE IF Len(chans) > s.r.devices[i].capacity THEN Skip([s EXCEPT !.r = kept], "reserve_channels")
     ELSE IF added.ok THEN [s EXCEPT !.r = added.r] ELSE Skip([s EXCEPT !.r = added.r], "append")

\* Mutant: the last channel of the prefix is left out.
ToggleAllButLast(r, i, chans, prefix) ==
  FoldLeft(LAMBDA t, j : SetEnabled(t, i, j, chans[j].enabled), r, Indices(0, prefix - 1))

ToggleChannels(r, i, chans, prefix) ==
  FoldLeft(LAMBDA t, j : SetEnabled(t, i, j, chans[j].enabled), r, Indices(0, prefix))

(* centerfreq, sample_rate and gain; tuned says whether the tuner obeys.    *)
RetuneTo(x, d, tuned) ==
  IF Scans(d) \/ d.centerfreq = x.live.centerfreq THEN x
  ELSE IF tuned THEN [x EXCEPT !.live.centerfreq = d.centerfreq] ELSE Skip(x, "centerfreq")
RateTo(x, d, tuned) ==
  IF Scans(d) \/ d.sample_rate = x.live.sample_rate THEN x
  ELSE IF tuned THEN [x EXCEPT !.live.sample_rate = d.sample_rate] ELSE Skip(x, "sample_rate")
GainTo(x, d, tuned) ==
  IF d.gain = Unset \/ d.type = "file" THEN x
  ELSE IF tuned THEN [x EXCEPT !.live.gain = d.gain] ELSE Skip(x, "gain")

(* auto_ppm_reload() and the correction.                                    *)
ConfCorrection(d) == IF d.correction = Unset THEN 0 ELSE d.correction
CorrectionTo(x, d, tuned) ==
  IF d.correction = Unset \/ d.type = "file" THEN x
  ELSE IF tuned THEN [x EXCEPT !.live.correction = d.correction] ELSE Skip(x, "correction")
PpmReload(x, d, tuned) ==
  LET live == x.live
      noted == IF d.min_voters = live.min_voters THEN x ELSE Skip(x, "auto_ppm params")
      on == d.auto_ppm = "on"
      set == [noted EXCEPT !.live = [@ EXCEPT !.base = ConfCorrection(d), !.auto_ppm = IF on THEN "on" ELSE "off"]]
  IN IF live.auto_ppm = "absent" THEN CorrectionTo(IF on THEN Skip(x, "auto_ppm") ELSE x, d, tuned)
     ELSE IF d.min_voters = 0
     THEN IF live.auto_ppm = "on" THEN Skip(x, "auto_ppm") ELSE CorrectionTo(Skip(x, "auto_ppm"), d, tuned)
     ELSE IF on /\ d.correction # Unset /\ Magnitude(d.correction) > MaxPpm THEN Skip(x, "auto_ppm")
     ELSE IF on /\ ConfCorrection(d) = live.base THEN set
     ELSE CorrectionTo(set, d, tuned)
ReloadTuner(x, d, tuned) == PpmReload(GainTo(RateTo(RetuneTo(x, d, tuned), d, tuned), d, tuned), d, tuned)

TogglePrefix(s, i, chans, prefix) == [r |-> ToggleChannels(s.r, i, chans, prefix), skipped |-> s.skipped]
ReloadChannels(s, i, chans) ==
  TogglePrefix(ReplaceTail(s, i, chans), i, chans, CommonPrefix(s.r.devices[i].channels, chans))
TuneDevice(s, i, d, tuned) ==
  LET x == ReloadTuner([live |-> s.r.devices[i], skipped |-> s.skipped], d, tuned)
  IN [r |-> Running([s.r.devices EXCEPT ![i] = x.live], s.r.mixers), skipped |-> x.skipped]
ReloadDevice(s, i, d, tuned) ==
  IF d.type # s.r.devices[i].type THEN Skip(s, "type")
  ELSE IF d.mode # s.r.devices[i].mode THEN Skip(s, "mode")
  ELSE TuneDevice(ReloadChannels(s, i, Kept(d.channels)), i, d, tuned)
ReloadDevices(s, devs, tuned) ==
  IF Len(devs) # Len(s.r.devices) THEN Skip(s, "device count")
  ELSE FoldLeft(LAMBDA t, i : ReloadDevice(t, i, devs[i], tuned), s, Indices(0, Len(devs)))

ReloadMixer(s, i, m) ==
  IF m.name # s.r.mixers[i].name THEN Skip(s, "mixer name")
  ELSE IF m.remote # s.r.mixers[i].remote THEN Skip(s, "remote_inputs")
  ELSE [r |-> Running(s.r.devices, [s.r.mixers EXCEPT ![i].enabled = m.enabled]), skipped |-> s.skipped]
ReloadMixers(s, mix) ==
  IF Len(mix) # Len(s.r.mixers) THEN Skip(s, "mixer count")
  ELSE FoldLeft(LAMBDA t, i : ReloadMixer(t, i, mix[i]), s, Indices(0, Len(mix)))

compute_and_apply_diff(f, tuned) ==
  ReloadMixers(ReloadDevices([r |-> running, skipped |-> {}], Kept(f.devices), tuned), Kept(f.mixers))
-----------------------------------------------------------------------------
(* The operator and the program.                                            *)

StartProgram ==
  /\ ~running.up /\ Startable(conf_file)
  /\ running' = Started(conf_file) /\ skipped' = {}
  /\ UNCHANGED conf_file
StopProgram == running.up /\ running' = NotRunning /\ skipped' = {} /\ UNCHANGED conf_file

EditFile(f) == f # conf_file /\ conf_file' = f /\ skipped' = {} /\ UNCHANGED running

Applied(s) == running' = s.r /\ skipped' = s.skipped
ReloadDiff(tuned) ==
  /\ running.up
  /\ Applied(compute_and_apply_diff(conf_file, tuned))
  /\ UNCHANGED conf_file

(* The control socket's own commands move the program away from its file.   *)
Command(r) == running.up /\ running' = r /\ skipped' = {} /\ UNCHANGED conf_file
CommandChannel(i, j) == Command(SetEnabled(running, i, j, ~running.devices[i].channels[j].enabled))
CommandMixer(n) == Command(Running(running.devices, [running.mixers EXCEPT ![n].enabled = ~@]))
CommandCorrection(i) ==
  running.devices[i].auto_ppm = "on" /\ running.devices[i].correction # MaxPpm
    /\ Command(Running([running.devices EXCEPT ![i].correction = MaxPpm], running.mixers))

ConfNext ==
  \/ StartProgram
  \/ StopProgram
  \/ \E f \in Files : EditFile(f)
  \/ \E tuned \in BOOLEAN : ReloadDiff(tuned)
  \/ \E i \in DOMAIN running.devices :
       CommandCorrection(i) \/ \E j \in DOMAIN running.devices[i].channels : CommandChannel(i, j)
  \/ \E n \in DOMAIN running.mixers : CommandMixer(n)

ConfSpec == ConfInit /\ [][ConfNext]_confVars
-----------------------------------------------------------------------------
ConfTypeOK ==
  /\ conf_file \in Files
  /\ running.up \in BOOLEAN
  /\ \A i \in DOMAIN running.devices :
       /\ running.devices[i].auto_ppm \in {"absent", "off", "on"}
       /\ Len(running.devices[i].channels) <= running.devices[i].capacity

(* Every mixer's slots belong to the published channels that feed it, never  *)
(* to one that was removed, and fit its capacity, however often the file is  *)
(* edited and reloaded (mixer.cpp:74-119, live_reconfig.cpp:771-868).        *)
SlotsOwned ==
  \A n \in DOMAIN running.mixers : LET m == running.mixers[n] IN
    /\ m.inputs = OwnedInputs(running.devices, m.name)
    /\ m.live \subseteq m.inputs
    /\ Cardinality(m.inputs) + m.lost + m.remote <= m.capacity

(* A device runs as a restart with file device d would make it run, as far   *)
(* as reload_diff claims to follow the file: what the file no longer sets is *)
(* left as it is, and a correction is auto_ppm's own while it is on.         *)
SameDevice(live, d) == LET fresh == StartDevice(d) IN
  /\ live.channels = fresh.channels
  /\ ~Scans(d) => live.centerfreq = d.centerfreq /\ live.sample_rate = d.sample_rate
  /\ d.gain # Unset /\ d.type # "file" => live.gain = d.gain
  /\ live.auto_ppm = "on" <=> d.auto_ppm = "on"
  /\ d.auto_ppm = "on" => live.base = fresh.base
  /\ d.auto_ppm # "on" /\ d.correction # Unset /\ d.type # "file" => live.correction = d.correction
SameMixer(live, fresh) ==
  /\ live.inputs = fresh.inputs
  /\ fresh.inputs # {} \/ fresh.remote > 0 => live.enabled = fresh.enabled
NoLegacy(f) ==
  \A i \in DOMAIN Kept(f.devices) : LET chans == Kept(Kept(f.devices)[i].channels) IN \A j \in DOMAIN chans : Counts(chans[j])
RunsAs(r, f) ==
  /\ DOMAIN r.devices = DOMAIN Kept(f.devices) /\ \A i \in DOMAIN r.devices : SameDevice(r.devices[i], Kept(f.devices)[i])
  /\ DOMAIN r.mixers = DOMAIN Kept(f.mixers) /\ \A n \in DOMAIN r.mixers : SameMixer(r.mixers[n], Started(f).mixers[n])

(* A reload_diff that reports nothing as needing a restart has made the      *)
(* restart unnecessary: the program runs what it would run if it were        *)
(* started from the file, whatever was edited, reloaded, commanded or failed *)
(* before (live_reconfig.cpp:771-1005).  Files with a legacy channel are     *)
(* excepted: reload_diff counts channels there that startup does not.        *)
ReloadIsRestart ==
  [][ /\ running.up /\ skipped' = {} /\ NoLegacy(conf_file) /\ Startable(conf_file)
      /\ ReloadDiff(TRUE) \/ ReloadDiff(FALSE)
    => RunsAs(running', conf_file)]_confVars

(* And a reload_diff of the file the program was started from, with nothing  *)
(* changed in between, reports nothing and changes nothing, unless a mixer   *)
(* without inputs is declared.                                               *)
FromThisFile == running = Started(conf_file) /\ \A n \in DOMAIN running.mixers : HasInput(running.mixers[n])
ReloadIsIdle ==
  [][running.up /\ NoLegacy(conf_file) /\ FromThisFile /\ ReloadDiff(TRUE) => running' = running /\ skipped' = {}]_confVars

ConfigSound == []SlotsOwned /\ ReloadIsRestart /\ ReloadIsIdle
=============================================================================
