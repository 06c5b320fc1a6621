----------------------------- MODULE MCServices -----------------------------
(* The components around the channels share no state with one another, so   *)
(* one of them is picked for a behaviour and the others rest: the run checks *)
(* each of them by itself, in one state space that is the sum of theirs and  *)
(* not their product.                                                        *)
EXTENDS InputBuffer, Pipeline, ScanTags, OutputFile, Icecast, TagUpdates, Uploads, RemoteMixer, ConfigFile

VARIABLE focus     \* the component that runs in this behaviour

Components == {"buffer", "pipeline", "scan", "file", "icecast", "tags", "uploads", "remote", "config"}

(* Constants.                                                                *)
MCFileModes == LET plain == [split |-> FALSE, append |-> TRUE, continuous |-> FALSE, txName |-> FALSE, dropShorter |-> 0, minRx |-> 0] IN
  {[plain EXCEPT !.split = TRUE], [plain EXCEPT !.split = TRUE, !.txName = TRUE, !.dropShorter = 3],
   [plain EXCEPT !.split = TRUE, !.minRx = 2], plain, [plain EXCEPT !.append = FALSE, !.continuous = TRUE]}

Out(kind) == [kind |-> kind, disable |-> FALSE, bad |-> FALSE, fails |-> FALSE, times |-> FALSE, tags |-> FALSE, split |-> FALSE, rdio |-> FALSE, continuous |-> FALSE, to |-> ""]
ToMixer == [Out("mixer") EXCEPT !.to = "m"]
Mp3 == Out("file")
Chan(id, outs) == [id |-> id, disable |-> FALSE, enabled |-> TRUE, bad |-> FALSE, legacy |-> FALSE, outputs |-> outs]
ChanA == Chan("a", <<ToMixer>>)
ChanB == Chan("b", <<[Mp3 EXCEPT !.split = TRUE, !.rdio = TRUE], ToMixer>>)
Muted == [ChanA EXCEPT !.enabled = FALSE]
Broken == [Chan("c", <<Mp3>>) EXCEPT !.bad = TRUE]
(* The mixer is connected before the other output turns out bad, or unusable. *)
BadOutput == Chan("d", <<ToMixer, [Mp3 EXCEPT !.bad = TRUE]>>)
NoHost == Chan("e", <<ToMixer, [Out("udp_stream") EXCEPT !.fails = TRUE]>>)
Legacy == [Chan("l", <<Mp3>>) EXCEPT !.legacy = TRUE]
Dev(chans) == [disable |-> FALSE, bad |-> FALSE, type |-> "rtlsdr", mode |-> "multichannel", sample_rate |-> 2, centerfreq |-> 1,
  gain |-> Unset, correction |-> 0, auto_ppm |-> "absent", min_voters |-> 1, reserve |-> 2, channels |-> chans]
Mix == [name |-> "m", disable |-> FALSE, bad |-> FALSE, enabled |-> TRUE, remote |-> 0, reserve |-> 1, outputs |-> <<Mp3>>]
File(devs, mix) == [bad |-> FALSE, devices |-> devs, mixers |-> mix]
ChannelLists == {<<ChanA>>, <<ChanB, ChanA>>, <<Muted, ChanB>>, <<ChanA, ChanB, Broken>>, <<ChanA, Legacy, ChanB>>,
  <<ChanA, BadOutput>>, <<ChanA, NoHost>>}
Scanner == [Dev(<<Chan("s", <<Mp3>>)>>) EXCEPT !.mode = "scan", !.reserve = 0]
Settings == LET d == Dev(<<ChanA>>) IN
  {[d EXCEPT !.gain = 1, !.centerfreq = 2, !.sample_rate = 3],
   [d EXCEPT !.auto_ppm = "on"], [d EXCEPT !.auto_ppm = "off", !.correction = 1]}
MCFiles == {File(<<Dev(cl)>>, <<Mix>>) : cl \in ChannelLists} \union {File(<<d>>, <<Mix>>) : d \in Settings \union {Scanner}}
  \union {File(<<Dev(<<Chan("a", <<Mp3>>)>>), Scanner>>, <<Mix>>), File(<<Dev(<<ChanA>>)>>, <<[Mix EXCEPT !.enabled = FALSE]>>)}
-----------------------------------------------------------------------------
(* Initially each component is in one of its initial states if it is the one *)
(* that runs, in one fixed initial state if it is not.                       *)
Fixed(c, default) == focus = c \/ default
ServicesInit ==
  /\ focus \in Components
  /\ BufInit
  /\ PipeInit /\ Fixed("pipeline", ~manyDemods /\ ~manyOutputs /\ ~mixers)
  /\ (manyDemods => ~manyOutputs) /\ (mixers <=> manyOutputs)
  /\ ScanInit
  /\ FileInit /\ Fixed("file", mode.continuous)
  /\ IceInit /\ Fixed("icecast", shout # Null)
  /\ TagInit
  /\ UpInit /\ Fixed("uploads", uploadPc = "idle" /\ ~deleteAfter)
  /\ RemoteInit /\ Fixed("remote", verdict = "ok" /\ listening)
  /\ ConfInit /\ Fixed("config", conf_file = File(<<Scanner>>, <<Mix>>))

Turn(c, step, v) == IF focus = c THEN step ELSE UNCHANGED v
ServicesNext ==
  /\ Turn("buffer", BufNext, bufVars)
  /\ Turn("pipeline", PipeNext, pipeVars)
  /\ Turn("scan", ScanNext, scanVars)
  /\ Turn("file", FileNext, fileVars)
  /\ Turn("icecast", IceNext, iceVars)
  /\ Turn("tags", TagNext, tagVars)
  /\ Turn("uploads", UpNext, upVars)
  /\ Turn("remote", RemoteNext, remoteVars)
  /\ Turn("config", ConfNext, confVars)
  /\ UNCHANGED focus

servicesVars ==
  <<bufVars, pipeVars, scanVars, fileVars, iceVars, tagVars, upVars, remoteVars, confVars, focus>>

(* Each component's own fairness.                                            *)
ServicesSpec ==
  /\ ServicesInit /\ [][ServicesNext]_servicesVars
  /\ \A t \in Devs : WF_pipeVars(focus = "pipeline" /\ DemodOwed(t))
  /\ \A o \in 0 .. PipeDevices : WF_pipeVars(focus = "pipeline" /\ OutputOwed(o))
  /\ WF_pipeVars(focus = "pipeline" /\ MainStep)
  /\ WF_scanVars(focus = "scan" /\ TagOutput)
  /\ WF_iceVars(focus = "icecast" /\ Sender)
  /\ WF_iceVars(focus = "icecast" /\ Checker)
  /\ WF_iceVars(focus = "icecast" /\ ServerDropsIdle)
  /\ SF_iceVars(focus = "icecast" /\ LossNoticed)
  /\ \A s \in Streams : WF_tagVars(focus = "tags" /\ TagStep(s))
  /\ WF_tagVars(focus = "tags" /\ TagWorker)
  /\ WF_tagVars(focus = "tags" /\ WorkerLeft)
  /\ WF_upVars(focus = "uploads" /\ UploadWorker)
  /\ WF_upVars(focus = "uploads" /\ JoinsWorker)
  /\ WF_remoteVars(focus = "remote" /\ RemoteReceiver)
  /\ WF_remoteVars(focus = "remote" /\ mixer_remote_send)

(* Every variable of every component has its type (each module's own type    *)
(* invariant).                                                               *)
ServicesTypeOK ==
  /\ focus \in Components
  /\ BufTypeOK /\ PipeTypeOK /\ ScanTypeOK /\ FileTypeOK /\ IceTypeOK
  /\ TagTypeOK /\ UpTypeOK /\ RemoteTypeOK /\ ConfTypeOK
=============================================================================
