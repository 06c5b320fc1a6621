------------------------------ MODULE Pipeline ------------------------------
(***************************************************************************)
(* Batches from the demodulators to the output threads: the threads main() *)
(* sets up, class Signal, the waveavail flag of a device, the flush of an  *)
(* output thread that exits, and the order in which main() ends them       *)
(* (rtl_airband.cpp, rtl_airband.h, output.cpp).  What is delivered of a   *)
(* mixer is in Mixer, of a channel in ChannelLifecycle.                    *)
(***************************************************************************)
EXTENDS Integers

CONSTANTS
  PipeDevices,   \* device_count
  MaxBatches     \* bound: batches of a device

ASSUME PipeAssumption == PipeDevices \in Nat \ {0} /\ MaxBatches \in Nat

VARIABLES
  manyDemods, manyOutputs, mixers,   \* multiple_demod_threads, multiple_output_threads, mixer_count > 0
  waveavail, output_overrun_count,
  made, delivered,                   \* history: batches demodulated and handed to process_outputs()
  pending_,                          \* Signal, one per output thread
  demod, demodDev, output, outputDev,
  exiting,                           \* do_exit
  main, joining

pipeConfig == <<manyDemods, manyOutputs, mixers>>
batchVars == <<waveavail, output_overrun_count, made, delivered>>
pipeVars == <<pipeConfig, batchVars, pending_, demod, demodDev, output, outputDev, exiting, main, joining>>

Devs == 0 .. PipeDevices - 1
Demods == IF manyDemods THEN Devs ELSE {0}

(* One output thread for everything; or one per demodulator and a last one for the mixers. *)
DeviceOutputs == IF manyOutputs THEN Demods ELSE {0}
MixerOutput == IF manyOutputs THEN PipeDevices ELSE 0
Outputs == DeviceOutputs \union (IF mixers THEN {MixerOutput} ELSE {})

(* The devices [first, last] of a thread; no device for the output thread of the mixers. *)
First(t, many) == IF many THEN t ELSE 0
OutputFirst(o) == First(o, manyOutputs /\ manyDemods)
LastDev(t, many) == IF many THEN t ELSE PipeDevices - 1
HasDevices(o) == o \in DeviceOutputs
SignalOf(t) == IF manyOutputs THEN t ELSE 0

PipeInit ==
  /\ manyDemods \in BOOLEAN /\ manyOutputs \in BOOLEAN /\ mixers \in BOOLEAN
  /\ waveavail = [d \in Devs |-> FALSE] /\ output_overrun_count = [d \in Devs |-> 0]
  /\ made = [d \in Devs |-> 0] /\ delivered = [d \in Devs |-> 0]
  /\ pending_ = [o \in 0 .. PipeDevices |-> FALSE]
  /\ demod = [t \in Devs |-> "loop"] /\ demodDev = [t \in Devs |-> t]
  /\ output = [o \in 0 .. PipeDevices |-> "top"] /\ outputDev = [o \in 0 .. PipeDevices |-> 0]
  /\ exiting = FALSE /\ main = "demods" /\ joining = 0

(***************************************************************************)
(* Signal: pending_ remembers a send() nobody waits for.                   *)
(***************************************************************************)
\* Mutant: a send() nobody waits for is forgotten.
SendToWaiter(o) == pending_' = [pending_ EXCEPT ![o] = output[o] = "wait"]

Send(o) == pending_' = [pending_ EXCEPT ![o] = TRUE]
Wait(o) == pending_[o] /\ pending_' = [pending_ EXCEPT ![o] = FALSE]

(***************************************************************************)
(* demodulate()                                                            *)
(***************************************************************************)
DemodAt(t, pc) == demod[t] = pc /\ UNCHANGED <<pipeConfig, output, outputDev, exiting, main, joining>>
NextDev(t) ==
  demodDev' = [demodDev EXCEPT ![t] = IF @ = LastDev(t, manyDemods) THEN First(t, manyDemods) ELSE @ + 1]

DemodExits(t) ==
  /\ DemodAt(t, "loop") /\ exiting
  /\ demod' = [demod EXCEPT ![t] = "exited"]
  /\ UNCHANGED <<batchVars, pending_, demodDev>>

(* Not enough samples, or not yet a whole batch of them. *)
NoBatch(t) ==
  /\ DemodAt(t, "loop") /\ ~exiting
  /\ NextDev(t)
  /\ UNCHANGED <<batchVars, pending_, demod>>

(* The channels' waveout is rewritten. *)
WriteBatch(t) ==
  /\ DemodAt(t, "loop") /\ ~exiting /\ made[demodDev[t]] < MaxBatches
  /\ made' = [made EXCEPT ![demodDev[t]] = @ + 1]
  /\ demod' = [demod EXCEPT ![t] = "flag"]
  /\ UNCHANGED <<waveavail, output_overrun_count, delivered, pending_, demodDev>>

FlagBatch(t) == LET d == demodDev[t] IN
  /\ DemodAt(t, "flag")
  /\ IF waveavail[d]
     THEN output_overrun_count' = [output_overrun_count EXCEPT ![d] = @ + 1] /\ UNCHANGED waveavail
     ELSE waveavail' = [waveavail EXCEPT ![d] = TRUE] /\ UNCHANGED output_overrun_count
  /\ demod' = [demod EXCEPT ![t] = "send"]
  /\ UNCHANGED <<made, delivered, pending_, demodDev>>

SendBatch(t) ==
  /\ DemodAt(t, "send")
  /\ Send(SignalOf(t))
  /\ demod' = [demod EXCEPT ![t] = "loop"]
  /\ NextDev(t)
  /\ UNCHANGED batchVars

DemodStep(t) == DemodExits(t) \/ NoBatch(t) \/ WriteBatch(t) \/ FlagBatch(t) \/ SendBatch(t)

(***************************************************************************)
(* output_thread()                                                         *)
(***************************************************************************)
OutputAt(o, pc) == output[o] = pc /\ UNCHANGED <<pipeConfig, demod, demodDev, exiting, main, joining>>
Visit(o, pc, d) == output' = [output EXCEPT ![o] = pc] /\ outputDev' = [outputDev EXCEPT ![o] = d]
Pass(o, pc) == IF HasDevices(o) THEN Visit(o, pc, OutputFirst(o)) ELSE Visit(o, IF pc = "flush" THEN "exited" ELSE "top", 0)
NextOfPass(o, pc) ==
  IF outputDev[o] = LastDev(o, manyOutputs /\ manyDemods)
  THEN Visit(o, IF pc = "flush" THEN "exited" ELSE "top", 0)
  ELSE Visit(o, pc, outputDev[o] + 1)

OutputTop(o) ==
  /\ OutputAt(o, "top")
  /\ IF exiting THEN Pass(o, "flush") ELSE Visit(o, "wait", 0)
  /\ UNCHANGED <<batchVars, pending_>>

OutputWakes(o) ==
  /\ OutputAt(o, "wait") /\ Wait(o)
  /\ Pass(o, "device")
  /\ UNCHANGED batchVars

NothingAvailable(o, pc) ==
  /\ OutputAt(o, pc) /\ ~waveavail[outputDev[o]]
  /\ NextOfPass(o, pc)
  /\ UNCHANGED <<batchVars, pending_>>

BeginOutputs(o, pc) ==
  /\ OutputAt(o, pc) /\ waveavail[outputDev[o]]
  /\ Visit(o, IF pc = "flush" THEN "flushing" ELSE "outputs", outputDev[o])
  /\ UNCHANGED <<batchVars, pending_>>

EndOutputs(o, pc) == LET d == outputDev[o] IN
  /\ OutputAt(o, IF pc = "flush" THEN "flushing" ELSE "outputs")
  /\ waveavail' = [waveavail EXCEPT ![d] = FALSE]
  /\ delivered' = [delivered EXCEPT ![d] = @ + 1]
  /\ NextOfPass(o, pc)
  /\ UNCHANGED <<made, output_overrun_count, pending_>>

OutputPass(o, pc) == NothingAvailable(o, pc) \/ BeginOutputs(o, pc) \/ EndOutputs(o, pc)
OutputStep(o) == OutputTop(o) \/ OutputWakes(o) \/ OutputPass(o, "device") \/ OutputPass(o, "flush")

(* mixer_thread() signals the last output thread while it runs. *)
MixerSends ==
  /\ mixers /\ ~exiting /\ ~pending_[MixerOutput]
  /\ Send(MixerOutput)
  /\ UNCHANGED <<pipeConfig, batchVars, demod, demodDev, output, outputDev, exiting, main, joining>>

(***************************************************************************)
(* main(): join the demodulators, then signal and join each output thread. *)
(***************************************************************************)
Signalled ==
  /\ ~exiting /\ exiting' = TRUE
  /\ UNCHANGED <<pipeConfig, batchVars, pending_, demod, demodDev, output, outputDev, main, joining>>

MainAt(pc) == main = pc /\ UNCHANGED <<pipeConfig, batchVars, demod, demodDev, output, outputDev, exiting>>

DemodsJoined ==
  /\ MainAt("demods") /\ \A t \in Demods : demod[t] = "exited"
  /\ main' = "send" /\ joining' = 0 /\ UNCHANGED pending_

WakeOutput ==
  /\ MainAt("send") /\ Send(joining)
  /\ main' = "join" /\ UNCHANGED joining

OutputJoined ==
  /\ MainAt("join") /\ output[joining] = "exited"
  /\ IF \E o \in Outputs : o > joining
     THEN main' = "send" /\ joining' = CHOOSE o \in Outputs : o > joining /\ \A p \in Outputs : p > joining => o <= p
     ELSE main' = "done" /\ UNCHANGED joining
  /\ UNCHANGED pending_

MainStep == DemodsJoined \/ WakeOutput \/ OutputJoined

PipeNext ==
  \/ \E t \in Demods : DemodStep(t)
  \/ \E o \in Outputs : OutputStep(o)
  \/ MixerSends \/ Signalled \/ MainStep

(* The threads run; a source of samples need not, nor a signal come. *)
DemodOwed(t) == t \in Demods /\ (DemodExits(t) \/ FlagBatch(t) \/ SendBatch(t))
OutputOwed(o) == o \in Outputs /\ OutputStep(o)

PipeSpec ==
  /\ PipeInit /\ [][PipeNext]_pipeVars
  /\ \A t \in Devs : WF_pipeVars(DemodOwed(t))
  /\ \A o \in 0 .. PipeDevices : WF_pipeVars(OutputOwed(o))
  /\ WF_pipeVars(MainStep)

PipeTypeOK ==
  /\ waveavail \in [Devs -> BOOLEAN] /\ pending_ \in [0 .. PipeDevices -> BOOLEAN]
  /\ made \in [Devs -> 0 .. MaxBatches] /\ delivered \in [Devs -> 0 .. MaxBatches]
  /\ demodDev \in [Devs -> Devs] /\ outputDev \in [0 .. PipeDevices -> Devs]
  /\ main \in {"demods", "send", "join", "done"} /\ joining \in Outputs

\* Every batch a demodulator completed was handed to the outputs exactly once, is waiting, or is
\* counted in output_overrun_count (rtl_airband.cpp:760), however the two threads interleave.
BatchesAccounted ==
  \A d \in Devs :
    made[d] = delivered[d] + output_overrun_count[d] + (IF waveavail[d] THEN 1 ELSE 0)
              + (IF \E t \in Demods : demod[t] = "flag" /\ demodDev[t] = d THEN 1 ELSE 0)

\* No wake-up is lost, whoever else sends on the same Signal (rtl_airband.h:375): a batch flagged
\* before the program is told to exit is delivered, in the loop or by the flush of a thread that
\* leaves it (output.cpp:1795); one flagged later may find its output thread gone.  Once told to
\* exit, every thread ends and main() joins them all.
PipelineDrains ==
  /\ \A d \in Devs : waveavail[d] /\ ~exiting ~> ~waveavail[d]
  /\ exiting ~> main = "done"

PipelineSound == []BatchesAccounted /\ PipelineDrains
=============================================================================
