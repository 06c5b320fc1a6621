------------------------------- MODULE Mixer -------------------------------
(***************************************************************************)
(* One mixer of RTLSDR-Airband (src/src/mixer.cpp): its input slots, the   *)
(* thread that mixes them, the output thread that hands the mixed batch    *)
(* to the mixer's outputs, and the two threads that change the slots while *)
(* all of that runs: the output thread of a device (channel enable,        *)
(* disable and removal) and the control socket thread (live append, which  *)
(* connects an input, and mixer enable/disable requests).                  *)
(*                                                                         *)
(* Audio is abstracted to where it came from: a slot's wavein buffer is    *)
(* the source that filled it last, the mixed waveform is the set of slots  *)
(* summed into it since it was last cleared.  Amplification and balance    *)
(* are left out.                                                           *)
(*                                                                         *)
(* The slot arrays never move once mixer_finalize_capacity() has run, so   *)
(* they are functions over 0 .. Capacity - 1; only input_count grows.      *)
(***************************************************************************)
EXTENDS Naturals, Integers, FiniteSets

CONSTANTS
  Chan,                  \* device channels whose config names this mixer as an output
  StartChan,             \* those connected by parse_devices(), before any thread runs
  Remotes,               \* number of remote_inputs, connected by parse_mixers() in slots 0 .. Remotes-1
  ReserveInputs,         \* reserve_inputs: slots added by mixer_finalize_capacity()
  Requests,              \* the mixer_enable (1) and mixer_disable (0) requests the control socket may bring
  MultipleOutputThreads, \* multiple_output_threads: does the mixer have an output thread of its own?
  NoChan,                \* "no channel": an empty wavein, an idle thread
  Remote                 \* the source of a slot fed by a remote sender

ASSUME MixerAssumption ==
  /\ IsFiniteSet(Chan)
  /\ StartChan \subseteq Chan
  /\ Remotes \in Nat
  /\ ReserveInputs \in Nat
  /\ Requests \subseteq {0, 1}
  /\ MultipleOutputThreads \in BOOLEAN
  /\ NoChan \notin Chan
  /\ Remote \notin Chan
  /\ NoChan # Remote

MIX_DIVISOR == 2
StartCount  == Remotes + Cardinality(StartChan)
Capacity    == StartCount + ReserveInputs
Slot        == 0 .. Capacity - 1
NoSlot      == -1

VARIABLES
  \* mixer_t
  input_count, input_mask, input_removed, inputs_todo,
  enabled, pending_enable_request, interval,
  \* mixinput_t of every slot; `initialised' is the slots whose mutex and wavein exist
  ready, has_signal, wavein, initialised,
  \* mixer_t::channel: its state, the slots summed in waveout, output_t::enabled of its outputs
  state, waveout, outputs_enabled,
  \* the device channels and the slot each one's mixer_data names
  channel, slotOf,
  \* where each thread is
  mixPc, mixSlot, outPc, devPc, devChan, ctlPc, ctlChan, ctlSlot,
  \* history: the slots whose audio the mixer thread took since the outputs last finished
  \* a batch, and the most slots that were ever in use at once
  taken, peak

slotVars == <<input_count, input_mask, input_removed, inputs_todo, ready, has_signal, wavein, initialised>>
outVars  == <<state, waveout, outputs_enabled>>
mixVars  == <<interval, mixPc, mixSlot, taken>>
devVars  == <<channel, slotOf, devPc, devChan>>
ctlVars  == <<ctlPc, ctlChan, ctlSlot, peak>>
vars == <<slotVars, enabled, pending_enable_request, outVars, mixVars, devVars, ctlVars, outPc>>

Connected  == 0 .. input_count - 1
\* Mutant: reuse any masked slot (a disabled channel's too).
TombstonesByMask == {j \in Connected : ~input_mask[j]}
Tombstones == {j \in Connected : input_removed[j]}
InUse      == Connected \ Tombstones

-----------------------------------------------------------------------------
(* Startup: parse_mixers(), parse_devices(), mixer_finalize_capacity(), and *)
(* main()'s mixer_disable() of a mixer configured with enabled = false.     *)

StartSlots ==
  {f \in [StartChan -> Remotes .. StartCount - 1] : \A c, d \in StartChan : c # d => f[c] # f[d]}

Init ==
  /\ input_count = StartCount
  /\ input_mask = [j \in Slot |-> j < StartCount]
  /\ input_removed = [j \in Slot |-> FALSE]
  /\ inputs_todo = [j \in Slot |-> j < StartCount]
  /\ ready = [j \in Slot |-> FALSE]
  /\ has_signal = [j \in Slot |-> FALSE]
  /\ wavein = [j \in Slot |-> NoChan]
  /\ initialised = 0 .. StartCount - 1
  /\ \E config_wants_disabled \in BOOLEAN :
       /\ enabled = (StartCount > 0 /\ ~config_wants_disabled)
       /\ outputs_enabled = (StartCount > 0 => ~config_wants_disabled)
  /\ pending_enable_request = -1
  /\ interval = MIX_DIVISOR
  /\ state = "CH_DIRTY"
  /\ waveout = {}
  /\ \E f \in StartSlots, on \in [StartChan -> {"enabled", "disabled"}] :
       /\ channel = [c \in Chan |-> IF c \in StartChan THEN on[c] ELSE "absent"]
       /\ slotOf = [c \in Chan |-> IF c \in StartChan THEN f[c] ELSE NoSlot]
  /\ mixPc = "sleep" /\ mixSlot = 0
  /\ outPc = "idle"
  /\ devPc = "idle" /\ devChan = NoChan
  /\ ctlPc = "idle" /\ ctlChan = NoChan /\ ctlSlot = NoSlot
  /\ taken = {}
  /\ peak = StartCount

-----------------------------------------------------------------------------
(* The mixer thread: one tick every half batch.                            *)

\* The previous batch is still CH_READY: wait half a batch for the output thread.
TickWait ==
  /\ mixPc = "sleep"
  /\ enabled
  /\ state = "CH_READY"
  /\ interval - 1 > 0
  /\ interval' = interval - 1
  /\ UNCHANGED <<slotVars, enabled, pending_enable_request, outVars, mixPc, mixSlot, taken,
                 devVars, ctlVars, outPc>>

\* Start the pass over the inputs, on time or because the wait ran out (an overrun).
TickGather ==
  /\ mixPc = "sleep"
  /\ enabled
  /\ \/ /\ state # "CH_READY"
        /\ UNCHANGED interval
     \/ /\ state = "CH_READY"
        /\ interval - 1 <= 0
        /\ interval' = interval - 1
  /\ mixPc' = "gather"
  /\ mixSlot' = 0
  /\ UNCHANGED <<slotVars, enabled, pending_enable_request, outVars, taken, devVars, ctlVars, outPc>>

\* Mutant: clear whatever state but CH_WORKING.
ClearsLate == state # "CH_WORKING"
FirstOfBatch == state = "CH_DIRTY"

\* One iteration of the pass, under the slot's mutex: a good input that is ready
\* is added to waveout, which the first one of a batch clears.
MixInput ==
  /\ mixPc = "gather"
  /\ mixSlot < input_count
  /\ mixSlot' = mixSlot + 1
  /\ IF inputs_todo[mixSlot] /\ input_mask[mixSlot] /\ ready[mixSlot]
     THEN LET sum == IF FirstOfBatch THEN {} ELSE waveout
          IN /\ state' = IF FirstOfBatch THEN "CH_WORKING" ELSE state
             /\ waveout' = IF has_signal[mixSlot] THEN sum \union {mixSlot} ELSE sum
             /\ taken' = IF has_signal[mixSlot] THEN taken \union {mixSlot} ELSE taken
             /\ ready' = [ready EXCEPT ![mixSlot] = FALSE]
             /\ inputs_todo' = [inputs_todo EXCEPT ![mixSlot] = FALSE]
     ELSE UNCHANGED <<state, waveout, taken, ready, inputs_todo>>
  /\ UNCHANGED <<input_count, input_mask, input_removed, has_signal, wavein, initialised, enabled,
                 pending_enable_request, outputs_enabled, interval, mixPc, devVars, ctlVars, outPc>>

AllGoodInputsHandled == \A k \in Connected : ~(inputs_todo[k] /\ input_mask[k])

\* Mutant: inputs handled in this batch stay handled.
TodoNotReset == inputs_todo
NextTodo == [k \in Slot |-> k < input_count \/ inputs_todo[k]]

\* Mutant: the interval is not restarted.
EmitKeepsInterval ==
  /\ mixPc = "gather"
  /\ mixSlot >= input_count
  /\ AllGoodInputsHandled \/ interval = 0
  /\ state' = "CH_READY"
  /\ inputs_todo' = NextTodo
  /\ mixPc' = "sleep"
  /\ mixSlot' = 0
  /\ UNCHANGED <<input_count, input_mask, input_removed, ready, has_signal, wavein, initialised, enabled,
                 pending_enable_request, waveout, outputs_enabled, interval, taken, devVars, ctlVars, outPc>>

\* After the pass: emit the batch, or give the late inputs another half batch.
Emit ==
  /\ mixPc = "gather"
  /\ mixSlot >= input_count
  /\ AllGoodInputsHandled \/ interval = 0
  /\ state' = "CH_READY"
  /\ interval' = MIX_DIVISOR
  /\ inputs_todo' = NextTodo
  /\ mixPc' = "sleep"
  /\ mixSlot' = 0
  /\ UNCHANGED <<input_count, input_mask, input_removed, ready, has_signal, wavein, initialised, enabled,
                 pending_enable_request, waveout, outputs_enabled, taken, devVars, ctlVars, outPc>>

\* Mutant: the late inputs get another half batch for ever.
PostponeForEver ==
  /\ mixPc = "gather"
  /\ mixSlot >= input_count
  /\ ~AllGoodInputsHandled
  /\ interval # 0
  /\ mixPc' = "sleep"
  /\ mixSlot' = 0
  /\ UNCHANGED <<slotVars, enabled, pending_enable_request, outVars, interval, taken, devVars, ctlVars, outPc>>

Postpone ==
  /\ mixPc = "gather"
  /\ mixSlot >= input_count
  /\ ~AllGoodInputsHandled
  /\ interval # 0
  /\ interval' = interval - 1
  /\ mixPc' = "sleep"
  /\ mixSlot' = 0
  /\ UNCHANGED <<slotVars, enabled, pending_enable_request, outVars, taken, devVars, ctlVars, outPc>>

MixerThread == TickWait \/ TickGather \/ MixInput \/ Emit \/ Postpone

-----------------------------------------------------------------------------
(* The output thread that owns the mixer's outputs.  With one output thread *)
(* for everything it does not run while it is inside a device's handlers.  *)

OutputThreadFree == outPc = "idle" /\ (MultipleOutputThreads \/ devPc = "idle")

\* mixer_enable(), up to the flip of `enabled': every connected slot is unmasked.
ApplyMixerEnable ==
  /\ OutputThreadFree
  /\ pending_enable_request = 1
  /\ pending_enable_request' = -1
  /\ input_mask' = [i \in Slot |-> i < input_count \/ input_mask[i]]
  /\ inputs_todo' = [i \in Slot |-> i < input_count \/ inputs_todo[i]]
  /\ outputs_enabled' = TRUE
  /\ outPc' = "enabling"
  /\ UNCHANGED <<input_count, input_removed, ready, has_signal, wavein, initialised, enabled, state, waveout,
                 mixVars, devVars, ctlVars>>

FinishMixerEnable ==
  /\ outPc = "enabling"
  /\ enabled' = TRUE
  /\ outPc' = "idle"
  /\ UNCHANGED <<slotVars, pending_enable_request, outVars, mixVars, devVars, ctlVars>>

\* mixer_disable() on request.
ApplyMixerDisable ==
  /\ OutputThreadFree
  /\ pending_enable_request = 0
  /\ pending_enable_request' = -1
  /\ enabled' = FALSE
  /\ outputs_enabled' = FALSE
  /\ UNCHANGED <<slotVars, state, waveout, mixVars, devVars, ctlVars, outPc>>

\* Mutant: a batch still in work is handed over too.
BatchStarted == enabled /\ state # "CH_DIRTY"
BatchReady == enabled /\ state = "CH_READY"

\* process_outputs() of a ready batch, then CH_DIRTY.
DeliverBegin ==
  /\ OutputThreadFree
  /\ BatchReady
  /\ outPc' = "deliver"
  /\ UNCHANGED <<slotVars, enabled, pending_enable_request, outVars, mixVars, devVars, ctlVars>>

\* Mutant: CH_DIRTY is forgotten.
DeliverEndKeepsReady ==
  /\ outPc = "deliver"
  /\ taken' = {}
  /\ outPc' = "idle"
  /\ UNCHANGED <<slotVars, enabled, pending_enable_request, outVars, interval, mixPc, mixSlot, devVars, ctlVars>>

DeliverEnd ==
  /\ outPc = "deliver"
  /\ state' = "CH_DIRTY"
  /\ taken' = {}
  /\ outPc' = "idle"
  /\ UNCHANGED <<slotVars, enabled, pending_enable_request, waveout, outputs_enabled, interval, mixPc, mixSlot, devVars, ctlVars>>

OutputThread == ApplyMixerEnable \/ FinishMixerEnable \/ ApplyMixerDisable \/ DeliverBegin \/ DeliverEnd

-----------------------------------------------------------------------------
(* Producers.  mixer_put_samples() runs under the slot's mutex; a second   *)
(* batch before the mixer thread took the first one is an input overrun.   *)

PutSamples(j, source, sig) ==
  /\ has_signal' = [has_signal EXCEPT ![j] = sig]
  /\ wavein' = [wavein EXCEPT ![j] = IF sig THEN source ELSE @]
  /\ ready' = [ready EXCEPT ![j] = TRUE]
  /\ UNCHANGED <<input_count, input_mask, input_removed, inputs_todo, initialised, enabled, pending_enable_request,
                 outVars, mixVars, devVars, ctlVars, outPc>>

DeviceThreadFree == devPc = "idle" /\ (MultipleOutputThreads \/ outPc = "idle")

\* process_outputs() of an enabled device channel.
ChannelPut(c) ==
  /\ DeviceThreadFree
  /\ channel[c] = "enabled"
  /\ \E sig \in BOOLEAN : PutSamples(slotOf[c], c, sig)

\* mixer_remote_dispatch_packet(), on a listener thread of its own.
RemotePut(j) ==
  \E sig \in BOOLEAN : PutSamples(j, Remote, sig)

-----------------------------------------------------------------------------
(* The output thread of a device: live enable, disable and removal of a    *)
(* channel reach the mixer through reconnect_channel_outputs() and         *)
(* disable_channel_outputs().                                              *)

ChannelEnable(c) ==
  /\ DeviceThreadFree
  /\ channel[c] # "absent"
  /\ channel' = [channel EXCEPT ![c] = "enabled"]
  /\ input_mask' = [input_mask EXCEPT ![slotOf[c]] = TRUE]
  /\ UNCHANGED <<input_count, input_removed, inputs_todo, ready, has_signal, wavein, initialised, enabled,
                 pending_enable_request, outVars, mixVars, slotOf, devPc, devChan, ctlVars, outPc>>

\* mixer_disable_input(): mask, and for a removal the tombstone ...
ChannelDisable(c) ==
  /\ DeviceThreadFree
  /\ channel[c] # "absent"
  /\ channel' = [channel EXCEPT ![c] = "disabled"]
  /\ input_mask' = [input_mask EXCEPT ![slotOf[c]] = FALSE]
  /\ devPc' = "scan"
  /\ devChan' = c
  /\ UNCHANGED <<input_count, input_removed, inputs_todo, ready, has_signal, wavein, initialised, enabled,
                 pending_enable_request, outVars, mixVars, slotOf, ctlVars, outPc>>

ChannelRemove(c) ==
  /\ DeviceThreadFree
  /\ channel[c] # "absent"
  /\ channel' = [channel EXCEPT ![c] = "absent"]
  /\ slotOf' = [slotOf EXCEPT ![c] = NoSlot]
  /\ input_mask' = [input_mask EXCEPT ![slotOf[c]] = FALSE]
  /\ input_removed' = [input_removed EXCEPT ![slotOf[c]] = TRUE]
  /\ devPc' = "scan"
  /\ devChan' = c
  /\ UNCHANGED <<input_count, inputs_todo, ready, has_signal, wavein, initialised, enabled,
                 pending_enable_request, outVars, mixVars, ctlVars, outPc>>

\* ... then the "all inputs died" check, and mixer_disable() when it finds none left.
ScanInputs ==
  /\ devPc = "scan"
  /\ \/ /\ \E i \in Connected : input_mask[i]
        /\ devPc' = "idle"
        /\ devChan' = NoChan
     \/ /\ \A i \in Connected : ~input_mask[i]
        /\ devPc' = "died"
        /\ UNCHANGED devChan
  /\ UNCHANGED <<slotVars, enabled, pending_enable_request, outVars, mixVars, channel, slotOf, ctlVars, outPc>>

AllInputsDied ==
  /\ devPc = "died"
  /\ enabled' = FALSE
  /\ outputs_enabled' = FALSE
  /\ devPc' = "idle"
  /\ devChan' = NoChan
  /\ UNCHANGED <<slotVars, pending_enable_request, state, waveout, mixVars, channel, slotOf, ctlVars, outPc>>

DeviceThread ==
  \/ \E c \in Chan : ChannelPut(c) \/ ChannelEnable(c) \/ ChannelDisable(c) \/ ChannelRemove(c)
  \/ ScanInputs
  \/ AllInputsDied

-----------------------------------------------------------------------------
(* The control socket thread: mixer requests, and the live append of a     *)
(* channel, whose parse_outputs() calls mixer_connect_input().             *)

PostMixerRequest(on) ==
  /\ ctlPc = "idle"
  /\ pending_enable_request' = on
  /\ UNCHANGED <<slotVars, enabled, outVars, mixVars, devVars, ctlVars, outPc>>

\* A channel is parsed again only after its removal was confirmed.
MayAppend(c) == ctlPc = "idle" /\ channel[c] = "absent" /\ devChan # c

\* Mutant: the flags of the slot's previous owner survive.
ReuseSlotStale(c) ==
  /\ MayAppend(c)
  /\ \E j \in Tombstones :
       /\ \A k \in Tombstones : j <= k
       /\ inputs_todo' = [inputs_todo EXCEPT ![j] = TRUE]
       /\ ctlSlot' = j
  /\ ctlPc' = "reuse"
  /\ ctlChan' = c
  /\ UNCHANGED <<input_count, input_mask, input_removed, ready, has_signal, wavein, initialised, enabled,
                 pending_enable_request, outVars, mixVars, devVars, peak, outPc>>

\* mixer_connect_input() reclaims the lowest tombstone: reset its fields ...
ReuseSlot(c) ==
  /\ MayAppend(c)
  /\ \E j \in Tombstones :
       /\ \A k \in Tombstones : j <= k
       /\ ready' = [ready EXCEPT ![j] = FALSE]
       /\ has_signal' = [has_signal EXCEPT ![j] = FALSE]
       /\ inputs_todo' = [inputs_todo EXCEPT ![j] = TRUE]
       /\ ctlSlot' = j
  /\ ctlPc' = "reuse"
  /\ ctlChan' = c
  /\ UNCHANGED <<input_count, input_mask, input_removed, wavein, initialised, enabled, pending_enable_request,
                 outVars, mixVars, devVars, peak, outPc>>

\* ... and publish it last, by unmasking it.
PublishReused ==
  /\ ctlPc = "reuse"
  /\ input_mask' = [input_mask EXCEPT ![ctlSlot] = TRUE]
  /\ input_removed' = [input_removed EXCEPT ![ctlSlot] = FALSE]
  /\ enabled' = TRUE
  /\ slotOf' = [slotOf EXCEPT ![ctlChan] = ctlSlot]
  /\ ctlPc' = "parse"
  /\ peak' = IF Cardinality(InUse \union {ctlSlot}) > peak THEN Cardinality(InUse \union {ctlSlot}) ELSE peak
  /\ UNCHANGED <<input_count, inputs_todo, ready, has_signal, wavein, initialised, pending_enable_request,
                 outVars, mixVars, channel, devPc, devChan, ctlChan, ctlSlot, outPc>>

\* Mutant: a new input always takes a reserved slot.
AlwaysFresh == TRUE
NoneToReuse == Tombstones = {}

\* With no tombstone it takes a reserved slot: fill it in ...
FreshSlot(c) ==
  /\ MayAppend(c)
  /\ NoneToReuse
  /\ input_count < Capacity
  /\ initialised' = initialised \union {input_count}
  /\ ready' = [ready EXCEPT ![input_count] = FALSE]
  /\ has_signal' = [has_signal EXCEPT ![input_count] = FALSE]
  /\ wavein' = [wavein EXCEPT ![input_count] = NoChan]
  /\ input_mask' = [input_mask EXCEPT ![input_count] = TRUE]
  /\ input_removed' = [input_removed EXCEPT ![input_count] = FALSE]
  /\ inputs_todo' = [inputs_todo EXCEPT ![input_count] = TRUE]
  /\ enabled' = TRUE
  /\ ctlPc' = "fresh"
  /\ ctlChan' = c
  /\ ctlSlot' = input_count
  /\ peak' = IF Cardinality(InUse) + 1 > peak THEN Cardinality(InUse) + 1 ELSE peak
  /\ UNCHANGED <<input_count, pending_enable_request, outVars, mixVars, devVars, outPc>>

\* ... and publish it last, by counting it.
PublishFresh ==
  /\ ctlPc = "fresh"
  /\ input_count' = ctlSlot + 1
  /\ slotOf' = [slotOf EXCEPT ![ctlChan] = ctlSlot]
  /\ ctlPc' = "parse"
  /\ UNCHANGED <<input_mask, input_removed, inputs_todo, ready, has_signal, wavein, initialised, enabled,
                 pending_enable_request, outVars, mixVars, channel, devPc, devChan, ctlChan, ctlSlot, peak, outPc>>

\* The rest of the batch parses: channel_count is published and the channel goes live.
AppendSucceeds ==
  /\ ctlPc = "parse"
  /\ \E on \in {"enabled", "disabled"} : channel' = [channel EXCEPT ![ctlChan] = on]
  /\ ctlPc' = "idle" /\ ctlChan' = NoChan /\ ctlSlot' = NoSlot
  /\ UNCHANGED <<slotVars, enabled, pending_enable_request, outVars, mixVars, slotOf, devPc, devChan, peak, outPc>>

\* A later output or channel of the batch fails: the channel never goes live and
\* nothing disconnects the slot it was given.
AppendFails ==
  /\ ctlPc = "parse"
  /\ slotOf' = [slotOf EXCEPT ![ctlChan] = NoSlot]
  /\ ctlPc' = "idle" /\ ctlChan' = NoChan /\ ctlSlot' = NoSlot
  /\ UNCHANGED <<slotVars, enabled, pending_enable_request, outVars, mixVars, channel, devPc, devChan, peak, outPc>>

ControlThread ==
  \/ \E on \in Requests : PostMixerRequest(on)
  \/ \E c \in Chan : ReuseSlot(c) \/ FreshSlot(c)
  \/ PublishReused \/ PublishFresh \/ AppendSucceeds \/ AppendFails

-----------------------------------------------------------------------------
Next ==
  \/ MixerThread
  \/ OutputThread
  \/ DeviceThread
  \/ ControlThread
  \/ \E j \in 0 .. Remotes - 1 : RemotePut(j)

Spec == Init /\ [][Next]_vars

\* The mixer thread wakes every half batch and never waits for another thread; an
\* output thread visits its mixers on each of its passes and finishes each handler it is in.
FairSpec ==
  /\ Spec
  /\ WF_vars(MixerThread)
  /\ WF_vars(FinishMixerEnable) /\ WF_vars(DeliverEnd) /\ WF_vars(ScanInputs) /\ WF_vars(AllInputsDied)
  /\ SF_vars(DeliverBegin)

-----------------------------------------------------------------------------
(* Properties.                                                             *)

TypeOK ==
  /\ input_count \in StartCount .. Capacity
  /\ input_mask \in [Slot -> BOOLEAN]
  /\ input_removed \in [Slot -> BOOLEAN]
  /\ inputs_todo \in [Slot -> BOOLEAN]
  /\ ready \in [Slot -> BOOLEAN]
  /\ has_signal \in [Slot -> BOOLEAN]
  /\ wavein \in [Slot -> Chan \union {NoChan, Remote}]
  /\ initialised \subseteq Slot
  /\ enabled \in BOOLEAN
  /\ pending_enable_request \in {-1, 0, 1}
  /\ interval \in 0 .. MIX_DIVISOR
  /\ state \in {"CH_DIRTY", "CH_WORKING", "CH_READY"}
  /\ waveout \subseteq Slot
  /\ outputs_enabled \in BOOLEAN
  /\ channel \in [Chan -> {"absent", "enabled", "disabled"}]
  /\ slotOf \in [Chan -> Slot \union {NoSlot}]
  /\ mixPc \in {"sleep", "gather"}
  /\ mixSlot \in 0 .. Capacity
  /\ outPc \in {"idle", "enabling", "deliver"}
  /\ devPc \in {"idle", "scan", "died"}
  /\ devChan \in Chan \union {NoChan}
  /\ ctlPc \in {"idle", "reuse", "fresh", "parse"}
  /\ ctlChan \in Chan \union {NoChan}
  /\ ctlSlot \in Slot \union {NoSlot}
  /\ taken \subseteq Slot
  /\ peak \in 0 .. Capacity

\* A channel that names a slot is the only one that does.  The slot is one the readers can see,
\* its mutex exists, it is neither a remote sender's nor up for reuse, and while the
\* channel is enabled the mixer listens to it (mixer_connect_input, mixer_disable_input).
SlotSafety ==
  \A c \in Chan :
    LET j == slotOf[c] IN
    /\ channel[c] # "absent" => j # NoSlot
    /\ channel[c] = "enabled" => input_mask[j]
    /\ j # NoSlot =>
         /\ j \in Connected \ (0 .. Remotes - 1)
         /\ j \in initialised
         /\ ~input_removed[j]
         /\ \A d \in Chan : slotOf[d] = j => d = c

\* What the mixer thread would mix from a live channel's slot is that channel's own
\* audio, never what an earlier owner of the slot left (the resets of the reuse branch).
NoForeignAudio ==
  \A c \in Chan :
    LET j == slotOf[c] IN
    channel[c] # "absent" /\ ready[j] /\ has_signal[j] => wavein[j] = c

\* An input whose ready flag the mixer thread consumed is in the batch it is building or
\* handing over: no partly mixed batch is cleared under it (the CH_DIRTY test of the pass).
NoLostContribution == state # "CH_DIRTY" => taken \subseteq waveout

\* While the outputs read a batch, the mixer thread changes it only after having waited
\* out the whole interval for them, the overrun it counts.
NoTornBatch == [][outPc = "deliver" /\ waveout' # waveout => interval = 0]_vars

\* Removing and appending channels again does not eat reserve_inputs: no more slots
\* are ever connected than were in use at one time ("no longer burns a fresh slot").
SlotsNotBurned == input_count <= peak

\* An input that has a batch for an enabled mixer is mixed, or stops counting.
InputEventuallyTaken ==
  \A j \in Slot :
    (j < input_count /\ enabled /\ input_mask[j] /\ ready[j]) ~> (~ready[j] \/ ~input_mask[j] \/ ~enabled)

\* An enabled mixer keeps the bit rate whatever its inputs do: a batch becomes ready again and again.
MixerKeepsEmitting == enabled ~> (state = "CH_READY" \/ ~enabled)

\* A ready batch of an enabled mixer is handed to the outputs.
BatchEventuallyDelivered == (enabled /\ state = "CH_READY") ~> (state = "CH_DIRTY" \/ ~enabled)

\* mixer.cpp:305: "Any input which is still not ready, is skipped (filled with 0s)".  A batch
\* that was handed to the outputs is not handed to them again as the next one.
NoReplay == [][Emit /\ ~AllGoodInputsHandled => ~(state = "CH_DIRTY" /\ waveout # {})]_vars

\* mixer.cpp:63: `enabled' is flipped last "so no other thread observes a half-armed mixer as enabled".
NotHalfArmed == enabled => outputs_enabled
=============================================================================
