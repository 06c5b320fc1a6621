-------------------------- MODULE ChannelLifecycle --------------------------
(***************************************************************************)
(* The channels of one R_MULTICHANNEL device while the control socket      *)
(* edits them (src/src/live_reconfig.cpp): reload_diff compares the config *)
(* file with the live channels, removes the ones after the common prefix   *)
(* from the tail, parses and publishes their replacements and toggles      *)
(* `enabled'; channel_enable and channel_disable post requests.  The       *)
(* device's output thread applies what was posted; the demodulator and the *)
(* statistics writer read the channels with no lock.                       *)
(*                                                                         *)
(* What a channel_t points to (outputs, freqlist, config_signature) is one *)
(* memory block.  A torn down block is freed once reclaim_grace_period_sec *)
(* has passed, which outlasts one control request and one reader's pass:   *)
(* graceFor is who was at it when the block was queued, or joined them     *)
(* since.                                                                  *)
(***************************************************************************)
EXTENDS Naturals, Integers, Sequences, FiniteSets

CONSTANTS
  Capacity,    \* channel_capacity: the configured channels and reserve_channels
  Good,        \* channel definitions (signatures) that parse
  Bad,         \* those parse_channel() throws an error for
  Legacy,      \* those it returns false for: bandwidth = 0, squelch_snr_threshold = -1
  MaxBlock,    \* bound: memory blocks 1 .. MaxBlock, the appends of a behaviour
  Files,       \* the config files an operator may load: sequences of [def, enabled], "disable"d channels left out
  StartFile,   \* the one the program was started with
  Reader,      \* the threads that read channels unlocked, among "demod" and "stats"
  MaxTimeOut,  \* bound: requests whose timeout the output thread misses
  None         \* NULL, no block, no definition

ASSUME LifecycleAssumption ==
  /\ Capacity \in Nat /\ MaxBlock \in Nat
  /\ MaxTimeOut \in Nat
  /\ Reader \subseteq {"demod", "stats"}
  /\ Good \cap Bad = {} /\ Good \cap Legacy = {} /\ Bad \cap Legacy = {}
  /\ Files \subseteq Seq([def : Good \union Bad \union Legacy, enabled : BOOLEAN])
  /\ StartFile \in Files /\ Len(StartFile) <= Capacity /\ Len(StartFile) <= MaxBlock
  /\ \A i \in 1 .. Len(StartFile) : StartFile[i].def \in Good
  /\ None \notin Good \union Bad \union Legacy \union Nat

Index      == 0 .. Capacity - 1
Block      == 1 .. MaxBlock

VARIABLES
  channel_count,
  \* channel_t of every slot
  enabled, removed, pending_enable_request, pending_remove_request, lame, memory, config_signature,
  \* pending_channel_frees: how often a block is queued, who its grace period covers, how often it was freed
  queued, graceFor, freed, allocated,
  \* the block a reader is in the middle of reading
  holds,
  \* the output thread's pass, the control thread's request
  outPc, outJ, ctlPc, ctlK, config, common_prefix, new_count,
  \* history: how many requests timed out
  timeouts

fieldVars == <<enabled, removed, pending_enable_request, pending_remove_request, lame, memory, config_signature>>
freeVars  == <<queued, graceFor, freed>>
outVars   == <<outPc, outJ>>
ctlVars   == <<ctlPc, ctlK, config, common_prefix, new_count, timeouts>>
vars == <<channel_count, fieldVars, freeVars, allocated, holds, outVars, ctlVars>>

\* parse_devices(): the channels of the first config, with room for the reserve.
Init ==
  /\ channel_count = Len(StartFile)
  /\ enabled = [k \in Index |-> IF k < Len(StartFile) THEN StartFile[k + 1].enabled ELSE FALSE]
  /\ removed = [k \in Index |-> FALSE]
  /\ pending_enable_request = [k \in Index |-> IF k < Len(StartFile) THEN -1 ELSE 0]
  /\ pending_remove_request = [k \in Index |-> IF k < Len(StartFile) THEN -1 ELSE 0]
  /\ lame = [k \in Index |-> k < Len(StartFile)]
  /\ memory = [k \in Index |-> IF k < Len(StartFile) THEN k + 1 ELSE None]
  /\ config_signature = [k \in Index |-> IF k < Len(StartFile) THEN StartFile[k + 1].def ELSE None]
  /\ queued = [b \in Block |-> 0]
  /\ graceFor = [b \in Block |-> {}]
  /\ freed = [b \in Block |-> 0]
  /\ allocated = Len(StartFile)
  /\ holds = [r \in Reader |-> None]
  /\ outPc = "idle" /\ outJ = 0
  /\ ctlPc = "idle" /\ ctlK = 0 /\ config = <<>> /\ common_prefix = 0 /\ new_count = 0
  /\ timeouts = 0

-----------------------------------------------------------------------------
(* The control thread.                                                     *)

\* The grace period of a block covers the control request that was running.
ControlReturns == graceFor' = [b \in Block |-> graceFor[b] \ {"control"}]

\* The longest prefix of live channels the config file leaves alone.
Unchanged(cfg, j) == /\ ~removed[j]
                     /\ config_signature[j] # None
                     /\ config_signature[j] = cfg[j + 1].def
\* Mutant: the number of channels left alone, wherever they are.
MatchCount(cfg) ==
  Cardinality({j \in Index : j < channel_count /\ j < Len(cfg) /\ Unchanged(cfg, j)})
CommonPrefix(cfg) ==
  CHOOSE n \in 0 .. Capacity :
    /\ n <= channel_count /\ n <= Len(cfg)
    /\ \A j \in 0 .. n - 1 : Unchanged(cfg, j)
    /\ n < channel_count /\ n < Len(cfg) => ~Unchanged(cfg, n)

ReloadDiff(cfg) ==
  /\ ctlPc = "idle"
  /\ allocated + Len(cfg) - CommonPrefix(cfg) <= MaxBlock
  /\ config' = cfg
  /\ common_prefix' = CommonPrefix(cfg)
  /\ ctlPc' = "remove"
  /\ UNCHANGED <<channel_count, fieldVars, freeVars, allocated, holds, outVars, ctlK, new_count, timeouts>>

\* try_remove_channels(): from the tail, one confirmed removal at a time.
RequestRemove ==
  /\ ctlPc = "remove"
  /\ channel_count > common_prefix
  /\ pending_remove_request' = [pending_remove_request EXCEPT ![channel_count - 1] = 1]
  /\ ctlPc' = "removing"
  /\ UNCHANGED <<channel_count, enabled, removed, pending_enable_request, lame, memory, config_signature, freeVars,
                 allocated, holds, outVars, ctlK, config, common_prefix, new_count, timeouts>>

RemoveConfirmed ==
  /\ ctlPc = "removing"
  /\ pending_remove_request[channel_count - 1] = -1
  /\ channel_count' = channel_count - 1
  /\ ctlPc' = "remove"
  /\ UNCHANGED <<fieldVars, freeVars, allocated, holds, outVars, ctlK, config, common_prefix, new_count, timeouts>>

\* The request stays posted; nothing is appended and the toggles go on.
RemoveTimesOut ==
  /\ timeouts < MaxTimeOut
  /\ ctlPc = "removing"
  /\ pending_remove_request[channel_count - 1] # -1
  /\ ctlPc' = "toggle"
  /\ ctlK' = 0
  /\ timeouts' = timeouts + 1
  /\ UNCHANGED <<channel_count, fieldVars, freeVars, allocated, holds, outVars, config, common_prefix, new_count>>

\* Mutant: the reserve is not checked.
RemovesDoneUnchecked ==
  /\ ctlPc = "remove"
  /\ channel_count <= common_prefix
  /\ IF channel_count < Len(config)
     THEN ctlPc' = "parse" /\ ctlK' = channel_count /\ new_count' = channel_count
     ELSE ctlPc' = "toggle" /\ ctlK' = 0 /\ UNCHANGED new_count
  /\ UNCHANGED <<channel_count, fieldVars, freeVars, allocated, holds, outVars, config, common_prefix, timeouts>>

\* All removed: append if the file has more channels and they fit.
RemovesDone ==
  /\ ctlPc = "remove"
  /\ channel_count <= common_prefix
  /\ IF channel_count < Len(config) /\ Len(config) <= Capacity
     THEN ctlPc' = "parse" /\ ctlK' = channel_count /\ new_count' = channel_count
     ELSE ctlPc' = "toggle" /\ ctlK' = 0 /\ UNCHANGED new_count
  /\ UNCHANGED <<channel_count, fieldVars, freeVars, allocated, holds, outVars, config, common_prefix, timeouts>>

\* What parse_channel() resets before anything that can fail.
ParseStart(k) ==
  /\ enabled' = [enabled EXCEPT ![k] = config[k + 1].enabled]
  /\ removed' = [removed EXCEPT ![k] = FALSE]
  /\ pending_enable_request' = [pending_enable_request EXCEPT ![k] = -1]
  /\ pending_remove_request' = [pending_remove_request EXCEPT ![k] = -1]

\* Mutant: init_output() is not called for an appended channel.
ParseChannelNoInit ==
  /\ ctlPc = "parse"
  /\ ctlK < Len(config)
  /\ config[ctlK + 1].def \in Good
  /\ ParseStart(ctlK)
  /\ allocated' = allocated + 1
  /\ memory' = [memory EXCEPT ![ctlK] = allocated + 1]
  /\ config_signature' = [config_signature EXCEPT ![ctlK] = config[ctlK + 1].def]
  /\ new_count' = ctlK + 1
  /\ ctlK' = ctlK + 1
  /\ UNCHANGED <<channel_count, lame, freeVars, holds, outVars, ctlPc, config, common_prefix, timeouts>>

\* try_append_channels(): parse_channel() and init_output() of one channel.
ParseChannel ==
  /\ ctlPc = "parse"
  /\ ctlK < Len(config)
  /\ config[ctlK + 1].def \in Good
  /\ ParseStart(ctlK)
  /\ allocated' = allocated + 1
  /\ memory' = [memory EXCEPT ![ctlK] = allocated + 1]
  /\ lame' = [lame EXCEPT ![ctlK] = TRUE]
  /\ config_signature' = [config_signature EXCEPT ![ctlK] = config[ctlK + 1].def]
  /\ new_count' = ctlK + 1
  /\ ctlK' = ctlK + 1
  /\ UNCHANGED <<channel_count, freeVars, holds, outVars, ctlPc, config, common_prefix, timeouts>>

\* It returns false: the channel "is silently not counted", but the index moves on.
ParseSkips ==
  /\ ctlPc = "parse"
  /\ ctlK < Len(config)
  /\ config[ctlK + 1].def \in Legacy
  /\ ParseStart(ctlK)
  /\ ctlK' = ctlK + 1
  /\ UNCHANGED <<channel_count, lame, memory, config_signature, freeVars, allocated, holds, outVars, ctlPc, config,
                 common_prefix, new_count, timeouts>>

\* It throws: the whole batch is dropped.
ParseFails ==
  /\ ctlPc = "parse"
  /\ ctlK < Len(config)
  /\ config[ctlK + 1].def \in Bad
  /\ ParseStart(ctlK)
  /\ ctlPc' = "toggle"
  /\ ctlK' = 0
  /\ UNCHANGED <<channel_count, lame, memory, config_signature, freeVars, allocated, holds, outVars, config,
                 common_prefix, new_count, timeouts>>

AppendPublish ==
  /\ ctlPc = "parse"
  /\ ctlK >= Len(config)
  /\ channel_count' = new_count
  /\ ctlPc' = "toggle"
  /\ ctlK' = 0
  /\ UNCHANGED <<fieldVars, freeVars, allocated, holds, outVars, config, common_prefix, new_count, timeouts>>

\* The enabled flags of the untouched channels.
Toggle ==
  /\ ctlPc = "toggle"
  /\ ctlK < common_prefix
  /\ IF config[ctlK + 1].enabled # enabled[ctlK]
     THEN /\ pending_enable_request' =
               [pending_enable_request EXCEPT ![ctlK] = IF config[ctlK + 1].enabled THEN 1 ELSE 0]
          /\ ctlPc' = "toggling"
          /\ UNCHANGED ctlK
     ELSE /\ ctlK' = ctlK + 1
          /\ UNCHANGED <<pending_enable_request, ctlPc>>
  /\ UNCHANGED <<channel_count, enabled, removed, pending_remove_request, lame, memory, config_signature, freeVars,
                 allocated, holds, outVars, config, common_prefix, new_count, timeouts>>

ReloadReturns ==
  /\ ctlPc = "toggle"
  /\ ctlK >= common_prefix
  /\ ctlPc' = "idle" /\ ctlK' = 0 /\ config' = <<>> /\ common_prefix' = 0 /\ new_count' = 0
  /\ ControlReturns
  /\ UNCHANGED <<channel_count, fieldVars, queued, freed, allocated, holds, outVars, timeouts>>

\* channel_enable and channel_disable, refused for a channel that is being or was removed.
Command(k, on) ==
  /\ ctlPc = "idle"
  /\ k < channel_count
  /\ pending_remove_request[k] = -1
  /\ ~removed[k]
  /\ pending_enable_request' = [pending_enable_request EXCEPT ![k] = on]
  /\ ctlPc' = "command"
  /\ ctlK' = k
  /\ UNCHANGED <<channel_count, enabled, removed, pending_remove_request, lame, memory, config_signature, freeVars,
                 allocated, holds, outVars, config, common_prefix, new_count, timeouts>>

\* post_request_and_wait() returns, the request consumed or the time up.
RequestReturns ==
  /\ ctlPc \in {"toggling", "command"}
  /\ \/ pending_enable_request[ctlK] = -1 /\ UNCHANGED timeouts
     \/ pending_enable_request[ctlK] # -1 /\ timeouts < MaxTimeOut /\ timeouts' = timeouts + 1
  /\ IF ctlPc = "toggling"
     THEN ctlPc' = "toggle" /\ ctlK' = ctlK + 1 /\ UNCHANGED graceFor
     ELSE ctlPc' = "idle" /\ ctlK' = 0 /\ ControlReturns
  /\ UNCHANGED <<channel_count, fieldVars, queued, freed, allocated, holds, outVars, config, common_prefix, new_count>>

ControlStep ==
  \/ RequestRemove \/ RemoveConfirmed \/ RemoveTimesOut \/ RemovesDone
  \/ ParseChannel \/ ParseSkips \/ ParseFails \/ AppendPublish
  \/ Toggle \/ ReloadReturns \/ RequestReturns

-----------------------------------------------------------------------------
(* The output thread of the device.                                        *)

\* A batch is available: begin a pass over the channels.
BeginPass ==
  /\ outPc = "idle"
  /\ outPc' = "pass"
  /\ outJ' = 0
  /\ UNCHANGED <<channel_count, fieldVars, freeVars, allocated, holds, ctlVars>>

\* Mutant: no grace period.
NobodyInFlight == {}
InFlight == {r \in Reader : holds[r] # None} \union (IF ctlPc = "idle" THEN {} ELSE {"control"})

\* Mutant: the channel is not disabled first.
TeardownLeavesEnabled ==
  /\ outPc = "pass"
  /\ outJ < channel_count
  /\ pending_remove_request[outJ] = 1
  /\ lame' = [lame EXCEPT ![outJ] = FALSE]
  /\ queued' = [queued EXCEPT ![memory[outJ]] = IF @ < 2 THEN @ + 1 ELSE @]
  /\ graceFor' = [graceFor EXCEPT ![memory[outJ]] = InFlight]
  /\ removed' = [removed EXCEPT ![outJ] = TRUE]
  /\ outPc' = "ack"
  /\ UNCHANGED <<channel_count, enabled, pending_enable_request, pending_remove_request, memory, config_signature, freed,
                 allocated, holds, outJ, ctlVars>>

\* Mutant: the request is consumed before the teardown, like an enable request.
TeardownConsumesFirst ==
  /\ outPc = "pass"
  /\ outJ < channel_count
  /\ pending_remove_request[outJ] = 1
  /\ enabled' = [enabled EXCEPT ![outJ] = FALSE]
  /\ lame' = [lame EXCEPT ![outJ] = FALSE]
  /\ queued' = [queued EXCEPT ![memory[outJ]] = IF @ < 2 THEN @ + 1 ELSE @]
  /\ graceFor' = [graceFor EXCEPT ![memory[outJ]] = InFlight]
  /\ pending_remove_request' = [pending_remove_request EXCEPT ![outJ] = -1]
  /\ removed' = [removed EXCEPT ![outJ] = TRUE]
  /\ outPc' = "ack"
  /\ UNCHANGED <<channel_count, pending_enable_request, memory, config_signature, freed,
                 allocated, holds, outJ, ctlVars>>

\* channel_teardown_for_removal(); a second one queues the same block again.
Teardown ==
  /\ outPc = "pass"
  /\ outJ < channel_count
  /\ pending_remove_request[outJ] = 1
  /\ enabled' = [enabled EXCEPT ![outJ] = FALSE]
  /\ lame' = [lame EXCEPT ![outJ] = FALSE]
  /\ queued' = [queued EXCEPT ![memory[outJ]] = IF @ < 2 THEN @ + 1 ELSE @]
  /\ graceFor' = [graceFor EXCEPT ![memory[outJ]] = InFlight]
  /\ removed' = [removed EXCEPT ![outJ] = TRUE]
  /\ outPc' = "ack"
  /\ UNCHANGED <<channel_count, pending_enable_request, pending_remove_request, memory, config_signature, freed,
                 allocated, holds, outJ, ctlVars>>

\* Mutant: the request is never reset.
TeardownNotAcked ==
  /\ outPc = "ack"
  /\ outPc' = "pass"
  /\ outJ' = outJ + 1
  /\ UNCHANGED <<channel_count, fieldVars, freeVars,
                 allocated, holds, ctlVars>>

\* Only now is the request seen as done.
TeardownAck ==
  /\ outPc = "ack"
  /\ pending_remove_request' = [pending_remove_request EXCEPT ![outJ] = -1]
  /\ outPc' = "pass"
  /\ outJ' = outJ + 1
  /\ UNCHANGED <<channel_count, enabled, removed, pending_enable_request, lame, memory, config_signature, freeVars,
                 allocated, holds, ctlVars>>

\* Mutant: a disabled channel is skipped before its request is looked at.
ProcessEnabledOnly ==
  /\ outPc = "pass"
  /\ outJ < channel_count
  /\ pending_remove_request[outJ] # 1
  /\ enabled' = [enabled EXCEPT ![outJ] = @ /\ pending_enable_request[outJ] # 0]
  /\ pending_enable_request' = [pending_enable_request EXCEPT ![outJ] = IF enabled[outJ] THEN -1 ELSE @]
  /\ outJ' = outJ + 1
  /\ UNCHANGED <<channel_count, removed, pending_remove_request, lame, memory, config_signature, freeVars, allocated,
                 holds, outPc, ctlVars>>

\* Any other channel: apply a posted enable or disable, then process_outputs().
ProcessChannel ==
  /\ outPc = "pass"
  /\ outJ < channel_count
  /\ pending_remove_request[outJ] # 1
  /\ enabled' = [enabled EXCEPT ![outJ] = CASE pending_enable_request[outJ] = 1 -> TRUE
                                            [] pending_enable_request[outJ] = 0 -> FALSE
                                            [] OTHER -> @]
  /\ pending_enable_request' = [pending_enable_request EXCEPT ![outJ] = -1]
  /\ outJ' = outJ + 1
  /\ UNCHANGED <<channel_count, removed, pending_remove_request, lame, memory, config_signature, freeVars, allocated,
                 holds, outPc, ctlVars>>

\* waveavail = 0, and reclaim_pending_channel_frees() of the blocks whose grace is over.
EndPass ==
  /\ outPc = "pass"
  /\ outJ >= channel_count
  /\ outPc' = "idle"
  /\ outJ' = 0
  /\ \E S \in SUBSET {b \in Block : queued[b] > 0 /\ graceFor[b] = {}} :
       /\ freed' = [b \in Block |-> IF b \in S THEN freed[b] + queued[b] ELSE freed[b]]
       /\ queued' = [b \in Block |-> IF b \in S THEN 0 ELSE queued[b]]
  /\ UNCHANGED <<channel_count, fieldVars, graceFor, allocated, holds, ctlVars>>

OutputStep == BeginPass \/ Teardown \/ TeardownAck \/ ProcessChannel \/ EndPass

-----------------------------------------------------------------------------
(* The readers: demodulate() skips a disabled channel, write_stats_file()  *)
(* and the JSON statistics have no such gate.                              *)

BeginRead(r) ==
  /\ holds[r] = None
  /\ \E k \in Index :
       /\ k < channel_count
       /\ r = "demod" => enabled[k]
       /\ memory[k] # None
       /\ holds' = [holds EXCEPT ![r] = memory[k]]
       /\ graceFor' = [graceFor EXCEPT ![memory[k]] = IF @ = {} THEN @ ELSE @ \union {r}]
  /\ UNCHANGED <<channel_count, fieldVars, queued, freed, allocated, outVars, ctlVars>>

EndRead(r) ==
  /\ holds[r] # None
  /\ holds' = [holds EXCEPT ![r] = None]
  /\ graceFor' = [b \in Block |-> graceFor[b] \ {r}]
  /\ UNCHANGED <<channel_count, fieldVars, queued, freed, allocated, outVars, ctlVars>>

-----------------------------------------------------------------------------
Next ==
  \/ \E cfg \in Files : ReloadDiff(cfg)
  \/ \E k \in Index, on \in {0, 1} : Command(k, on)
  \/ ControlStep
  \/ OutputStep
  \/ \E r \in Reader : BeginRead(r) \/ EndRead(r)

Spec == Init /\ [][Next]_vars

\* The device is running, so batches keep coming and the output thread keeps making passes.
FairSpec == Spec /\ WF_vars(ControlStep) /\ WF_vars(OutputStep) /\ \A r \in Reader : WF_vars(EndRead(r))

-----------------------------------------------------------------------------
TypeOK ==
  /\ channel_count \in 0 .. Capacity
  /\ enabled \in [Index -> BOOLEAN] /\ removed \in [Index -> BOOLEAN] /\ lame \in [Index -> BOOLEAN]
  /\ pending_enable_request \in [Index -> {-1, 0, 1}]
  /\ pending_remove_request \in [Index -> {-1, 0, 1}]
  /\ memory \in [Index -> Block \union {None}]
  /\ config_signature \in [Index -> Good \union {None}]
  /\ queued \in [Block -> 0 .. 2]
  /\ graceFor \in [Block -> SUBSET (Reader \union {"control"})]
  /\ freed \in [Block -> Nat]
  /\ allocated \in 0 .. MaxBlock
  /\ holds \in [Reader -> Block \union {None}]
  /\ outPc \in {"idle", "pass", "ack"} /\ outJ \in 0 .. Capacity
  /\ ctlPc \in {"idle", "remove", "removing", "parse", "toggle", "toggling", "command"}
  /\ ctlK \in 0 .. Capacity
  /\ config \in Files \union {<<>>}
  /\ common_prefix \in 0 .. Capacity /\ new_count \in 0 .. Capacity
  /\ timeouts \in 0 .. MaxTimeOut

\* rtl_airband.h:488-493: an enabled channel the threads can see has its LAME encoder; without
\* it the next process_outputs() "calls into LAME with a null encoder".
EncoderPresent == \A k \in Index : k < channel_count /\ enabled[k] => lame[k]
EncoderPresentOnTime == timeouts = 0 => EncoderPresent

\* live_reconfig.cpp:618: a channel parse_channel() returned false for "is silently not counted".
PublishedIsParsed ==
  \A k \in Index : k < channel_count /\ ~removed[k] /\ ~(outPc = "ack" /\ outJ = k) =>
    lame[k] /\ memory[k] # None /\ queued[memory[k]] = 0

\* live_reconfig.cpp:139: a block is freed only "well after the output is provably no longer
\* in use": no reader is in it and no channel the threads can see leads to it.
NoReadAfterFree ==
  /\ \A r \in Reader : holds[r] # None => freed[holds[r]] = 0
  /\ \A k \in Index : k < channel_count /\ memory[k] # None => freed[memory[k]] = 0
NoReadAfterFreeOnTime == timeouts = 0 => NoReadAfterFree

\* When no request timed out, a block is queued and freed at most once.
FreedOnceOnTime == timeouts = 0 => \A b \in Block : queued[b] + freed[b] <= 1

\* A removed index leaves channel_count only when the teardown is complete, so the slot that
\* is parsed next is one the output thread has let go of (pending_remove_request's late reset).
RemovedWhenTornDown ==
  [][channel_count' < channel_count =>
       removed[channel_count'] /\ ~lame[channel_count'] /\ ~(outPc = "ack" /\ outJ = channel_count')]_vars

\* A reload of a file that parses and fits, its requests answered in time, leaves the device with
\* exactly the file's channels, each enabled as the file says.
ReloadConverges ==
  [][ctlPc = "toggle" /\ ctlPc' = "idle" /\ timeouts = 0 /\ Len(config) <= Capacity
       /\ (\A i \in 1 .. Len(config) : config[i].def \in Good) =>
     /\ channel_count = Len(config)
     /\ \A k \in 0 .. Len(config) - 1 :
          ~removed[k] /\ config_signature[k] = config[k + 1].def /\ enabled[k] = config[k + 1].enabled]_vars

\* Every request gets somewhere: a posted enable or disable of a channel that stays is consumed
\* (live_reconfig.cpp:343), and every reload and every command answers its client.
RequestsServed ==
  /\ \A k \in Index :
       (k < channel_count /\ pending_enable_request[k] # -1) ~> (k >= channel_count \/ pending_enable_request[k] = -1)
  /\ ctlPc # "idle" ~> ctlPc = "idle"
=============================================================================
