------------------------------ MODULE ScanTags ------------------------------
(***************************************************************************)
(* The scan controller of an R_SCAN device (controller_thread(),           *)
(* rtl_airband.cpp), its queue of frequency tags (util.cpp) and the output *)
(* thread that turns a due tag into the outputs' metadata (output.cpp).    *)
(***************************************************************************)
EXTENDS Integers

CONSTANTS
  FreqCount,     \* freq_count of the scan channel, at least 2
  TagQueueLen,   \* TAG_QUEUE_LEN
  OffLimit,      \* squelch-off ticks before a hop, 10
  MaxTags        \* bound: tags of a behaviour

ASSUME ScanAssumption ==
  /\ FreqCount \in Nat /\ FreqCount >= 2 /\ TagQueueLen \in Nat /\ TagQueueLen >= 2
  /\ OffLimit \in Nat /\ MaxTags \in Nat

VARIABLES
  axcindicate,                           \* whether the channel has a signal
  squelchOff, scanIdx, last_frequency,   \* controller_thread()'s locals, device_t::last_frequency
  tunedIdx,                              \* the frequency the hardware is on
  tq_head, tq_tail, tag_queue,
  outTag,                                \* the tag between tag_queue_get() and _advance(), 0: none
  metadata,                              \* the tag the outputs show
  tags, overran, retuneFailed            \* history: tags put, an overrun, a hop that failed

scanVars == <<axcindicate, squelchOff, scanIdx, last_frequency, tunedIdx, tq_head, tq_tail, tag_queue, outTag, metadata, tags, overran, retuneFailed>>
queueVars == <<tq_head, tq_tail, tag_queue, tags, overran>>
outVars == <<outTag, metadata>>

Freq == 0 .. FreqCount - 1
Slots == 0 .. TagQueueLen - 1

(* A tag is its number in the order of puts with the frequency index it carries. *)
NoTag == [n |-> 0, freq |-> -1]

ScanInit ==
  /\ axcindicate = FALSE /\ squelchOff = 0 /\ scanIdx = 0 /\ last_frequency = -1 /\ tunedIdx = 0
  /\ tq_head = 0 /\ tq_tail = 0 /\ tag_queue = [s \in Slots |-> NoTag]
  /\ outTag = NoTag /\ metadata = NoTag
  /\ tags = 0 /\ overran = FALSE /\ retuneFailed = FALSE

(***************************************************************************)
(* util.cpp.  On an overrun tq_tail is advanced without the wrap.          *)
(***************************************************************************)
\* Mutant: the slot is written before the head moves.
tag_queue_put_early(freq) ==
  /\ tq_head' = (tq_head + 1) % TagQueueLen
  /\ tags' = tags + 1
  /\ tag_queue' = [tag_queue EXCEPT ![tq_head] = [n |-> tags + 1, freq |-> freq]]
  /\ tq_tail' = IF tq_head' = tq_tail THEN tq_tail + 1 ELSE tq_tail
  /\ overran' = (overran \/ tq_head' = tq_tail)

tag_queue_put(freq) ==
  /\ tq_head' = (tq_head + 1) % TagQueueLen
  /\ tags' = tags + 1
  /\ tag_queue' = [tag_queue EXCEPT ![tq_head'] = [n |-> tags + 1, freq |-> freq]]
  /\ tq_tail' = IF tq_head' = tq_tail THEN tq_tail + 1 ELSE tq_tail
  /\ overran' = (overran \/ tq_head' = tq_tail)

tag_queue_get == IF tq_head = tq_tail THEN NoTag ELSE tag_queue[(tq_tail + 1) % TagQueueLen]

tag_queue_advance ==
  /\ tq_tail' = (tq_tail + 1) % TagQueueLen
  /\ UNCHANGED <<tq_head, tag_queue, tags, overran>>

(***************************************************************************)
(* controller_thread(): a tick every 200 ms.                               *)
(***************************************************************************)
CountSquelchOff ==
  /\ ~axcindicate /\ squelchOff < OffLimit
  /\ squelchOff' = squelchOff + 1
  /\ UNCHANGED <<axcindicate, scanIdx, last_frequency, tunedIdx, queueVars, outVars, retuneFailed>>

Hop ==
  /\ ~axcindicate /\ squelchOff = OffLimit
  /\ scanIdx' = (scanIdx + 1) % FreqCount
  /\ \/ tunedIdx' = scanIdx' /\ retuneFailed' = FALSE
     \/ retuneFailed' = TRUE /\ UNCHANGED tunedIdx
  /\ UNCHANGED <<axcindicate, squelchOff, last_frequency, queueVars, outVars>>

SquelchOpened ==
  /\ axcindicate /\ squelchOff = OffLimit /\ scanIdx # last_frequency /\ tags < MaxTags
  /\ tag_queue_put(scanIdx)
  /\ last_frequency' = scanIdx
  /\ squelchOff' = 0
  /\ UNCHANGED <<axcindicate, scanIdx, tunedIdx, outVars, retuneFailed>>

SquelchStaysOpen ==
  /\ axcindicate /\ (squelchOff < OffLimit \/ scanIdx = last_frequency)
  /\ squelchOff' = 0
  /\ UNCHANGED <<axcindicate, scanIdx, last_frequency, tunedIdx, queueVars, outVars, retuneFailed>>

Controller == CountSquelchOff \/ Hop \/ SquelchOpened \/ SquelchStaysOpen

(* The demodulator of the next batch. *)
SignalChanges ==
  /\ axcindicate' = ~axcindicate
  /\ UNCHANGED <<squelchOff, scanIdx, last_frequency, tunedIdx, queueVars, outVars, retuneFailed>>

(***************************************************************************)
(* output_thread(): the oldest tag, once its time plus the metadata delay  *)
(* has come, is removed and passed to process_outputs().                   *)
(***************************************************************************)
ReadDueTag ==
  /\ outTag = NoTag /\ tag_queue_get # NoTag
  /\ outTag' = tag_queue_get
  /\ UNCHANGED <<axcindicate, squelchOff, scanIdx, last_frequency, tunedIdx, queueVars, metadata, retuneFailed>>

TakeDueTag ==
  /\ outTag # NoTag
  /\ tag_queue_advance
  /\ metadata' = outTag /\ outTag' = NoTag
  /\ UNCHANGED <<axcindicate, squelchOff, scanIdx, last_frequency, tunedIdx, retuneFailed>>

TagOutput == ReadDueTag \/ TakeDueTag

ScanNext == Controller \/ SignalChanges \/ TagOutput

(* A device that delivers batches, and a delay that passes. *)
ScanSpec == ScanInit /\ [][ScanNext]_scanVars /\ WF_scanVars(TagOutput)

ScanTypeOK ==
  /\ squelchOff \in 0 .. OffLimit /\ scanIdx \in Freq /\ tunedIdx \in Freq
  /\ last_frequency \in Freq \union {-1}
  /\ tq_head \in Slots /\ tq_tail \in 0 .. TagQueueLen
  /\ tag_queue \in [Slots -> [n : 0 .. MaxTags, freq : Freq \union {-1}]]

\* The outputs' metadata follows the scan: tags come in the order they were put, none twice, none
\* left out unless the queue overran, also when a put comes between tag_queue_get() and
\* tag_queue_advance() or tq_tail stands one past the end of the queue (util.cpp:52); and a tag
\* names the frequency the receiver is on unless the hop to it failed (rtl_airband.cpp:151).
MetadataFollows ==
  /\ [][metadata' # metadata => metadata'.n > metadata.n /\ (~overran' => metadata'.n = metadata.n + 1)]_metadata
  /\ [][SquelchOpened /\ ~retuneFailed => scanIdx = tunedIdx]_scanVars
  /\ []<>(metadata.n = tags \/ overran)
=============================================================================
