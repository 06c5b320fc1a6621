------------------------------ MODULE Squelch ------------------------------
(***************************************************************************)
(* The squelch of one frequency (src/src/squelch.cpp) as demodulate()      *)
(* drives it, one sample at a time: process_raw_sample(), then, when there *)
(* is a lowpass filter and should_filter_sample() says so,                 *)
(* process_filtered_sample(), then, when should_process_audio() says so,   *)
(* process_audio_sample(), which feeds the two CTCSS detectors.            *)
(*                                                                         *)
(* Levels are abstracted to the comparisons the code makes: the averaged   *)
(* level and the sample itself against the squelch level, the post-filter  *)
(* average against the buffered pre-filter one, each free to come out      *)
(* either way whenever one of its sides changes.  The noise floor, and     *)
(* the statistics counters, are left out.                                  *)
(***************************************************************************)
EXTENDS Naturals

CONSTANTS
  OpenDelay, CloseDelay, LowSignalAbort,  \* open_delay_, close_delay_, low_signal_abort_
  BufferSize,                             \* buffer_size_
  RecentSampleSize, FlapOpensThreshold,   \* recent_sample_size_, flap_opens_threshold_
  FastWindow, SlowWindow                  \* window_size_ of the two CTCSS detectors

\* The first conjunct is the constructor's assert(open_delay_ > buffer_size_).
ASSUME SquelchAssumption ==
  /\ OpenDelay \in Nat /\ BufferSize \in Nat /\ OpenDelay > BufferSize /\ BufferSize > 1
  /\ CloseDelay \in Nat \ {0} /\ LowSignalAbort \in Nat \ {0}
  /\ RecentSampleSize \in Nat /\ FlapOpensThreshold \in Nat \ {0}
  /\ FastWindow \in Nat \ {0} /\ SlowWindow \in Nat \ {0}

VARIABLES
  has_filter, has_ctcss,            \* the channel's configuration: lowpass_filter.enabled(), ctcss_slow_.is_enabled()
  phase,                            \* what is left to do for the current sample
  current_state, next_state, delay, low_signal_count,
  closed_sample_count, recent_open_count,
  using_post_filter,
  seeded,                           \* post_filter_ was set from the pre-filter level of this opening
  pre_signal,                       \* has_pre_filter_signal()
  post_signal,                      \* has_post_filter_signal()
  \* sample_count_, enough_samples_ and has_tone_ of the two CTCSS detectors
  fast, slow,
  heard                             \* history: some detector found the tone since the squelch last opened

configVars == <<has_filter, has_ctcss>>
stateVars  == <<current_state, next_state, delay, low_signal_count>>
flapVars   == <<closed_sample_count, recent_open_count>>
levelVars  == <<using_post_filter, seeded, pre_signal, post_signal>>
ctcssVars  == <<fast, slow, heard>>
vars == <<configVars, phase, stateVars, flapVars, levelVars, ctcssVars>>

State    == {"CLOSED", "OPENING", "CLOSING", "LOW_SIGNAL_ABORT", "OPEN"}
NoTone   == [sample_count |-> 0, enough_samples |-> FALSE, has_tone |-> FALSE]

Init ==
  /\ has_filter \in BOOLEAN /\ has_ctcss \in BOOLEAN
  /\ phase = "update"
  /\ current_state = "CLOSED" /\ next_state = "CLOSED" /\ delay = 0 /\ low_signal_count = 0
  /\ closed_sample_count = 0 /\ recent_open_count = 0
  /\ using_post_filter = FALSE /\ seeded = FALSE
  /\ pre_signal \in BOOLEAN /\ post_signal = FALSE
  /\ fast = NoTone /\ slow = NoTone /\ heard = FALSE

-----------------------------------------------------------------------------
(* Queries.                                                                *)

has_signal == pre_signal /\ (using_post_filter => post_signal)

should_process_audio == current_state \in {"OPEN", "CLOSING"}

should_filter_sample ==
  (pre_signal \/ current_state # "CLOSED") /\ current_state # "LOW_SIGNAL_ABORT"

is_open ==
  /\ current_state \in {"OPEN", "CLOSING"}
  /\ has_ctcss => IF slow.enough_samples THEN slow.has_tone ELSE fast.has_tone

first_open_sample == current_state # "OPEN" /\ next_state = "OPEN"

last_open_sample ==
  \/ current_state = "CLOSING" /\ next_state = "CLOSED"
  \/ current_state # "LOW_SIGNAL_ABORT" /\ next_state = "LOW_SIGNAL_ABORT"

\* What set_state(update) makes of next_state.
set_state(update) ==
  CASE current_state = "CLOSED" /\ update \in {"CLOSING", "LOW_SIGNAL_ABORT"} -> "CLOSED"
    [] current_state = "CLOSED" /\ update = "OPEN" -> "OPENING"
    [] current_state = "OPENING" /\ update = "LOW_SIGNAL_ABORT" -> "CLOSED"
    [] current_state = "LOW_SIGNAL_ABORT" /\ update \notin {"LOW_SIGNAL_ABORT", "CLOSED"} -> "CLOSED"
    [] current_state = "OPEN" /\ update = "CLOSED" -> "CLOSING"
    [] current_state = "OPEN" /\ update = "OPENING" -> "OPEN"
    [] OTHER -> update

-----------------------------------------------------------------------------
(* update_current_state(), the first thing process_raw_sample() does.  It  *)
(* ends by advancing the buffer, so the post-filter comparison is a new    *)
(* one.                                                                    *)

NextBuffered == post_signal' \in IF using_post_filter' THEN BOOLEAN ELSE {FALSE}

Enter(update, uses_filter) ==
  /\ phase = "update"
  /\ next_state = update /\ current_state # update
  /\ current_state' = update
  /\ phase' = "sample"
  /\ using_post_filter' = uses_filter
  /\ NextBuffered
  /\ UNCHANGED <<configVars, next_state, recent_open_count, pre_signal>>

Stay(update) ==
  /\ phase = "update"
  /\ next_state = update /\ current_state = update
  /\ phase' = "sample"
  /\ UNCHANGED <<configVars, low_signal_count, using_post_filter, seeded, pre_signal, ctcssVars>>
  /\ NextBuffered

\* Mutant: one closed sample too many.
QuietIsRecentLate == closed_sample_count <= RecentSampleSize
QuietIsRecent == closed_sample_count < RecentSampleSize

\* Mutant: the counters of the last transmission go on.
BeginOpeningNoReset ==
  /\ Enter("OPENING", FALSE)
  /\ seeded' = FALSE
  /\ UNCHANGED <<delay, low_signal_count, closed_sample_count, ctcssVars>>

BeginOpening ==
  /\ Enter("OPENING", FALSE)
  /\ delay' = 0 /\ low_signal_count' = 0
  /\ seeded' = FALSE
  /\ UNCHANGED <<closed_sample_count, ctcssVars>>

WaitOpening ==
  /\ Stay("OPENING")
  /\ delay' = delay + 1 /\ delay' < OpenDelay
  /\ UNCHANGED <<current_state, next_state, flapVars>>

\* Counted as a recent open, which may be the one that lowers the squelch level.
OpeningOver ==
  /\ Stay("OPENING")
  /\ delay' = delay + 1 /\ delay' >= OpenDelay
  /\ recent_open_count' = IF QuietIsRecent /\ recent_open_count < FlapOpensThreshold
                          THEN recent_open_count + 1 ELSE recent_open_count
  /\ \E lowered \in IF recent_open_count' # recent_open_count /\ recent_open_count' = FlapOpensThreshold
                    THEN BOOLEAN ELSE {FALSE} :
       next_state' = IF (pre_signal \/ lowered) /\ (using_post_filter => post_signal) THEN "OPEN" ELSE "CLOSED"
  /\ UNCHANGED <<current_state, closed_sample_count>>

BeginClosing ==
  /\ Enter("CLOSING", using_post_filter)
  /\ delay' = 0
  /\ UNCHANGED <<low_signal_count, closed_sample_count, seeded, ctcssVars>>

WaitClosing ==
  /\ Stay("CLOSING")
  /\ delay' = delay + 1 /\ delay' < CloseDelay
  /\ UNCHANGED <<current_state, next_state, flapVars>>

\* Mutants: the signal is not looked at; "set current_state_" is forgotten.
ClosingOverBlind ==
  /\ Stay("CLOSING")
  /\ delay' = delay + 1 /\ delay' >= CloseDelay
  /\ current_state' = "OPEN" /\ next_state' = "OPEN"
  /\ UNCHANGED flapVars
ClosingOverKeepsState ==
  /\ Stay("CLOSING")
  /\ delay' = delay + 1 /\ delay' >= CloseDelay
  /\ next_state' = IF has_signal THEN "OPEN" ELSE "CLOSED"
  /\ UNCHANGED <<current_state, flapVars>>

\* The signal came back: OPEN again at once, so it is not an opening of its own.
ClosingOver ==
  /\ Stay("CLOSING")
  /\ delay' = delay + 1 /\ delay' >= CloseDelay
  /\ current_state' = IF has_signal THEN "OPEN" ELSE current_state
  /\ next_state' = IF has_signal THEN "OPEN" ELSE "CLOSED"
  /\ UNCHANGED flapVars

\* Out of CLOSING the delay that has already started is kept.
BeginAbort ==
  /\ Enter("LOW_SIGNAL_ABORT", using_post_filter)
  /\ delay' = IF current_state = "CLOSING" THEN delay ELSE 0
  /\ UNCHANGED <<low_signal_count, closed_sample_count, seeded, ctcssVars>>

WaitAbort ==
  /\ Stay("LOW_SIGNAL_ABORT")
  /\ delay' = delay + 1
  /\ next_state' = IF delay' >= CloseDelay THEN "CLOSED" ELSE next_state
  /\ UNCHANGED <<current_state, flapVars>>

Open ==
  /\ Enter("OPEN", using_post_filter)
  /\ heard' = FALSE
  /\ UNCHANGED <<delay, low_signal_count, closed_sample_count, seeded, fast, slow>>

\* Mutant: the CTCSS detectors are not reset.
CloseKeepsTone ==
  /\ Enter("CLOSED", FALSE)
  /\ closed_sample_count' = 0
  /\ UNCHANGED <<delay, low_signal_count, seeded, ctcssVars>>

Close ==
  /\ Enter("CLOSED", FALSE)
  /\ closed_sample_count' = 0
  /\ fast' = NoTone /\ slow' = NoTone
  /\ UNCHANGED <<delay, low_signal_count, seeded, heard>>

\* Flap detection: the opens are forgotten after recent_sample_size_ closed samples and one more.
StayClosed ==
  /\ Stay("CLOSED")
  /\ IF QuietIsRecent
     THEN closed_sample_count' = closed_sample_count + 1 /\ UNCHANGED recent_open_count
     ELSE recent_open_count' = 0 /\ UNCHANGED closed_sample_count
  /\ UNCHANGED <<current_state, next_state, delay>>

StayOpen ==
  /\ Stay("OPEN")
  /\ UNCHANGED <<current_state, next_state, delay, flapVars>>

update_current_state ==
  \/ BeginOpening \/ WaitOpening \/ OpeningOver
  \/ BeginClosing \/ WaitClosing \/ ClosingOver
  \/ BeginAbort \/ WaitAbort
  \/ Open \/ Close \/ StayClosed \/ StayOpen

-----------------------------------------------------------------------------
(* The rest of the sample.                                                 *)

AfterFilter == IF should_process_audio /\ has_ctcss THEN "audio" ELSE "update"

\* process_raw_sample() after update_current_state().
RawSample ==
  /\ phase = "sample"
  /\ pre_signal' \in BOOLEAN
  /\ \E low \in BOOLEAN :
       LET signal  == pre_signal' /\ (using_post_filter => post_signal)
           checked == CASE current_state = "OPEN" /\ ~signal -> set_state("CLOSING")
                        [] current_state = "CLOSED" /\ signal -> set_state("OPENING")
                        [] OTHER -> next_state
           counted == current_state \notin {"CLOSED", "LOW_SIGNAL_ABORT"}
       IN /\ low_signal_count' = IF counted THEN (IF low THEN low_signal_count + 1 ELSE 0) ELSE low_signal_count
          /\ next_state' = IF counted /\ low /\ low_signal_count' >= LowSignalAbort
                           THEN set_state("LOW_SIGNAL_ABORT") ELSE checked
  /\ UNCHANGED <<configVars, current_state, delay, flapVars, using_post_filter, seeded, post_signal, ctcssVars>>
  /\ phase' = IF has_filter /\ should_filter_sample' THEN "filter" ELSE AfterFilter

\* Mutant: one sample longer.
FilterFilledLate == current_state = "OPENING" /\ delay <= BufferSize
\* While OPENING, the pre-filter value is not through the buffer yet.
FilterNotFilled == current_state = "OPENING" /\ delay < BufferSize

FilterSkips ==
  /\ phase = "filter"
  /\ FilterNotFilled
  /\ phase' = AfterFilter
  /\ UNCHANGED <<configVars, stateVars, flapVars, levelVars, ctcssVars>>

\* process_filtered_sample(): the post-filter level closes the squelch at once, or vetoes its opening.
FilteredSample ==
  /\ phase = "filter"
  /\ ~FilterNotFilled
  /\ using_post_filter' = TRUE
  /\ seeded' = (seeded \/ (current_state = "OPENING" /\ delay = BufferSize))
  /\ post_signal' \in BOOLEAN
  /\ next_state' = IF post_signal' THEN next_state ELSE set_state("CLOSED")
  /\ phase' = AfterFilter
  /\ UNCHANGED <<configVars, current_state, delay, low_signal_count, flapVars, pre_signal, ctcssVars>>

\* CTCSS::process_audio_sample(): a verdict with every full window.
Detect(d, window, tone) ==
  IF d.sample_count + 1 < window
  THEN [sample_count |-> d.sample_count + 1, enough_samples |-> d.enough_samples, has_tone |-> d.has_tone]
  ELSE [sample_count |-> 0, enough_samples |-> TRUE, has_tone |-> tone]

\* process_audio_sample(): the fast detector only until the slow one has a full window.
AudioSample ==
  /\ phase = "audio"
  /\ \E slowTone, fastTone \in BOOLEAN :
       /\ slow' = Detect(slow, SlowWindow, slowTone)
       /\ fast' = IF slow'.enough_samples THEN fast ELSE Detect(fast, FastWindow, fastTone)
       /\ heard' = \/ heard
                   \/ slow.sample_count + 1 >= SlowWindow /\ slowTone
                   \/ fast.sample_count + 1 >= FastWindow /\ fastTone /\ ~slow'.enough_samples
  /\ phase' = "update"
  /\ UNCHANGED <<configVars, stateVars, flapVars, levelVars>>

Next == update_current_state \/ RawSample \/ FilterSkips \/ FilteredSample \/ AudioSample

Spec == Init /\ [][Next]_vars

\* Samples keep coming, and demodulate() finishes each one.
FairSpec == Spec /\ WF_vars(Next)

-----------------------------------------------------------------------------
Detector(window) == [sample_count : 0 .. window - 1, enough_samples : BOOLEAN, has_tone : BOOLEAN]

TypeOK ==
  /\ has_filter \in BOOLEAN /\ has_ctcss \in BOOLEAN
  /\ phase \in {"update", "sample", "filter", "audio"}
  /\ current_state \in State /\ next_state \in State
  /\ delay \in Nat /\ low_signal_count \in Nat
  /\ closed_sample_count \in 0 .. RecentSampleSize /\ recent_open_count \in 0 .. FlapOpensThreshold
  /\ using_post_filter \in BOOLEAN /\ seeded \in BOOLEAN
  /\ pre_signal \in BOOLEAN /\ post_signal \in BOOLEAN
  /\ fast \in Detector(FastWindow) /\ slow \in Detector(SlowWindow) /\ heard \in BOOLEAN

\* The pairs of current_state_ and next_state_ set_state() lists as the valid ones (squelch.cpp:298-318).
ValidTransitions ==
  next_state \in CASE current_state = "CLOSED"           -> {"CLOSED", "OPENING"}
                   [] current_state = "OPENING"          -> {"CLOSED", "OPENING", "CLOSING", "OPEN"}
                   [] current_state = "CLOSING"          -> State
                   [] current_state = "LOW_SIGNAL_ABORT" -> {"CLOSED", "LOW_SIGNAL_ABORT"}
                   [] current_state = "OPEN"             -> {"CLOSING", "LOW_SIGNAL_ABORT", "OPEN"}

\* After a sharp drop audio goes on for at most low_signal_abort_ low samples, and one more when
\* the post-filter level turned the abort into a CLOSING.
DropBounded == low_signal_count <= LowSignalAbort + 1

\* A channel with a lowpass filter opens only on a post-filter level of this very opening, never on
\* what is left from an earlier signal (the constructor's assert that open_delay_ > buffer_size_).
OpensOnFilteredLevel == has_filter /\ first_open_sample => using_post_filter /\ seeded

\* A channel with CTCSS is heard only when a detector found its tone in this very transmission.
ToneOfThisTransmission == has_ctcss /\ is_open => heard

\* What demodulate() asks before it bootstraps the AGC or fades out: at the end of a sample
\* first_open_sample() and last_open_sample() say exactly whether audio starts or stops with the next.
FramesTransmission ==
  [][phase = "update" =>
       /\ first_open_sample <=> (~should_process_audio /\ should_process_audio')
       /\ last_open_sample  <=> (should_process_audio /\ ~should_process_audio')]_vars

\* The squelch is a gate that watches a signal for the whole opening delay.
Gate == INSTANCE SquelchGate WITH
  gate <- CASE current_state = "OPENING" -> "arming" [] should_process_audio -> "passing" [] OTHER -> "shut",
  age  <- IF current_state = "OPENING" THEN delay ELSE 0
GateSpec == Gate!Spec

\* Without a signal the squelch ends up CLOSED and no longer takes its opens for flapping; with a
\* signal that stays above every threshold it ends up OPEN (squelch.cpp:409).
Settles ==
  /\ <>[]~pre_signal => <>[](current_state = "CLOSED" /\ recent_open_count = 0)
  /\ <>[](pre_signal /\ low_signal_count = 0 /\ (using_post_filter => post_signal)) => <>[](current_state = "OPEN")

\* squelch.h:48: the post-filter level "is not updated while state is CLOSED".
PostFilterIdle == [][FilteredSample => current_state # "CLOSED"]_vars
=============================================================================
