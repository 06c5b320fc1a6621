--------------------------- MODULE SquelchProofs ---------------------------
(***************************************************************************)
(* Proofs about Squelch, for any delays, buffer size and CTCSS windows:    *)
(* type correctness, the table of valid transitions, the bound on low      *)
(* samples, opening on the filtered level only, the CTCSS gate, and that   *)
(* the squelch implements SquelchGate.                                     *)
(***************************************************************************)
EXTENDS Squelch, TLAPS

\* The pairs that do occur.
PairInv ==
  /\ current_state = "CLOSED"           => next_state \in {"CLOSED", "OPENING"}
  /\ current_state = "OPENING"          => next_state \in {"CLOSED", "OPENING", "OPEN"}
  /\ current_state = "CLOSING"          => next_state \in {"CLOSED", "CLOSING", "LOW_SIGNAL_ABORT"}
  /\ current_state = "LOW_SIGNAL_ABORT" => next_state \in {"CLOSED", "LOW_SIGNAL_ABORT"}
  /\ current_state = "OPEN"             => next_state \in {"CLOSING", "LOW_SIGNAL_ABORT", "OPEN"}

\* OPENING lasts until the delay is over, and OPEN comes only after that.
DelayInv ==
  current_state = "OPENING" =>
    /\ delay <= OpenDelay
    /\ next_state = "OPENING" => delay < OpenDelay
    /\ next_state = "OPEN" => delay = OpenDelay

\* Between two samples a count at the limit has already turned the squelch away from OPEN.
LowInv ==
  /\ DropBounded
  /\ current_state \in {"OPENING", "OPEN"} => low_signal_count <= LowSignalAbort
  /\ phase = "sample" =>
       /\ current_state \in {"OPENING", "OPEN"} => low_signal_count < LowSignalAbort
       /\ current_state = "CLOSING" => low_signal_count <= LowSignalAbort
  /\ phase # "sample" /\ low_signal_count >= LowSignalAbort =>
       /\ current_state = "OPENING" => next_state = "CLOSED"
       /\ current_state = "OPEN"    => next_state \in {"LOW_SIGNAL_ABORT", "CLOSING"}
       /\ current_state = "CLOSING" => next_state \in {"LOW_SIGNAL_ABORT", "CLOSED"}

\* No filtered sample of an opening is missed once the buffer is full.
FilterInv ==
  has_filter /\ current_state = "OPENING"
    /\ (delay > BufferSize \/ (delay = BufferSize /\ phase \notin {"sample", "filter"}))
    => using_post_filter /\ seeded

\* The detectors know nothing before the squelch opens, and what they know later was heard since.
ToneInv ==
  /\ phase = "audio" => should_process_audio
  /\ current_state \in {"CLOSED", "OPENING"} => fast = NoTone /\ slow = NoTone
  /\ should_process_audio /\ (fast.has_tone \/ slow.has_tone) => heard

IInv == TypeOK /\ PairInv /\ DelayInv /\ LowInv /\ FilterInv /\ ToneInv
-----------------------------------------------------------------------------
LEMMA NoToneType ==
  /\ NoTone \in Detector(FastWindow) /\ NoTone \in Detector(SlowWindow)
  /\ ~NoTone.has_tone
<1>1. 0 \in 0 .. FastWindow - 1 /\ 0 \in 0 .. SlowWindow - 1
  BY SquelchAssumption
<1> QED
  BY <1>1 DEF NoTone, Detector

LEMMA InitIInv == Init => IInv
<1> SUFFICES ASSUME Init PROVE IInv
  OBVIOUS
<1> USE SquelchAssumption
<1>1. TypeOK
  <2>1. /\ has_filter \in BOOLEAN /\ has_ctcss \in BOOLEAN /\ using_post_filter \in BOOLEAN /\ seeded \in BOOLEAN
        /\ pre_signal \in BOOLEAN /\ post_signal \in BOOLEAN /\ heard \in BOOLEAN
        /\ fast \in Detector(FastWindow) /\ slow \in Detector(SlowWindow)
    BY NoToneType, Zenon DEF Init
  <2>2. /\ phase \in {"update", "sample", "filter", "audio"} /\ current_state \in State /\ next_state \in State
        /\ delay \in Nat /\ low_signal_count \in Nat
        /\ closed_sample_count \in 0 .. RecentSampleSize /\ recent_open_count \in 0 .. FlapOpensThreshold
    BY DEF Init, State
  <2> QED
    BY <2>1, <2>2, Zenon DEF TypeOK
<1>2. PairInv /\ DelayInv /\ LowInv
  BY DEF Init, PairInv, DelayInv, LowInv, DropBounded
<1>3. FilterInv /\ ToneInv
  BY DEF Init, FilterInv, ToneInv, should_process_audio
<1> QED
  BY <1>1, <1>2, <1>3 DEF IInv

\* What a detector makes of a sample is again a detector's state, and says "tone" only if it did or was told so.
LEMMA DetectType ==
  ASSUME NEW window \in Nat \ {0}, NEW d \in Detector(window), NEW tone \in BOOLEAN
  PROVE  /\ Detect(d, window, tone) \in Detector(window)
         /\ Detect(d, window, tone).has_tone =>
              d.has_tone \/ (d.sample_count + 1 >= window /\ tone)
BY DEF Detect, Detector

LEMMA SetStateType ==
  ASSUME NEW update \in State, current_state \in State
  PROVE  set_state(update) \in State
BY DEF set_state, State

\* Every step keeps to the pairs that occur.
LEMMA PairStep ==
  ASSUME TypeOK, PairInv, [Next]_vars
  PROVE  PairInv'
<1> USE SquelchAssumption
<1> USE DEF PairInv, TypeOK, State
<1>1. CASE BeginOpening
  BY <1>1 DEF BeginOpening, Enter, NextBuffered, configVars, flapVars, ctcssVars
<1>2. CASE WaitOpening
  BY <1>2 DEF WaitOpening, Stay, NextBuffered, configVars, flapVars, ctcssVars
<1>3. CASE OpeningOver
  BY <1>3 DEF OpeningOver, Stay
<1>4. CASE BeginClosing
  BY <1>4 DEF BeginClosing, Enter, NextBuffered, configVars, flapVars, ctcssVars
<1>5. CASE WaitClosing
  BY <1>5 DEF WaitClosing, Stay, NextBuffered, configVars, flapVars, ctcssVars
<1>6. CASE ClosingOver
  BY <1>6 DEF ClosingOver, Stay, NextBuffered, configVars, flapVars, ctcssVars
<1>7. CASE BeginAbort
  BY <1>7 DEF BeginAbort, Enter, NextBuffered, configVars, flapVars, ctcssVars
<1>8. CASE WaitAbort
  BY <1>8 DEF WaitAbort, Stay, NextBuffered, configVars, flapVars, ctcssVars
<1>9. CASE Open
  BY <1>9 DEF Open, Enter, NextBuffered, configVars, flapVars, ctcssVars
<1>10. CASE Close
  BY <1>10 DEF Close, Enter, NextBuffered, configVars, flapVars, ctcssVars
<1>11. CASE StayClosed
  BY <1>11 DEF StayClosed, Stay, NextBuffered, configVars, flapVars, ctcssVars
<1>12. CASE StayOpen
  BY <1>12 DEF StayOpen, Stay, NextBuffered, configVars, flapVars, ctcssVars
<1>13. CASE RawSample
  BY <1>13 DEF RawSample, set_state
<1>14. CASE FilterSkips
  BY <1>14 DEF FilterSkips, configVars, flapVars, ctcssVars, stateVars, levelVars, AfterFilter
<1>15. CASE FilteredSample
  BY <1>15 DEF FilteredSample, set_state, configVars, flapVars, ctcssVars
<1>16. CASE AudioSample
  BY <1>16 DEF AudioSample, configVars, flapVars, ctcssVars, stateVars, levelVars
<1>17. CASE UNCHANGED vars
  BY <1>17 DEF vars, configVars, stateVars, flapVars, levelVars, ctcssVars
<1> QED
  BY <1>1, <1>2, <1>3, <1>4, <1>5, <1>6, <1>7, <1>8, <1>9, <1>10, <1>11, <1>12, <1>13, <1>14, <1>15, <1>16, <1>17 DEF Next, update_current_state

LEMMA DelayStep ==
  ASSUME TypeOK, PairInv, DelayInv, [Next]_vars
  PROVE  DelayInv'
<1> USE SquelchAssumption
<1> USE DEF PairInv, DelayInv, TypeOK, State
<1>1. CASE BeginOpening
  BY <1>1 DEF BeginOpening, Enter, NextBuffered, configVars, flapVars, ctcssVars
<1>2. CASE WaitOpening
  BY <1>2 DEF WaitOpening, Stay, NextBuffered, configVars, flapVars, ctcssVars
<1>3. CASE OpeningOver
  BY <1>3 DEF OpeningOver, Stay, NextBuffered, configVars, flapVars, ctcssVars
<1>4. CASE BeginClosing
  BY <1>4 DEF BeginClosing, Enter, NextBuffered, configVars, flapVars, ctcssVars
<1>5. CASE WaitClosing
  BY <1>5 DEF WaitClosing, Stay, NextBuffered, configVars, flapVars, ctcssVars
<1>6. CASE ClosingOver
  BY <1>6 DEF ClosingOver, Stay, NextBuffered, configVars, flapVars, ctcssVars
<1>7. CASE BeginAbort
  BY <1>7 DEF BeginAbort, Enter, NextBuffered, configVars, flapVars, ctcssVars
<1>8. CASE WaitAbort
  BY <1>8 DEF WaitAbort, Stay, NextBuffered, configVars, flapVars, ctcssVars
<1>9. CASE Open
  BY <1>9 DEF Open, Enter, NextBuffered, configVars, flapVars, ctcssVars
<1>10. CASE Close
  BY <1>10 DEF Close, Enter, NextBuffered, configVars, flapVars, ctcssVars
<1>11. CASE StayClosed
  BY <1>11 DEF StayClosed, Stay, NextBuffered, configVars, flapVars, ctcssVars
<1>12. CASE StayOpen
  BY <1>12 DEF StayOpen, Stay, NextBuffered, configVars, flapVars, ctcssVars
<1>13. CASE RawSample
  BY <1>13 DEF RawSample, set_state
<1>14. CASE FilterSkips
  BY <1>14 DEF FilterSkips, configVars, flapVars, ctcssVars, stateVars, levelVars, AfterFilter
<1>15. CASE FilteredSample
  BY <1>15 DEF FilteredSample, set_state
<1>16. CASE AudioSample
  BY <1>16 DEF AudioSample, configVars, flapVars, ctcssVars, stateVars, levelVars
<1>17. CASE UNCHANGED vars
  BY <1>17 DEF vars, configVars, stateVars, flapVars, levelVars, ctcssVars
<1> QED
  BY <1>1, <1>2, <1>3, <1>4, <1>5, <1>6, <1>7, <1>8, <1>9, <1>10, <1>11, <1>12, <1>13, <1>14, <1>15, <1>16, <1>17 DEF Next, update_current_state

\* A count that reaches the limit turns the squelch away before the next sample is counted.
LEMMA LowStep ==
  ASSUME TypeOK, PairInv, LowInv, [Next]_vars
  PROVE  LowInv'
<1> USE SquelchAssumption
<1> USE DEF PairInv, LowInv, DropBounded, TypeOK, State
<1>1. CASE BeginOpening
  BY <1>1 DEF BeginOpening, Enter, NextBuffered, configVars, flapVars, ctcssVars
<1>2. CASE WaitOpening
  BY <1>2 DEF WaitOpening, Stay, NextBuffered, configVars, flapVars, ctcssVars
<1>3. CASE OpeningOver
  BY <1>3 DEF OpeningOver, Stay, NextBuffered, configVars, flapVars, ctcssVars
<1>4. CASE BeginClosing
  BY <1>4 DEF BeginClosing, Enter, NextBuffered, configVars, flapVars, ctcssVars
<1>5. CASE WaitClosing
  BY <1>5 DEF WaitClosing, Stay, NextBuffered, configVars, flapVars, ctcssVars
<1>6. CASE ClosingOver
  BY <1>6 DEF ClosingOver, Stay, NextBuffered, configVars, flapVars, ctcssVars
<1>7. CASE BeginAbort
  BY <1>7 DEF BeginAbort, Enter, NextBuffered, configVars, flapVars, ctcssVars
<1>8. CASE WaitAbort
  BY <1>8 DEF WaitAbort, Stay, NextBuffered, configVars, flapVars, ctcssVars
<1>9. CASE Open
  BY <1>9 DEF Open, Enter, NextBuffered, configVars, flapVars, ctcssVars
<1>10. CASE Close
  BY <1>10 DEF Close, Enter, NextBuffered, configVars, flapVars, ctcssVars
<1>11. CASE StayClosed
  BY <1>11 DEF StayClosed, Stay, NextBuffered, configVars, flapVars, ctcssVars
<1>12. CASE StayOpen
  BY <1>12 DEF StayOpen, Stay, NextBuffered, configVars, flapVars, ctcssVars
<1>13. CASE RawSample
  BY <1>13 DEF RawSample, set_state, AfterFilter
<1>14. CASE FilterSkips
  BY <1>14 DEF FilterSkips, configVars, flapVars, ctcssVars, stateVars, levelVars, AfterFilter
<1>15. CASE FilteredSample
  BY <1>15 DEF FilteredSample, set_state, AfterFilter
<1>16. CASE AudioSample
  BY <1>16 DEF AudioSample, configVars, flapVars, ctcssVars, stateVars, levelVars
<1>17. CASE UNCHANGED vars
  BY <1>17 DEF vars, configVars, stateVars, flapVars, levelVars, ctcssVars
<1> QED
  BY <1>1, <1>2, <1>3, <1>4, <1>5, <1>6, <1>7, <1>8, <1>9, <1>10, <1>11, <1>12, <1>13, <1>14, <1>15, <1>16, <1>17 DEF Next, update_current_state

LEMMA FilterStep ==
  ASSUME TypeOK, PairInv, DelayInv, FilterInv, [Next]_vars
  PROVE  FilterInv'
<1> USE SquelchAssumption
<1> USE DEF FilterInv, TypeOK
<1>1. CASE BeginOpening
  BY <1>1 DEF BeginOpening, Enter, NextBuffered, configVars, flapVars, ctcssVars
<1>2. CASE WaitOpening
  BY <1>2 DEF WaitOpening, Stay, NextBuffered, configVars, flapVars, ctcssVars
<1>3. CASE OpeningOver
  BY <1>3 DEF OpeningOver, Stay, configVars, DelayInv
<1>4. CASE BeginClosing
  BY <1>4 DEF BeginClosing, Enter, NextBuffered, configVars, flapVars, ctcssVars
<1>5. CASE WaitClosing
  BY <1>5 DEF WaitClosing, Stay, NextBuffered, configVars, flapVars, ctcssVars
<1>6. CASE ClosingOver
  BY <1>6 DEF ClosingOver, Stay, NextBuffered, configVars, flapVars, ctcssVars
<1>7. CASE BeginAbort
  BY <1>7 DEF BeginAbort, Enter, NextBuffered, configVars, flapVars, ctcssVars
<1>8. CASE WaitAbort
  BY <1>8 DEF WaitAbort, Stay, NextBuffered, configVars, flapVars, ctcssVars
<1>9. CASE Open
  BY <1>9 DEF Open, Enter, NextBuffered, configVars, flapVars, ctcssVars
<1>10. CASE Close
  BY <1>10 DEF Close, Enter, NextBuffered, configVars, flapVars, ctcssVars
<1>11. CASE StayClosed
  BY <1>11 DEF StayClosed, Stay, NextBuffered, configVars, flapVars, ctcssVars
<1>12. CASE StayOpen
  BY <1>12 DEF StayOpen, Stay, NextBuffered, configVars, flapVars, ctcssVars
<1>13. CASE RawSample
  BY <1>13 DEF RawSample, configVars, AfterFilter, should_filter_sample
<1>14. CASE FilterSkips
  BY <1>14 DEF FilterSkips, FilterNotFilled, configVars, stateVars, flapVars, ctcssVars, levelVars, AfterFilter, PairInv, should_process_audio
<1>15. CASE FilteredSample
  BY <1>15 DEF FilteredSample, FilterNotFilled, configVars, flapVars, ctcssVars, AfterFilter, should_process_audio
<1>16. CASE AudioSample
  BY <1>16 DEF AudioSample, configVars, flapVars, ctcssVars, stateVars, levelVars
<1>17. CASE UNCHANGED vars
  BY <1>17 DEF vars, configVars, stateVars, flapVars, levelVars, ctcssVars
<1> QED
  BY <1>1, <1>2, <1>3, <1>4, <1>5, <1>6, <1>7, <1>8, <1>9, <1>10, <1>11, <1>12, <1>13, <1>14, <1>15, <1>16, <1>17 DEF Next, update_current_state

\* What the detectors know was heard since the squelch last opened.
LEMMA ToneStep ==
  ASSUME TypeOK, PairInv, ToneInv, [Next]_vars
  PROVE  ToneInv'
<1> USE SquelchAssumption
<1> USE DEF PairInv, ToneInv, TypeOK, State, should_process_audio
<1>1. CASE BeginOpening
  BY <1>1 DEF BeginOpening, Enter, NextBuffered, configVars, flapVars, ctcssVars
<1>2. CASE WaitOpening
  BY <1>2 DEF WaitOpening, Stay, NextBuffered, configVars, flapVars, ctcssVars
<1>3. CASE OpeningOver
  BY <1>3 DEF OpeningOver, Stay, NextBuffered, configVars, flapVars, ctcssVars
<1>4. CASE BeginClosing
  BY <1>4 DEF BeginClosing, Enter, NextBuffered, configVars, flapVars, ctcssVars
<1>5. CASE WaitClosing
  BY <1>5 DEF WaitClosing, Stay, NextBuffered, configVars, flapVars, ctcssVars
<1>6. CASE ClosingOver
  BY <1>6 DEF ClosingOver, Stay, NextBuffered, configVars, flapVars, ctcssVars
<1>7. CASE BeginAbort
  BY <1>7 DEF BeginAbort, Enter, NextBuffered, configVars, flapVars, ctcssVars
<1>8. CASE WaitAbort
  BY <1>8 DEF WaitAbort, Stay, NextBuffered, configVars, flapVars, ctcssVars
<1>9. CASE Open
  BY <1>9, NoToneType DEF Open, Enter
<1>10. CASE Close
  BY <1>10 DEF Close, Enter, NextBuffered, configVars, flapVars, ctcssVars
<1>11. CASE StayClosed
  BY <1>11 DEF StayClosed, Stay, NextBuffered, configVars, flapVars, ctcssVars
<1>12. CASE StayOpen
  BY <1>12 DEF StayOpen, Stay, NextBuffered, configVars, flapVars, ctcssVars
<1>13. CASE RawSample
  BY <1>13 DEF RawSample, AfterFilter, ctcssVars
<1>14. CASE FilterSkips
  BY <1>14 DEF FilterSkips, configVars, flapVars, ctcssVars, stateVars, levelVars, AfterFilter
<1>15. CASE FilteredSample
  BY <1>15 DEF FilteredSample, AfterFilter, ctcssVars
<1>16. CASE AudioSample
  <2>1. PICK slowTone, fastTone \in BOOLEAN :
          /\ slow' = Detect(slow, SlowWindow, slowTone)
          /\ fast' = IF slow'.enough_samples THEN fast ELSE Detect(fast, FastWindow, fastTone)
          /\ heard' = \/ heard
                      \/ slow.sample_count + 1 >= SlowWindow /\ slowTone
                      \/ fast.sample_count + 1 >= FastWindow /\ fastTone /\ ~slow'.enough_samples
    BY <1>16, Zenon DEF AudioSample
  <2>2. phase' = "update" /\ current_state' = current_state /\ should_process_audio
    BY <1>16 DEF AudioSample, stateVars
  <2>3. slow'.has_tone => slow.has_tone \/ (slow.sample_count + 1 >= SlowWindow /\ slowTone)
    BY <2>1, DetectType
  <2>4. ~slow'.enough_samples /\ fast'.has_tone =>
          fast.has_tone \/ (fast.sample_count + 1 >= FastWindow /\ fastTone)
    BY <2>1, DetectType
  <2>5. slow'.enough_samples => fast' = fast
    BY <2>1, Zenon
  <2>6. current_state \in {"OPEN", "CLOSING"}
    BY <2>2
  <2>7. fast'.has_tone \/ slow'.has_tone => heard'
    BY <2>1, <2>3, <2>4, <2>5, <2>6, Zenon
  <2> QED
    BY <2>2, <2>6, <2>7
<1>17. CASE UNCHANGED vars
  BY <1>17 DEF vars, configVars, stateVars, flapVars, levelVars, ctcssVars
<1> QED
  BY <1>1, <1>2, <1>3, <1>4, <1>5, <1>6, <1>7, <1>8, <1>9, <1>10, <1>11, <1>12, <1>13, <1>14, <1>15, <1>16, <1>17 DEF Next, update_current_state

\* The parts of TypeOK.
CountersOK ==
  /\ phase \in {"update", "sample", "filter", "audio"}
  /\ current_state \in State /\ next_state \in State
  /\ delay \in Nat /\ low_signal_count \in Nat
  /\ closed_sample_count \in 0 .. RecentSampleSize /\ recent_open_count \in 0 .. FlapOpensThreshold
FlagsOK ==
  /\ has_filter \in BOOLEAN /\ has_ctcss \in BOOLEAN
  /\ using_post_filter \in BOOLEAN /\ seeded \in BOOLEAN
  /\ pre_signal \in BOOLEAN /\ post_signal \in BOOLEAN
DetectorsOK == fast \in Detector(FastWindow) /\ slow \in Detector(SlowWindow) /\ heard \in BOOLEAN

LEMMA TypeParts == TypeOK <=> CountersOK /\ FlagsOK /\ DetectorsOK
BY Zenon DEF TypeOK, CountersOK, FlagsOK, DetectorsOK

LEMMA CountersStep ==
  ASSUME CountersOK, [Next]_vars
  PROVE  CountersOK'
<1> USE SquelchAssumption
<1> USE DEF CountersOK, State
<1>1. CASE BeginOpening
  BY <1>1 DEF BeginOpening, Enter, NextBuffered, configVars, flapVars, ctcssVars
<1>2. CASE WaitOpening
  BY <1>2 DEF WaitOpening, Stay, NextBuffered, configVars, flapVars, ctcssVars
<1>3. CASE OpeningOver
  BY <1>3 DEF OpeningOver, Stay, QuietIsRecent
<1>4. CASE BeginClosing
  BY <1>4 DEF BeginClosing, Enter, NextBuffered, configVars, flapVars, ctcssVars
<1>5. CASE WaitClosing
  BY <1>5 DEF WaitClosing, Stay, NextBuffered, configVars, flapVars, ctcssVars
<1>6. CASE ClosingOver
  BY <1>6 DEF ClosingOver, Stay, NextBuffered, configVars, flapVars, ctcssVars
<1>7. CASE BeginAbort
  BY <1>7 DEF BeginAbort, Enter, NextBuffered, configVars, flapVars, ctcssVars
<1>8. CASE WaitAbort
  BY <1>8 DEF WaitAbort, Stay, NextBuffered, configVars, flapVars, ctcssVars
<1>9. CASE Open
  BY <1>9 DEF Open, Enter, NextBuffered, configVars, flapVars, ctcssVars
<1>10. CASE Close
  BY <1>10 DEF Close, Enter, NextBuffered, configVars, flapVars, ctcssVars
<1>11. CASE StayClosed
  BY <1>11 DEF StayClosed, Stay, QuietIsRecent
<1>12. CASE StayOpen
  BY <1>12 DEF StayOpen, Stay, NextBuffered, configVars, flapVars, ctcssVars
<1>13. CASE RawSample
  BY <1>13 DEF RawSample, set_state, AfterFilter, flapVars
<1>14. CASE FilterSkips
  BY <1>14 DEF FilterSkips, configVars, flapVars, ctcssVars, stateVars, levelVars, AfterFilter
<1>15. CASE FilteredSample
  BY <1>15 DEF FilteredSample, set_state, AfterFilter, flapVars
<1>16. CASE AudioSample
  BY <1>16 DEF AudioSample, configVars, flapVars, ctcssVars, stateVars, levelVars
<1>17. CASE UNCHANGED vars
  BY <1>17 DEF vars, configVars, stateVars, flapVars, levelVars, ctcssVars
<1> QED
  BY <1>1, <1>2, <1>3, <1>4, <1>5, <1>6, <1>7, <1>8, <1>9, <1>10, <1>11, <1>12, <1>13, <1>14, <1>15, <1>16, <1>17 DEF Next, update_current_state

LEMMA FlagsStep ==
  ASSUME FlagsOK, [Next]_vars
  PROVE  FlagsOK'
<1> USE SquelchAssumption
<1> USE DEF FlagsOK
<1>1. CASE BeginOpening
  BY <1>1, Zenon DEF BeginOpening, Enter, NextBuffered, configVars, levelVars
<1>2. CASE WaitOpening
  BY <1>2, Zenon DEF WaitOpening, Stay, NextBuffered, configVars, levelVars
<1>3. CASE OpeningOver
  BY <1>3, Zenon DEF OpeningOver, Stay, NextBuffered, configVars, levelVars
<1>4. CASE BeginClosing
  BY <1>4, Zenon DEF BeginClosing, Enter, NextBuffered, configVars, levelVars
<1>5. CASE WaitClosing
  BY <1>5, Zenon DEF WaitClosing, Stay, NextBuffered, configVars, levelVars
<1>6. CASE ClosingOver
  BY <1>6, Zenon DEF ClosingOver, Stay, NextBuffered, configVars, levelVars
<1>7. CASE BeginAbort
  BY <1>7, Zenon DEF BeginAbort, Enter, NextBuffered, configVars, levelVars
<1>8. CASE WaitAbort
  BY <1>8, Zenon DEF WaitAbort, Stay, NextBuffered, configVars, levelVars
<1>9. CASE Open
  BY <1>9, Zenon DEF Open, Enter, NextBuffered, configVars, levelVars
<1>10. CASE Close
  BY <1>10, Zenon DEF Close, Enter, NextBuffered, configVars, levelVars
<1>11. CASE StayClosed
  BY <1>11, Zenon DEF StayClosed, Stay, NextBuffered, configVars, levelVars
<1>12. CASE StayOpen
  BY <1>12, Zenon DEF StayOpen, Stay, NextBuffered, configVars, levelVars
<1>13. CASE RawSample
  BY <1>13, Zenon DEF RawSample, configVars, levelVars
<1>14. CASE FilterSkips
  BY <1>14, Zenon DEF FilterSkips, configVars, levelVars
<1>15. CASE FilteredSample
  BY <1>15, Zenon DEF FilteredSample, configVars, levelVars
<1>16. CASE AudioSample
  BY <1>16, Zenon DEF AudioSample, configVars, levelVars
<1>17. CASE UNCHANGED vars
  BY <1>17 DEF vars, configVars, stateVars, flapVars, levelVars, ctcssVars
<1> QED
  BY <1>1, <1>2, <1>3, <1>4, <1>5, <1>6, <1>7, <1>8, <1>9, <1>10, <1>11, <1>12, <1>13, <1>14, <1>15, <1>16, <1>17 DEF Next, update_current_state

LEMMA DetectorsStep ==
  ASSUME DetectorsOK, [Next]_vars
  PROVE  DetectorsOK'
<1> USE SquelchAssumption
<1> USE DEF DetectorsOK
<1>1. CASE BeginOpening
  BY <1>1, Zenon DEF BeginOpening, Enter, ctcssVars
<1>2. CASE WaitOpening
  BY <1>2, Zenon DEF WaitOpening, Stay, ctcssVars
<1>3. CASE OpeningOver
  BY <1>3, Zenon DEF OpeningOver, Stay, ctcssVars
<1>4. CASE BeginClosing
  BY <1>4, Zenon DEF BeginClosing, Enter, ctcssVars
<1>5. CASE WaitClosing
  BY <1>5, Zenon DEF WaitClosing, Stay, ctcssVars
<1>6. CASE ClosingOver
  BY <1>6, Zenon DEF ClosingOver, Stay, ctcssVars
<1>7. CASE BeginAbort
  BY <1>7, Zenon DEF BeginAbort, Enter, ctcssVars
<1>8. CASE WaitAbort
  BY <1>8, Zenon DEF WaitAbort, Stay, ctcssVars
<1>9. CASE Open
  BY <1>9, Zenon DEF Open, Enter, ctcssVars
<1>10. CASE Close
  BY <1>10, NoToneType, Zenon DEF Close, Enter, ctcssVars
<1>11. CASE StayClosed
  BY <1>11, Zenon DEF StayClosed, Stay, ctcssVars
<1>12. CASE StayOpen
  BY <1>12, Zenon DEF StayOpen, Stay, ctcssVars
<1>13. CASE RawSample
  BY <1>13, Zenon DEF RawSample, ctcssVars
<1>14. CASE FilterSkips
  BY <1>14, Zenon DEF FilterSkips, ctcssVars
<1>15. CASE FilteredSample
  BY <1>15, Zenon DEF FilteredSample, ctcssVars
<1>16. CASE AudioSample
  <2>1. PICK slowTone, fastTone \in BOOLEAN :
          /\ slow' = Detect(slow, SlowWindow, slowTone)
          /\ fast' = IF slow'.enough_samples THEN fast ELSE Detect(fast, FastWindow, fastTone)
          /\ heard' = \/ heard
                      \/ slow.sample_count + 1 >= SlowWindow /\ slowTone
                      \/ fast.sample_count + 1 >= FastWindow /\ fastTone /\ ~slow'.enough_samples
    BY <1>16, Zenon DEF AudioSample
  <2>2. heard' \in BOOLEAN
    BY <2>1, Zenon
  <2> QED
    BY <2>1, <2>2, DetectType
<1>17. CASE UNCHANGED vars
  BY <1>17 DEF vars, configVars, stateVars, flapVars, levelVars, ctcssVars
<1> QED
  BY <1>1, <1>2, <1>3, <1>4, <1>5, <1>6, <1>7, <1>8, <1>9, <1>10, <1>11, <1>12, <1>13, <1>14, <1>15, <1>16, <1>17 DEF Next, update_current_state

LEMMA StepIInv == IInv /\ [Next]_vars => IInv'
<1> SUFFICES ASSUME IInv, [Next]_vars PROVE IInv'
  OBVIOUS
<1>1. TypeOK /\ PairInv /\ DelayInv /\ LowInv /\ FilterInv /\ ToneInv
  BY DEF IInv
<1>2. TypeOK'
  <2>1. CountersOK' /\ FlagsOK' /\ DetectorsOK'
    BY <1>1, TypeParts, CountersStep, FlagsStep, DetectorsStep
  <2> QED
    BY <2>1, Zenon DEF TypeOK, CountersOK, FlagsOK, DetectorsOK
<1> QED
  BY <1>1, <1>2, PairStep, DelayStep, LowStep, FilterStep, ToneStep DEF IInv

\* The inductive invariant holds: each of its parts is preserved by every action (the lemmas above).
THEOREM Invariance == Spec => []IInv
BY InitIInv, StepIInv, PTL DEF Spec

\* The types, with the flap counters within their caps and the detectors within their windows.
THEOREM TypeCorrect == Spec => []TypeOK
<1>1. IInv => TypeOK
  BY DEF IInv
<1> QED
  BY <1>1, Invariance, PTL

\* set_state() and update_current_state() never make a pair that the comment in set_state() does not list.
THEOREM TransitionsValid == Spec => []ValidTransitions
<1>1. IInv => ValidTransitions
  BY DEF IInv, TypeOK, PairInv, ValidTransitions, State
<1> QED
  BY <1>1, Invariance, PTL

\* No more than low_signal_abort_ + 1 low samples are ever counted in a row, whatever the post-filter level does.
THEOREM LowSamplesBounded == Spec => []DropBounded
<1>1. IInv => DropBounded
  BY DEF IInv, LowInv
<1> QED
  BY <1>1, Invariance, PTL

\* open_delay_ > buffer_size_ is enough for every opening to be decided on its own post-filter level.
THEOREM FilteredOpenings == Spec => []OpensOnFilteredLevel
<1>1. IInv => OpensOnFilteredLevel
  <2> SUFFICES ASSUME IInv, has_filter, first_open_sample PROVE using_post_filter /\ seeded
    BY DEF OpensOnFilteredLevel
  <2>1. current_state = "OPENING" /\ next_state = "OPEN"
    BY DEF IInv, TypeOK, State, PairInv, first_open_sample
  <2>2. delay > BufferSize
    BY <2>1, SquelchAssumption DEF IInv, DelayInv, TypeOK
  <2> QED
    BY <2>1, <2>2 DEF IInv, FilterInv
<1> QED
  BY <1>1, Invariance, PTL

\* With CTCSS, is_open() always rests on a tone found since the squelch last opened.
THEOREM ToneGate == Spec => []ToneOfThisTransmission
<1>1. IInv => ToneOfThisTransmission
  BY DEF IInv, ToneInv, ToneOfThisTransmission, is_open, should_process_audio
<1> QED
  BY <1>1, Invariance, PTL

\* first_open_sample() and last_open_sample() frame each run of audio samples exactly.
THEOREM AudioFramed == Spec => FramesTransmission
<1> DEFINE Framed == phase = "update" =>
             /\ first_open_sample <=> (~should_process_audio /\ should_process_audio')
             /\ last_open_sample  <=> (should_process_audio /\ ~should_process_audio')
<1>1. ASSUME IInv, Next PROVE Framed
  <2> SUFFICES ASSUME phase = "update" PROVE Framed
    OBVIOUS
  <2> USE DEF first_open_sample, last_open_sample, should_process_audio
  <2>1. PairInv /\ current_state \in State
    BY <1>1 DEF IInv, TypeOK
  <2> USE <2>1 DEF PairInv, State
  <2>2. CASE BeginOpening
    BY <2>2 DEF BeginOpening, Enter
  <2>3. CASE WaitOpening
    BY <2>3 DEF WaitOpening, Stay
  <2>4. CASE OpeningOver
    BY <2>4 DEF OpeningOver, Stay
  <2>5. CASE BeginClosing
    BY <2>5 DEF BeginClosing, Enter
  <2>6. CASE WaitClosing
    BY <2>6 DEF WaitClosing, Stay
  <2>7. CASE ClosingOver
    BY <2>7 DEF ClosingOver, Stay
  <2>8. CASE BeginAbort
    BY <2>8 DEF BeginAbort, Enter
  <2>9. CASE WaitAbort
    BY <2>9 DEF WaitAbort, Stay
  <2>10. CASE Open
    BY <2>10 DEF Open, Enter
  <2>11. CASE Close
    BY <2>11 DEF Close, Enter
  <2>12. CASE StayClosed
    BY <2>12 DEF StayClosed, Stay
  <2>13. CASE StayOpen
    BY <2>13 DEF StayOpen, Stay
  <2> QED
    BY <1>1, <2>2, <2>3, <2>4, <2>5, <2>6, <2>7, <2>8, <2>9, <2>10, <2>11, <2>12, <2>13 DEF Next, update_current_state, RawSample, FilterSkips, FilteredSample, AudioSample
<1>2. IInv /\ [Next]_vars => [Framed]_vars
  BY <1>1
<1> QED
  BY <1>2, Invariance, PTL DEF Spec, FramesTransmission

\* The squelch implements the gate: audio only after open_delay_ samples of OPENING without a break.
THEOREM Refinement == Spec => GateSpec
<1> DEFINE gate == CASE current_state = "OPENING" -> "arming" [] should_process_audio -> "passing" [] OTHER -> "shut"
           age  == IF current_state = "OPENING" THEN delay ELSE 0
<1>1. Init => Gate!Init
  BY DEF Init, Gate!Init, should_process_audio
<1>2. IInv /\ [Next]_vars => [Gate!Next]_<<gate, age>>
  <2> SUFFICES ASSUME IInv, Next PROVE Gate!Next \/ UNCHANGED <<gate, age>>
    <3>1. UNCHANGED vars => UNCHANGED <<gate, age>>
      BY DEF vars, stateVars, should_process_audio
    <3> QED
      BY <3>1
  <2>1. PairInv /\ DelayInv /\ current_state \in State /\ delay \in Nat
    BY DEF IInv, TypeOK
  <2> USE <2>1, SquelchAssumption DEF PairInv, DelayInv, State, should_process_audio
  <2>2. CASE BeginOpening
    BY <2>2 DEF BeginOpening, Enter, Gate!Next, Gate!Arm
  <2>3. CASE WaitOpening
    BY <2>3 DEF WaitOpening, Stay, Gate!Next, Gate!Watch
  <2>4. CASE OpeningOver
    BY <2>4 DEF OpeningOver, Stay, Gate!Next, Gate!Watch
  <2>5. CASE BeginClosing
    BY <2>5 DEF BeginClosing, Enter
  <2>6. CASE WaitClosing
    BY <2>6 DEF WaitClosing, Stay
  <2>7. CASE ClosingOver
    BY <2>7 DEF ClosingOver, Stay
  <2>8. CASE BeginAbort
    BY <2>8 DEF BeginAbort, Enter, Gate!Next, Gate!Cut
  <2>9. CASE WaitAbort
    BY <2>9 DEF WaitAbort, Stay
  <2>10. CASE Open
    BY <2>10 DEF Open, Enter, Gate!Next, Gate!Pass
  <2>11. CASE Close
    BY <2>11 DEF Close, Enter, Gate!Next, Gate!Disarm, Gate!Cut
  <2>12. CASE StayClosed
    BY <2>12 DEF StayClosed, Stay
  <2>13. CASE StayOpen
    BY <2>13 DEF StayOpen, Stay
  <2>14. CASE RawSample
    BY <2>14 DEF RawSample, stateVars
  <2>15. CASE FilterSkips
    BY <2>15 DEF FilterSkips, stateVars
  <2>16. CASE FilteredSample
    BY <2>16 DEF FilteredSample, stateVars
  <2>17. CASE AudioSample
    BY <2>17 DEF AudioSample, stateVars
  <2> QED
    BY <2>2, <2>3, <2>4, <2>5, <2>6, <2>7, <2>8, <2>9, <2>10, <2>11, <2>12, <2>13, <2>14, <2>15, <2>16, <2>17 DEF Next, update_current_state
<1> QED
  BY <1>1, <1>2, Invariance, PTL DEF Spec, GateSpec, Gate!Spec
=============================================================================
