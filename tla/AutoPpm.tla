------------------------------ MODULE AutoPpm ------------------------------
(***************************************************************************)
(* Automatic frequency correction of one device (auto_ppm.cpp): each       *)
(* channel's carrier offset is measured (freq_offset_commit()), a worker   *)
(* decides every interval whether to step the correction, and a guard      *)
(* reverts it when stepping makes things worse.  The control socket sets   *)
(* the correction too.  Offsets are in eighths of a ppm; a channel votes   *)
(* after one measurement (min_updates), and one batch is skipped after a   *)
(* tuning change (FREQ_OFFSET_SETTLE_BATCHES).                             *)
(***************************************************************************)
EXTENDS Integers, FiniteSets

CONSTANTS
  Voters,               \* the channels: at most two, so that a median is a mean
  Needs,                \* corrections a channel's transmitter may call for, in 1/8 ppm
  max_ppm, max_step, min_voters,
  HardLimit,            \* AUTO_PPM_HARD_LIMIT
  Corrections,          \* corrections an operator sets
  NoOrder,              \* nobody is setting the correction
  MaxPpmEvents          \* bound: changes of the needs and operator's commands

ASSUME AutoPpmAssumption ==
  /\ IsFiniteSet(Voters) /\ Cardinality(Voters) <= 2
  /\ HardLimit \in Nat /\ max_ppm \in 1 .. HardLimit /\ max_step \in Nat \ {0}
  /\ Needs \subseteq Int /\ Corrections \subseteq Int /\ NoOrder \notin Int

PpmUnit == 8
DEADBAND == PpmUnit
HYSTERESIS == 10          \* 1.25 ppm
OUTLIER_WINDOW == 12      \* 1.5 ppm
MAX_SPREAD == 16          \* 2 ppm
LONE_VOTER_LIMIT == 40    \* 5 ppm
DIVERGENCE_STEPS == 2
PERSIST_EVALS == 2

VARIABLES
  correction,                     \* of the dongle, in ppm
  need, inverted,                 \* the world; inverted: the dongle steps the wrong way
  sampledAt,                      \* per channel: the correction when the batch about to be demodulated was received
  stage, estimate, takenAt,       \* freq_t::ppm_offset_*: "stale" (another generation), "settled", "measured"
  newer,                          \* the channel was measured since the last reading that counted
  ap,                             \* auto_ppm_device
  ppmSets, wasAt,                 \* the worker's correction being set, and what it was decided from
  orderSets,                      \* the control socket's
  drifts, orders

ppmVars == <<correction, need, inverted, sampledAt, stage, estimate, takenAt, newer, ap, ppmSets, wasAt, orderSets, drifts, orders>>

Abs(x) == IF x < 0 THEN -x ELSE x
Sign(x) == IF x > 0 THEN 1 ELSE -1
Clamp(x, limit) == IF x > limit THEN limit ELSE IF x < -limit THEN -limit ELSE x
Round(x) == Sign(x) * ((Abs(x) + PpmUnit \div 2) \div PpmUnit)

ResidualAt(c, v) == need[c] - PpmUnit * (IF inverted THEN -v ELSE v)
Residual(c) == ResidualAt(c, correction)

Untracked ==
  [awaiting |-> FALSE, before |-> 0, growing |-> 0, sign |-> 0, count |-> 0, voters |-> {},
   lastSign |-> 0, converged |-> FALSE, settled |-> FALSE]

PpmInit ==
  /\ correction = 0 /\ need \in [Voters -> Needs] /\ inverted \in BOOLEAN
  /\ sampledAt = [c \in Voters |-> 0] /\ stage = [c \in Voters |-> "settled"]
  /\ estimate = [c \in Voters |-> 0] /\ takenAt = [c \in Voters |-> 0] /\ newer = [c \in Voters |-> FALSE]
  /\ ap = [enabled |-> TRUE, tripped |-> FALSE, base |-> 0, state |-> Untracked]
  /\ ppmSets = NoOrder /\ wasAt = 0 /\ orderSets = NoOrder /\ drifts = 0 /\ orders = 0

(***************************************************************************)
(* freq_offset_commit(), for a batch in which the channel talked           *)
(***************************************************************************)
Commit(c) ==
  /\ sampledAt' = [sampledAt EXCEPT ![c] = correction]
  /\ IF stage[c] = "stale"
     THEN stage' = [stage EXCEPT ![c] = "settled"] /\ UNCHANGED <<estimate, takenAt, newer>>
     ELSE /\ stage' = [stage EXCEPT ![c] = "measured"]
          /\ estimate' = [estimate EXCEPT ![c] = ResidualAt(c, sampledAt[c])]
          /\ takenAt' = [takenAt EXCEPT ![c] = sampledAt[c]]
          /\ newer' = [newer EXCEPT ![c] = TRUE]
  /\ stage' # stage \/ estimate' # estimate \/ newer' # newer \/ sampledAt' # sampledAt
  /\ UNCHANGED <<correction, need, inverted, ap, ppmSets, wasAt, orderSets, drifts, orders>>

Drift ==
  /\ drifts + orders < MaxPpmEvents /\ drifts' = drifts + 1
  /\ need' \in [Voters -> Needs] \ {need}
  /\ UNCHANGED <<correction, inverted, sampledAt, stage, estimate, takenAt, newer, ap, ppmSets, wasAt, orderSets, orders>>

(* input_set_correction(): the estimates of the old tuning are void. *)
SetCorrection(v) ==
  /\ correction' = v
  /\ stage' = [c \in Voters |-> "stale"]
  /\ estimate' = [c \in Voters |-> 0] /\ takenAt' = [c \in Voters |-> 0]

(***************************************************************************)
(* auto_ppm_decide()                                                       *)
(***************************************************************************)
Total(S) == IF Cardinality(S) = 2 THEN CHOOSE t \in {estimate[a] + estimate[b] : a, b \in S} :
                                         \E a, b \in S : a # b /\ t = estimate[a] + estimate[b]
            ELSE CHOOSE t \in {2 * estimate[a] : a \in S} : TRUE
Median(S) == Total(S) \div 2

Eligible == {c \in Voters : stage[c] = "measured"}
Plausible == {c \in Eligible : Abs(PpmUnit * correction + estimate[c]) <= PpmUnit * HardLimit}
(* within the window around the median: with two, each around their mean *)
Trusted == {c \in Plausible : \A x \in Plausible : Abs(estimate[c] - estimate[x]) <= 2 * OUTLIER_WINDOW}
Agree == \A a, b \in Trusted : estimate[a] - estimate[b] <= MAX_SPREAD

Distrusted == ap.state.converged /\ Cardinality(Trusted) = 1 /\ Abs(Median(Trusted)) > LONE_VOTER_LIMIT
HasReading == Trusted # {} /\ Agree /\ Cardinality(Trusted) >= min_voters /\ ~Distrusted
Reading == Median(Trusted)

Grew == 3 * (Abs(Reading) - ap.state.before) > DEADBAND
Growing ==
  IF ~ap.state.awaiting THEN ap.state.growing ELSE IF Grew THEN ap.state.growing + 1 ELSE 0
Diverges == ap.state.awaiting /\ Growing >= DIVERGENCE_STEPS

Steady == Abs(Reading) < (IF ap.state.settled THEN HYSTERESIS ELSE DEADBAND)

(* The update counts of the voters grew since the last reading.  With other voters than then,
   the sums compare either way. *)
Newer == IF Trusted = ap.state.voters THEN {\E c \in Trusted : newer[c]} ELSE BOOLEAN
Count(isNewer) ==
  IF Sign(Reading) # ap.state.sign THEN 1 ELSE IF isNewer THEN ap.state.count + 1 ELSE ap.state.count

\* Mutant: the step is not limited.
NextStepUnlimited == Round(PpmUnit * correction + Reading) - correction

NextStep == Clamp(Round(PpmUnit * correction + Reading) - correction, max_step)
Stepped == Clamp(correction + NextStep, max_ppm)

(***************************************************************************)
(* auto_ppm_tick(), until it sets the correction.  It holds ap->lock to    *)
(* the end.                                                                *)
(***************************************************************************)
Ticks == ap.enabled /\ ~ap.tripped /\ ppmSets = NoOrder
Decided(tracked) == ap' = [ap EXCEPT !.state = tracked]
Read == [c \in Voters |-> newer[c] /\ c \notin Trusted]

TickReverts ==
  /\ Ticks /\ HasReading /\ Diverges
  /\ ap' = [ap EXCEPT !.tripped = TRUE,
                      !.state = [ap.state EXCEPT !.awaiting = FALSE, !.before = 0, !.growing = 0, !.lastSign = 0, !.sign = 0, !.count = 0]]
  /\ ppmSets' = Clamp(ap.base, max_ppm) /\ wasAt' = correction
  /\ UNCHANGED <<correction, need, inverted, sampledAt, stage, estimate, takenAt, newer, orderSets, drifts, orders>>

TickHolds ==
  /\ Ticks /\ HasReading /\ ~Diverges /\ Steady
  /\ Decided([ap.state EXCEPT !.awaiting = FALSE, !.before = 0, !.growing = Growing, !.settled = TRUE, !.sign = 0, !.count = 0,
                              !.voters = {}, !.converged = @ \/ Cardinality(Trusted) >= 2])
  /\ newer' = [c \in Voters |-> FALSE]
  /\ ap' # ap
  /\ UNCHANGED <<correction, need, inverted, sampledAt, stage, estimate, takenAt, ppmSets, wasAt, orderSets, drifts, orders>>

TickWaits ==
  /\ Ticks /\ HasReading /\ ~Diverges /\ ~Steady
  /\ \E isNewer \in Newer :
       /\ Count(isNewer) < PERSIST_EVALS \/ Stepped = correction
       /\ Decided([ap.state EXCEPT !.awaiting = FALSE, !.before = 0, !.growing = Growing, !.sign = Sign(Reading),
                                   !.count = IF Count(isNewer) > PERSIST_EVALS THEN PERSIST_EVALS ELSE Count(isNewer),
                                   !.voters = Trusted])
  /\ newer' = Read
  /\ UNCHANGED <<correction, need, inverted, sampledAt, stage, estimate, takenAt, ppmSets, wasAt, orderSets, drifts, orders>>

TickAdjusts ==
  /\ Ticks /\ HasReading /\ ~Diverges /\ ~Steady /\ Stepped # correction
  /\ \E isNewer \in Newer : Count(isNewer) >= PERSIST_EVALS
  /\ LET step_sign == Sign(Stepped - correction)
     IN Decided([ap.state EXCEPT !.awaiting = TRUE, !.before = Abs(Reading),
                                 !.growing = IF step_sign # ap.state.lastSign THEN 0 ELSE Growing,
                                 !.lastSign = step_sign, !.sign = 0, !.count = 0, !.voters = {}])
  /\ ppmSets' = Stepped /\ wasAt' = correction
  /\ newer' = [c \in Voters |-> FALSE]
  /\ UNCHANGED <<correction, need, inverted, sampledAt, stage, estimate, takenAt, orderSets, drifts, orders>>

TickSets ==
  /\ ppmSets # NoOrder
  /\ SetCorrection(ppmSets)
  /\ ppmSets' = NoOrder /\ wasAt' = 0
  /\ UNCHANGED <<need, inverted, sampledAt, newer, ap, orderSets, drifts, orders>>

(* The dongle refuses. *)
TickSetFails ==
  /\ ppmSets # NoOrder /\ drifts + orders < MaxPpmEvents /\ orders' = orders + 1
  /\ ap' = [ap EXCEPT !.state = [ap.state EXCEPT !.awaiting = FALSE, !.before = 0]]
  /\ ppmSets' = NoOrder /\ wasAt' = 0
  /\ UNCHANGED <<correction, need, inverted, sampledAt, stage, estimate, takenAt, newer, orderSets, drifts>>

PpmTick == TickReverts \/ TickHolds \/ TickWaits \/ TickAdjusts \/ TickSets

(***************************************************************************)
(* The control socket's thread: it asks under ap->lock and sets after it.  *)
(***************************************************************************)
Orders == orderSets = NoOrder /\ ppmSets = NoOrder /\ drifts + orders < MaxPpmEvents /\ orders' = orders + 1
OrdersElse == <<correction, need, inverted, sampledAt, stage, estimate, takenAt, newer, ppmSets, wasAt, drifts>>

(* handle_set_correction(), auto_ppm_correction_allowed() *)
OrderCorrection(v) ==
  /\ Orders
  /\ ~ap.enabled \/ Abs(v) <= max_ppm
  /\ orderSets' = v
  /\ UNCHANGED <<OrdersElse, ap>>

(* reload_diff, auto_ppm_reload() *)
Reload(want, config) ==
  /\ Orders
  /\ ~(want /\ Abs(config) > max_ppm)
  /\ ap' = IF want # ap.enabled \/ (want /\ ap.tripped)
           THEN [enabled |-> want, tripped |-> FALSE, base |-> config, state |-> Untracked]
           ELSE [ap EXCEPT !.base = config]
  /\ orderSets' = IF ~want \/ config # ap.base THEN config ELSE NoOrder
  /\ UNCHANGED OrdersElse

OrderSets ==
  /\ orderSets # NoOrder
  /\ SetCorrection(orderSets)
  /\ orderSets' = NoOrder
  /\ UNCHANGED <<need, inverted, sampledAt, newer, ap, ppmSets, wasAt, drifts, orders>>

PpmNext ==
  \/ \E c \in Voters : Commit(c)
  \/ Drift \/ PpmTick \/ TickSetFails
  \/ \E v \in Corrections : OrderCorrection(v)
  \/ \E v \in Corrections, want \in BOOLEAN : Reload(want, v)
  \/ OrderSets

(* Channels keep talking, the worker keeps ticking. *)
PpmSpec ==
  PpmInit /\ [][PpmNext]_ppmVars /\ (\A c \in Voters : WF_ppmVars(Commit(c))) /\ WF_ppmVars(PpmTick) /\ WF_ppmVars(OrderSets)

PpmTypeOK ==
  /\ correction \in Corrections \union -max_ppm .. max_ppm /\ need \in [Voters -> Needs]
  /\ stage \in [Voters -> {"stale", "settled", "measured"}]
  /\ ap.state.growing \in 0 .. DIVERGENCE_STEPS /\ ap.state.sign \in {-1, 0, 1} /\ ap.state.count \in 0 .. PERSIST_EVALS
  /\ ppmSets \in {NoOrder} \union -max_ppm .. max_ppm /\ orderSets \in {NoOrder} \union Corrections

\* A decision only rests on measurements taken wholly under the correction it starts from,
\* although a batch of the old tuning is committed after every change; a dongle that follows its
\* corrections is not given up unless its surroundings changed.
FreshEvidence ==
  /\ \A c \in Eligible : takenAt[c] = correction
  /\ ap.tripped => inverted \/ drifts + orders > 0

\* No adjustment leaves the limit, or is larger than a step - unless an operator moved the
\* correction while it was being decided (auto_ppm.cpp:339 reads it, :353 sets it) or had put it
\* outside the limit while auto_ppm was off.
StepsBounded ==
  [][TickSets /\ ~ap.tripped =>
       Abs(correction') <= max_ppm /\ (Abs(correction' - correction) <= max_step \/ correction # wasAt \/ Abs(correction) > max_ppm)]_ppmVars

\* Once the channels agree and the operator leaves it alone, the correction comes to rest: steps
\* do not hunt around a whole ppm, a runaway is reverted, and a dongle that follows rests within
\* the deadband, or at the limit.  (Two channels that disagree and talk in turn make it hunt.)
InTune == \A a, b \in Voters : need[a] = need[b] /\ Abs(need[a]) <= PpmUnit * HardLimit
Follows == ap.enabled /\ ~ap.tripped /\ ~inverted
Converges ==
  <>[]InTune =>
    /\ <>[][correction' = correction]_ppmVars
    /\ <>[]Follows => <>[](\A c \in Voters : Abs(Residual(c)) < HYSTERESIS \/ Abs(correction) = max_ppm)

AutoPpmSound == []FreshEvidence /\ StepsBounded /\ Converges
=============================================================================
