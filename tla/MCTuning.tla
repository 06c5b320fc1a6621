----------------------------- MODULE MCTuning -----------------------------
(* What changes a receiver's tuning: clients' requests and failures         *)
(* (DeviceReconfig) and the automatic correction (AutoPpm).  The two share   *)
(* no state, so one of them is picked for a behaviour and the other rests.   *)
EXTENDS DeviceReconfig, AutoPpm

VARIABLE focus     \* the component that runs in this behaviour

(* Constants. *)
MCDrivers == {[d \in Devices |-> "rtlsdr"], [d \in Devices |-> IF d = 0 THEN "file" ELSE "soapysdr"]}
MCNeeds == {0, 44}          \* 0 and 5.5 ppm
MCCorrections == {-3}

(* Initially the one that rests is in one fixed initial state. *)
TuningInit ==
  /\ focus \in {"device", "auto_ppm"}
  /\ Init /\ (focus = "device" \/ (~multiple_demod_threads /\ \A d \in Devices : driver[d] = "rtlsdr"))
  /\ PpmInit /\ (focus = "auto_ppm" \/ (~inverted /\ \A c \in Voters : need[c] = 0))
  /\ need["a"] <= need["b"]     \* the channels are interchangeable

TuningNext ==
  /\ IF focus = "device" THEN Next ELSE UNCHANGED devVars
  /\ IF focus = "auto_ppm" THEN PpmNext ELSE UNCHANGED ppmVars
  /\ UNCHANGED focus

tuningVars == <<devVars, ppmVars, focus>>

(* Each component's own fairness. *)
TuningSpec ==
  /\ TuningInit /\ [][TuningNext]_tuningVars
  /\ \A t \in Devices : WF_devVars(focus = "device" /\ ~crashed /\ t \in Thread /\ Demodulate(t))
  /\ \A d \in Devices : WF_devVars(focus = "device" /\ ~crashed /\ Receive(d))
  /\ WF_devVars(focus = "device" /\ ~crashed /\ (ControlAnswers \/ TimeOut))
  /\ WF_devVars(focus = "device" /\ ~crashed /\ Shutdown)
  /\ \A c \in Voters : WF_ppmVars(focus = "auto_ppm" /\ Commit(c))
  /\ WF_ppmVars(focus = "auto_ppm" /\ PpmTick)
  /\ WF_ppmVars(focus = "auto_ppm" /\ OrderSets)

(* Every variable has its type. *)
TuningTypeOK == focus \in {"device", "auto_ppm"} /\ DevTypeOK /\ PpmTypeOK
=============================================================================
