---------------------------- MODULE SquelchGate ----------------------------
(***************************************************************************)
(* What a squelch promises the demodulator (src/src/squelch.h, "Theory of  *)
(* operation"): audio passes only after the signal was watched for a whole *)
(* opening delay without a break, and every cut starts the watch afresh.   *)
(***************************************************************************)
EXTENDS Naturals

CONSTANT OpenDelay

VARIABLES
  gate,  \* "shut", "arming" (a signal is being watched) or "passing" (audio is demodulated)
  age    \* samples the signal has been watched for

Init == gate = "shut" /\ age = 0

Arm    == gate = "shut" /\ gate' = "arming" /\ age' = 0
Watch  == gate = "arming" /\ age < OpenDelay /\ gate' = gate /\ age' = age + 1
Disarm == gate = "arming" /\ gate' = "shut" /\ age' = 0
Pass   == gate = "arming" /\ age = OpenDelay /\ gate' = "passing" /\ age' = 0
Cut    == gate = "passing" /\ gate' = "shut" /\ age' = 0

Next == Arm \/ Watch \/ Disarm \/ Pass \/ Cut

Spec == Init /\ [][Next]_<<gate, age>>
=============================================================================
