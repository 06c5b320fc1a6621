---------------------------- MODULE MixerProofs ----------------------------
(***************************************************************************)
(* Proofs about Mixer: type correctness, the ownership of the input slots  *)
(* (SlotSafety), that a slot never plays its previous owner's audio        *)
(* (NoForeignAudio) and that editing channels does not use slots up        *)
(* (SlotsNotBurned), for any channels, remote inputs and reserve.          *)
(***************************************************************************)
EXTENDS Mixer, FiniteSetTheorems, TLAPS

\* The interval leaves room for the decrement of the next tick.
IntervalInv ==
  state = "CH_READY" => IF mixPc = "sleep" THEN interval >= 1 ELSE interval = 0

\* Who may hold a slot: a live channel, or the channel being appended once it was connected.
OwnerInv ==
  /\ Connected \subseteq initialised
  /\ \A j \in Slot : input_removed[j] => j >= Remotes /\ j < input_count
  /\ \A c \in Chan : channel[c] # "absent" => slotOf[c] # NoSlot
  /\ \A c \in Chan : slotOf[c] # NoSlot =>
       /\ slotOf[c] >= Remotes
       /\ slotOf[c] < input_count
       /\ ~input_removed[slotOf[c]]
       /\ channel[c] = "enabled" => input_mask[slotOf[c]]
       /\ ready[slotOf[c]] /\ has_signal[slotOf[c]] => wavein[slotOf[c]] = c
  /\ \A c, d \in Chan : slotOf[c] # NoSlot /\ slotOf[c] = slotOf[d] => c = d

\* What the control thread knows about the slot it is connecting.
AppendInv ==
  /\ \A c \in Chan : channel[c] = "absent" /\ slotOf[c] # NoSlot =>
       /\ ctlPc = "parse" /\ ctlChan = c /\ slotOf[c] = ctlSlot
       /\ input_mask[ctlSlot]
  /\ ctlPc # "idle" => ctlChan \in Chan /\ channel[ctlChan] = "absent" /\ ctlSlot \in Slot
  /\ ctlPc = "reuse" =>
       /\ slotOf[ctlChan] = NoSlot
       /\ input_removed[ctlSlot] /\ ~ready[ctlSlot]
  /\ ctlPc = "fresh" =>
       /\ slotOf[ctlChan] = NoSlot
       /\ ctlSlot = input_count /\ ctlSlot \in initialised
       /\ ~ready[ctlSlot]
       /\ input_mask[ctlSlot]
       /\ ctlSlot + 1 <= peak
  /\ ctlPc = "parse" => slotOf[ctlChan] = ctlSlot

\* What the mixed batch holds, and when the outputs may be reading it.
BatchInv ==
  /\ state = "CH_DIRTY" => taken = {}
  /\ NoLostContribution
  /\ outPc = "deliver" => state = "CH_READY"

IInv == TypeOK /\ IntervalInv /\ OwnerInv /\ AppendInv /\ BatchInv /\ SlotsNotBurned
-----------------------------------------------------------------------------
\* The sizes the startup leaves behind.
LEMMA Sizes ==
  /\ Remotes \in Nat /\ StartCount \in Nat /\ Capacity \in Nat
  /\ Remotes <= StartCount /\ StartCount <= Capacity
<1>1. IsFiniteSet(StartChan)
  BY MixerAssumption, FS_Subset
<1>2. Cardinality(StartChan) \in Nat
  BY <1>1, FS_CardinalityType
<1> QED
  BY <1>2, MixerAssumption DEF StartCount, Capacity

LEMMA SlotRange ==
  /\ \A j : j \in Slot <=> j \in Int /\ 0 <= j /\ j < Capacity
  /\ NoSlot = -1 /\ NoSlot \notin Slot
  BY Sizes DEF Slot, NoSlot

\* What may be counted as in use fits in the capacity.
LEMMA InUseFits ==
  ASSUME NEW S, S \subseteq Slot
  PROVE  Cardinality(S) \in 0 .. Capacity
<1>1. IsFiniteSet(Slot) /\ Cardinality(Slot) = Capacity
  BY Sizes, FS_Interval DEF Slot
<1>2. IsFiniteSet(S) /\ Cardinality(S) <= Capacity
  BY <1>1, FS_Subset
<1> QED
  BY <1>2, Sizes, FS_CardinalityType

LEMMA PrefixFits ==
  ASSUME NEW n \in Nat, NEW S, S \subseteq 0 .. n - 1
  PROVE  Cardinality(S) \in 0 .. n
<1>1. IsFiniteSet(0 .. n - 1) /\ Cardinality(0 .. n - 1) = n
  BY FS_Interval
<1>2. IsFiniteSet(S) /\ Cardinality(S) <= n
  BY <1>1, FS_Subset
<1> QED
  BY <1>2, FS_CardinalityType

LEMMA InitIInv == Init => IInv
<1> SUFFICES ASSUME Init PROVE IInv
  OBVIOUS
<1> USE Sizes, SlotRange
<1>1. PICK f \in StartSlots, on \in [StartChan -> {"enabled", "disabled"}] :
        /\ channel = [c \in Chan |-> IF c \in StartChan THEN on[c] ELSE "absent"]
        /\ slotOf = [c \in Chan |-> IF c \in StartChan THEN f[c] ELSE NoSlot]
  BY DEF Init
<1>2. /\ f \in [StartChan -> Remotes .. StartCount - 1]
      /\ \A c, d \in StartChan : c # d => f[c] # f[d]
  BY DEF StartSlots
<1>3. TypeOK
  <2>1. channel \in [Chan -> {"absent", "enabled", "disabled"}]
    BY <1>1
  <2>2. slotOf \in [Chan -> Slot \union {NoSlot}]
    BY <1>1, <1>2
  <2>3. /\ input_mask \in [Slot -> BOOLEAN] /\ input_removed \in [Slot -> BOOLEAN]
        /\ inputs_todo \in [Slot -> BOOLEAN] /\ ready \in [Slot -> BOOLEAN] /\ has_signal \in [Slot -> BOOLEAN]
    <3>1. \A j \in Slot : (j < StartCount) \in BOOLEAN
      OBVIOUS
    <3> QED
      BY <3>1, Zenon DEF Init
  <2>4. enabled \in BOOLEAN /\ outputs_enabled \in BOOLEAN
    BY Zenon DEF Init
  <2>5. wavein \in [Slot -> Chan \union {NoChan, Remote}]
    BY Zenon DEF Init
  <2>6. initialised \subseteq Slot
    <3>1. initialised = 0 .. StartCount - 1
      BY DEF Init
    <3> QED
      BY <3>1
  <2>7. /\ input_count \in StartCount .. Capacity
        /\ pending_enable_request \in {-1, 0, 1}
        /\ interval \in 0 .. MIX_DIVISOR
        /\ mixSlot \in 0 .. Capacity
        /\ peak \in 0 .. Capacity
    BY DEF Init, MIX_DIVISOR
  <2> QED
    BY <2>1, <2>2, <2>3, <2>4, <2>5, <2>6, <2>7 DEF Init, TypeOK
<1>4. IntervalInv
  BY DEF Init, IntervalInv
<1>5. OwnerInv
  <2>1. Connected \subseteq initialised
    BY DEF Init, Connected
  <2>2. \A j \in Slot : ~input_removed[j] /\ ~ready[j]
    BY DEF Init
  <2>3. \A c \in Chan : channel[c] # "absent" => slotOf[c] # NoSlot
    BY <1>1, <1>2
  <2>4. \A c \in Chan : slotOf[c] # NoSlot =>
          c \in StartChan /\ slotOf[c] = f[c] /\ slotOf[c] \in Remotes .. StartCount - 1
    BY <1>1, <1>2
  <2>5. input_count = StartCount /\ input_mask = [j \in Slot |-> j < StartCount]
    BY DEF Init
  <2>6. \A j \in Remotes .. StartCount - 1 : j \in Slot /\ j >= Remotes /\ j < input_count /\ input_mask[j]
    <3> SUFFICES ASSUME NEW j \in Remotes .. StartCount - 1
                 PROVE  j \in Slot /\ j >= Remotes /\ j < input_count /\ input_mask[j]
      OBVIOUS
    <3>1. j \in Slot /\ j >= Remotes /\ j < StartCount
      OBVIOUS
    <3>2. input_mask[j] = (j < StartCount)
      BY <3>1, <2>5, Zenon
    <3> QED
      BY <3>1, <3>2, <2>5
  <2>7. \A c, d \in Chan : slotOf[c] # NoSlot /\ slotOf[c] = slotOf[d] => c = d
    BY <2>4, <1>2
  <2> QED
    BY <2>1, <2>2, <2>3, <2>4, <2>6, <2>7 DEF OwnerInv
<1>6. AppendInv
  <2>1. ctlPc = "idle"
    BY DEF Init
  <2>2. \A c \in Chan : channel[c] = "absent" => slotOf[c] = NoSlot
    BY <1>1
  <2> QED
    BY <2>1, <2>2 DEF AppendInv
<1>7. SlotsNotBurned
  BY DEF Init, SlotsNotBurned
<1>8. BatchInv
  BY DEF Init, BatchInv, NoLostContribution
<1> QED
  BY <1>3, <1>4, <1>5, <1>6, <1>7, <1>8 DEF IInv
-----------------------------------------------------------------------------
\* The slot a channel names is a connected one that is not up for reuse.
LEMMA LiveSlot ==
  ASSUME IInv, NEW c \in Chan, slotOf[c] # NoSlot \/ channel[c] # "absent"
  PROVE  /\ slotOf[c] \in Slot /\ slotOf[c] # NoSlot
         /\ slotOf[c] >= Remotes /\ slotOf[c] < input_count
         /\ ~input_removed[slotOf[c]]
  BY DEF IInv, TypeOK, OwnerInv

\* Every action keeps the types.
LEMMA TypeStep == IInv /\ [Next]_vars => TypeOK'
<1> SUFFICES ASSUME IInv, [Next]_vars PROVE TypeOK'
  OBVIOUS
<1> USE Sizes, SlotRange, MixerAssumption DEF IInv, TypeOK, IntervalInv, slotVars, outVars, mixVars, devVars, ctlVars
<1>1. CASE TickWait
  BY <1>1 DEF TickWait, MIX_DIVISOR
<1>2. CASE TickGather
  BY <1>2 DEF TickGather, MIX_DIVISOR
<1>3. CASE MixInput
  <2>1. mixSlot \in Slot /\ mixSlot + 1 \in 0 .. Capacity
    BY <1>3 DEF MixInput
  <2>2. ready' \in [Slot -> BOOLEAN] /\ inputs_todo' \in [Slot -> BOOLEAN]
    BY ZenonT(30), <1>3 DEF MixInput
  <2>3. waveout' \subseteq Slot /\ taken' \subseteq Slot
    <3>1. /\ waveout' \in {waveout, {}, waveout \union {mixSlot}, {} \union {mixSlot}}
          /\ taken' \in {taken, taken \union {mixSlot}}
      BY <1>3, Zenon DEF MixInput
    <3> QED
      BY <3>1, <2>1
  <2>4. state' \in {"CH_DIRTY", "CH_WORKING", "CH_READY"}
    BY <1>3 DEF MixInput
  <2> QED
    BY <1>3, <2>1, <2>2, <2>3, <2>4 DEF MixInput
<1>4. CASE Emit
  BY <1>4 DEF Emit, NextTodo, MIX_DIVISOR
<1>5. CASE Postpone
  BY <1>5 DEF Postpone, MIX_DIVISOR
<1>6. CASE ApplyMixerEnable
  BY <1>6 DEF ApplyMixerEnable
<1>7. CASE FinishMixerEnable
  BY <1>7 DEF FinishMixerEnable
<1>8. CASE ApplyMixerDisable
  BY ZenonT(30), <1>8 DEF ApplyMixerDisable
<1>9. CASE DeliverBegin
  BY <1>9 DEF DeliverBegin, BatchReady
<1>10. CASE DeliverEnd
  BY <1>10 DEF DeliverEnd
<1>11. ASSUME NEW c \in Chan, ChannelPut(c) PROVE TypeOK'
  <2>1. slotOf[c] \in Slot
    BY <1>11, LiveSlot DEF ChannelPut
  <2>2. has_signal' \in [Slot -> BOOLEAN] /\ ready' \in [Slot -> BOOLEAN]
    BY <1>11, <2>1 DEF ChannelPut, PutSamples
  <2>3. wavein' \in [Slot -> Chan \union {NoChan, Remote}]
    BY <1>11, <2>1 DEF ChannelPut, PutSamples
  <2> QED
    BY <1>11, <2>2, <2>3 DEF ChannelPut, PutSamples
<1>12. ASSUME NEW c \in Chan, ChannelEnable(c) PROVE TypeOK'
  <2>1. slotOf[c] \in Slot
    BY <1>12, LiveSlot DEF ChannelEnable
  <2>2. input_mask' \in [Slot -> BOOLEAN]
    BY <1>12, <2>1 DEF ChannelEnable
  <2>3. channel' \in [Chan -> {"absent", "enabled", "disabled"}]
    BY <1>12, <2>1 DEF ChannelEnable
  <2> QED
    BY <1>12, <2>2, <2>3 DEF ChannelEnable
<1>13. ASSUME NEW c \in Chan, ChannelDisable(c) PROVE TypeOK'
  <2>1. slotOf[c] \in Slot
    BY <1>13, LiveSlot DEF ChannelDisable
  <2>2. input_mask' \in [Slot -> BOOLEAN]
    BY <1>13, <2>1 DEF ChannelDisable
  <2>3. channel' \in [Chan -> {"absent", "enabled", "disabled"}]
    BY <1>13, <2>1 DEF ChannelDisable
  <2> QED
    BY <1>13, <2>2, <2>3 DEF ChannelDisable
<1>14. ASSUME NEW c \in Chan, ChannelRemove(c) PROVE TypeOK'
  <2>1. slotOf[c] \in Slot
    BY <1>14, LiveSlot DEF ChannelRemove
  <2>2. input_mask' \in [Slot -> BOOLEAN] /\ input_removed' \in [Slot -> BOOLEAN]
    BY <1>14, <2>1 DEF ChannelRemove
  <2>3. channel' \in [Chan -> {"absent", "enabled", "disabled"}]
    BY <1>14, <2>1 DEF ChannelRemove
  <2>4. slotOf' \in [Chan -> Slot \union {NoSlot}]
    BY <1>14, <2>1 DEF ChannelRemove
  <2> QED
    BY <1>14, <2>2, <2>3, <2>4 DEF ChannelRemove
<1>15. CASE ScanInputs
  BY <1>15 DEF ScanInputs
<1>16. CASE AllInputsDied
  BY ZenonT(30), <1>16 DEF AllInputsDied
<1>17. ASSUME NEW on \in Requests, PostMixerRequest(on) PROVE TypeOK'
  BY <1>17 DEF PostMixerRequest
<1>18. ASSUME NEW c \in Chan, ReuseSlot(c) PROVE TypeOK'
  <2>1. PICK j \in Tombstones :
          /\ ready' = [ready EXCEPT ![j] = FALSE]
          /\ has_signal' = [has_signal EXCEPT ![j] = FALSE]
          /\ inputs_todo' = [inputs_todo EXCEPT ![j] = TRUE]
          /\ ctlSlot' = j
    BY <1>18 DEF ReuseSlot
  <2>2. j \in Slot
    BY DEF Tombstones, Connected
  <2>3. /\ ready' \in [Slot -> BOOLEAN] /\ has_signal' \in [Slot -> BOOLEAN]
        /\ inputs_todo' \in [Slot -> BOOLEAN]
    BY <2>1
  <2> QED
    BY <1>18, <2>1, <2>2, <2>3 DEF ReuseSlot
<1>19. ASSUME NEW c \in Chan, FreshSlot(c) PROVE TypeOK'
  <2>1. input_count \in Slot
    BY <1>19 DEF FreshSlot
  <2>2. /\ ready' \in [Slot -> BOOLEAN] /\ has_signal' \in [Slot -> BOOLEAN]
        /\ input_mask' \in [Slot -> BOOLEAN] /\ input_removed' \in [Slot -> BOOLEAN]
        /\ inputs_todo' \in [Slot -> BOOLEAN]
    BY <1>19 DEF FreshSlot
  <2>3. wavein' \in [Slot -> Chan \union {NoChan, Remote}] /\ initialised' \subseteq Slot
    BY <1>19, <2>1 DEF FreshSlot
  <2>4. peak' \in 0 .. Capacity
    <3>1. InUse \subseteq 0 .. input_count - 1
      BY Zenon DEF InUse, Connected
    <3>2. input_count \in Nat
      OBVIOUS
    <3>3. Cardinality(InUse) \in 0 .. input_count
      BY <3>1, <3>2, PrefixFits, Zenon
    <3> QED
      BY <1>19, <3>2, <3>3 DEF FreshSlot
  <2> QED
    BY <1>19, <2>1, <2>2, <2>3, <2>4 DEF FreshSlot
<1>20. CASE PublishReused
  <2>1. ctlSlot \in Slot /\ ctlChan \in Chan
    BY <1>20 DEF PublishReused, AppendInv
  <2>2. input_mask' \in [Slot -> BOOLEAN] /\ input_removed' \in [Slot -> BOOLEAN]
    BY <1>20 DEF PublishReused
  <2>3. slotOf' \in [Chan -> Slot \union {NoSlot}]
    BY <1>20, <2>1 DEF PublishReused
  <2>4. peak' \in 0 .. Capacity
    <3>1. InUse \union {ctlSlot} \subseteq Slot
      BY <2>1 DEF InUse, Connected
    <3> QED
      BY <1>20, <3>1, InUseFits DEF PublishReused
  <2> QED
    BY <1>20, <2>1, <2>2, <2>3, <2>4 DEF PublishReused
<1>21. CASE PublishFresh
  <2>1. ctlSlot \in Slot /\ ctlChan \in Chan /\ ctlSlot = input_count
    BY <1>21 DEF PublishFresh, AppendInv
  <2>2. slotOf' \in [Chan -> Slot \union {NoSlot}]
    BY <1>21, <2>1 DEF PublishFresh
  <2>3. input_count' \in StartCount .. Capacity
    BY <1>21, <2>1 DEF PublishFresh
  <2> QED
    BY <1>21, <2>1, <2>2, <2>3 DEF PublishFresh
<1>22. CASE AppendSucceeds
  <2>1. PICK on \in {"enabled", "disabled"} : channel' = [channel EXCEPT ![ctlChan] = on]
    BY <1>22 DEF AppendSucceeds
  <2>2. channel' \in [Chan -> {"absent", "enabled", "disabled"}]
    BY <2>1
  <2> QED
    BY <1>22, <2>2 DEF AppendSucceeds
<1>23. CASE AppendFails
  BY ZenonT(30), <1>23 DEF AppendFails
<1>24. ASSUME NEW j \in 0 .. Remotes - 1, RemotePut(j) PROVE TypeOK'
  BY <1>24 DEF RemotePut, PutSamples
<1>25. CASE UNCHANGED vars
  BY <1>25 DEF vars
<1> QED
  BY <1>1, <1>2, <1>3, <1>4, <1>5, <1>6, <1>7, <1>8, <1>9, <1>10, <1>11, <1>12, <1>13, <1>14, <1>15, <1>16, <1>17, <1>18, <1>19, <1>20, <1>21, <1>22, <1>23, <1>24, <1>25 DEF Next, MixerThread, OutputThread, DeviceThread, ControlThread

\* A batch the outputs have not taken leaves the interval above the reach of the decrement.
LEMMA IntervalStep == IInv /\ [Next]_vars => IntervalInv'
<1> SUFFICES ASSUME IInv, [Next]_vars PROVE IntervalInv'
  OBVIOUS
<1> USE Sizes, SlotRange, MixerAssumption DEF IInv, IntervalInv, TypeOK, slotVars, outVars, mixVars, devVars, ctlVars
<1>1. CASE TickWait
  BY <1>1 DEF TickWait, MIX_DIVISOR
<1>2. CASE TickGather
  BY <1>2 DEF TickGather, MIX_DIVISOR
<1>3. CASE MixInput
  BY <1>3 DEF MixInput, FirstOfBatch
<1>4. CASE Emit
  BY <1>4 DEF Emit, NextTodo, MIX_DIVISOR
<1>5. CASE Postpone
  BY <1>5 DEF Postpone, MIX_DIVISOR
<1>6. CASE ApplyMixerEnable
  BY <1>6 DEF ApplyMixerEnable
<1>7. CASE FinishMixerEnable
  BY <1>7 DEF FinishMixerEnable
<1>8. CASE ApplyMixerDisable
  BY <1>8 DEF ApplyMixerDisable
<1>9. CASE DeliverBegin
  BY <1>9 DEF DeliverBegin, BatchReady
<1>10. CASE DeliverEnd
  BY <1>10 DEF DeliverEnd
<1>11. ASSUME NEW c \in Chan, ChannelPut(c) PROVE IntervalInv'
  BY <1>11 DEF ChannelPut, PutSamples
<1>12. ASSUME NEW c \in Chan, ChannelEnable(c) PROVE IntervalInv'
  BY <1>12 DEF ChannelEnable
<1>13. ASSUME NEW c \in Chan, ChannelDisable(c) PROVE IntervalInv'
  BY <1>13 DEF ChannelDisable
<1>14. ASSUME NEW c \in Chan, ChannelRemove(c) PROVE IntervalInv'
  BY <1>14 DEF ChannelRemove
<1>15. CASE ScanInputs
  BY <1>15 DEF ScanInputs
<1>16. CASE AllInputsDied
  BY <1>16 DEF AllInputsDied
<1>17. ASSUME NEW on \in Requests, PostMixerRequest(on) PROVE IntervalInv'
  BY <1>17 DEF PostMixerRequest
<1>18. ASSUME NEW c \in Chan, ReuseSlot(c) PROVE IntervalInv'
  BY <1>18 DEF ReuseSlot, MayAppend, Tombstones, Connected
<1>19. ASSUME NEW c \in Chan, FreshSlot(c) PROVE IntervalInv'
  BY <1>19 DEF FreshSlot, NoneToReuse, MayAppend, InUse, Tombstones, Connected
<1>20. CASE PublishReused
  BY <1>20 DEF PublishReused, InUse, Tombstones, Connected
<1>21. CASE PublishFresh
  BY <1>21 DEF PublishFresh
<1>22. CASE AppendSucceeds
  BY <1>22 DEF AppendSucceeds
<1>23. CASE AppendFails
  BY <1>23 DEF AppendFails
<1>24. ASSUME NEW j \in 0 .. Remotes - 1, RemotePut(j) PROVE IntervalInv'
  BY <1>24 DEF RemotePut, PutSamples
<1>25. CASE UNCHANGED vars
  BY <1>25 DEF vars
<1> QED
  BY <1>1, <1>2, <1>3, <1>4, <1>5, <1>6, <1>7, <1>8, <1>9, <1>10, <1>11, <1>12, <1>13, <1>14, <1>15, <1>16, <1>17, <1>18, <1>19, <1>20, <1>21, <1>22, <1>23, <1>24, <1>25 DEF Next, MixerThread, OutputThread, DeviceThread, ControlThread
\* Every action keeps the slots with their owners.
LEMMA OwnerStep == IInv /\ [Next]_vars => OwnerInv'
<1> SUFFICES ASSUME IInv, [Next]_vars PROVE OwnerInv'
  OBVIOUS
<1> USE Sizes, SlotRange DEF IInv, OwnerInv, TypeOK, Connected, slotVars, outVars, mixVars, devVars, ctlVars
<1>1. CASE TickWait
  BY <1>1 DEF TickWait
<1>2. CASE TickGather
  BY <1>2 DEF TickGather
<1>3. CASE MixInput
  BY <1>3 DEF MixInput
<1>4. CASE Emit
  BY <1>4 DEF Emit
<1>5. CASE Postpone
  BY <1>5 DEF Postpone
<1>6. CASE ApplyMixerEnable
  BY <1>6 DEF ApplyMixerEnable
<1>7. CASE FinishMixerEnable
  BY <1>7 DEF FinishMixerEnable
<1>8. CASE ApplyMixerDisable
  BY <1>8 DEF ApplyMixerDisable
<1>9. CASE DeliverBegin
  BY <1>9 DEF DeliverBegin
<1>10. CASE DeliverEnd
  BY <1>10 DEF DeliverEnd
<1>11. ASSUME NEW c \in Chan, ChannelPut(c) PROVE OwnerInv'
  BY <1>11 DEF ChannelPut, PutSamples
<1>12. ASSUME NEW c \in Chan, ChannelEnable(c) PROVE OwnerInv'
  BY <1>12 DEF ChannelEnable
<1>13. ASSUME NEW c \in Chan, ChannelDisable(c) PROVE OwnerInv'
  BY <1>13 DEF ChannelDisable
<1>14. ASSUME NEW c \in Chan, ChannelRemove(c) PROVE OwnerInv'
  BY <1>14 DEF ChannelRemove
<1>15. CASE ScanInputs
  BY <1>15 DEF ScanInputs
<1>16. CASE AllInputsDied
  BY <1>16 DEF AllInputsDied
<1>17. ASSUME NEW on \in Requests, PostMixerRequest(on) PROVE OwnerInv'
  BY <1>17 DEF PostMixerRequest
<1>18. ASSUME NEW c \in Chan, ReuseSlot(c) PROVE OwnerInv'
  BY <1>18 DEF ReuseSlot, MayAppend, Tombstones
<1>19. ASSUME NEW c \in Chan, FreshSlot(c) PROVE OwnerInv'
  BY <1>19 DEF FreshSlot, NoneToReuse, MayAppend, Tombstones
<1>20. CASE PublishReused
  BY <1>20 DEF AppendInv, PublishReused
<1>21. CASE PublishFresh
  BY <1>21 DEF AppendInv, PublishFresh
<1>22. CASE AppendSucceeds
  BY <1>22 DEF AppendInv, AppendSucceeds
<1>23. CASE AppendFails
  BY <1>23 DEF AppendInv, AppendFails
<1>24. ASSUME NEW j \in 0 .. Remotes - 1, RemotePut(j) PROVE OwnerInv'
  BY <1>24 DEF RemotePut, PutSamples
<1>25. CASE UNCHANGED vars
  BY <1>25 DEF vars
<1> QED
  BY <1>1, <1>2, <1>3, <1>4, <1>5, <1>6, <1>7, <1>8, <1>9, <1>10, <1>11, <1>12, <1>13, <1>14, <1>15, <1>16, <1>17, <1>18, <1>19, <1>20, <1>21, <1>22, <1>23, <1>24, <1>25 DEF Next, MixerThread, OutputThread, DeviceThread, ControlThread

\* Every action keeps what the control thread relies on.
LEMMA AppendStep == IInv /\ [Next]_vars => AppendInv'
<1> SUFFICES ASSUME IInv, [Next]_vars PROVE AppendInv'
  OBVIOUS
<1> USE Sizes, SlotRange DEF IInv, AppendInv, TypeOK, slotVars, outVars, mixVars, devVars, ctlVars
<1>1. CASE TickWait
  BY <1>1 DEF TickWait
<1>2. CASE TickGather
  BY <1>2 DEF TickGather
<1>3. CASE MixInput
  BY <1>3 DEF MixInput
<1>4. CASE Emit
  BY <1>4 DEF Emit
<1>5. CASE Postpone
  BY <1>5 DEF Postpone
<1>6. CASE ApplyMixerEnable
  BY <1>6 DEF ApplyMixerEnable
<1>7. CASE FinishMixerEnable
  BY <1>7 DEF FinishMixerEnable
<1>8. CASE ApplyMixerDisable
  BY <1>8 DEF ApplyMixerDisable
<1>9. CASE DeliverBegin
  BY <1>9 DEF DeliverBegin
<1>10. CASE DeliverEnd
  BY <1>10 DEF DeliverEnd
<1>11. ASSUME NEW c \in Chan, ChannelPut(c) PROVE AppendInv'
  BY <1>11 DEF OwnerInv, Connected, ChannelPut, PutSamples
<1>12. ASSUME NEW c \in Chan, ChannelEnable(c) PROVE AppendInv'
  BY <1>12 DEF ChannelEnable
<1>13. ASSUME NEW c \in Chan, ChannelDisable(c) PROVE AppendInv'
  BY <1>13 DEF OwnerInv, Connected, ChannelDisable
<1>14. ASSUME NEW c \in Chan, ChannelRemove(c) PROVE AppendInv'
  BY <1>14 DEF OwnerInv, Connected, ChannelRemove
<1>15. CASE ScanInputs
  BY <1>15 DEF ScanInputs
<1>16. CASE AllInputsDied
  BY <1>16 DEF AllInputsDied
<1>17. ASSUME NEW on \in Requests, PostMixerRequest(on) PROVE AppendInv'
  BY <1>17 DEF PostMixerRequest
<1>18. ASSUME NEW c \in Chan, ReuseSlot(c) PROVE AppendInv'
  BY <1>18 DEF OwnerInv, Connected, ReuseSlot, MayAppend, Tombstones
<1>19. ASSUME NEW c \in Chan, FreshSlot(c) PROVE AppendInv'
  <2>1. /\ ctlPc = "idle" /\ channel[c] = "absent"
        /\ \A d \in Chan : channel[d] = "absent" => slotOf[d] = NoSlot
        /\ input_count \in Nat /\ input_count \in Slot
    BY <1>19 DEF FreshSlot, MayAppend
  <2>2. InUse = 0 .. input_count - 1
    BY <1>19, Zenon DEF FreshSlot, NoneToReuse, InUse, Connected
  <2>3. Cardinality(InUse) = input_count
    BY <2>1, <2>2, FS_Interval
  <2>4. input_count + 1 <= peak'
    BY <1>19, <2>1, <2>3 DEF FreshSlot
  <2>5. /\ ~ready'[input_count] /\ input_mask'[input_count]
        /\ input_count \in initialised'
    BY <1>19, <2>1 DEF FreshSlot
  <2> QED
    BY <1>19, <2>1, <2>4, <2>5 DEF FreshSlot
<1>20. CASE PublishReused
  BY <1>20 DEF PublishReused
<1>21. CASE PublishFresh
  BY <1>21 DEF PublishFresh
<1>22. CASE AppendSucceeds
  BY <1>22 DEF AppendSucceeds
<1>23. CASE AppendFails
  BY <1>23 DEF AppendFails
<1>24. ASSUME NEW j \in 0 .. Remotes - 1, RemotePut(j) PROVE AppendInv'
  BY <1>24 DEF OwnerInv, Connected, RemotePut, PutSamples
<1>25. CASE UNCHANGED vars
  BY <1>25 DEF vars
<1> QED
  BY <1>1, <1>2, <1>3, <1>4, <1>5, <1>6, <1>7, <1>8, <1>9, <1>10, <1>11, <1>12, <1>13, <1>14, <1>15, <1>16, <1>17, <1>18, <1>19, <1>20, <1>21, <1>22, <1>23, <1>24, <1>25 DEF Next, MixerThread, OutputThread, DeviceThread, ControlThread

\* A slot is only added when every connected one is in use.
LEMMA BurnStep == IInv /\ [Next]_vars => SlotsNotBurned'
<1> SUFFICES ASSUME IInv, [Next]_vars PROVE SlotsNotBurned'
  OBVIOUS
<1> USE Sizes, SlotRange DEF IInv, SlotsNotBurned, TypeOK, slotVars, outVars, mixVars, devVars, ctlVars
<1>1. CASE TickWait
  BY <1>1 DEF TickWait
<1>2. CASE TickGather
  BY <1>2 DEF TickGather
<1>3. CASE MixInput
  BY <1>3 DEF MixInput
<1>4. CASE Emit
  BY <1>4 DEF Emit
<1>5. CASE Postpone
  BY <1>5 DEF Postpone
<1>6. CASE ApplyMixerEnable
  BY <1>6 DEF ApplyMixerEnable
<1>7. CASE FinishMixerEnable
  BY <1>7 DEF FinishMixerEnable
<1>8. CASE ApplyMixerDisable
  BY <1>8 DEF ApplyMixerDisable
<1>9. CASE DeliverBegin
  BY <1>9 DEF DeliverBegin
<1>10. CASE DeliverEnd
  BY <1>10 DEF DeliverEnd
<1>11. ASSUME NEW c \in Chan, ChannelPut(c) PROVE SlotsNotBurned'
  BY <1>11 DEF ChannelPut, PutSamples
<1>12. ASSUME NEW c \in Chan, ChannelEnable(c) PROVE SlotsNotBurned'
  BY <1>12 DEF ChannelEnable
<1>13. ASSUME NEW c \in Chan, ChannelDisable(c) PROVE SlotsNotBurned'
  BY <1>13 DEF ChannelDisable
<1>14. ASSUME NEW c \in Chan, ChannelRemove(c) PROVE SlotsNotBurned'
  BY <1>14 DEF ChannelRemove
<1>15. CASE ScanInputs
  BY <1>15 DEF ScanInputs
<1>16. CASE AllInputsDied
  BY <1>16 DEF AllInputsDied
<1>17. ASSUME NEW on \in Requests, PostMixerRequest(on) PROVE SlotsNotBurned'
  BY <1>17 DEF PostMixerRequest
<1>18. ASSUME NEW c \in Chan, ReuseSlot(c) PROVE SlotsNotBurned'
  BY <1>18 DEF ReuseSlot, MayAppend, Tombstones
<1>19. ASSUME NEW c \in Chan, FreshSlot(c) PROVE SlotsNotBurned'
  BY <1>19 DEF FreshSlot, NoneToReuse, MayAppend, Tombstones
<1>20. CASE PublishReused
  <2>1. ctlSlot \in Slot
    BY <1>20 DEF PublishReused, AppendInv
  <2>2. InUse \union {ctlSlot} \subseteq Slot
    BY <2>1 DEF InUse, Connected
  <2>3. Cardinality(InUse \union {ctlSlot}) \in 0 .. Capacity
    BY <2>2, InUseFits
  <2> QED
    BY <1>20, <2>3 DEF PublishReused
<1>21. CASE PublishFresh
  BY <1>21 DEF AppendInv, PublishFresh
<1>22. CASE AppendSucceeds
  BY <1>22 DEF AppendSucceeds
<1>23. CASE AppendFails
  BY <1>23 DEF AppendFails
<1>24. ASSUME NEW j \in 0 .. Remotes - 1, RemotePut(j) PROVE SlotsNotBurned'
  BY <1>24 DEF RemotePut, PutSamples
<1>25. CASE UNCHANGED vars
  BY <1>25 DEF vars
<1> QED
  BY <1>1, <1>2, <1>3, <1>4, <1>5, <1>6, <1>7, <1>8, <1>9, <1>10, <1>11, <1>12, <1>13, <1>14, <1>15, <1>16, <1>17, <1>18, <1>19, <1>20, <1>21, <1>22, <1>23, <1>24, <1>25 DEF Next, MixerThread, OutputThread, DeviceThread, ControlThread

\* The batch is cleared only when nothing taken is in it, and changed only when nobody reads it.
LEMMA BatchStep == IInv /\ [Next]_vars => BatchInv'
<1> SUFFICES ASSUME IInv, [Next]_vars PROVE BatchInv'
  OBVIOUS
<1> USE Sizes, SlotRange DEF IInv, BatchInv, NoLostContribution, TypeOK, slotVars, outVars, mixVars, devVars, ctlVars
<1>1. CASE TickWait
  BY <1>1 DEF TickWait
<1>2. CASE TickGather
  BY <1>2 DEF TickGather
<1>3. CASE MixInput
  BY <1>3 DEF MixInput, FirstOfBatch
<1>4. CASE Emit
  BY <1>4 DEF Emit
<1>5. CASE Postpone
  BY <1>5 DEF Postpone
<1>6. CASE ApplyMixerEnable
  BY <1>6 DEF ApplyMixerEnable
<1>7. CASE FinishMixerEnable
  BY <1>7 DEF FinishMixerEnable
<1>8. CASE ApplyMixerDisable
  BY <1>8 DEF ApplyMixerDisable
<1>9. CASE DeliverBegin
  BY <1>9 DEF DeliverBegin, BatchReady
<1>10. CASE DeliverEnd
  BY <1>10 DEF DeliverEnd
<1>11. ASSUME NEW c \in Chan, ChannelPut(c) PROVE BatchInv'
  BY <1>11 DEF ChannelPut, PutSamples
<1>12. ASSUME NEW c \in Chan, ChannelEnable(c) PROVE BatchInv'
  BY <1>12 DEF ChannelEnable
<1>13. ASSUME NEW c \in Chan, ChannelDisable(c) PROVE BatchInv'
  BY <1>13 DEF ChannelDisable
<1>14. ASSUME NEW c \in Chan, ChannelRemove(c) PROVE BatchInv'
  BY <1>14 DEF ChannelRemove
<1>15. CASE ScanInputs
  BY <1>15 DEF ScanInputs
<1>16. CASE AllInputsDied
  BY <1>16 DEF AllInputsDied
<1>17. ASSUME NEW on \in Requests, PostMixerRequest(on) PROVE BatchInv'
  BY <1>17 DEF PostMixerRequest
<1>18. ASSUME NEW c \in Chan, ReuseSlot(c) PROVE BatchInv'
  BY <1>18 DEF ReuseSlot, MayAppend, Tombstones
<1>19. ASSUME NEW c \in Chan, FreshSlot(c) PROVE BatchInv'
  BY <1>19 DEF FreshSlot, NoneToReuse, MayAppend, Tombstones
<1>20. CASE PublishReused
  BY <1>20 DEF PublishReused
<1>21. CASE PublishFresh
  BY <1>21 DEF PublishFresh
<1>22. CASE AppendSucceeds
  BY <1>22 DEF AppendSucceeds
<1>23. CASE AppendFails
  BY <1>23 DEF AppendFails
<1>24. ASSUME NEW j \in 0 .. Remotes - 1, RemotePut(j) PROVE BatchInv'
  BY <1>24 DEF RemotePut, PutSamples
<1>25. CASE UNCHANGED vars
  BY <1>25 DEF vars
<1> QED
  BY <1>1, <1>2, <1>3, <1>4, <1>5, <1>6, <1>7, <1>8, <1>9, <1>10, <1>11, <1>12, <1>13, <1>14, <1>15, <1>16, <1>17, <1>18, <1>19, <1>20, <1>21, <1>22, <1>23, <1>24, <1>25 DEF Next, MixerThread, OutputThread, DeviceThread, ControlThread

-----------------------------------------------------------------------------
LEMMA InductiveStep == IInv /\ [Next]_vars => IInv'
  BY TypeStep, IntervalStep, OwnerStep, AppendStep, BurnStep, BatchStep DEF IInv

LEMMA Inductive == Spec => []IInv
  BY InitIInv, InductiveStep, PTL DEF Spec

LEMMA Implied == IInv => TypeOK /\ SlotSafety /\ NoForeignAudio /\ NoLostContribution /\ SlotsNotBurned
<1> SUFFICES ASSUME IInv PROVE TypeOK /\ SlotSafety /\ NoForeignAudio /\ NoLostContribution /\ SlotsNotBurned
  OBVIOUS
<1>1. SlotSafety
  BY Sizes, SlotRange DEF IInv, TypeOK, OwnerInv, SlotSafety, Connected
<1>2. NoForeignAudio
  BY Sizes, SlotRange DEF IInv, TypeOK, OwnerInv, NoForeignAudio
<1> QED
  BY <1>1, <1>2 DEF IInv, BatchInv

\* The mixer's state keeps its types: among them that the interval never passes below 0
\* and that input_count never exceeds the capacity fixed at startup.
THEOREM TypeCorrect == Spec => []TypeOK
  BY Inductive, Implied, PTL

\* At every moment of every interleaving each live channel has a slot of its own.
THEOREM SlotsAreOwned == Spec => []SlotSafety
  BY Inductive, Implied, PTL

\* No slot ever offers the mixer thread a batch of a channel that has left it.
THEOREM NoForeignAudioEver == Spec => []NoForeignAudio
  BY Inductive, Implied, PTL

\* Live edits never consume a reserved slot while a vacated one exists.
THEOREM ReserveIsKept == Spec => []SlotsNotBurned
  BY Inductive, Implied, PTL
\* What the mixer thread took from an input is in the batch until the outputs had it.
THEOREM ContributionsKept == Spec => []NoLostContribution
  BY Inductive, Implied, PTL

LEMMA TornStep ==
  ASSUME IInv, [Next]_vars, outPc = "deliver", waveout' # waveout
  PROVE  interval = 0
<1>1. MixInput \/ waveout' = waveout
  BY DEF Next, vars, MixerThread, OutputThread, DeviceThread, ControlThread, slotVars, outVars, mixVars, devVars, ctlVars,
         TickWait, TickGather, Emit, Postpone, ApplyMixerEnable, FinishMixerEnable, ApplyMixerDisable, DeliverBegin,
         DeliverEnd, ChannelPut, PutSamples, ChannelEnable, ChannelDisable, ChannelRemove, ScanInputs, AllInputsDied,
         PostMixerRequest, ReuseSlot, FreshSlot, PublishReused, PublishFresh, AppendSucceeds, AppendFails, RemotePut
<1>2. mixPc = "gather" /\ state = "CH_READY"
  BY <1>1 DEF MixInput, IInv, BatchInv
<1> QED
  BY <1>2 DEF IInv, IntervalInv

\* A batch the outputs are reading is changed only by an overrun.
THEOREM BatchesNotTorn == Spec => NoTornBatch
<1>1. IInv /\ [Next]_vars => [outPc = "deliver" /\ waveout' # waveout => interval = 0]_vars
  BY TornStep
<1> QED
  BY <1>1, Inductive, PTL DEF Spec, NoTornBatch
=============================================================================
