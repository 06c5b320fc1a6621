----------------------- MODULE ChannelLifecycleProofs -----------------------
(***************************************************************************)
(* Proofs about ChannelLifecycle, for any capacity, config files, readers  *)
(* and timeouts: type correctness, the teardown protocol                   *)
(* (RemovedWhenTornDown), that a reload converges (ReloadConverges), that  *)
(* published channels are parsed (PublishedIsParsed) and, while no request *)
(* was answered late, that encoders are present and memory is freed once   *)
(* and after its last reader.                                              *)
(***************************************************************************)
EXTENDS ChannelLifecycle, FiniteSetTheorems, SequenceTheorems, TLAPS

\* No config file has a channel that parses after one parse_channel() returns false for: with one
\* the append publishes an index nobody initialised (see PublishedIsParsed).
NoHoles ==
  \A f \in Files : \A i, j \in 1 .. Len(f) : i < j /\ f[i].def \in Legacy => f[j].def \notin Good

Reloading == ctlPc \in {"remove", "removing", "parse", "toggle", "toggling"}
AllGood == \A i \in 1 .. Len(config) : config[i].def \in Good

\* Where the control thread is in the file and in the channels.
ControlInv ==
  /\ Reloading => /\ config \in Files
                  /\ common_prefix <= Len(config) /\ common_prefix <= channel_count
  /\ ctlPc \in {"remove", "removing"} => allocated + Len(config) - common_prefix <= MaxBlock
  /\ ctlPc = "removing" => common_prefix < channel_count
  /\ ctlPc = "parse" =>
       /\ Len(config) <= Capacity /\ channel_count = common_prefix
       /\ channel_count <= new_count /\ new_count <= ctlK /\ ctlK <= Len(config)
       /\ allocated + Len(config) - ctlK <= MaxBlock
       /\ new_count < ctlK => config[new_count + 1].def \in Legacy
  /\ ctlPc = "toggle" => ctlK <= common_prefix
  /\ ctlPc = "toggling" => ctlK < common_prefix
  /\ ctlPc = "command" => ctlK < channel_count

\* What a teardown has done when its request is seen as consumed.
TeardownInv ==
  /\ outPc = "ack" =>
       /\ outJ < channel_count /\ pending_remove_request[outJ] = 1
       /\ removed[outJ] /\ ~lame[outJ]
  /\ ctlPc = "removing" /\ pending_remove_request[channel_count - 1] = -1 =>
       removed[channel_count - 1] /\ ~lame[channel_count - 1]

\* A block belongs to one channel, and what is not allocated was never queued.
MemoryInv ==
  /\ \A k \in Index : memory[k] # None => memory[k] <= allocated
  /\ \A k, l \in Index : k # l /\ memory[k] # None => memory[k] # memory[l]
  /\ \A b \in Block : queued[b] > 0 \/ freed[b] > 0 => b <= allocated

\* The channels that are published, and the ones the append is about to publish.
ParsedInv ==
  /\ \A k \in Index : k < channel_count =>
       /\ memory[k] # None
       /\ ~removed[k] => lame[k] /\ queued[memory[k]] = 0
  /\ ctlPc = "parse" => \A k \in Index : channel_count <= k /\ k < new_count =>
       memory[k] # None /\ ~removed[k] /\ lame[k] /\ queued[memory[k]] = 0

\* As long as no request is late, only the one the control thread waits for is posted.
RequestInv ==
  timeouts = 0 =>
    /\ \A k \in Index : k < channel_count =>
         /\ pending_remove_request[k] # -1 => ctlPc = "removing" /\ k = channel_count - 1
         /\ removed[k] => ctlPc = "removing" /\ k = channel_count - 1
         /\ removed[k] /\ pending_remove_request[k] # -1 => outPc = "ack" /\ outJ = k
         /\ pending_enable_request[k] # -1 => ctlPc \in {"toggling", "command"} /\ k = ctlK
    /\ ctlPc = "parse" => \A k \in Index : channel_count <= k /\ k < ctlK =>
         pending_remove_request[k] = -1 /\ pending_enable_request[k] = -1 /\ ~removed[k]

\* As long as no request is late: who has an encoder, what may be freed.
GraceInv ==
  timeouts = 0 =>
    /\ \A k \in Index : k < channel_count =>
         /\ enabled[k] => lame[k]
         /\ freed[memory[k]] = 0
         /\ removed[k] => "control" \in graceFor[memory[k]]
    /\ ctlPc = "parse" => \A k \in Index : channel_count <= k /\ k < new_count => freed[memory[k]] = 0
    /\ \A b \in Block : queued[b] + freed[b] <= 1
    /\ \A r \in Reader : holds[r] # None =>
         freed[holds[r]] = 0 /\ (queued[holds[r]] > 0 => r \in graceFor[holds[r]])

\* How far the reload has brought the device to what the file says.
ConvergeInv ==
  /\ Reloading => \A k \in 0 .. common_prefix - 1 : config_signature[k] = config[k + 1].def
  /\ ctlPc = "parse" => \A k \in channel_count .. ctlK - 1 : config[k + 1].def \in Good =>
       config_signature[k] = config[k + 1].def /\ (timeouts = 0 => enabled[k] = config[k + 1].enabled)
  /\ ctlPc \in {"toggle", "toggling"} /\ timeouts = 0 /\ Len(config) <= Capacity /\ AllGood =>
       /\ channel_count = Len(config)
       /\ \A k \in common_prefix .. Len(config) - 1 :
            config_signature[k] = config[k + 1].def /\ enabled[k] = config[k + 1].enabled
       /\ \A k \in 0 .. ctlK - 1 : enabled[k] = config[k + 1].enabled
       /\ ctlPc = "toggling" =>
            IF pending_enable_request[ctlK] = -1 THEN enabled[ctlK] = config[ctlK + 1].enabled
            ELSE pending_enable_request[ctlK] = IF config[ctlK + 1].enabled THEN 1 ELSE 0

IInv == TypeOK /\ ControlInv /\ TeardownInv /\ MemoryInv /\ RequestInv /\ ConvergeInv
HoleFreeInv == ParsedInv /\ GraceInv
-----------------------------------------------------------------------------
\* A config file is a sequence of definitions with an enabled flag.
LEMMA FileShape ==
  ASSUME NEW f \in Files
  PROVE  /\ Len(f) \in Nat
         /\ \A i \in 1 .. Len(f) :
              f[i].def \in Good \union Bad \union Legacy /\ f[i].enabled \in BOOLEAN
<1>1. f \in Seq([def : Good \union Bad \union Legacy, enabled : BOOLEAN])
  BY LifecycleAssumption
<1>2. \A i \in 1 .. Len(f) : f[i] \in [def : Good \union Bad \union Legacy, enabled : BOOLEAN]
  BY <1>1, ElementOfSeq
<1> QED
  BY <1>1, <1>2, LenProperties

\* Counts of a set of the naturals below a bound.
LEMMA CountBelow ==
  ASSUME NEW m \in Nat, NEW S \in SUBSET (0 .. m - 1)
  PROVE  IsFiniteSet(S) /\ Cardinality(S) \in 0 .. m
<1>1. IsFiniteSet(0 .. m - 1) /\ Cardinality(0 .. m - 1) = m
  BY FS_Interval
<1>2. IsFiniteSet(S) /\ Cardinality(S) <= m
  BY <1>1, FS_Subset
<1> QED
  BY <1>2, FS_CardinalityType

\* A set of naturals with everything below its members is an initial segment: the longest prefix
\* with a property exists.
LEMMA DownwardClosed ==
  ASSUME NEW m \in Nat, NEW S \in SUBSET (0 .. m - 1),
         \A j \in S : \A i \in 0 .. j : i \in S
  PROVE  S = 0 .. Cardinality(S) - 1
<1> DEFINE c == Cardinality(S)
<1>1. IsFiniteSet(S) /\ c \in 0 .. m
  BY CountBelow
<1>2. S \subseteq 0 .. c - 1
  <2> SUFFICES ASSUME NEW j \in S, j >= c PROVE FALSE
    BY <1>1
  <2>1. j \in Nat /\ 0 .. (j + 1) - 1 \subseteq S
    OBVIOUS
  <2>2. Cardinality(0 .. (j + 1) - 1) <= c
    BY <1>1, <2>1, FS_Subset
  <2>3. Cardinality(0 .. (j + 1) - 1) = j + 1
    <3>1. j + 1 \in Nat
      BY <2>1
    <3> QED
      BY <3>1, FS_Interval
  <2> QED
    BY <1>1, <2>1, <2>2, <2>3
<1>3. IsFiniteSet(0 .. c - 1) /\ Cardinality(0 .. c - 1) = c
  <2>1. c \in Nat
    BY <1>1
  <2> HIDE DEF c
  <2> QED
    BY <2>1, FS_Interval
<1> QED
  BY <1>2, <1>3, FS_Subset

\* CommonPrefix() is what it is meant to be: the channels before it stay, the one at it does not.
LEMMA PrefixFound ==
  ASSUME TypeOK, NEW f \in Files
  PROVE  LET n == CommonPrefix(f) IN
         /\ n \in 0 .. Capacity /\ n <= channel_count /\ n <= Len(f)
         /\ \A j \in 0 .. n - 1 : Unchanged(f, j)
         /\ n < channel_count /\ n < Len(f) => ~Unchanged(f, n)
<1> DEFINE m == IF channel_count < Len(f) THEN channel_count ELSE Len(f)
           S == {j \in 0 .. m - 1 : \A i \in 0 .. j : Unchanged(f, i)}
           n == Cardinality(S)
<1>1. m \in Nat /\ m <= channel_count /\ m <= Len(f) /\ m <= Capacity /\ Capacity \in Nat
  BY FileShape, LifecycleAssumption DEF TypeOK
<1>2. S \in SUBSET (0 .. m - 1) /\ \A j \in S : \A i \in 0 .. j : i \in S
  BY <1>1
<1>3. S = 0 .. n - 1
  BY <1>1, <1>2, DownwardClosed
<1>4. n \in 0 .. m
  BY <1>1, <1>2, CountBelow
<1>5. \A j \in 0 .. n - 1 : Unchanged(f, j)
  BY <1>3, <1>4
<1>6. n < m => ~Unchanged(f, n)
  <2> SUFFICES ASSUME n < m, Unchanged(f, n) PROVE FALSE
    OBVIOUS
  <2>1. n \in 0 .. m - 1
    BY <1>1, <1>4
  <2>2. \A i \in 0 .. n : Unchanged(f, i)
    BY <1>4, <1>5
  <2>3. n \in S
    BY <2>1, <2>2
  <2> HIDE DEF S, n
  <2> QED
    BY <1>3, <1>4, <2>3
<1> HIDE DEF S, n
<1>7. \E q \in 0 .. Capacity :
        /\ q <= channel_count /\ q <= Len(f)
        /\ \A j \in 0 .. q - 1 : Unchanged(f, j)
        /\ q < channel_count /\ q < Len(f) => ~Unchanged(f, q)
  <2>1. n \in 0 .. Capacity /\ n <= channel_count /\ n <= Len(f)
    BY <1>1, <1>4, FileShape DEF TypeOK
  <2>2. n < channel_count /\ n < Len(f) => n < m
    BY <1>1, <1>4, FileShape DEF TypeOK
  <2> QED
    BY <2>1, <2>2, <1>5, <1>6
<1> QED
  BY <1>7 DEF CommonPrefix
-----------------------------------------------------------------------------
\* What the steps need of the constants and of the file being loaded.
LEMMA Constants ==
  /\ Capacity \in Nat /\ MaxBlock \in Nat /\ MaxTimeOut \in Nat
  /\ None \notin Nat /\ None \notin Good /\ None \notin Block
  /\ \A k : k \in Index <=> k \in Int /\ 0 <= k /\ k < Capacity
  /\ \A b : b \in Block <=> b \in Int /\ 1 <= b /\ b <= MaxBlock
  /\ Good \cap Bad = {} /\ Good \cap Legacy = {} /\ Bad \cap Legacy = {}
  BY LifecycleAssumption DEF Index, Block

LEMMA ConfigShape ==
  ASSUME ControlInv, Reloading
  PROVE  /\ config \in Files /\ Len(config) \in Nat
         /\ \A k \in 0 .. Len(config) - 1 :
              config[k + 1].def \in Good \union Bad \union Legacy /\ config[k + 1].enabled \in BOOLEAN
<1>1. config \in Files
  BY DEF ControlInv
<1>2. \A k \in 0 .. Len(config) - 1 : k + 1 \in 1 .. Len(config)
  BY <1>1, FileShape
<1> QED
  BY <1>1, <1>2, FileShape

\* While parsing, the control thread is at an index that is not published.
LEMMA ParsePlace ==
  ASSUME TypeOK, ControlInv, ctlPc = "parse", ctlK < Len(config)
  PROVE  /\ ctlK \in Index /\ channel_count <= ctlK
         /\ config \in Files /\ Len(config) \in Nat
         /\ config[ctlK + 1].enabled \in BOOLEAN
<1>1. config \in Files /\ Len(config) \in Nat /\ ctlK \in 0 .. Len(config) - 1
  BY ConfigShape DEF TypeOK, ControlInv, Reloading
<1>2. config[ctlK + 1].enabled \in BOOLEAN
  BY <1>1, ConfigShape DEF Reloading
<1>3. ctlK \in Nat /\ ctlK < Len(config) /\ Len(config) <= Capacity /\ channel_count <= new_count /\ new_count <= ctlK
      /\ channel_count \in Nat /\ new_count \in Nat
  BY <1>1, Constants DEF TypeOK, ControlInv
<1>4. ctlK \in Index /\ channel_count <= ctlK
  BY <1>1, <1>3, Constants
<1> QED
  BY <1>1, <1>2, <1>4

\* Every action keeps the types, and the control thread its place.
LEMMA TypeStep == TypeOK /\ ControlInv /\ TeardownInv /\ [Next]_vars => TypeOK' /\ ControlInv'
<1> SUFFICES ASSUME TypeOK, ControlInv, TeardownInv, [Next]_vars PROVE TypeOK' /\ ControlInv'
  OBVIOUS
<1> USE Constants DEF TypeOK, ControlInv, Reloading, fieldVars, freeVars, outVars, ctlVars
<1>0. Reloading => config \in Files /\ Len(config) \in Nat
  BY ConfigShape
<1>1. ASSUME NEW cfg \in Files, ReloadDiff(cfg) PROVE TypeOK' /\ ControlInv'
  <2>1. CommonPrefix(cfg) \in 0 .. Capacity /\ CommonPrefix(cfg) <= channel_count /\ CommonPrefix(cfg) <= Len(cfg)
    BY PrefixFound
  <2> QED
    BY <1>1, <2>1, FileShape DEF ReloadDiff
<1>2. ASSUME NEW k \in Index, NEW on \in {0, 1}, Command(k, on) PROVE TypeOK' /\ ControlInv'
  BY <1>2 DEF Command
<1>3. CASE RequestRemove
  BY <1>0, <1>3 DEF RequestRemove
<1>4. CASE RemoveConfirmed
  BY <1>0, <1>4 DEF RemoveConfirmed
<1>5. CASE RemoveTimesOut
  BY <1>0, <1>5 DEF RemoveTimesOut
<1>6. CASE RemovesDone
  BY <1>0, <1>6 DEF RemovesDone
<1>7. CASE ParseChannel
  <2>1. ctlK \in Index /\ config[ctlK + 1].enabled \in BOOLEAN /\ config \in Files /\ Len(config) \in Nat
    BY <1>7, ParsePlace DEF ParseChannel
  <2>2. /\ enabled' \in [Index -> BOOLEAN] /\ removed' \in [Index -> BOOLEAN]
        /\ pending_enable_request' \in [Index -> {-1, 0, 1}] /\ pending_remove_request' \in [Index -> {-1, 0, 1}]
    BY <1>7, <2>1 DEF ParseChannel, ParseStart
  <2>3. allocated' \in 0 .. MaxBlock /\ allocated' \in Block
    <3>1. allocated + 1 <= MaxBlock
      BY <1>7, <2>1 DEF ParseChannel
    <3>2. allocated' = allocated + 1 /\ allocated \in Nat
      BY <1>7 DEF ParseChannel
    <3> QED
      BY <3>1, <3>2 DEF Block
  <2>4. ctlK' \in 0 .. Capacity /\ new_count' \in 0 .. Capacity
    BY <1>7, <2>1 DEF ParseChannel
  <2>5. /\ memory' \in [Index -> Block \union {None}]
        /\ config_signature' \in [Index -> Good \union {None}] /\ lame' \in [Index -> BOOLEAN]
    BY <1>7, <2>1, <2>3 DEF ParseChannel
  <2>6. TypeOK'
    BY <1>7, <2>1, <2>2, <2>3, <2>5, <2>4 DEF ParseChannel
  <2>7. ControlInv'
    BY <1>7, <2>1 DEF ParseChannel
  <2> QED
    BY <2>6, <2>7
<1>8. CASE ParseSkips
  <2>1. ctlK \in Index /\ config[ctlK + 1].enabled \in BOOLEAN /\ config \in Files /\ Len(config) \in Nat
    BY <1>8, ParsePlace DEF ParseSkips
  <2>2. /\ enabled' \in [Index -> BOOLEAN] /\ removed' \in [Index -> BOOLEAN]
        /\ pending_enable_request' \in [Index -> {-1, 0, 1}] /\ pending_remove_request' \in [Index -> {-1, 0, 1}]
    BY <1>8, <2>1 DEF ParseSkips, ParseStart
  <2>3. ctlK' \in 0 .. Capacity
    BY <1>8, <2>1, Constants DEF ParseSkips
  <2>4. UNCHANGED <<channel_count, lame, memory, config_signature, freeVars, allocated, holds, outVars, config,
                    common_prefix, new_count, timeouts>>
        /\ ctlPc' \in {"parse", "toggle"}
    BY <1>8 DEF ParseSkips
  <2>5. TypeOK'
    BY <2>2, <2>3, <2>4 DEF TypeOK, freeVars, outVars
  <2>6. ControlInv'
    BY <1>8, <2>1 DEF ParseSkips
  <2> QED
    BY <2>5, <2>6
<1>9. CASE ParseFails
  <2>1. ctlK \in Index /\ config[ctlK + 1].enabled \in BOOLEAN /\ config \in Files /\ Len(config) \in Nat
    BY <1>9, ParsePlace DEF ParseFails
  <2>2. /\ enabled' \in [Index -> BOOLEAN] /\ removed' \in [Index -> BOOLEAN]
        /\ pending_enable_request' \in [Index -> {-1, 0, 1}] /\ pending_remove_request' \in [Index -> {-1, 0, 1}]
    BY <1>9, <2>1 DEF ParseFails, ParseStart
  <2>3. ctlK' \in 0 .. Capacity
    BY <1>9, <2>1, Constants DEF ParseFails
  <2>4. UNCHANGED <<channel_count, lame, memory, config_signature, freeVars, allocated, holds, outVars, config,
                    common_prefix, new_count, timeouts>>
        /\ ctlPc' \in {"parse", "toggle"}
    BY <1>9 DEF ParseFails
  <2>5. TypeOK'
    BY <2>2, <2>3, <2>4 DEF TypeOK, freeVars, outVars
  <2>6. ControlInv'
    BY <1>9, <2>1 DEF ParseFails
  <2> QED
    BY <2>5, <2>6
<1>10. CASE AppendPublish
  BY <1>0, <1>10 DEF AppendPublish
<1>11. CASE Toggle
  <2>1. ctlK \in Int /\ common_prefix \in Nat /\ ctlK < common_prefix
    BY <1>11 DEF Toggle
  <2>2. pending_enable_request' \in [Index -> {-1, 0, 1}]
    BY <1>11 DEF Toggle
  <2>3. ctlPc' \in {"toggle", "toggling"} /\ ctlK' \in 0 .. Capacity
        /\ (ctlPc' = "toggle" => ctlK' <= common_prefix) /\ (ctlPc' = "toggling" => ctlK' < common_prefix)
    BY <1>11, <2>1 DEF Toggle
  <2>4. TypeOK'
    BY <1>11, <2>2, <2>3 DEF Toggle
  <2>5. ControlInv'
    BY <1>11, <2>3 DEF Toggle
  <2> QED
    BY <2>4, <2>5
<1>12. CASE ReloadReturns
  BY <1>12 DEF ReloadReturns, ControlReturns
<1>13. CASE RequestReturns
  BY SMTT(30), <1>13 DEF RequestReturns, ControlReturns
<1>14. CASE BeginPass
  BY <1>14 DEF BeginPass
<1>15. CASE Teardown
  <2>1. InFlight \subseteq Reader \union {"control"}
    BY DEF InFlight
  <2>2. /\ enabled' \in [Index -> BOOLEAN] /\ lame' \in [Index -> BOOLEAN] /\ removed' \in [Index -> BOOLEAN]
    BY <1>15 DEF Teardown
  <2>3. queued' \in [Block -> 0 .. 2]
    <3>1. \A b \in Block : queued[b] \in 0 .. 2 /\ (IF queued[b] < 2 THEN queued[b] + 1 ELSE queued[b]) \in 0 .. 2
      OBVIOUS
    <3> QED
      BY <1>15, <3>1 DEF Teardown
  <2>4. graceFor' \in [Block -> SUBSET (Reader \union {"control"})]
    BY <1>15, <2>1 DEF Teardown
  <2>5. TypeOK'
    BY <1>15, <2>2, <2>3, <2>4 DEF Teardown
  <2>6. ControlInv'
    BY <1>15 DEF Teardown
  <2> QED
    BY <2>5, <2>6
<1>16. CASE TeardownAck
  <2>1. outJ < channel_count
    BY <1>16 DEF TeardownAck, TeardownInv
  <2>2. outJ' \in 0 .. Capacity /\ pending_remove_request' \in [Index -> {-1, 0, 1}]
    BY <1>16, <2>1 DEF TeardownAck
  <2>3. TypeOK'
    BY <1>16, <2>2 DEF TeardownAck
  <2>4. ControlInv'
    BY <1>16 DEF TeardownAck
  <2> QED
    BY <2>3, <2>4
<1>17. CASE ProcessChannel
  <2>1. outJ \in Index
    BY <1>17 DEF ProcessChannel
  <2>2. enabled' \in [Index -> BOOLEAN]
    BY <1>17, <2>1 DEF ProcessChannel
  <2>3. pending_enable_request' \in [Index -> {-1, 0, 1}] /\ outJ' \in 0 .. Capacity
    BY <1>17, <2>1 DEF ProcessChannel
  <2>4. TypeOK'
    BY <1>17, <2>1, <2>2, <2>3 DEF ProcessChannel
  <2>5. ControlInv'
    BY <1>17 DEF ProcessChannel
  <2> QED
    BY <2>4, <2>5
<1>18. CASE EndPass
  <2>1. PICK S \in SUBSET {b \in Block : queued[b] > 0 /\ graceFor[b] = {}} :
          /\ freed' = [b \in Block |-> IF b \in S THEN freed[b] + queued[b] ELSE freed[b]]
          /\ queued' = [b \in Block |-> IF b \in S THEN 0 ELSE queued[b]]
    BY <1>18 DEF EndPass
  <2>2. freed' \in [Block -> Nat] /\ queued' \in [Block -> 0 .. 2]
    <3>1. \A b \in Block : queued[b] \in 0 .. 2 /\ freed[b] \in Nat
      OBVIOUS
    <3>2. \A b \in Block : freed[b] + queued[b] \in Nat /\ (IF b \in S THEN freed[b] + queued[b] ELSE freed[b]) \in Nat
      <4> TAKE b \in Block
      <4>1. \A m \in Nat, n \in 0 .. 2 : m + n \in Nat
        OBVIOUS
      <4> QED
        BY <3>1, <4>1, Zenon
    <3>3. \A b \in Block : (IF b \in S THEN 0 ELSE queued[b]) \in 0 .. 2
      BY <3>1
    <3> QED
      BY <2>1, <3>2, <3>3
  <2>3. TypeOK'
    BY <1>18, <2>2 DEF EndPass
  <2>4. ControlInv'
    BY <1>18 DEF EndPass
  <2> QED
    BY <2>3, <2>4
<1>19. ASSUME NEW r \in Reader, BeginRead(r) PROVE TypeOK' /\ ControlInv'
  BY <1>19 DEF BeginRead
<1>20. ASSUME NEW r \in Reader, EndRead(r) PROVE TypeOK' /\ ControlInv'
  BY <1>20 DEF EndRead
<1>21. CASE UNCHANGED vars
  BY <1>21 DEF vars
<1> QED
  BY ZenonT(30), <1>1, <1>2, <1>3, <1>4, <1>5, <1>6, <1>7, <1>8, <1>9, <1>10, <1>11, <1>12, <1>13, <1>14, <1>15, <1>16,
     <1>17, <1>18, <1>19, <1>20, <1>21 DEF Next, ControlStep, OutputStep

\* Every action keeps what a teardown has done when it is acknowledged.
LEMMA TeardownStep == TypeOK /\ ControlInv /\ TeardownInv /\ [Next]_vars => TeardownInv'
<1> SUFFICES ASSUME TypeOK, ControlInv, TeardownInv, [Next]_vars PROVE TeardownInv'
  OBVIOUS
<1> USE DEF TeardownInv, fieldVars, freeVars, outVars, ctlVars
<1>0. /\ channel_count \in Nat /\ channel_count <= Capacity /\ outJ \in Nat /\ ctlK \in Nat /\ new_count \in Nat
      /\ removed \in [Index -> BOOLEAN] /\ lame \in [Index -> BOOLEAN] /\ pending_remove_request \in [Index -> {-1, 0, 1}]
      /\ \A k : k \in Index <=> k \in Int /\ 0 <= k /\ k < Capacity
      /\ Capacity \in Nat
  BY Constants DEF TypeOK
<1>frame. ASSUME UNCHANGED <<channel_count, removed, lame, pending_remove_request, outPc, outJ>>,
                 ctlPc' = "removing" => ctlPc = "removing"
          PROVE  TeardownInv'
  BY <1>frame
<1>parse. ASSUME ctlPc = "parse", ctlK < Len(config), ParseStart(ctlK), ctlPc' # "removing",
                 UNCHANGED <<channel_count, outPc, outJ>>, lame' \in {lame, [lame EXCEPT ![ctlK] = TRUE]}
          PROVE  TeardownInv'
  <2>1. ctlK \in Index /\ channel_count <= ctlK
    BY <1>parse, ParsePlace
  <2>2. outPc = "ack" => outJ # ctlK
    BY <1>0, <2>1
  <2>3. outPc = "ack" => pending_remove_request'[outJ] = pending_remove_request[outJ] /\ removed'[outJ] = removed[outJ]
                         /\ lame'[outJ] = lame[outJ]
    BY <1>parse, <1>0, <2>1, <2>2 DEF ParseStart
  <2> QED
    BY <1>parse, <2>3
<1>1. ASSUME NEW cfg \in Files, ReloadDiff(cfg) PROVE TeardownInv'
  BY <1>1, <1>frame DEF ReloadDiff
<1>2. ASSUME NEW k \in Index, NEW on \in {0, 1}, Command(k, on) PROVE TeardownInv'
  BY <1>2, <1>frame DEF Command
<1>3. CASE RequestRemove
  <2>1. channel_count - 1 \in Index /\ pending_remove_request' = [pending_remove_request EXCEPT ![channel_count - 1] = 1]
    <3>1. common_prefix \in Nat
      BY <1>0 DEF TypeOK
    <3> QED
      BY <1>3, <1>0, <3>1 DEF RequestRemove
  <2>2. pending_remove_request'[channel_count - 1] = 1
    BY <1>0, <2>1
  <2>3. outPc = "ack" => outJ \in Index /\ pending_remove_request'[outJ] = 1
    BY <1>0, <2>1
  <2>4. UNCHANGED <<channel_count, removed, lame, outPc, outJ>>
    BY <1>3 DEF RequestRemove
  <2> QED
    BY <2>2, <2>3, <2>4
<1>4. CASE RemoveConfirmed
  BY <1>4, <1>0 DEF RemoveConfirmed
<1>5. CASE RemoveTimesOut
  BY <1>5, <1>frame DEF RemoveTimesOut
<1>6. CASE RemovesDone
  BY <1>6, <1>frame DEF RemovesDone
<1>7. CASE ParseChannel
  BY <1>7, <1>parse DEF ParseChannel
<1>8. CASE ParseSkips
  BY <1>8, <1>parse DEF ParseSkips
<1>9. CASE ParseFails
  BY <1>9, <1>parse DEF ParseFails
<1>10. CASE AppendPublish
  BY <1>10, <1>0 DEF AppendPublish, ControlInv
<1>11. CASE Toggle
  BY <1>11, <1>frame DEF Toggle
<1>12. CASE ReloadReturns
  BY <1>12, <1>frame DEF ReloadReturns
<1>13. CASE RequestReturns
  BY <1>13, <1>frame DEF RequestReturns
<1>14. CASE BeginPass
  BY <1>14 DEF BeginPass
<1>15. CASE Teardown
  BY <1>15, <1>0 DEF Teardown
<1>16. CASE TeardownAck
  BY <1>16, <1>0 DEF TeardownAck
<1>17. CASE ProcessChannel
  BY <1>17, <1>0 DEF ProcessChannel
<1>18. CASE EndPass
  BY <1>18 DEF EndPass
<1>19. ASSUME NEW r \in Reader, BeginRead(r) PROVE TeardownInv'
  BY <1>19, <1>frame DEF BeginRead
<1>20. ASSUME NEW r \in Reader, EndRead(r) PROVE TeardownInv'
  BY <1>20, <1>frame DEF EndRead
<1>21. CASE UNCHANGED vars
  BY <1>21, <1>frame DEF vars
<1> QED
  BY <1>1, <1>2, <1>3, <1>4, <1>5, <1>6, <1>7, <1>8, <1>9, <1>10, <1>11, <1>12, <1>13, <1>14, <1>15, <1>16,
     <1>17, <1>18, <1>19, <1>20, <1>21 DEF Next, ControlStep, OutputStep

\* Every action keeps the blocks apart.
LEMMA MemoryStep == TypeOK /\ ControlInv /\ MemoryInv /\ [Next]_vars => MemoryInv'
<1> SUFFICES ASSUME TypeOK, ControlInv, MemoryInv, [Next]_vars PROVE MemoryInv'
  OBVIOUS
<1> USE DEF MemoryInv, fieldVars, freeVars, outVars, ctlVars
<1>0. /\ allocated \in Nat /\ memory \in [Index -> Block \union {None}]
      /\ queued \in [Block -> 0 .. 2] /\ freed \in [Block -> Nat]
      /\ None \notin Block /\ \A b \in Block : b \in Nat
  BY Constants DEF TypeOK
<1>frame. ASSUME UNCHANGED <<memory, queued, freed, allocated>> PROVE MemoryInv'
  BY <1>frame
<1>1. ASSUME NEW cfg \in Files, ReloadDiff(cfg) PROVE MemoryInv'
  BY <1>1, <1>frame DEF ReloadDiff
<1>2. ASSUME NEW k \in Index, NEW on \in {0, 1}, Command(k, on) PROVE MemoryInv'
  BY <1>2, <1>frame DEF Command
<1>3. CASE RequestRemove
  BY <1>3, <1>frame DEF RequestRemove
<1>4. CASE RemoveConfirmed
  BY <1>4, <1>frame DEF RemoveConfirmed
<1>5. CASE RemoveTimesOut
  BY <1>5, <1>frame DEF RemoveTimesOut
<1>6. CASE RemovesDone
  BY <1>6, <1>frame DEF RemovesDone
<1>7. CASE ParseChannel
  <2>1. allocated' = allocated + 1 /\ memory' = [memory EXCEPT ![ctlK] = allocated + 1] /\ UNCHANGED <<queued, freed>>
    BY <1>7 DEF ParseChannel
  <2> QED
    BY <1>0, <2>1
<1>8. CASE ParseSkips
  BY <1>8, <1>frame DEF ParseSkips
<1>9. CASE ParseFails
  BY <1>9, <1>frame DEF ParseFails
<1>10. CASE AppendPublish
  BY <1>10, <1>frame DEF AppendPublish
<1>11. CASE Toggle
  BY <1>11, <1>frame DEF Toggle
<1>12. CASE ReloadReturns
  BY <1>12, <1>frame DEF ReloadReturns
<1>13. CASE RequestReturns
  BY <1>13, <1>frame DEF RequestReturns
<1>14. CASE BeginPass
  BY <1>14, <1>frame DEF BeginPass
<1>15. CASE Teardown
  <2>1. outJ \in Index
    <3>1. outJ \in Nat /\ channel_count \in Nat /\ outJ < channel_count /\ channel_count <= Capacity
      BY <1>15, Constants DEF Teardown, TypeOK
    <3> QED
      BY <3>1, Constants
  <2>2. /\ queued' = [queued EXCEPT ![memory[outJ]] = IF @ < 2 THEN @ + 1 ELSE @]
        /\ UNCHANGED <<memory, freed, allocated>>
    BY <1>15 DEF Teardown
  <2>3. \A b \in Block : b # memory[outJ] => queued'[b] = queued[b]
    BY <1>0, <2>2
  <2> QED
    BY <1>0, <2>1, <2>2, <2>3
<1>16. CASE TeardownAck
  BY <1>16, <1>frame DEF TeardownAck
<1>17. CASE ProcessChannel
  BY <1>17, <1>frame DEF ProcessChannel
<1>18. CASE EndPass
  <2>1. PICK S \in SUBSET {b \in Block : queued[b] > 0 /\ graceFor[b] = {}} :
          /\ freed' = [b \in Block |-> IF b \in S THEN freed[b] + queued[b] ELSE freed[b]]
          /\ queued' = [b \in Block |-> IF b \in S THEN 0 ELSE queued[b]]
    BY <1>18 DEF EndPass
  <2>2. UNCHANGED <<memory, allocated>>
    BY <1>18 DEF EndPass
  <2>3. \A b \in Block : queued'[b] > 0 \/ freed'[b] > 0 => queued[b] > 0 \/ freed[b] > 0
    BY <1>0, <2>1
  <2> QED
    BY <1>0, <2>2, <2>3
<1>19. ASSUME NEW r \in Reader, BeginRead(r) PROVE MemoryInv'
  BY <1>19, <1>frame DEF BeginRead
<1>20. ASSUME NEW r \in Reader, EndRead(r) PROVE MemoryInv'
  BY <1>20, <1>frame DEF EndRead
<1>21. CASE UNCHANGED vars
  BY <1>21, <1>frame DEF vars
<1> QED
  BY <1>1, <1>2, <1>3, <1>4, <1>5, <1>6, <1>7, <1>8, <1>9, <1>10, <1>11, <1>12, <1>13, <1>14, <1>15, <1>16,
     <1>17, <1>18, <1>19, <1>20, <1>21 DEF Next, ControlStep, OutputStep

\* Every action keeps the requests in step with the control thread that posts them.
LEMMA RequestStep == TypeOK /\ ControlInv /\ TeardownInv /\ RequestInv /\ [Next]_vars => RequestInv'
<1> SUFFICES ASSUME TypeOK, ControlInv, TeardownInv, RequestInv, [Next]_vars PROVE RequestInv'
  OBVIOUS
<1> USE DEF fieldVars, freeVars, outVars, ctlVars
<1>0. /\ channel_count \in Nat /\ channel_count <= Capacity /\ outJ \in Nat /\ ctlK \in Nat /\ new_count \in Nat
      /\ timeouts \in Nat
      /\ removed \in [Index -> BOOLEAN] /\ pending_remove_request \in [Index -> {-1, 0, 1}]
      /\ pending_enable_request \in [Index -> {-1, 0, 1}]
      /\ \A k : k \in Index <=> k \in Int /\ 0 <= k /\ k < Capacity
      /\ Capacity \in Nat
  BY Constants DEF TypeOK
<1>frame. ASSUME UNCHANGED <<channel_count, removed, pending_enable_request, pending_remove_request, outPc, outJ,
                             ctlPc, ctlK, timeouts>>
          PROVE  RequestInv'
  BY <1>frame DEF RequestInv
<1>quiet. ASSUME UNCHANGED <<channel_count, removed, pending_enable_request, pending_remove_request, outPc, outJ,
                             timeouts>>,
                 ctlPc \in {"idle", "remove", "toggle"}, ctlPc' # "parse"
          PROVE  RequestInv'
  BY <1>quiet DEF RequestInv
<1>parse. ASSUME ctlPc = "parse", ctlK < Len(config), ParseStart(ctlK),
                 (ctlPc' = "parse" /\ ctlK' = ctlK + 1) \/ ctlPc' = "toggle",
                 UNCHANGED <<channel_count, outPc, outJ, timeouts>>
          PROVE  RequestInv'
  <2>1. ctlK \in Index /\ channel_count <= ctlK
    BY <1>parse, ParsePlace
  <2>2. /\ pending_remove_request'[ctlK] = -1 /\ pending_enable_request'[ctlK] = -1 /\ ~removed'[ctlK]
        /\ \A k \in Index : k # ctlK => /\ pending_remove_request'[k] = pending_remove_request[k]
                                        /\ pending_enable_request'[k] = pending_enable_request[k]
                                        /\ removed'[k] = removed[k]
    BY <1>parse, <1>0, <2>1 DEF ParseStart
  <2>3. \A k \in Index : k < ctlK + 1 => k < ctlK \/ k = ctlK
    BY <1>0
  <2>4. \A k \in Index : k < channel_count => k # ctlK
    BY <1>0, <2>1
  <2> QED
    BY <1>parse, <2>2, <2>3, <2>4 DEF RequestInv
<1>1. ASSUME NEW cfg \in Files, ReloadDiff(cfg) PROVE RequestInv'
  BY <1>1, <1>quiet DEF ReloadDiff
<1>2. ASSUME NEW k \in Index, NEW on \in {0, 1}, Command(k, on) PROVE RequestInv'
  BY <1>2, <1>0 DEF Command, RequestInv
<1>3. CASE RequestRemove
  BY <1>3, <1>0 DEF RequestRemove, RequestInv
<1>4. CASE RemoveConfirmed
  BY <1>4, <1>0 DEF RemoveConfirmed, RequestInv
<1>5. CASE RemoveTimesOut
  BY <1>5, <1>0 DEF RemoveTimesOut, RequestInv
<1>6. CASE RemovesDone
  BY <1>6, <1>0 DEF RemovesDone, RequestInv
<1>7. CASE ParseChannel
  BY <1>7, <1>parse DEF ParseChannel
<1>8. CASE ParseSkips
  BY <1>8, <1>parse DEF ParseSkips
<1>9. CASE ParseFails
  BY <1>9, <1>parse DEF ParseFails
<1>10. CASE AppendPublish
  BY <1>10, <1>0 DEF AppendPublish, RequestInv, ControlInv
<1>11. CASE Toggle
  BY <1>11, <1>0 DEF Toggle, RequestInv
<1>12. CASE ReloadReturns
  BY <1>12, <1>quiet DEF ReloadReturns
<1>13. CASE RequestReturns
  BY <1>13, <1>0 DEF RequestReturns, RequestInv
<1>14. CASE BeginPass
  BY <1>14, <1>0 DEF BeginPass, RequestInv
<1>15. CASE Teardown
  BY <1>15, <1>0 DEF Teardown, RequestInv
<1>16. CASE TeardownAck
  BY <1>16, <1>0 DEF TeardownAck, RequestInv, TeardownInv
<1>17. CASE ProcessChannel
  BY <1>17, <1>0 DEF ProcessChannel, RequestInv
<1>18. CASE EndPass
  BY <1>18, <1>0 DEF EndPass, RequestInv
<1>19. ASSUME NEW r \in Reader, BeginRead(r) PROVE RequestInv'
  BY <1>19, <1>frame DEF BeginRead
<1>20. ASSUME NEW r \in Reader, EndRead(r) PROVE RequestInv'
  BY <1>20, <1>frame DEF EndRead
<1>21. CASE UNCHANGED vars
  BY <1>21, <1>frame DEF vars
<1> QED
  BY <1>1, <1>2, <1>3, <1>4, <1>5, <1>6, <1>7, <1>8, <1>9, <1>10, <1>11, <1>12, <1>13, <1>14, <1>15, <1>16,
     <1>17, <1>18, <1>19, <1>20, <1>21 DEF Next, ControlStep, OutputStep

\* Every action brings the channels no further from what the file says.
LEMMA ConvergeStep ==
  TypeOK /\ ControlInv /\ RequestInv /\ ConvergeInv /\ [Next]_vars => ConvergeInv'
<1> SUFFICES ASSUME TypeOK, ControlInv, RequestInv, ConvergeInv, [Next]_vars PROVE ConvergeInv'
  OBVIOUS
<1> USE DEF fieldVars, freeVars, outVars, ctlVars
<1>0. /\ channel_count \in Nat /\ channel_count <= Capacity /\ outJ \in Nat /\ ctlK \in Nat /\ new_count \in Nat
      /\ common_prefix \in Nat /\ timeouts \in Nat /\ Capacity \in Nat
      /\ enabled \in [Index -> BOOLEAN] /\ pending_enable_request \in [Index -> {-1, 0, 1}]
      /\ config_signature \in [Index -> Good \union {None}]
      /\ \A k : k \in Index <=> k \in Int /\ 0 <= k /\ k < Capacity
  BY Constants DEF TypeOK
<1>file. /\ Reloading => /\ common_prefix <= Len(config) /\ common_prefix <= channel_count
                         /\ Len(config) \in Nat
                         /\ \A k \in 0 .. Len(config) - 1 : config[k + 1].enabled \in BOOLEAN
         /\ ctlPc = "parse" =>
              /\ Len(config) <= Capacity /\ channel_count = common_prefix
              /\ channel_count <= new_count /\ new_count <= ctlK /\ ctlK <= Len(config)
              /\ new_count < ctlK => config[new_count + 1].def \in Legacy
         /\ ctlPc = "toggle" => ctlK <= common_prefix
         /\ ctlPc = "toggling" => ctlK < common_prefix
  BY ConfigShape DEF ControlInv
<1>frame. ASSUME UNCHANGED <<channel_count, config_signature, enabled, pending_enable_request, ctlPc, ctlK, config,
                             common_prefix, timeouts>>
          PROVE  ConvergeInv'
  BY <1>frame DEF ConvergeInv, Reloading, AllGood
<1>prefix. ASSUME Reloading, ctlPc' \in {"remove", "removing"},
                  UNCHANGED <<config, common_prefix, config_signature>>
           PROVE  ConvergeInv'
  BY <1>prefix DEF ConvergeInv, Reloading
<1>1. ASSUME NEW cfg \in Files, ReloadDiff(cfg) PROVE ConvergeInv'
  <2>1. \A k \in 0 .. common_prefix' - 1 : config_signature[k] = config'[k + 1].def
    BY <1>1, PrefixFound DEF ReloadDiff, Unchanged
  <2> QED
    BY <1>1, <2>1 DEF ReloadDiff, ConvergeInv
<1>2. ASSUME NEW k \in Index, NEW on \in {0, 1}, Command(k, on) PROVE ConvergeInv'
  BY <1>2 DEF Command, ConvergeInv, Reloading
<1>3. CASE RequestRemove
  BY <1>3, <1>prefix DEF RequestRemove, Reloading
<1>4. CASE RemoveConfirmed
  BY <1>4, <1>prefix DEF RemoveConfirmed, Reloading
<1>5. CASE RemoveTimesOut
  BY <1>5, <1>0 DEF RemoveTimesOut, ConvergeInv, Reloading
<1>6. CASE RemovesDone
  BY <1>6, <1>0, <1>file DEF RemovesDone, ConvergeInv, Reloading
<1>7. CASE ParseChannel
  <2>1. ctlK \in Index /\ channel_count <= ctlK
    BY <1>7, ParsePlace DEF ParseChannel
  <2>2. /\ config_signature'[ctlK] = config[ctlK + 1].def /\ enabled'[ctlK] = config[ctlK + 1].enabled
        /\ \A k \in Index : k # ctlK => config_signature'[k] = config_signature[k] /\ enabled'[k] = enabled[k]
        /\ ctlPc = "parse" /\ ctlPc' = "parse" /\ ctlK' = ctlK + 1
        /\ UNCHANGED <<channel_count, config, common_prefix, timeouts>>
    BY <1>7, <1>0, <2>1 DEF ParseChannel, ParseStart
  <2>3. \A k \in 0 .. common_prefix - 1 : k \in Index /\ k # ctlK
    <3>1. channel_count \in Nat /\ ctlK \in Nat /\ Capacity \in Nat /\ ctlK < Capacity /\ common_prefix \in Nat
      BY <1>0, <2>1
    <3>2. common_prefix <= channel_count
      BY <1>file, <2>2 DEF Reloading
    <3> QED
      BY <2>1, <3>1, <3>2, Constants
  <2>4. \A k \in channel_count .. ctlK : k \in Index /\ (k = ctlK \/ (k # ctlK /\ k \in channel_count .. ctlK - 1))
    <3>1. channel_count \in Nat /\ ctlK \in Nat /\ Capacity \in Nat /\ ctlK < Capacity
      BY <1>0, <2>1
    <3> QED
      BY <3>1 DEF Index
  <2>5. \A k \in channel_count .. ctlK : config[k + 1].def \in Good =>
          config_signature'[k] = config[k + 1].def /\ (timeouts = 0 => enabled'[k] = config[k + 1].enabled)
    BY <2>2, <2>4 DEF ConvergeInv
  <2>6. channel_count' .. ctlK' - 1 = channel_count .. ctlK
    BY <1>0, <2>2
  <2> QED
    BY <2>2, <2>3, <2>5, <2>6 DEF ConvergeInv, Reloading
<1>8. CASE ParseSkips
  <2>1. ctlK \in Index /\ channel_count <= ctlK
    BY <1>8, ParsePlace DEF ParseSkips
  <2>2. /\ config[ctlK + 1].def \notin Good
        /\ \A k \in Index : k # ctlK => enabled'[k] = enabled[k]
        /\ ctlPc = "parse" /\ ctlPc' = "parse" /\ ctlK' = ctlK + 1
        /\ UNCHANGED <<channel_count, config_signature, config, common_prefix, timeouts>>
    BY <1>8, <1>0, <2>1, Constants DEF ParseSkips, ParseStart
  <2>3. \A k \in channel_count .. ctlK : k \in Index /\ (k = ctlK \/ (k # ctlK /\ k \in channel_count .. ctlK - 1))
    <3>1. channel_count \in Nat /\ ctlK \in Nat /\ Capacity \in Nat /\ ctlK < Capacity
      BY <1>0, <2>1
    <3> QED
      BY <3>1 DEF Index
  <2>4. \A k \in channel_count .. ctlK : config[k + 1].def \in Good =>
          config_signature[k] = config[k + 1].def /\ (timeouts = 0 => enabled'[k] = config[k + 1].enabled)
    BY <2>2, <2>3 DEF ConvergeInv
  <2>5. channel_count' .. ctlK' - 1 = channel_count .. ctlK
    BY <1>0, <2>2
  <2> QED
    BY <2>2, <2>4, <2>5 DEF ConvergeInv, Reloading
<1>9. CASE ParseFails
  <2>1. ~AllGood'
    <3>1. ctlK + 1 \in 1 .. Len(config) /\ config[ctlK + 1].def \notin Good /\ config' = config
      BY <1>9, <1>0, <1>file, Constants DEF ParseFails, Reloading
    <3> QED
      BY <3>1 DEF AllGood
  <2> QED
    BY <1>9, <2>1 DEF ParseFails, ConvergeInv, Reloading
<1>10. CASE AppendPublish
  <2>1. AllGood => new_count = Len(config)
    <3> SUFFICES ASSUME AllGood, new_count < ctlK PROVE FALSE
      BY <1>10, <1>0, <1>file DEF AppendPublish, Reloading
    <3>1. new_count + 1 \in 1 .. Len(config) /\ config[new_count + 1].def \in Legacy
      BY <1>10, <1>0, <1>file DEF AppendPublish, Reloading
    <3> QED
      BY <3>1, Constants DEF AllGood
  <2>2. AllGood => \A k \in common_prefix .. Len(config) - 1 : config[k + 1].def \in Good
    <3> SUFFICES ASSUME AllGood, NEW k \in common_prefix .. Len(config) - 1 PROVE config[k + 1].def \in Good
      OBVIOUS
    <3>1. k + 1 \in 1 .. Len(config)
      BY <1>10, <1>0, <1>file DEF AppendPublish, Reloading
    <3> QED
      BY <3>1 DEF AllGood
  <2> QED
    BY <1>10, <1>0, <1>file, <2>1, <2>2 DEF AppendPublish, ConvergeInv, Reloading, AllGood
<1>11. CASE Toggle
  <2>1. ctlK \in Index
    BY <1>11, <1>0, <1>file DEF Toggle, Reloading
  <2> QED
    BY <1>11, <1>0, <1>file, <2>1 DEF Toggle, ConvergeInv, Reloading, AllGood
<1>12. CASE ReloadReturns
  BY <1>12 DEF ReloadReturns, ConvergeInv, Reloading
<1>13. CASE RequestReturns
  <2>1. CASE ctlPc = "toggling"
    <3>1. /\ ctlPc' = "toggle" /\ ctlK' = ctlK + 1 /\ (timeouts' = 0 => timeouts = 0 /\ pending_enable_request[ctlK] = -1)
          /\ UNCHANGED <<channel_count, config_signature, enabled, config, common_prefix>>
      BY <1>13, <2>1, <1>0 DEF RequestReturns
    <3> QED
      BY <1>0, <1>file, <2>1, <3>1 DEF ConvergeInv, Reloading, AllGood
  <2>2. CASE ctlPc = "command"
    BY <1>13, <2>2 DEF RequestReturns, ConvergeInv, Reloading
  <2> QED
    BY <1>13, <2>1, <2>2 DEF RequestReturns
<1>14. CASE BeginPass
  BY <1>14, <1>frame DEF BeginPass
<1>15. CASE Teardown
  <2>1. /\ outJ \in Index /\ outJ < channel_count /\ (timeouts = 0 => ctlPc = "removing")
    BY <1>15, <1>0 DEF Teardown, RequestInv
  <2>2. /\ \A k \in Index : k # outJ => enabled'[k] = enabled[k]
        /\ UNCHANGED <<channel_count, config_signature, ctlPc, ctlK, config, common_prefix, timeouts>>
    BY <1>15, <1>0, <2>1 DEF Teardown
  <2> QED
    BY <1>0, <1>file, <2>1, <2>2 DEF ConvergeInv, Reloading
<1>16. CASE TeardownAck
  BY <1>16, <1>frame DEF TeardownAck
<1>17. CASE ProcessChannel
  <2>1. /\ outJ \in Index /\ outJ < channel_count
        /\ timeouts = 0 /\ pending_enable_request[outJ] # -1 => ctlPc \in {"toggling", "command"} /\ outJ = ctlK
    BY <1>17, <1>0 DEF ProcessChannel, RequestInv
  <2>2. /\ \A k \in Index : k # outJ => enabled'[k] = enabled[k] /\ pending_enable_request'[k] = pending_enable_request[k]
        /\ pending_enable_request'[outJ] = -1
        /\ pending_enable_request[outJ] = 1 => enabled'[outJ] = TRUE
        /\ pending_enable_request[outJ] = 0 => enabled'[outJ] = FALSE
        /\ pending_enable_request[outJ] = -1 => enabled'[outJ] = enabled[outJ]
        /\ UNCHANGED <<channel_count, config_signature, ctlPc, ctlK, config, common_prefix, timeouts>>
    <3> DEFINE on == CASE pending_enable_request[outJ] = 1 -> TRUE
                       [] pending_enable_request[outJ] = 0 -> FALSE
                       [] OTHER -> enabled[outJ]
    <3>1. /\ pending_enable_request[outJ] = 1 => on = TRUE
          /\ pending_enable_request[outJ] = 0 => on = FALSE
          /\ pending_enable_request[outJ] = -1 => on = enabled[outJ]
      <4>1. 0 # 1 /\ -1 # 1 /\ -1 # 0
        OBVIOUS
      <4> QED
        BY <4>1, Zenon
    <3>2. /\ enabled' = [enabled EXCEPT ![outJ] = on]
          /\ pending_enable_request' = [pending_enable_request EXCEPT ![outJ] = -1]
          /\ UNCHANGED <<channel_count, config_signature, ctlPc, ctlK, config, common_prefix, timeouts>>
      BY <1>17 DEF ProcessChannel
    <3> HIDE DEF on
    <3> QED
      BY <1>0, <2>1, <3>1, <3>2
  <2>3. \A k \in Int : 0 <= k /\ k < channel_count => k \in Index
    BY <1>0
  <2>4. Reloading => \A k \in 0 .. common_prefix - 1 : config_signature[k] = config[k + 1].def
    BY DEF ConvergeInv
  <2>5. CASE ctlPc = "parse"
    <3>1. \A k \in channel_count .. ctlK - 1 : k \in Index /\ k # outJ
      <4>1. channel_count \in Nat /\ ctlK \in Nat /\ Capacity \in Nat /\ ctlK <= Capacity /\ outJ < channel_count
            /\ outJ \in Nat
        BY <1>0, <1>file, <2>1, <2>5 DEF Reloading
      <4> QED
        BY <4>1, Constants
    <3> QED
      BY <2>2, <2>4, <2>5, <3>1 DEF ConvergeInv, Reloading
  <2>6. CASE ctlPc = "toggle"
    <3> SUFFICES ASSUME timeouts = 0, Len(config) <= Capacity, AllGood PROVE ConvergeInv'
      BY <2>2, <2>4, <2>6 DEF ConvergeInv, Reloading, AllGood
    <3>1. /\ channel_count = Len(config)
          /\ \A k \in common_prefix .. Len(config) - 1 :
               config_signature[k] = config[k + 1].def /\ enabled[k] = config[k + 1].enabled
          /\ \A k \in 0 .. ctlK - 1 : enabled[k] = config[k + 1].enabled
      BY <2>6 DEF ConvergeInv
    <3>2. pending_enable_request[outJ] = -1
      BY <2>1, <2>6
    <3>3. \A k \in Index : enabled'[k] = enabled[k]
      BY <2>2, <3>2
    <3>4. /\ \A k \in common_prefix .. Len(config) - 1 : k \in Index
          /\ \A k \in 0 .. ctlK - 1 : k \in Index
      <4>1. /\ channel_count \in Nat /\ ctlK \in Nat /\ Capacity \in Nat /\ channel_count <= Capacity
            /\ ctlK <= common_prefix /\ common_prefix \in Nat /\ channel_count = Len(config)
            /\ common_prefix <= channel_count
        BY <1>0, <1>file, <2>6, <3>1 DEF Reloading
      <4> QED
        BY <4>1, Constants
    <3> QED
      BY <2>2, <2>4, <2>6, <3>1, <3>3, <3>4 DEF ConvergeInv, Reloading, AllGood
  <2>7. CASE ctlPc = "toggling"
    <3> SUFFICES ASSUME timeouts = 0, Len(config) <= Capacity, AllGood PROVE ConvergeInv'
      BY <2>2, <2>4, <2>7 DEF ConvergeInv, Reloading, AllGood
    <3>1. /\ channel_count = Len(config)
          /\ \A k \in common_prefix .. Len(config) - 1 :
               config_signature[k] = config[k + 1].def /\ enabled[k] = config[k + 1].enabled
          /\ \A k \in 0 .. ctlK - 1 : enabled[k] = config[k + 1].enabled
          /\ IF pending_enable_request[ctlK] = -1 THEN enabled[ctlK] = config[ctlK + 1].enabled
             ELSE pending_enable_request[ctlK] = IF config[ctlK + 1].enabled THEN 1 ELSE 0
      BY <2>7 DEF ConvergeInv
    <3>2. ctlK \in Index /\ config[ctlK + 1].enabled \in BOOLEAN
          /\ pending_enable_request[ctlK] \in {-1, 0, 1}
      BY <1>0, <1>file, <2>3, <2>7 DEF Reloading
    <3>3. IF pending_enable_request'[ctlK] = -1 THEN enabled'[ctlK] = config[ctlK + 1].enabled
          ELSE pending_enable_request'[ctlK] = IF config[ctlK + 1].enabled THEN 1 ELSE 0
      BY <2>1, <2>2, <3>1, <3>2
    <3>4. \A k \in Index : k # ctlK => enabled'[k] = enabled[k]
      BY <2>1, <2>2
    <3>5. /\ \A k \in common_prefix .. Len(config) - 1 : k \in Index /\ k # ctlK
          /\ \A k \in 0 .. ctlK - 1 : k \in Index /\ k # ctlK
      <4>1. /\ channel_count \in Nat /\ ctlK \in Nat /\ Capacity \in Nat /\ channel_count <= Capacity
            /\ ctlK < common_prefix /\ common_prefix \in Nat /\ channel_count = Len(config) /\ common_prefix <= channel_count
        BY <1>0, <1>file, <2>7, <3>1 DEF Reloading
      <4> QED
        BY <4>1, Constants
    <3> QED
      BY <2>2, <2>4, <2>7, <3>1, <3>3, <3>4, <3>5 DEF ConvergeInv, Reloading, AllGood
  <2> QED
    BY <2>2, <2>4, <2>5, <2>6, <2>7 DEF ConvergeInv, Reloading
<1>18. CASE EndPass
  BY <1>18, <1>frame DEF EndPass
<1>19. ASSUME NEW r \in Reader, BeginRead(r) PROVE ConvergeInv'
  BY <1>19, <1>frame DEF BeginRead
<1>20. ASSUME NEW r \in Reader, EndRead(r) PROVE ConvergeInv'
  BY <1>20, <1>frame DEF EndRead
<1>21. CASE UNCHANGED vars
  BY <1>21, <1>frame DEF vars
<1> QED
  BY <1>1, <1>2, <1>3, <1>4, <1>5, <1>6, <1>7, <1>8, <1>9, <1>10, <1>11, <1>12, <1>13, <1>14, <1>15, <1>16,
     <1>17, <1>18, <1>19, <1>20, <1>21 DEF Next, ControlStep, OutputStep

\* When no file has a hole, a channel that parses is appended right after the ones before it.
LEMMA NothingSkipped ==
  ASSUME NoHoles, TypeOK, ControlInv, ParseChannel
  PROVE  new_count = ctlK
<1> SUFFICES ASSUME new_count # ctlK PROVE FALSE
  OBVIOUS
<1>1. ctlK \in Nat /\ new_count \in Nat
  BY Constants DEF TypeOK
<1>2. new_count < ctlK /\ config[new_count + 1].def \in Legacy
  BY <1>1 DEF ParseChannel, ControlInv
<1>3. config \in Files /\ Len(config) \in Nat /\ ctlK < Len(config)
  BY ParsePlace DEF ParseChannel
<1>4. new_count + 1 \in 1 .. Len(config) /\ ctlK + 1 \in 1 .. Len(config) /\ new_count + 1 < ctlK + 1
  BY <1>1, <1>2, <1>3
<1>5. config[ctlK + 1].def \in Good
  BY DEF ParseChannel
<1> QED
  BY <1>2, <1>3, <1>4, <1>5 DEF NoHoles

\* When no file has a hole, every action keeps the published channels parsed and their blocks in use.
LEMMA ParsedStep ==
  NoHoles /\ TypeOK /\ ControlInv /\ MemoryInv /\ ParsedInv /\ [Next]_vars => ParsedInv'
<1> SUFFICES ASSUME NoHoles, TypeOK, ControlInv, MemoryInv, ParsedInv, [Next]_vars PROVE ParsedInv'
  OBVIOUS
<1> USE DEF fieldVars, freeVars, outVars, ctlVars
<1>0. /\ channel_count \in Nat /\ channel_count <= Capacity /\ outJ \in Nat /\ ctlK \in Nat /\ new_count \in Nat
      /\ removed \in [Index -> BOOLEAN] /\ lame \in [Index -> BOOLEAN] /\ memory \in [Index -> Block \union {None}]
      /\ queued \in [Block -> 0 .. 2] /\ None \notin Block
      /\ \A k : k \in Index <=> k \in Int /\ 0 <= k /\ k < Capacity
      /\ Capacity \in Nat
  BY Constants DEF TypeOK
<1>frame. ASSUME UNCHANGED <<removed, lame, memory, queued, new_count>>,
                 channel_count' = channel_count \/ channel_count' = channel_count - 1,
                 ctlPc' = "parse" => ctlPc = "parse" /\ channel_count' = channel_count
          PROVE  ParsedInv'
  BY <1>frame, <1>0 DEF ParsedInv
<1>1. ASSUME NEW cfg \in Files, ReloadDiff(cfg) PROVE ParsedInv'
  BY <1>1, <1>frame DEF ReloadDiff
<1>2. ASSUME NEW k \in Index, NEW on \in {0, 1}, Command(k, on) PROVE ParsedInv'
  BY <1>2, <1>frame DEF Command
<1>3. CASE RequestRemove
  BY <1>3, <1>frame DEF RequestRemove
<1>4. CASE RemoveConfirmed
  BY <1>4, <1>frame DEF RemoveConfirmed
<1>5. CASE RemoveTimesOut
  BY <1>5, <1>frame DEF RemoveTimesOut
<1>6. CASE RemovesDone
  BY <1>6, <1>0 DEF RemovesDone, ParsedInv
<1>7. CASE ParseChannel
  <2>1. ctlK \in Index /\ channel_count <= ctlK /\ config \in Files /\ Len(config) \in Nat /\ ctlK < Len(config)
    BY <1>7, ParsePlace DEF ParseChannel
  <2>2. new_count = ctlK
    BY <1>7, NothingSkipped
  <2>3. /\ memory'[ctlK] = allocated + 1 /\ lame'[ctlK] = TRUE /\ removed'[ctlK] = FALSE
        /\ \A k \in Index : k # ctlK => memory'[k] = memory[k] /\ lame'[k] = lame[k] /\ removed'[k] = removed[k]
        /\ new_count' = ctlK + 1 /\ ctlPc = "parse" /\ UNCHANGED <<channel_count, queued>>
    BY <1>7, <1>0, <2>1 DEF ParseChannel, ParseStart
  <2>4. allocated + 1 # None /\ queued[allocated + 1] = 0
    <3>1. allocated \in Nat /\ allocated + 1 \in Block
      <4>1. allocated \in Nat /\ allocated + 1 <= MaxBlock
        <5>1. allocated \in Nat /\ MaxBlock \in Nat
          BY Constants DEF TypeOK
        <5>2. allocated + Len(config) - ctlK <= MaxBlock
          BY <1>7 DEF ParseChannel, ControlInv
        <5> QED
          BY <1>0, <2>1, <5>1, <5>2
      <4> QED
        BY <4>1 DEF Block
    <3> QED
      BY <1>0, <3>1 DEF MemoryInv
  <2>5. \A k \in Index : k < ctlK + 1 => k < ctlK \/ k = ctlK
    BY <1>0
  <2>6. \A k \in Index : k < channel_count => k # ctlK
    BY <1>0, <2>1
  <2> QED
    BY <2>2, <2>3, <2>4, <2>5, <2>6 DEF ParsedInv
<1>8. CASE ParseSkips
  <2>1. ctlK \in Index /\ channel_count <= ctlK /\ new_count <= ctlK
    BY <1>8, ParsePlace DEF ParseSkips, ControlInv
  <2>2. /\ \A k \in Index : k # ctlK => removed'[k] = removed[k]
        /\ ctlPc = "parse" /\ UNCHANGED <<channel_count, lame, memory, queued, new_count>>
    BY <1>8, <1>0, <2>1 DEF ParseSkips, ParseStart
  <2>3. \A k \in Index : k < channel_count \/ k < new_count => k # ctlK
    BY <1>0, <2>1
  <2> QED
    BY <2>2, <2>3 DEF ParsedInv
<1>9. CASE ParseFails
  <2>1. ctlK \in Index /\ channel_count <= ctlK
    BY <1>9, ParsePlace DEF ParseFails
  <2>2. /\ \A k \in Index : k # ctlK => removed'[k] = removed[k]
        /\ ctlPc' # "parse" /\ UNCHANGED <<channel_count, lame, memory, queued, new_count>>
    BY <1>9, <1>0, <2>1 DEF ParseFails, ParseStart
  <2>3. \A k \in Index : k < channel_count => k # ctlK
    BY <1>0, <2>1
  <2> QED
    BY <2>2, <2>3 DEF ParsedInv
<1>10. CASE AppendPublish
  <2>1. \A k \in Index : k < new_count => k < channel_count \/ (channel_count <= k /\ k < new_count)
    BY <1>0
  <2> QED
    BY <1>10, <2>1 DEF AppendPublish, ParsedInv
<1>11. CASE Toggle
  BY <1>11, <1>frame DEF Toggle
<1>12. CASE ReloadReturns
  BY <1>12 DEF ReloadReturns, ParsedInv
<1>13. CASE RequestReturns
  BY <1>13, <1>frame DEF RequestReturns
<1>14. CASE BeginPass
  BY <1>14, <1>frame DEF BeginPass
<1>15. CASE Teardown
  <2>1. outJ \in Index /\ outJ < channel_count
    BY <1>15, <1>0 DEF Teardown
  <2>2. /\ removed'[outJ] = TRUE
        /\ \A k \in Index : k # outJ => removed'[k] = removed[k] /\ lame'[k] = lame[k]
        /\ \A b \in Block : b # memory[outJ] => queued'[b] = queued[b]
        /\ UNCHANGED <<channel_count, memory, ctlPc, new_count>>
    BY <1>15, <1>0, <2>1 DEF Teardown
  <2>3. \A k \in Index : k # outJ /\ memory[k] # None => queued'[memory[k]] = queued[memory[k]]
    BY <1>0, <2>1, <2>2 DEF MemoryInv
  <2>4. \A k \in Index : channel_count <= k => k # outJ
    BY <1>0, <2>1
  <2> QED
    BY <2>2, <2>3, <2>4 DEF ParsedInv
<1>16. CASE TeardownAck
  BY <1>16, <1>frame DEF TeardownAck
<1>17. CASE ProcessChannel
  BY <1>17, <1>frame DEF ProcessChannel
<1>18. CASE EndPass
  <2>1. PICK S \in SUBSET {b \in Block : queued[b] > 0 /\ graceFor[b] = {}} :
          queued' = [b \in Block |-> IF b \in S THEN 0 ELSE queued[b]]
    BY <1>18 DEF EndPass
  <2>2. \A b \in Block : queued[b] = 0 => queued'[b] = 0
    BY <2>1
  <2>3. UNCHANGED <<channel_count, removed, lame, memory, ctlPc, new_count>>
    BY <1>18 DEF EndPass
  <2>4. \A k \in Index : memory[k] # None => memory[k] \in Block
    BY <1>0
  <2> QED
    BY <2>2, <2>3, <2>4 DEF ParsedInv
<1>19. ASSUME NEW r \in Reader, BeginRead(r) PROVE ParsedInv'
  BY <1>19, <1>frame DEF BeginRead
<1>20. ASSUME NEW r \in Reader, EndRead(r) PROVE ParsedInv'
  BY <1>20, <1>frame DEF EndRead
<1>21. CASE UNCHANGED vars
  BY <1>21, <1>frame DEF vars
<1> QED
  BY <1>1, <1>2, <1>3, <1>4, <1>5, <1>6, <1>7, <1>8, <1>9, <1>10, <1>11, <1>12, <1>13, <1>14, <1>15, <1>16,
     <1>17, <1>18, <1>19, <1>20, <1>21 DEF Next, ControlStep, OutputStep

\* While no request was late, every action keeps the encoders present and the freed blocks unused.
LEMMA GraceStep ==
  NoHoles /\ TypeOK /\ ControlInv /\ MemoryInv /\ RequestInv /\ ParsedInv /\ GraceInv /\ [Next]_vars => GraceInv'
<1> SUFFICES ASSUME NoHoles, TypeOK, ControlInv, MemoryInv, RequestInv, ParsedInv, GraceInv, [Next]_vars
             PROVE  GraceInv'
  OBVIOUS
<1> USE DEF fieldVars, freeVars, outVars, ctlVars
<1>0. /\ channel_count \in Nat /\ channel_count <= Capacity /\ outJ \in Nat /\ ctlK \in Nat /\ new_count \in Nat
      /\ removed \in [Index -> BOOLEAN] /\ lame \in [Index -> BOOLEAN] /\ enabled \in [Index -> BOOLEAN]
      /\ memory \in [Index -> Block \union {None}]
      /\ queued \in [Block -> 0 .. 2] /\ freed \in [Block -> Nat] /\ None \notin Block
      /\ graceFor \in [Block -> SUBSET (Reader \union {"control"})]
      /\ holds \in [Reader -> Block \union {None}]
      /\ timeouts \in Nat /\ Capacity \in Nat
      /\ \A k : k \in Index <=> k \in Int /\ 0 <= k /\ k < Capacity
  BY Constants DEF TypeOK
<1>held. /\ \A k \in Index : k < channel_count => memory[k] \in Block
         /\ ctlPc = "parse" => \A k \in Index : channel_count <= k /\ k < new_count => memory[k] \in Block
         /\ \A r \in Reader : holds[r] # None => holds[r] \in Block
  BY <1>0 DEF ParsedInv
<1>control. "control" \notin Reader
  BY LifecycleAssumption
<1>frame. ASSUME UNCHANGED <<enabled, lame, removed, memory, queued, freed, graceFor, holds, new_count>>,
                 channel_count' = channel_count \/ channel_count' = channel_count - 1,
                 ctlPc' = "parse" => ctlPc = "parse" /\ channel_count' = channel_count,
                 timeouts' = 0 => timeouts = 0
          PROVE  GraceInv'
  BY <1>frame, <1>0 DEF GraceInv
<1>leaves. ASSUME ControlReturns, ctlPc \notin {"parse", "removing"}, ctlPc' # "parse",
                  UNCHANGED <<channel_count, enabled, lame, removed, memory, queued, freed, holds>>,
                  timeouts' = 0 => timeouts = 0
           PROVE  GraceInv'
  <2>1. timeouts = 0 => \A k \in Index : k < channel_count => ~removed[k]
    BY <1>leaves DEF RequestInv
  <2>2. \A b \in Block : graceFor'[b] = graceFor[b] \ {"control"}
    BY <1>leaves DEF ControlReturns
  <2>3. \A r \in Reader, b \in Block : r \in graceFor[b] => r \in graceFor'[b]
    BY <2>2, <1>control
  <2> QED
    BY <1>leaves, <1>held, <2>1, <2>3 DEF GraceInv
<1>parse. ASSUME ctlPc = "parse", ctlK < Len(config), ParseStart(ctlK), new_count' = new_count \/ ctlPc' # "parse",
                 ctlPc' \in {"parse", "toggle"},
                 UNCHANGED <<channel_count, lame, memory, queued, freed, graceFor, holds, timeouts>>
          PROVE  GraceInv'
  <2>1. ctlK \in Index /\ channel_count <= ctlK
    BY <1>parse, ParsePlace
  <2>2. \A k \in Index : k # ctlK => removed'[k] = removed[k] /\ enabled'[k] = enabled[k]
    BY <1>parse, <1>0, <2>1 DEF ParseStart
  <2>3. \A k \in Index : k < channel_count => k # ctlK
    BY <1>0, <2>1
  <2> QED
    BY <1>parse, <2>2, <2>3 DEF GraceInv
<1>1. ASSUME NEW cfg \in Files, ReloadDiff(cfg) PROVE GraceInv'
  BY <1>1, <1>frame DEF ReloadDiff
<1>2. ASSUME NEW k \in Index, NEW on \in {0, 1}, Command(k, on) PROVE GraceInv'
  BY <1>2, <1>frame DEF Command
<1>3. CASE RequestRemove
  BY <1>3, <1>frame DEF RequestRemove
<1>4. CASE RemoveConfirmed
  BY <1>4, <1>frame DEF RemoveConfirmed
<1>5. CASE RemoveTimesOut
  BY <1>5, <1>0 DEF RemoveTimesOut, GraceInv
<1>6. CASE RemovesDone
  BY <1>6, <1>0 DEF RemovesDone, GraceInv
<1>7. CASE ParseChannel
  <2>1. ctlK \in Index /\ channel_count <= ctlK
    BY <1>7, ParsePlace DEF ParseChannel
  <2>2. /\ memory'[ctlK] = allocated + 1
        /\ \A k \in Index : k # ctlK => /\ memory'[k] = memory[k] /\ lame'[k] = lame[k]
                                        /\ removed'[k] = removed[k] /\ enabled'[k] = enabled[k]
        /\ new_count' = ctlK + 1 /\ ctlPc = "parse"
        /\ UNCHANGED <<channel_count, queued, freed, graceFor, holds, timeouts>>
    BY <1>7, <1>0, <2>1 DEF ParseChannel, ParseStart
  <2>3. freed[allocated + 1] = 0
    <3>1. allocated \in Nat /\ MaxBlock \in Nat
      BY Constants DEF TypeOK
    <3>2. allocated + Len(config) - ctlK <= MaxBlock /\ Len(config) \in Nat /\ ctlK < Len(config)
      BY <1>7, ParsePlace DEF ParseChannel, ControlInv
    <3>3. allocated + 1 \in Block
      BY <1>0, <3>1, <3>2 DEF Block
    <3> QED
      BY <1>0, <3>1, <3>3 DEF MemoryInv
  <2>4. \A k \in Index : channel_count <= k /\ k < ctlK + 1 => k = ctlK \/ (k # ctlK /\ k < ctlK)
    BY <1>0
  <2>5. new_count = ctlK
    BY <1>7, NothingSkipped
  <2>6. \A k \in Index : k < channel_count => k # ctlK
    BY <1>0, <2>1
  <2> QED
    BY <2>2, <2>3, <2>4, <2>5, <2>6 DEF GraceInv
<1>8. CASE ParseSkips
  BY <1>8, <1>parse DEF ParseSkips
<1>9. CASE ParseFails
  BY <1>9, <1>parse DEF ParseFails
<1>10. CASE AppendPublish
  <2>1. \A k \in Index : k < new_count => k < channel_count \/ (channel_count <= k /\ k < new_count)
    BY <1>0
  <2> QED
    BY <1>10, <2>1 DEF AppendPublish, ParsedInv, GraceInv
<1>11. CASE Toggle
  BY <1>11, <1>frame DEF Toggle
<1>12. CASE ReloadReturns
  BY <1>12, <1>leaves DEF ReloadReturns
<1>13. CASE RequestReturns
  BY <1>13, <1>frame, <1>leaves, <1>0 DEF RequestReturns
<1>14. CASE BeginPass
  BY <1>14, <1>frame DEF BeginPass
<1>15. CASE Teardown
  <2> SUFFICES ASSUME timeouts' = 0 PROVE GraceInv'
    BY DEF GraceInv
  <2> DEFINE m == memory[outJ]
  <2>1. outJ \in Index /\ outJ < channel_count /\ pending_remove_request[outJ] = 1 /\ outPc = "pass" /\ timeouts = 0
    BY <1>15, <1>0 DEF Teardown
  <2>2. ctlPc = "removing" /\ ~removed[outJ]
    BY <2>1 DEF RequestInv
  <2>3. m \in Block /\ queued[m] = 0 /\ freed[m] = 0
    BY <1>held, <2>1, <2>2 DEF ParsedInv, GraceInv
  <2>4. "control" \in InFlight /\ \A r \in Reader : holds[r] # None => r \in InFlight
    BY <2>2 DEF InFlight
  <2>5. /\ queued'[m] = 1 /\ \A b \in Block : b # m => queued'[b] = queued[b]
        /\ graceFor'[m] = InFlight /\ \A b \in Block : b # m => graceFor'[b] = graceFor[b]
        /\ removed'[outJ] = TRUE /\ enabled'[outJ] = FALSE
        /\ \A k \in Index : k # outJ => removed'[k] = removed[k] /\ lame'[k] = lame[k] /\ enabled'[k] = enabled[k]
        /\ UNCHANGED <<channel_count, memory, freed, holds, ctlPc, new_count>>
    BY <1>15, <1>0, <2>1, <2>3 DEF Teardown
  <2>6. \A k \in Index : k # outJ /\ k < channel_count => memory[k] # m
    BY <2>1, <2>3, <1>0 DEF MemoryInv
  <2>7. \A b \in Block : queued'[b] + freed'[b] <= 1
    BY <2>1, <2>3, <2>5 DEF GraceInv
  <2> HIDE DEF m
  <2>8. \A r \in Reader : holds'[r] # None =>
          freed'[holds'[r]] = 0 /\ (queued'[holds'[r]] > 0 => r \in graceFor'[holds'[r]])
    BY <1>held, <2>1, <2>4, <2>5 DEF GraceInv
  <2>9. \A k \in Index : k < channel_count' =>
          /\ enabled'[k] => lame'[k]
          /\ freed'[memory'[k]] = 0
          /\ removed'[k] => "control" \in graceFor'[memory'[k]]
    BY <1>held, <2>1, <2>4, <2>5, <2>6 DEF GraceInv, m
  <2> QED
    BY <2>2, <2>5, <2>7, <2>8, <2>9 DEF GraceInv
<1>16. CASE TeardownAck
  BY <1>16, <1>frame DEF TeardownAck
<1>17. CASE ProcessChannel
  <2>1. /\ outJ \in Index /\ outJ < channel_count
        /\ \A k \in Index : k # outJ => enabled'[k] = enabled[k]
        /\ UNCHANGED <<channel_count, lame, removed, memory, queued, freed, graceFor, holds, ctlPc, new_count, timeouts>>
    BY <1>17, <1>0 DEF ProcessChannel
  <2>2. timeouts = 0 /\ enabled'[outJ] => lame[outJ]
    <3> SUFFICES ASSUME timeouts = 0, enabled'[outJ] PROVE lame[outJ]
      OBVIOUS
    <3>1. CASE pending_enable_request[outJ] = -1
      <4>1. enabled'[outJ] = enabled[outJ]
        <5>1. -1 # 1 /\ -1 # 0
          OBVIOUS
        <5>2. enabled'[outJ] = CASE pending_enable_request[outJ] = 1 -> TRUE
                                 [] pending_enable_request[outJ] = 0 -> FALSE
                                 [] OTHER -> enabled[outJ]
          BY <1>17, <1>0, <2>1 DEF ProcessChannel
        <5> QED
          BY <3>1, <5>1, <5>2, Zenon
      <4> QED
        BY <2>1, <4>1 DEF GraceInv
    <3>2. CASE pending_enable_request[outJ] # -1
      BY <2>1, <3>2 DEF RequestInv, ParsedInv
    <3> QED
      BY <3>1, <3>2
  <2>3. timeouts = 0 => \A k \in Index : k < channel_count => (enabled'[k] => lame[k])
    <3> SUFFICES ASSUME timeouts = 0, NEW k \in Index, k < channel_count, enabled'[k] PROVE lame[k]
      OBVIOUS
    <3>1. CASE k = outJ
      BY <2>2, <3>1
    <3>2. CASE k # outJ
      BY <2>1, <3>2 DEF GraceInv
    <3> QED
      BY <3>1, <3>2
  <2> QED
    BY <2>1, <2>3 DEF GraceInv
<1>18. CASE EndPass
  <2> SUFFICES ASSUME timeouts' = 0 PROVE GraceInv'
    BY DEF GraceInv
  <2>1. PICK S \in SUBSET {b \in Block : queued[b] > 0 /\ graceFor[b] = {}} :
          /\ freed' = [b \in Block |-> IF b \in S THEN freed[b] + queued[b] ELSE freed[b]]
          /\ queued' = [b \in Block |-> IF b \in S THEN 0 ELSE queued[b]]
    BY <1>18 DEF EndPass
  <2>2. timeouts = 0
        /\ UNCHANGED <<channel_count, enabled, lame, removed, memory, graceFor, holds, ctlPc, new_count>>
    BY <1>18 DEF EndPass
  <2>3. \A b \in Block : queued[b] = 0 \/ graceFor[b] # {} => freed'[b] = freed[b] /\ queued'[b] = queued[b]
    BY <2>1
  <2>4. \A b \in Block : queued'[b] + freed'[b] <= 1
    <3> SUFFICES ASSUME NEW b \in Block PROVE queued'[b] + freed'[b] <= 1
      OBVIOUS
    <3>1. queued[b] \in Nat /\ freed[b] \in Nat /\ queued[b] + freed[b] <= 1
      BY <1>0, <2>2 DEF GraceInv
    <3> QED
      BY <2>1, <3>1
  <2>5. \A k \in Index : k < channel_count => freed'[memory[k]] = 0
    <3> SUFFICES ASSUME NEW k \in Index, k < channel_count PROVE freed'[memory[k]] = 0
      OBVIOUS
    <3>1. queued[memory[k]] = 0 \/ graceFor[memory[k]] # {}
      BY <2>2 DEF ParsedInv, GraceInv
    <3> QED
      BY <1>held, <2>2, <2>3, <3>1 DEF GraceInv
  <2>6. ctlPc = "parse" => \A k \in Index : channel_count <= k /\ k < new_count => freed'[memory[k]] = 0
    BY <1>held, <2>2, <2>3 DEF ParsedInv, GraceInv
  <2>7. \A r \in Reader : holds[r] # None =>
          freed'[holds[r]] = 0 /\ (queued'[holds[r]] > 0 => r \in graceFor[holds[r]])
    <3> SUFFICES ASSUME NEW r \in Reader, holds[r] # None
                 PROVE  freed'[holds[r]] = 0 /\ (queued'[holds[r]] > 0 => r \in graceFor[holds[r]])
      OBVIOUS
    <3>1. holds[r] \in Block /\ queued[holds[r]] \in 0 .. 2
      BY <1>0, <1>held
    <3>2. queued[holds[r]] = 0 \/ graceFor[holds[r]] # {}
      BY <2>2, <3>1 DEF GraceInv
    <3>3. freed'[holds[r]] = freed[holds[r]] /\ queued'[holds[r]] = queued[holds[r]]
      BY <2>3, <3>1, <3>2
    <3> QED
      BY <2>2, <3>3 DEF GraceInv
  <2> QED
    BY <2>2, <2>4, <2>5, <2>6, <2>7 DEF GraceInv
<1>19. ASSUME NEW r \in Reader, BeginRead(r) PROVE GraceInv'
  <2> SUFFICES ASSUME timeouts' = 0 PROVE GraceInv'
    BY DEF GraceInv
  <2>1. PICK k \in Index :
          /\ k < channel_count /\ memory[k] # None
          /\ holds' = [holds EXCEPT ![r] = memory[k]]
          /\ graceFor' = [graceFor EXCEPT ![memory[k]] = IF @ = {} THEN @ ELSE @ \union {r}]
    BY <1>19 DEF BeginRead
  <2>2. timeouts = 0
        /\ UNCHANGED <<channel_count, enabled, lame, removed, memory, queued, freed, ctlPc, new_count>>
    BY <1>19 DEF BeginRead
  <2>3. memory[k] \in Block /\ queued[memory[k]] \in 0 .. 2
    BY <1>0, <1>held, <2>1
  <2>4. \A b \in Block : graceFor[b] \subseteq graceFor'[b]
    BY <1>0, <2>1, <2>3
  <2>5. queued[memory[k]] > 0 => r \in graceFor'[memory[k]]
    <3> SUFFICES ASSUME queued[memory[k]] > 0 PROVE r \in graceFor'[memory[k]]
      OBVIOUS
    <3>1. graceFor[memory[k]] # {}
      BY <2>1, <2>2, <2>3 DEF ParsedInv, GraceInv
    <3> QED
      BY <1>0, <2>1, <2>3, <3>1
  <2>6. freed[memory[k]] = 0
    BY <2>1, <2>2 DEF GraceInv
  <2>7. holds'[r] = memory[k] /\ \A q \in Reader : q # r => holds'[q] = holds[q]
    BY <1>0, <2>1
  <2>8. \A q \in Reader : holds'[q] # None =>
          freed[holds'[q]] = 0 /\ (queued[holds'[q]] > 0 => q \in graceFor'[holds'[q]])
    BY <1>held, <2>2, <2>4, <2>5, <2>6, <2>7 DEF GraceInv
  <2>9. \A l \in Index : l < channel_count => (removed[l] => "control" \in graceFor'[memory[l]])
    BY <1>held, <2>2, <2>4 DEF GraceInv
  <2> QED
    BY <2>2, <2>8, <2>9 DEF GraceInv
<1>20. ASSUME NEW r \in Reader, EndRead(r) PROVE GraceInv'
  <2>1. /\ holds' = [holds EXCEPT ![r] = None] /\ graceFor' = [b \in Block |-> graceFor[b] \ {r}]
        /\ UNCHANGED <<channel_count, enabled, lame, removed, memory, queued, freed, ctlPc, new_count, timeouts>>
    BY <1>20 DEF EndRead
  <2>2. holds'[r] = None /\ \A q \in Reader : q # r => holds'[q] = holds[q]
    BY <1>0, <2>1
  <2>3. /\ \A q \in Reader, b \in Block : q # r /\ q \in graceFor[b] => q \in graceFor'[b]
        /\ \A b \in Block : "control" \in graceFor[b] => "control" \in graceFor'[b]
    BY <1>control, <2>1
  <2> QED
    BY <1>held, <2>1, <2>2, <2>3 DEF GraceInv
<1>21. CASE UNCHANGED vars
  BY <1>21, <1>frame DEF vars
<1> QED
  BY <1>1, <1>2, <1>3, <1>4, <1>5, <1>6, <1>7, <1>8, <1>9, <1>10, <1>11, <1>12, <1>13, <1>14, <1>15, <1>16,
     <1>17, <1>18, <1>19, <1>20, <1>21 DEF Next, ControlStep, OutputStep

\* The program starts with the channels of a file that parses, nothing posted and nothing queued.
LEMMA InitInv == Init => IInv /\ HoleFreeInv
<1> SUFFICES ASSUME Init PROVE IInv /\ HoleFreeInv
  OBVIOUS
<1> DEFINE n == Len(StartFile)
<1>1. n \in Nat /\ n <= Capacity /\ n <= MaxBlock
      /\ \A k \in Index : k < n => StartFile[k + 1].def \in Good /\ StartFile[k + 1].enabled \in BOOLEAN
  <2>1. StartFile \in Files /\ n \in Nat /\ n <= Capacity /\ n <= MaxBlock
    BY FileShape, LifecycleAssumption
  <2>2. \A k \in Index : k < n => k + 1 \in 1 .. n
    BY <2>1, Constants
  <2> QED
    BY <2>1, <2>2, FileShape, LifecycleAssumption
<1>2. \A k \in Index : k < n => k + 1 \in Block
  BY <1>1, Constants
<1> HIDE DEF n
<1>3. /\ channel_count = n /\ allocated = n /\ timeouts = 0 /\ outPc = "idle" /\ outJ = 0
      /\ ctlPc = "idle" /\ ctlK = 0 /\ config = <<>> /\ common_prefix = 0 /\ new_count = 0
      /\ enabled = [k \in Index |-> IF k < n THEN StartFile[k + 1].enabled ELSE FALSE]
      /\ removed = [k \in Index |-> FALSE]
      /\ pending_enable_request = [k \in Index |-> IF k < n THEN -1 ELSE 0]
      /\ pending_remove_request = [k \in Index |-> IF k < n THEN -1 ELSE 0]
      /\ lame = [k \in Index |-> k < n]
      /\ memory = [k \in Index |-> IF k < n THEN k + 1 ELSE None]
      /\ config_signature = [k \in Index |-> IF k < n THEN StartFile[k + 1].def ELSE None]
      /\ queued = [b \in Block |-> 0] /\ graceFor = [b \in Block |-> {}] /\ freed = [b \in Block |-> 0]
      /\ holds = [r \in Reader |-> None]
  BY DEF Init, n
<1>4. TypeOK
  <2>1. /\ enabled \in [Index -> BOOLEAN] /\ removed \in [Index -> BOOLEAN] /\ lame \in [Index -> BOOLEAN]
        /\ pending_enable_request \in [Index -> {-1, 0, 1}] /\ pending_remove_request \in [Index -> {-1, 0, 1}]
    <3>1. removed \in [Index -> BOOLEAN] /\ lame \in [Index -> BOOLEAN]
      BY <1>3
    <3>2. enabled \in [Index -> BOOLEAN]
      <4>1. \A k \in Index : (IF k < n THEN StartFile[k + 1].enabled ELSE FALSE) \in BOOLEAN
        BY <1>1, Zenon
      <4> QED
        BY <1>3, <4>1
    <3>3. pending_enable_request \in [Index -> {-1, 0, 1}] /\ pending_remove_request \in [Index -> {-1, 0, 1}]
      BY <1>3
    <3> QED
      BY <3>1, <3>2, <3>3
  <2>2. memory \in [Index -> Block \union {None}]
    BY <1>2, <1>3
  <2>3. config_signature \in [Index -> Good \union {None}]
    BY <1>1, <1>3
  <2>4. /\ queued \in [Block -> 0 .. 2] /\ freed \in [Block -> Nat] /\ holds \in [Reader -> Block \union {None}]
        /\ graceFor \in [Block -> SUBSET (Reader \union {"control"})]
    BY <1>3
  <2>5. /\ channel_count \in 0 .. Capacity /\ allocated \in 0 .. MaxBlock /\ outJ \in 0 .. Capacity
        /\ ctlK \in 0 .. Capacity /\ common_prefix \in 0 .. Capacity /\ new_count \in 0 .. Capacity
        /\ timeouts \in 0 .. MaxTimeOut
    <3>1. Capacity \in Nat /\ MaxBlock \in Nat /\ MaxTimeOut \in Nat
      BY Constants
    <3> QED
      BY <1>1, <1>3, <3>1
  <2> QED
    BY <1>3, <2>1, <2>2, <2>3, <2>4, <2>5 DEF TypeOK
<1>5. ControlInv /\ TeardownInv /\ RequestInv /\ ConvergeInv
  BY <1>3 DEF ControlInv, TeardownInv, RequestInv, ConvergeInv, Reloading
<1>6. MemoryInv
  BY <1>1, <1>2, <1>3, Constants DEF MemoryInv
<1>7. ParsedInv
  BY <1>2, <1>3, Constants DEF ParsedInv
<1>8. GraceInv
  <2>1. \A k \in Index : k < channel_count => freed[memory[k]] = 0 /\ ~removed[k] /\ lame[k]
    BY <1>2, <1>3
  <2>2. \A b \in Block : queued[b] = 0 /\ freed[b] = 0
    BY <1>3
  <2>3. \A r \in Reader : holds[r] = None
    BY <1>3
  <2>4. ctlPc # "parse"
    BY <1>3
  <2> QED
    BY <2>1, <2>2, <2>3, <2>4 DEF GraceInv
<1> QED
  BY <1>4, <1>5, <1>6, <1>7, <1>8 DEF IInv, HoleFreeInv

\* The invariant is inductive.
LEMMA Inductive == IInv /\ [Next]_vars => IInv'
  BY TypeStep, TeardownStep, MemoryStep, RequestStep, ConvergeStep DEF IInv

LEMMA Invariance == Spec => []IInv
  BY InitInv, Inductive, PTL DEF Spec

\* Without holes in the files, the rest of the invariant is too.
LEMMA HoleFreeInvariance == ASSUME NoHoles PROVE Spec => []HoleFreeInv
<1>1. IInv /\ HoleFreeInv /\ [Next]_vars => HoleFreeInv'
  BY ParsedStep, GraceStep DEF IInv, HoleFreeInv
<1> QED
  BY <1>1, InitInv, Invariance, PTL DEF Spec
-----------------------------------------------------------------------------
\* Type correctness, for any capacity, files and readers.
THEOREM TypeCorrect == Spec => []TypeOK
<1>1. IInv => TypeOK
  BY DEF IInv
<1> QED
  BY <1>1, Invariance, PTL

\* live_reconfig.cpp:672-684, output.cpp:1765: however late the output thread is and whatever
\* the files hold, try_remove_channels() takes an index away only after its teardown is complete.
THEOREM TornDownBeforeReuse == Spec => RemovedWhenTornDown
<1>1. IInv /\ [Next]_vars =>
        [channel_count' < channel_count =>
           removed[channel_count'] /\ ~lame[channel_count'] /\ ~(outPc = "ack" /\ outJ = channel_count')]_vars
  <2> SUFFICES ASSUME IInv, Next, channel_count' < channel_count
               PROVE  removed[channel_count'] /\ ~lame[channel_count'] /\ ~(outPc = "ack" /\ outJ = channel_count')
    BY DEF vars
  <2>1. channel_count \in Nat /\ outJ \in Nat
    BY Constants DEF IInv, TypeOK
  <2>2. CASE RemoveConfirmed
    BY <2>1, <2>2 DEF RemoveConfirmed, IInv, TeardownInv
  <2>3. CASE AppendPublish
    <3>1. channel_count <= new_count /\ new_count \in Nat /\ channel_count' = new_count
      BY <2>3, Constants DEF AppendPublish, IInv, ControlInv, TypeOK
    <3> QED
      BY <2>1, <3>1
  <2>4. channel_count' = channel_count \/ RemoveConfirmed \/ AppendPublish
    BY DEF Next, ControlStep, OutputStep, ReloadDiff, Command, RequestRemove, RemoveTimesOut, RemovesDone, ParseChannel,
           ParseSkips, ParseFails, Toggle, ReloadReturns, RequestReturns, BeginPass, Teardown, TeardownAck,
           ProcessChannel, EndPass, BeginRead, EndRead
  <2> QED
    BY <2>1, <2>2, <2>3, <2>4
<1> QED
  BY <1>1, Invariance, PTL DEF Spec, RemovedWhenTornDown

\* live_reconfig.cpp:769: a reload whose file parses and fits and whose requests are answered in
\* time leaves exactly the file's channels, each enabled as the file says.
THEOREM ReloadsConverge == Spec => ReloadConverges
<1>1. IInv /\ [Next]_vars =>
        [ctlPc = "toggle" /\ ctlPc' = "idle" /\ timeouts = 0 /\ Len(config) <= Capacity
           /\ (\A i \in 1 .. Len(config) : config[i].def \in Good) =>
         /\ channel_count = Len(config)
         /\ \A k \in 0 .. Len(config) - 1 :
              ~removed[k] /\ config_signature[k] = config[k + 1].def /\ enabled[k] = config[k + 1].enabled]_vars
  <2> SUFFICES ASSUME IInv, Next, ctlPc = "toggle", ctlPc' = "idle", timeouts = 0, Len(config) <= Capacity, AllGood
               PROVE  /\ channel_count = Len(config)
                      /\ \A k \in 0 .. Len(config) - 1 :
                           ~removed[k] /\ config_signature[k] = config[k + 1].def /\ enabled[k] = config[k + 1].enabled
    BY DEF vars, AllGood
  <2>1. ReloadReturns
    BY DEF Next, ControlStep, OutputStep, outVars, ctlVars, ReloadDiff, Command, RequestRemove, RemoveConfirmed,
           RemoveTimesOut, RemovesDone, ParseChannel, ParseSkips, ParseFails, AppendPublish, Toggle, RequestReturns,
           BeginPass, Teardown, TeardownAck, ProcessChannel, EndPass, BeginRead, EndRead
  <2>2. /\ channel_count \in Nat /\ channel_count <= Capacity /\ ctlK \in Nat /\ common_prefix \in Nat
        /\ ctlK = common_prefix
    BY <2>1, Constants DEF IInv, TypeOK, ControlInv, ReloadReturns
  <2>3. /\ channel_count = Len(config)
        /\ \A k \in 0 .. common_prefix - 1 : config_signature[k] = config[k + 1].def
        /\ \A k \in common_prefix .. Len(config) - 1 :
             config_signature[k] = config[k + 1].def /\ enabled[k] = config[k + 1].enabled
        /\ \A k \in 0 .. ctlK - 1 : enabled[k] = config[k + 1].enabled
    BY DEF IInv, ConvergeInv, Reloading
  <2>4. \A k \in 0 .. Len(config) - 1 : k \in 0 .. common_prefix - 1 \/ k \in common_prefix .. Len(config) - 1
    BY <2>2, <2>3
  <2>5. \A k \in 0 .. Len(config) - 1 : ~removed[k]
    <3>1. \A k \in 0 .. channel_count - 1 : k \in Index /\ k < channel_count
      BY <2>2, Constants
    <3> QED
      BY <2>3, <3>1 DEF IInv, RequestInv
  <2> QED
    BY <2>2, <2>3, <2>4, <2>5
<1> QED
  BY <1>1, Invariance, PTL DEF Spec, ReloadConverges

\* live_reconfig.cpp:602-645: with files that have no hole, every published channel was parsed, has
\* its encoder and its memory, and that memory is not waiting to be freed, late answers or not.
THEOREM PublishedAreParsed == ASSUME NoHoles PROVE Spec => []PublishedIsParsed
<1>1. HoleFreeInv => PublishedIsParsed
  BY DEF HoleFreeInv, ParsedInv, PublishedIsParsed
<1> QED
  BY <1>1, HoleFreeInvariance, PTL

\* rtl_airband.h:488-493: as long as no request was late, a channel is enabled only with its encoder.
THEOREM EncodersPresent == ASSUME NoHoles PROVE Spec => []EncoderPresentOnTime
<1>1. HoleFreeInv => EncoderPresentOnTime
  BY DEF HoleFreeInv, GraceInv, EncoderPresentOnTime, EncoderPresent
<1> QED
  BY <1>1, HoleFreeInvariance, PTL

\* live_reconfig.cpp:139: as long as no request was late, no reader is in a block that was freed and
\* no channel leads to one, whatever the order of passes, reads and reclaims.
THEOREM NoReadsAfterFree == ASSUME NoHoles PROVE Spec => []NoReadAfterFreeOnTime
<1>1. HoleFreeInv => NoReadAfterFreeOnTime
  BY DEF HoleFreeInv, GraceInv, NoReadAfterFreeOnTime, NoReadAfterFree
<1> QED
  BY <1>1, HoleFreeInvariance, PTL

\* live_reconfig.cpp:299: as long as no request was late, no block is freed twice.
THEOREM FreedOnlyOnce == ASSUME NoHoles PROVE Spec => []FreedOnceOnTime
<1>1. HoleFreeInv => FreedOnceOnTime
  BY DEF HoleFreeInv, GraceInv, FreedOnceOnTime
<1> QED
  BY <1>1, HoleFreeInvariance, PTL
=============================================================================
