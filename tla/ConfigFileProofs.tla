-------------------------- MODULE ConfigFileProofs --------------------------
(***************************************************************************)
(* Theorems of ConfigFile.                                                 *)
(***************************************************************************)
EXTENDS ConfigFile, FiniteSetTheorems, SequenceTheorems, TLAPS

-----------------------------------------------------------------------------
(* Lists, the indices of a loop, and the greatest number of a set.         *)

LEMMA ListFacts ==
  ASSUME NEW s, IsList(s)
  PROVE  Len(s) \in Nat /\ DOMAIN s = 1 .. Len(s) /\ s = [k \in 1 .. Len(s) |-> s[k]]
BY DEF IsList, ToSet

LEMMA SameLength ==
  ASSUME NEW s, NEW t, IsList(s), IsList(t), DOMAIN s = DOMAIN t
  PROVE  Len(s) = Len(t)
<1> DEFINE m == Len(s)
           n == Len(t)
<1>1. m \in Nat /\ n \in Nat /\ 1 .. m = 1 .. n
  BY ListFacts
<1> HIDE DEF m, n
<1>2. (m \in 1 .. m \/ m = 0) /\ (n \in 1 .. n \/ n = 0)
  BY <1>1
<1>3. m = n
  BY <1>1, <1>2
<1> QED
  BY <1>3 DEF m, n

LEMMA MadeList ==
  ASSUME NEW n \in Nat, NEW s, s = [k \in 1 .. n |-> s[k]]
  PROVE  IsList(s) /\ Len(s) = n /\ DOMAIN s = 1 .. n
<1>1. DOMAIN s = 1 .. n
  OBVIOUS
<1>2. \A k \in 1 .. n : s[k] \in ToSet(s)
  BY <1>1, Zenon DEF ToSet
<1>3. s \in [1 .. n -> ToSet(s)]
  BY <1>2, Zenon
<1>4. s \in Seq(ToSet(s))
  BY <1>3, SeqDef, Zenon
<1> QED
  BY <1>1, <1>4 DEF IsList

LEMMA IndicesAre ==
  ASSUME NEW m \in Nat, NEW n \in Nat, m <= n
  PROVE  /\ Len(Indices(m, n)) = n - m /\ n - m \in Nat /\ DOMAIN Indices(m, n) = 1 .. n - m
         /\ \A k \in 1 .. n - m : Indices(m, n)[k] = m + k
<1>1. n - m \in Nat /\ Indices(m, n) = [k \in 1 .. n - m |-> Indices(m, n)[k]]
  BY DEF Indices
<1> QED
  BY <1>1, MadeList DEF Indices

\* The parameter-free instance of Folding's lemma of induction.
NoStep(a, b, c, d, t, x) == t
NoInv(a, b, c, d, t, k) == TRUE
OfNothing == INSTANCE Folding WITH Step <- NoStep, Inv <- NoInv

LEMMA MaxOf ==
  ASSUME NEW n \in Nat, NEW S, S \subseteq 0 .. n, S # {}
  PROVE  Max(S) \in S /\ \A x \in S : x <= Max(S)
<1> DEFINE T == {k \in Nat : \A R \in SUBSET (0 .. k) : R # {} => \E m \in R : \A x \in R : x <= m}
<1>1. 0 \in T
  <2>1. ASSUME NEW R \in SUBSET (0 .. 0), R # {} PROVE \E m \in R : \A x \in R : x <= m
    <3>1. \A x \in R : x = 0 /\ x <= 0
      OBVIOUS
    <3> QED
      BY <2>1, <3>1, Zenon
  <2> QED
    BY <2>1
<1>2. ASSUME NEW k \in Nat, k \in T PROVE k + 1 \in T
  <2> SUFFICES ASSUME NEW R \in SUBSET (0 .. k + 1), R # {} PROVE \E m \in R : \A x \in R : x <= m
    OBVIOUS
  <2>1. CASE k + 1 \in R
    BY <2>1
  <2>2. CASE k + 1 \notin R
    <3>1. R \in SUBSET (0 .. k)
      BY <2>2
    <3> QED
      BY <1>2, <3>1
  <2> QED
    BY <2>1, <2>2
<1> HIDE DEF T
<1>3. Nat \subseteq T
  BY <1>1, <1>2, OfNothing!Induction, Zenon
<1>4. PICK m \in S : \A x \in S : x <= m
  BY <1>3 DEF T
<1>5. m \in S /\ \A x \in S : m >= x
  BY <1>4
<1>6. Max(S) \in S /\ \A x \in S : Max(S) >= x
  BY <1>5, Zenon DEF Max
<1> QED
  BY <1>6

-----------------------------------------------------------------------------
(* Kept() and parse_channels().                                            *)

KeptStep(s, b, c, d, t, x) == IF x.disable THEN t ELSE Append(t, x)
KeptInv(s, b, c, d, t, k) ==
  /\ t \in Seq(ToSet(s))
  /\ \A n \in DOMAIN t : \E q \in 1 .. k : t[n] = s[q]
  /\ DistinctNames(s) => DistinctNames(t)
OfKept == INSTANCE Folding WITH Step <- KeptStep, Inv <- KeptInv

LEMMA KeptIs ==
  ASSUME NEW s, IsList(s)
  PROVE  Kept(s) \in Seq(ToSet(s)) /\ (DistinctNames(s) => DistinctNames(Kept(s)))
<1>1. Kept(s) = OfKept!Fold(s, 0, 0, 0, <<>>, s)
  BY Zenon DEF Kept, KeptStep, OfKept!Fold, OfKept!FoldLeft, FoldLeft, MapThenFoldSet, OfKept!MapThenFoldSet, Max, OfKept!Max
<1>2. Len(s) \in Nat /\ DOMAIN s = 1 .. Len(s)
  BY ListFacts
<1>3. KeptInv(s, 0, 0, 0, <<>>, 0)
  BY DEF KeptInv, DistinctNames
<1>4. ASSUME NEW t, NEW k \in DOMAIN s, KeptInv(s, 0, 0, 0, t, k - 1) PROVE KeptInv(s, 0, 0, 0, KeptStep(s, 0, 0, 0, t, s[k]), k)
  <2>1. CASE s[k].disable
    <3>1. \A q \in 1 .. k - 1 : q \in 1 .. k
      BY <1>2
    <3> QED
      BY <1>4, <2>1, <3>1 DEF KeptInv, KeptStep
  <2>2. CASE ~s[k].disable
    <3> DEFINE u == Append(t, s[k])
    <3>1. s[k] \in ToSet(s)
      BY Zenon DEF ToSet
    <3>2. t \in Seq(ToSet(s))
      BY <1>4 DEF KeptInv
    <3>3. u \in Seq(ToSet(s)) /\ DOMAIN u = 1 .. Len(t) + 1 /\ u[Len(t) + 1] = s[k] /\ \A n \in 1 .. Len(t) : u[n] = t[n]
      BY <3>1, <3>2
    <3>4. \A n \in DOMAIN t : \E q \in 1 .. k - 1 : t[n] = s[q]
      BY <1>4, Zenon DEF KeptInv
    <3>5. \A n \in 1 .. Len(t) : \E q \in 1 .. k - 1 : u[n] = s[q]
      BY <3>2, <3>3, <3>4
    <3>6. \A n \in DOMAIN u : \E q \in 1 .. k : u[n] = s[q]
      BY <1>2, <3>2, <3>3, <3>5
    <3>7. ASSUME DistinctNames(s) PROVE DistinctNames(u)
      <4> SUFFICES ASSUME NEW m \in DOMAIN u, NEW n \in DOMAIN u, u[m].name = u[n].name PROVE m = n
        BY DEF DistinctNames
      <4>1. CASE m \in 1 .. Len(t) /\ n \in 1 .. Len(t)
        BY <1>4, <3>2, <3>3, <3>7, <4>1 DEF KeptInv, DistinctNames
      <4>2. CASE m = Len(t) + 1 /\ n \in 1 .. Len(t)
        <5>1. PICK q \in 1 .. k - 1 : u[n] = s[q]
          BY <3>5, <4>2
        <5>2. q \in DOMAIN s /\ q # k
          BY <1>2, <5>1
        <5> QED
          BY <3>3, <3>7, <4>2, <5>1, <5>2, Zenon DEF DistinctNames
      <4>3. CASE n = Len(t) + 1 /\ m \in 1 .. Len(t)
        <5>1. PICK q \in 1 .. k - 1 : u[m] = s[q]
          BY <3>5, <4>3
        <5>2. q \in DOMAIN s /\ q # k
          BY <1>2, <5>1
        <5> QED
          BY <3>3, <3>7, <4>3, <5>1, <5>2, Zenon DEF DistinctNames
      <4> QED
        BY <3>2, <3>3, <4>1, <4>2, <4>3
    <3>8. KeptStep(s, 0, 0, 0, t, s[k]) = u
      BY <2>2, Zenon DEF KeptStep
    <3> HIDE DEF u
    <3> QED
      BY <3>3, <3>6, <3>7, <3>8, Zenon DEF KeptInv
  <2> QED
    BY <2>1, <2>2
<1>5. KeptInv(s, 0, 0, 0, OfKept!Fold(s, 0, 0, 0, <<>>, s), Len(s))
  BY ONLY <1>2, <1>3, <1>4, OfKept!FoldKeeps
<1> QED
  BY <1>1, <1>5, Zenon DEF KeptInv

CountStep(s, b, c, d, t, x) == IF Counts(x) THEN Append(t, x) ELSE t
CountInv(s, b, c, d, t, k) ==
  /\ t \in Seq(ToSet(s))
  /\ (\A j \in DOMAIN s : Counts(s[j])) => t = [n \in 1 .. k |-> s[n]]
OfCounted == INSTANCE Folding WITH Step <- CountStep, Inv <- CountInv

LEMMA CountedAre ==
  ASSUME NEW d, IsList(d.channels)
  PROVE  /\ parse_channels(d) \in Seq(ToSet(Kept(d.channels)))
         /\ (\A j \in DOMAIN Kept(d.channels) : Counts(Kept(d.channels)[j])) => parse_channels(d) = Kept(d.channels)
<1> DEFINE s == Kept(d.channels)
<1>1. parse_channels(d) = OfCounted!Fold(s, 0, 0, 0, <<>>, s)
  BY Zenon DEF parse_channels, CountStep, OfCounted!Fold, OfCounted!FoldLeft, FoldLeft, MapThenFoldSet, OfCounted!MapThenFoldSet, Max, OfCounted!Max
<1>2. s \in Seq(ToSet(d.channels))
  BY KeptIs
<1>3. Len(s) \in Nat /\ DOMAIN s = 1 .. Len(s) /\ s = [n \in 1 .. Len(s) |-> s[n]]
  BY <1>2
<1> HIDE DEF s
<1>4. CountInv(s, 0, 0, 0, <<>>, 0)
  BY DEF CountInv
<1>5. ASSUME NEW t, NEW k \in DOMAIN s, CountInv(s, 0, 0, 0, t, k - 1) PROVE CountInv(s, 0, 0, 0, CountStep(s, 0, 0, 0, t, s[k]), k)
  <2>1. t \in Seq(ToSet(s)) /\ s[k] \in ToSet(s)
    BY <1>5, Zenon DEF CountInv, ToSet
  <2>2. CountStep(s, 0, 0, 0, t, s[k]) \in Seq(ToSet(s))
    BY <2>1 DEF CountStep
  <2>3. ASSUME \A j \in DOMAIN s : Counts(s[j]) PROVE CountStep(s, 0, 0, 0, t, s[k]) = [n \in 1 .. k |-> s[n]]
    <3>1. CountStep(s, 0, 0, 0, t, s[k]) = Append(t, s[k])
      BY <2>3, Zenon DEF CountStep
    <3>2. t = [n \in 1 .. k - 1 |-> s[n]]
      BY <1>5, <2>3, Zenon DEF CountInv
    <3>3. k \in Nat /\ k - 1 \in Nat
      BY <1>3
    <3>4. Len(t) = k - 1
      BY <2>1, <3>2, <3>3
    <3>5. Append(t, s[k]) = [n \in 1 .. k |-> s[n]]
      BY <2>1, <3>2, <3>3, <3>4
    <3> QED
      BY <3>1, <3>5
  <2> QED
    BY <2>2, <2>3, Zenon DEF CountInv
<1>6. CountInv(s, 0, 0, 0, OfCounted!Fold(s, 0, 0, 0, <<>>, s), Len(s))
  BY ONLY <1>3, <1>4, <1>5, OfCounted!FoldKeeps
<1> QED
  BY <1>1, <1>3, <1>6, Zenon DEF CountInv, s

-----------------------------------------------------------------------------
(* The invariant: what the threads run is whole.  A channel has the outputs *)
(* of its signature, a device no more channels than it has room for, a     *)
(* mixer the inputs of the channels that feed it and no more than it has   *)
(* slots.                                                                   *)

DeviceFields == {"type", "mode", "sample_rate", "centerfreq", "gain", "correction", "auto_ppm", "min_voters", "base", "capacity", "channels"}
MixerFields == {"name", "remote", "inputs", "live", "lost", "capacity", "enabled"}
HasFields(r, fields) == r = [x \in fields |-> r[x]]

ChanOk(c) ==
  /\ c = [signature |-> c.signature, enabled |-> c.enabled, outputs |-> c.outputs]
  /\ IsList(c.outputs)
  /\ c.signature # NoSignature => c.outputs = Kept(c.signature.outputs)
PpmOk(d) ==
  /\ d.auto_ppm \in {"absent", "off", "on"}
  /\ d.auto_ppm # "absent" => d.min_voters # 0
  /\ d.auto_ppm = "on" => ~(Magnitude(d.base) > MaxPpm)
DevOk(d) ==
  /\ HasFields(d, DeviceFields) /\ d.capacity \in Nat /\ PpmOk(d)
  /\ IsList(d.channels) /\ Len(d.channels) <= d.capacity
  /\ \A j \in DOMAIN d.channels : ChanOk(d.channels[j])
Fits(m) ==
  /\ HasFields(m, MixerFields) /\ m.remote \in Nat /\ m.lost \in Nat /\ m.capacity \in Nat
  /\ IsFiniteSet(m.inputs) /\ m.live \subseteq m.inputs
  /\ Cardinality(m.inputs) + m.lost + m.remote <= m.capacity
MixersOk(mixers) == IsList(mixers) /\ DistinctNames(mixers) /\ \A n \in DOMAIN mixers : Fits(mixers[n])
Fed(mixers, devs) == \A n \in DOMAIN mixers : mixers[n].inputs = OwnedInputs(devs, mixers[n].name)
DevicesOk(devs) == IsList(devs) /\ \A i \in DOMAIN devs : DevOk(devs[i])
RunOk(r) ==
  /\ r = Running(r.devices, r.mixers)
  /\ DevicesOk(r.devices) /\ MixersOk(r.mixers) /\ Fed(r.mixers, r.devices)
ConfInv == conf_file \in Files /\ (running = NotRunning \/ RunOk(running))

-----------------------------------------------------------------------------
(* The inputs the channels own.                                            *)

LEMMA OwnedAre ==
  ASSUME NEW devs, NEW name, NEW x
  PROVE  x \in OwnedInputs(devs, name) <=>
           \E i \in DOMAIN devs : \E j \in DOMAIN devs[i].channels : x \in ChannelInputs(i, j, devs[i].channels[j].outputs, name)
<1> DEFINE ofChannel(i, j) == ChannelInputs(i, j, devs[i].channels[j].outputs, name)
           ofDevice(i) == UNION {ofChannel(i, j) : j \in DOMAIN devs[i].channels}
<1>1. OwnedInputs(devs, name) = UNION {ofDevice(i) : i \in DOMAIN devs}
  BY DEF OwnedInputs
<1> HIDE DEF ofChannel
<1>2. \A i : x \in ofDevice(i) <=> \E j \in DOMAIN devs[i].channels : x \in ofChannel(i, j)
  OBVIOUS
<1> HIDE DEF ofDevice
<1>3. x \in UNION {ofDevice(i) : i \in DOMAIN devs} <=> \E i \in DOMAIN devs : x \in ofDevice(i)
  OBVIOUS
<1> QED
  BY <1>1, <1>2, <1>3, Zenon DEF ofChannel

LEMMA InputOf ==
  ASSUME NEW i, NEW j, NEW outputs, NEW name, NEW x \in ChannelInputs(i, j, outputs, name)
  PROVE  x.dev = i /\ x.chan = j /\ \E k \in DOMAIN outputs : outputs[k].kind = "mixer" /\ outputs[k].to = name /\ x = Input(i, j, k)
<1>1. PICK k \in DOMAIN outputs : outputs[k].kind = "mixer" /\ outputs[k].to = name /\ x = Input(i, j, k)
  BY Zenon DEF ChannelInputs
<1>2. x.dev = i /\ x.chan = j
  BY <1>1 DEF Input
<1> QED
  BY <1>1, <1>2, Zenon

LEMMA InputsFinite ==
  ASSUME NEW i, NEW j, NEW outputs, NEW name, IsList(outputs)
  PROVE  IsFiniteSet(ChannelInputs(i, j, outputs, name))
<1> DEFINE K == {n \in DOMAIN outputs : outputs[n].kind = "mixer" /\ outputs[n].to = name}
<1>1. IsFiniteSet(1 .. Len(outputs)) /\ DOMAIN outputs = 1 .. Len(outputs)
  BY ListFacts, FS_Interval
<1>2. IsFiniteSet(K)
  BY <1>1, FS_Subset, Zenon
<1>3. IsFiniteSet({Input(i, j, k) : k \in K})
  <2> DEFINE f == [k \in K |-> Input(i, j, k)]
             image == {Input(i, j, k) : k \in K}
  <2>1. f \in Surjection(K, image)
    BY Zenon DEF Surjection
  <2> HIDE DEF f, image, K
  <2>2. IsFiniteSet(image)
    BY <1>2, <2>1, FS_Surjection, Zenon
  <2> QED
    BY <2>2 DEF image
<1> QED
  BY <1>3, Zenon DEF ChannelInputs

LEMMA UnionFinite ==
  ASSUME NEW n \in Nat, NEW D, D \subseteq 1 .. n, NEW f, \A k \in D : IsFiniteSet(f[k]),
         NEW T, \A x \in T : \E k \in D : x \in f[k]
  PROVE  IsFiniteSet(T)
<1> DEFINE image == {f[k] : k \in D}
<1>1. IsFiniteSet(D)
  <2>1. IsFiniteSet(1 .. n) /\ D \in SUBSET (1 .. n)
    BY FS_Interval
  <2> QED
    BY <2>1, FS_Subset, Zenon
<1>2. IsFiniteSet(image)
  <2> DEFINE g == [k \in D |-> f[k]]
  <2>1. g \in Surjection(D, image)
    BY Zenon DEF Surjection
  <2> HIDE DEF g, image
  <2> QED
    BY <1>1, <2>1, FS_Surjection, Zenon
<1>3. \A S \in image : IsFiniteSet(S)
  OBVIOUS
<1> HIDE DEF image
<1>4. IsFiniteSet(UNION image)
  BY <1>2, <1>3, FS_UNION
<1>5. T \in SUBSET UNION image
  BY DEF image
<1> QED
  BY <1>4, <1>5, FS_Subset, Zenon

LEMMA OwnedFinite ==
  ASSUME NEW devs, NEW name, IsList(devs),
         \A i \in DOMAIN devs : IsList(devs[i].channels) /\ \A j \in DOMAIN devs[i].channels : IsList(devs[i].channels[j].outputs)
  PROVE  IsFiniteSet(OwnedInputs(devs, name))
<1> DEFINE ofDevice(i) == UNION {ChannelInputs(i, j, devs[i].channels[j].outputs, name) : j \in DOMAIN devs[i].channels}
           f == [i \in DOMAIN devs |-> ofDevice(i)]
<1>1. ASSUME NEW i \in DOMAIN devs PROVE IsFiniteSet(ofDevice(i))
  <2> DEFINE g == [j \in DOMAIN devs[i].channels |-> ChannelInputs(i, j, devs[i].channels[j].outputs, name)]
  <2>1. Len(devs[i].channels) \in Nat /\ DOMAIN devs[i].channels = 1 .. Len(devs[i].channels)
    BY ListFacts, Zenon
  <2>2. \A j \in DOMAIN devs[i].channels : IsFiniteSet(g[j])
    BY InputsFinite, Zenon
  <2>3. \A x \in ofDevice(i) : \E j \in DOMAIN devs[i].channels : x \in g[j]
    BY Zenon
  <2> HIDE DEF g, ofDevice
  <2>4. DOMAIN devs[i].channels \subseteq 1 .. Len(devs[i].channels)
    BY <2>1
  <2> QED
    BY <2>1, <2>2, <2>3, <2>4, UnionFinite, Zenon
<1>2. Len(devs) \in Nat /\ DOMAIN devs = 1 .. Len(devs)
  BY ListFacts
<1>3. \A x \in OwnedInputs(devs, name) : \E i \in DOMAIN devs : x \in f[i]
  BY Zenon DEF OwnedInputs
<1>4. \A i \in DOMAIN devs : IsFiniteSet(f[i])
  BY <1>1, Zenon
<1>5. DOMAIN devs \subseteq 1 .. Len(devs)
  BY <1>2
<1> HIDE DEF f
<1> QED
  BY <1>2, <1>3, <1>4, <1>5, UnionFinite, Zenon

LEMMA OwnedSame ==
  ASSUME NEW devs, NEW devs2, NEW name, DOMAIN devs2 = DOMAIN devs,
         \A i \in DOMAIN devs : /\ DOMAIN devs2[i].channels = DOMAIN devs[i].channels
                                /\ \A j \in DOMAIN devs[i].channels : devs2[i].channels[j].outputs = devs[i].channels[j].outputs
  PROVE  OwnedInputs(devs2, name) = OwnedInputs(devs, name)
<1>1. \A x : x \in OwnedInputs(devs2, name) <=> x \in OwnedInputs(devs, name)
  <2> TAKE x
  <2>1. ASSUME NEW i \in DOMAIN devs
        PROVE  (\E j \in DOMAIN devs2[i].channels : x \in ChannelInputs(i, j, devs2[i].channels[j].outputs, name))
               <=> \E j \in DOMAIN devs[i].channels : x \in ChannelInputs(i, j, devs[i].channels[j].outputs, name)
    <3>1. DOMAIN devs2[i].channels = DOMAIN devs[i].channels
      OBVIOUS
    <3>2. \A j \in DOMAIN devs[i].channels : devs2[i].channels[j].outputs = devs[i].channels[j].outputs
      OBVIOUS
    <3> QED
      BY <3>1, <3>2, Zenon
  <2> QED
    BY <2>1, OwnedAre, Zenon
<1> QED
  BY <1>1

LEMMA OwnedCut ==
  ASSUME NEW devs, NEW devs2, NEW name, NEW i \in DOMAIN devs, NEW keep \in Nat, DOMAIN devs2 = DOMAIN devs,
         \A h \in DOMAIN devs : h # i => devs2[h] = devs[h],
         DOMAIN devs[i].channels \subseteq Nat,
         \A j : j \in DOMAIN devs2[i].channels <=> j \in DOMAIN devs[i].channels /\ ~(j > keep),
         \A j \in DOMAIN devs2[i].channels : devs2[i].channels[j] = devs[i].channels[j]
  PROVE  OwnedInputs(devs2, name) = OwnedInputs(devs, name) \ {x \in OwnedInputs(devs, name) : x.dev = i /\ x.chan > keep}
<1>1. ASSUME NEW x \in OwnedInputs(devs2, name) PROVE x \in OwnedInputs(devs, name) /\ ~(x.dev = i /\ x.chan > keep)
  <2>1. PICK h \in DOMAIN devs : \E j \in DOMAIN devs2[h].channels : x \in ChannelInputs(h, j, devs2[h].channels[j].outputs, name)
    BY OwnedAre, Zenon
  <2>2. PICK j \in DOMAIN devs2[h].channels : x \in ChannelInputs(h, j, devs2[h].channels[j].outputs, name)
    BY <2>1, Zenon
  <2>3. x.dev = h /\ x.chan = j
    BY <2>2, InputOf
  <2>4. j \in DOMAIN devs[h].channels /\ devs2[h].channels[j] = devs[h].channels[j] /\ (h = i => ~(j > keep))
    BY Zenon
  <2>5. x \in OwnedInputs(devs, name)
    BY <2>2, <2>4, OwnedAre, Zenon
  <2> QED
    BY <2>3, <2>4, <2>5, Zenon
<1>2. ASSUME NEW x \in OwnedInputs(devs, name), ~(x.dev = i /\ x.chan > keep) PROVE x \in OwnedInputs(devs2, name)
  <2>1. PICK h \in DOMAIN devs : \E j \in DOMAIN devs[h].channels : x \in ChannelInputs(h, j, devs[h].channels[j].outputs, name)
    BY OwnedAre, Zenon
  <2>2. PICK j \in DOMAIN devs[h].channels : x \in ChannelInputs(h, j, devs[h].channels[j].outputs, name)
    BY <2>1, Zenon
  <2>3. x.dev = h /\ x.chan = j
    BY <2>2, InputOf
  <2>4. j \in DOMAIN devs2[h].channels /\ devs2[h].channels[j] = devs[h].channels[j]
    BY <1>2, <2>3, Zenon
  <2> QED
    BY <2>2, <2>4, OwnedAre, Zenon
<1> QED
  BY <1>1, <1>2

(* The inputs of the channels old + 1 .. last of a file.                   *)
NewInputs(i, chans, old, last, name) ==
  UNION {ChannelInputs(i, j, Kept(chans[j].outputs), name) : j \in {k \in old + 1 .. last : Counts(chans[k])}}

LEMMA NewAre ==
  ASSUME NEW i, NEW chans, NEW old, NEW last, NEW name, NEW x
  PROVE  x \in NewInputs(i, chans, old, last, name) <=>
           \E j \in old + 1 .. last : Counts(chans[j]) /\ x \in ChannelInputs(i, j, Kept(chans[j].outputs), name)
<1> DEFINE J == {k \in old + 1 .. last : Counts(chans[k])}
           of(j) == ChannelInputs(i, j, Kept(chans[j].outputs), name)
<1>1. NewInputs(i, chans, old, last, name) = UNION {of(j) : j \in J}
  BY DEF NewInputs
<1> HIDE DEF of, J
<1>2. x \in UNION {of(j) : j \in J} <=> \E j \in J : x \in of(j)
  OBVIOUS
<1>3. \A j : j \in J <=> j \in old + 1 .. last /\ Counts(chans[j])
  BY Zenon DEF J
<1> QED
  BY <1>1, <1>2, <1>3, Zenon DEF of

(* Device i has got channels old + 1 .. new, from the channels of a file up *)
(* to the last one.                                                        *)
ChannelsAdded(devs, devs2, i, chans, old, new, last) ==
  /\ i \in DOMAIN devs /\ old \in Nat /\ new \in Nat /\ last \in Nat /\ old <= new /\ new <= last
  /\ DOMAIN devs2 = DOMAIN devs /\ \A h \in DOMAIN devs : h # i => devs2[h] = devs[h]
  /\ DOMAIN devs[i].channels = 1 .. old /\ DOMAIN devs2[i].channels = 1 .. new
  /\ \A j \in 1 .. old : devs2[i].channels[j] = devs[i].channels[j]
  /\ \A j \in old + 1 .. new : devs2[i].channels[j].outputs = IF Counts(chans[j]) THEN Kept(chans[j].outputs) ELSE <<>>
  /\ \A j \in old + 1 .. last : Counts(chans[j]) => j <= new

LEMMA OwnedGrown ==
  ASSUME NEW devs, NEW devs2, NEW name, NEW i, NEW chans, NEW old, NEW new, NEW last,
         ChannelsAdded(devs, devs2, i, chans, old, new, last)
  PROVE  OwnedInputs(devs2, name) = OwnedInputs(devs, name) \union NewInputs(i, chans, old, last, name)
<1> USE DEF ChannelsAdded
<1>1. ASSUME NEW x \in OwnedInputs(devs2, name) PROVE x \in OwnedInputs(devs, name) \/ x \in NewInputs(i, chans, old, last, name)
  <2>1. PICK h \in DOMAIN devs : \E j \in DOMAIN devs2[h].channels : x \in ChannelInputs(h, j, devs2[h].channels[j].outputs, name)
    BY OwnedAre, Zenon
  <2>2. PICK j \in DOMAIN devs2[h].channels : x \in ChannelInputs(h, j, devs2[h].channels[j].outputs, name)
    BY <2>1, Zenon
  <2>3. CASE h # i \/ j \in 1 .. old
    BY <2>2, <2>3, OwnedAre, Zenon
  <2>4. CASE h = i /\ j \notin 1 .. old
    <3>1. j \in old + 1 .. new /\ j \in old + 1 .. last
      BY <2>4
    <3>2. Counts(chans[j])
      <4>1. DOMAIN <<>> = {}
        OBVIOUS
      <4>2. ChannelInputs(h, j, <<>>, name) = {}
        BY <4>1, Zenon DEF ChannelInputs
      <4> QED
        BY <2>2, <2>4, <3>1, <4>2, Zenon
    <3> QED
      BY <2>2, <2>4, <3>1, <3>2, NewAre, Zenon
  <2> QED
    BY <2>3, <2>4
<1>2. ASSUME NEW x \in OwnedInputs(devs, name) PROVE x \in OwnedInputs(devs2, name)
  <2>1. PICK h \in DOMAIN devs : \E j \in DOMAIN devs[h].channels : x \in ChannelInputs(h, j, devs[h].channels[j].outputs, name)
    BY OwnedAre, Zenon
  <2>2. PICK j \in DOMAIN devs[h].channels : x \in ChannelInputs(h, j, devs[h].channels[j].outputs, name)
    BY <2>1, Zenon
  <2>3. 1 .. old \subseteq 1 .. new
    OBVIOUS
  <2>4. j \in DOMAIN devs2[h].channels /\ devs2[h].channels[j] = devs[h].channels[j]
    BY <2>3, Zenon
  <2> QED
    BY <2>2, <2>4, OwnedAre, Zenon
<1>3. ASSUME NEW x \in NewInputs(i, chans, old, last, name) PROVE x \in OwnedInputs(devs2, name)
  <2>1. PICK j \in old + 1 .. last : Counts(chans[j]) /\ x \in ChannelInputs(i, j, Kept(chans[j].outputs), name)
    BY NewAre, Zenon
  <2>2. j \in old + 1 .. new /\ j \in DOMAIN devs2[i].channels
    BY <2>1
  <2>3. devs2[i].channels[j].outputs = Kept(chans[j].outputs)
    BY <2>1, <2>2, Zenon
  <2> QED
    BY <2>1, <2>2, <2>3, OwnedAre, Zenon
<1> QED
  BY <1>1, <1>2, <1>3

-----------------------------------------------------------------------------
(* Appending channels: the mixers only grow, within their capacity, and by  *)
(* exactly the inputs of the new channels if it succeeds.                  *)

MixGrown(m, n) ==
  /\ Fits(n) /\ n.name = m.name /\ n.remote = m.remote /\ n.lost = m.lost /\ n.capacity = m.capacity
  /\ m.inputs \subseteq n.inputs
MixersGrown(old, new) == IsList(new) /\ DOMAIN new = DOMAIN old /\ \A n \in DOMAIN old : MixGrown(old[n], new[n])
Appending(s) == s = [ok |-> s.ok, mixers |-> s.mixers] /\ s.ok \in BOOLEAN /\ MixersOk(s.mixers)

LEMMA Connected ==
  ASSUME NEW m, NEW x, Fits(m), SlotFree(m)
  PROVE  MixGrown(m, ConnectInput(m, x)) /\ ConnectInput(m, x).inputs = m.inputs \union {x}
<1> DEFINE n == ConnectInput(m, x)
<1>1. DOMAIN m = MixerFields /\ m = [g \in MixerFields |-> m[g]]
  BY DEF Fits, HasFields
<1>0. n = [g \in MixerFields |-> n[g]]
  BY <1>1 DEF ConnectInput
<1>2. /\ DOMAIN n = MixerFields /\ n.inputs = m.inputs \union {x} /\ n.live = m.live \union {x}
      /\ n.name = m.name /\ n.remote = m.remote /\ n.lost = m.lost /\ n.capacity = m.capacity
  BY <1>1 DEF ConnectInput, MixerFields
<1> HIDE DEF n
<1>3. /\ m.remote \in Nat /\ m.lost \in Nat /\ m.capacity \in Nat /\ IsFiniteSet(m.inputs) /\ m.live \subseteq m.inputs
      /\ Cardinality(m.inputs) + m.lost + m.remote < m.capacity
  BY DEF Fits, SlotFree
<1>4. /\ IsFiniteSet(n.inputs) /\ Cardinality(m.inputs) \in Nat
      /\ Cardinality(n.inputs) = Cardinality(m.inputs) \/ Cardinality(n.inputs) = Cardinality(m.inputs) + 1
  <2>1. IsFiniteSet(m.inputs \union {x}) /\ Cardinality(m.inputs \union {x}) = IF x \in m.inputs THEN Cardinality(m.inputs) ELSE Cardinality(m.inputs) + 1
    BY <1>3, FS_AddElement, Zenon
  <2>2. Cardinality(m.inputs) \in Nat
    BY <1>3, FS_CardinalityType, Zenon
  <2> QED
    BY ONLY <1>2, <2>1, <2>2
<1>5. Cardinality(n.inputs) + n.lost + n.remote <= n.capacity
  BY ONLY <1>2, <1>3, <1>4
<1>6. n.live \subseteq n.inputs /\ m.inputs \subseteq n.inputs
  BY ONLY <1>2, <1>3
<1> QED
  BY <1>0, <1>2, <1>3, <1>4, <1>5, <1>6, Zenon DEF MixGrown, Fits, HasFields, n

LEMMA GrownTwice ==
  ASSUME NEW a, NEW b, NEW c, MixersGrown(a, b), MixersGrown(b, c)
  PROVE  MixersGrown(a, c)
<1>1. DOMAIN c = DOMAIN a /\ IsList(c)
  BY Zenon DEF MixersGrown
<1>2. ASSUME NEW n \in DOMAIN a PROVE MixGrown(a[n], c[n])
  <2>1. MixGrown(a[n], b[n]) /\ MixGrown(b[n], c[n])
    BY Zenon DEF MixersGrown
  <2>2. a[n].inputs \subseteq c[n].inputs
    BY <2>1 DEF MixGrown
  <2> QED
    BY <2>1, <2>2, Zenon DEF MixGrown
<1> QED
  BY <1>1, <1>2, Zenon DEF MixersGrown

LEMMA GrownNot ==
  ASSUME NEW mixers, MixersOk(mixers)
  PROVE  MixersGrown(mixers, mixers)
BY DEF MixersOk, MixersGrown, MixGrown

LEMMA GrownOk ==
  ASSUME NEW old, NEW new, MixersOk(old), MixersGrown(old, new)
  PROVE  MixersOk(new)
<1>1. IsList(new) /\ DOMAIN new = DOMAIN old /\ \A n \in DOMAIN new : Fits(new[n]) /\ new[n].name = old[n].name
  BY Zenon DEF MixersGrown, MixGrown
<1>2. DistinctNames(new)
  BY <1>1, Zenon DEF MixersOk, DistinctNames
<1> QED
  BY <1>1, <1>2, Zenon DEF MixersOk

(* The inputs of the first k outputs of a channel.                         *)
OutInputs(i, j, outputs, k, name) ==
  {Input(i, j, q) : q \in {p \in 1 .. k : outputs[p].kind = "mixer" /\ outputs[p].to = name}}

AppendStep(i, j, outputs, p, t, x) == AppendOutput(t, i, j, outputs, x, p[1])
AppendInv(i, j, outputs, p, t, k) ==
  /\ Appending(t) /\ MixersGrown(p[2].mixers, t.mixers)
  /\ t.ok => p[2].ok /\ \A n \in DOMAIN p[2].mixers :
       t.mixers[n].inputs = p[2].mixers[n].inputs \union OutInputs(i, j, outputs, k, p[2].mixers[n].name)
OfOutputs == INSTANCE Folding WITH Step <- AppendStep, Inv <- AppendInv

LEMMA OutputAppended ==
  ASSUME NEW i, NEW j, NEW outputs, NEW scan, NEW s0, Appending(s0),
         NEW t, NEW k \in Nat \ {0}, AppendInv(i, j, outputs, <<scan, s0>>, t, k - 1)
  PROVE  AppendInv(i, j, outputs, <<scan, s0>>, AppendOutput(t, i, j, outputs, k, scan), k)
<1> DEFINE o == outputs[k]
           to == {n \in DOMAIN t.mixers : t.mixers[n].name = o.to}
           names == {t.mixers[n].name : n \in DOMAIN t.mixers}
           good == OutputOk(o, FALSE, scan, names)
           free == \E n \in to : SlotFree(t.mixers[n])
           u == AppendOutput(t, i, j, outputs, k, scan)
<1>0. <<scan, s0>>[2] = s0
  OBVIOUS
<1>1. /\ Appending(t) /\ MixersGrown(s0.mixers, t.mixers)
      /\ t.ok => s0.ok /\ \A n \in DOMAIN s0.mixers :
           t.mixers[n].inputs = s0.mixers[n].inputs \union OutInputs(i, j, outputs, k - 1, s0.mixers[n].name)
  BY <1>0, Zenon DEF AppendInv
<1>2. DOMAIN t.mixers = DOMAIN s0.mixers /\ \A n \in DOMAIN s0.mixers : t.mixers[n].name = s0.mixers[n].name
  BY <1>1, Zenon DEF MixersGrown, MixGrown
<1>3. ASSUME NEW name PROVE OutInputs(i, j, outputs, k, name) = OutInputs(i, j, outputs, k - 1, name)
                              \union (IF o.kind = "mixer" /\ o.to = name THEN {Input(i, j, k)} ELSE {})
  <2>1. \A p : p \in 1 .. k <=> p \in 1 .. k - 1 \/ p = k
    OBVIOUS
  <2> QED
    BY <2>1 DEF OutInputs
<1>free. free <=> \E n \in DOMAIN t.mixers : t.mixers[n].name = o.to /\ SlotFree(t.mixers[n])
  BY Zenon
<1>4. CASE t.ok /\ good /\ o.kind # "mixer"
  <2>1. u = t
    BY <1>4, Zenon DEF AppendOutput
  <2>2. \A name : OutInputs(i, j, outputs, k, name) = OutInputs(i, j, outputs, k - 1, name)
    BY <1>3, <1>4
  <2> QED
    BY <1>0, <1>1, <2>1, <2>2, Zenon DEF AppendInv
<1>5. CASE ~t.ok
  <2>1. u = t
    BY <1>5, Zenon DEF AppendOutput
  <2> QED
    BY <1>0, <1>1, <1>5, <2>1, Zenon DEF AppendInv
<1>6. CASE t.ok /\ (~good \/ (o.kind = "mixer" /\ ~free))
  <2>1. u = [ok |-> FALSE, mixers |-> t.mixers]
    BY <1>6, <1>free, Zenon DEF AppendOutput, Throws
  <2>2. u.ok = FALSE /\ u.mixers = t.mixers
    BY <2>1
  <2>3. Appending(u)
    BY <1>1, <2>1, <2>2, Zenon DEF Appending
  <2> QED
    BY <1>0, <1>1, <2>2, <2>3, Zenon DEF AppendInv
<1>7. CASE t.ok /\ good /\ o.kind = "mixer" /\ free
  <2> DEFINE grown == [n \in DOMAIN t.mixers |-> IF n \in to THEN ConnectInput(t.mixers[n], Input(i, j, k)) ELSE t.mixers[n]]
  <2>1. u = [t EXCEPT !.mixers = grown]
    <3>1. u = Connect(t, o, Input(i, j, k))
      BY <1>7, <1>free, Zenon DEF AppendOutput
    <3>2. \A n \in DOMAIN t.mixers : n \in to <=> t.mixers[n].name = o.to
      BY Zenon
    <3> HIDE DEF to, u, o
    <3> QED
      BY <3>1, <3>2 DEF Connect
  <2>2. MixersOk(t.mixers)
    BY <1>0, <1>1, Zenon DEF Appending
  <2>3. \A n \in to : SlotFree(t.mixers[n])
    BY <1>7, <2>2, Zenon DEF MixersOk, DistinctNames
  <2>4. ASSUME NEW n \in DOMAIN t.mixers
        PROVE  /\ MixGrown(t.mixers[n], grown[n])
               /\ grown[n].inputs = t.mixers[n].inputs \union (IF n \in to THEN {Input(i, j, k)} ELSE {})
    <3>1. Fits(t.mixers[n])
      BY <2>2, Zenon DEF MixersOk
    <3>2. CASE n \in to
      <4>1. grown[n] = ConnectInput(t.mixers[n], Input(i, j, k))
        BY <3>2, Zenon
      <4> QED
        BY <2>3, <3>1, <3>2, <4>1, Connected, Zenon
    <3>3. CASE n \notin to
      <4>1. grown[n] = t.mixers[n]
        BY <3>3, Zenon
      <4> QED
        BY <3>1, <3>3, <4>1 DEF MixGrown
    <3> QED
      BY <3>2, <3>3
  <2>5. IsList(grown) /\ DOMAIN grown = DOMAIN t.mixers
    <3>1. Len(t.mixers) \in Nat /\ DOMAIN t.mixers = 1 .. Len(t.mixers)
      BY <2>2, ListFacts, Zenon DEF MixersOk
    <3>2. grown = [n \in 1 .. Len(t.mixers) |-> grown[n]]
      BY <3>1, Zenon
    <3> HIDE DEF grown
    <3> QED
      BY <3>1, <3>2, MadeList, Zenon
  <2> HIDE DEF grown
  <2>6. MixersGrown(t.mixers, grown)
    BY <2>4, <2>5, Zenon DEF MixersGrown
  <2>7. u.ok = TRUE /\ u.mixers = grown /\ u = [ok |-> u.ok, mixers |-> u.mixers]
    BY <1>1, <1>7, <2>1 DEF Appending
  <2>8. Appending(u)
    BY <2>2, <2>6, <2>7, GrownOk, Zenon DEF Appending
  <2>9. MixersGrown(s0.mixers, u.mixers)
    BY <1>0, <1>1, <2>6, <2>7, GrownTwice, Zenon
  <2>10. ASSUME NEW n \in DOMAIN s0.mixers
         PROVE  u.mixers[n].inputs = s0.mixers[n].inputs \union OutInputs(i, j, outputs, k, s0.mixers[n].name)
    <3> DEFINE name == s0.mixers[n].name
    <3>1. n \in to <=> o.to = name
      BY <1>2, Zenon
    <3>2. grown[n].inputs = t.mixers[n].inputs \union (IF n \in to THEN {Input(i, j, k)} ELSE {})
      BY <1>2, <2>4, Zenon
    <3>3. t.mixers[n].inputs = s0.mixers[n].inputs \union OutInputs(i, j, outputs, k - 1, name)
      BY <1>0, <1>1, <1>7, Zenon
    <3>4. OutInputs(i, j, outputs, k, name) = OutInputs(i, j, outputs, k - 1, name) \union (IF n \in to THEN {Input(i, j, k)} ELSE {})
      BY <1>3, <1>7, <3>1
    <3> HIDE DEF name, to, o
    <3> QED
      BY <2>7, <3>2, <3>3, <3>4 DEF name
  <2> QED
    BY <1>0, <1>1, <1>7, <2>8, <2>9, <2>10, Zenon DEF AppendInv
<1> QED
  BY <1>4, <1>5, <1>6, <1>7, Zenon

LEMMA OutputsAppended ==
  ASSUME NEW i, NEW j, NEW outputs, IsList(outputs), NEW scan, NEW s, Appending(s), NEW t, t = AppendOutputs(s, i, j, outputs, scan)
  PROVE  /\ Appending(t) /\ MixersGrown(s.mixers, t.mixers)
         /\ t.ok => s.ok /\ \A n \in DOMAIN s.mixers :
              t.mixers[n].inputs = s.mixers[n].inputs \union ChannelInputs(i, j, outputs, s.mixers[n].name)
<1> DEFINE len == Len(outputs)
           seq == Indices(0, len)
           p == <<scan, s>>
<1>1. len \in Nat /\ DOMAIN outputs = 1 .. len
  BY ListFacts
<1>2. Len(seq) = len /\ DOMAIN seq = 1 .. Len(seq) /\ \A k \in DOMAIN seq : seq[k] = k /\ k \in Nat \ {0}
  <2> HIDE DEF len
  <2>1. Len(seq) = len - 0 /\ DOMAIN seq = 1 .. len - 0 /\ \A k \in 1 .. len - 0 : seq[k] = 0 + k
    <3>1. 0 \in Nat /\ 0 <= len
      BY <1>1
    <3> QED
      BY <1>1, <3>1, IndicesAre, Zenon
  <2> HIDE DEF seq
  <2> QED
    BY <1>1, <2>1
<1>p. p[1] = scan /\ p[2] = s
  OBVIOUS
<1> HIDE DEF seq, p
<1>3. t = OfOutputs!Fold(i, j, outputs, p, s, seq)
  BY <1>p, Zenon DEF AppendOutputs, seq, AppendStep, OfOutputs!Fold, OfOutputs!FoldLeft, FoldLeft, MapThenFoldSet, OfOutputs!MapThenFoldSet, Max, OfOutputs!Max
<1>4. AppendInv(i, j, outputs, p, s, 0)
  <2>1. MixersGrown(s.mixers, s.mixers)
    BY GrownNot, Zenon DEF Appending
  <2>2. \A name : OutInputs(i, j, outputs, 0, name) = {}
    BY DEF OutInputs
  <2>3. \A n \in DOMAIN s.mixers : s.mixers[n].inputs = s.mixers[n].inputs \union OutInputs(i, j, outputs, 0, s.mixers[n].name)
    BY <2>2
  <2> QED
    BY <1>p, <2>1, <2>3, Zenon DEF AppendInv
<1>5. ASSUME NEW u, NEW k \in DOMAIN seq, AppendInv(i, j, outputs, p, u, k - 1)
      PROVE  AppendInv(i, j, outputs, p, AppendStep(i, j, outputs, p, u, seq[k]), k)
  BY <1>p, <1>2, <1>5, OutputAppended, Zenon DEF AppendStep, p
<1>6. AppendInv(i, j, outputs, p, t, Len(seq))
  BY ONLY <1>1, <1>2, <1>3, <1>4, <1>5, OfOutputs!FoldKeeps
<1>7. \A name : OutInputs(i, j, outputs, len, name) = ChannelInputs(i, j, outputs, name)
  BY <1>1, Zenon DEF OutInputs, ChannelInputs
<1> QED
  BY <1>p, <1>2, <1>6, <1>7, Zenon DEF AppendInv

Ready(chans) == IsList(chans) /\ \A j \in DOMAIN chans : ChannelSettings(chans[j])

ChannelStep(i, chans, scan, p, t, x) == AppendChannel(t, i, x, chans[x], scan)
ChannelInv(i, chans, scan, p, t, k) ==
  /\ Appending(t) /\ MixersGrown(p[2].mixers, t.mixers)
  /\ t.ok => p[2].ok /\ \A n \in DOMAIN p[2].mixers :
       t.mixers[n].inputs = p[2].mixers[n].inputs \union NewInputs(i, chans, p[1], p[1] + k, p[2].mixers[n].name)
OfChannels == INSTANCE Folding WITH Step <- ChannelStep, Inv <- ChannelInv

LEMMA NewInputsOneMore ==
  ASSUME NEW i, NEW chans, NEW old \in Nat, NEW k \in Nat \ {0}, NEW name
  PROVE  NewInputs(i, chans, old, old + k, name) = NewInputs(i, chans, old, old + (k - 1), name)
           \union (IF Counts(chans[old + k]) THEN ChannelInputs(i, old + k, Kept(chans[old + k].outputs), name) ELSE {})
<1> DEFINE j == old + k
           own(h) == ChannelInputs(i, h, Kept(chans[h].outputs), name)
<1>1. \A h : h \in old + 1 .. old + k <=> h \in old + 1 .. old + (k - 1) \/ h = j
  OBVIOUS
<1> HIDE DEF j
<1>2. \A x : x \in NewInputs(i, chans, old, old + k, name) <=>
             x \in NewInputs(i, chans, old, old + (k - 1), name) \/ (Counts(chans[j]) /\ x \in own(j))
  BY <1>1, NewAre, Zenon
<1> HIDE DEF own
<1> QED
  BY <1>2 DEF own, j

LEMMA ChannelAppended ==
  ASSUME NEW i, NEW chans, NEW scan, NEW old \in Nat, NEW s, Appending(s), Ready(chans),
         NEW t, NEW k \in Nat \ {0}, old + k \in DOMAIN chans, ChannelInv(i, chans, scan, <<old, s>>, t, k - 1)
  PROVE  ChannelInv(i, chans, scan, <<old, s>>, AppendChannel(t, i, old + k, chans[old + k], scan), k)
<1> DEFINE c == chans[old + k]
           outs == Kept(c.outputs)
           u == AppendChannel(t, i, old + k, c, scan)
<1>1. <<old, s>>[1] = old /\ <<old, s>>[2] = s
  OBVIOUS
<1>2. /\ Appending(t) /\ MixersGrown(s.mixers, t.mixers)
      /\ t.ok => s.ok /\ \A n \in DOMAIN s.mixers :
           t.mixers[n].inputs = s.mixers[n].inputs \union NewInputs(i, chans, old, old + (k - 1), s.mixers[n].name)
  BY <1>1, Zenon DEF ChannelInv
<1>3. SUFFICES /\ Appending(u) /\ MixersGrown(s.mixers, u.mixers)
               /\ u.ok => s.ok /\ \A n \in DOMAIN s.mixers :
                    u.mixers[n].inputs = s.mixers[n].inputs \union NewInputs(i, chans, old, old + k, s.mixers[n].name)
  BY <1>1, Zenon DEF ChannelInv
<1> DEFINE empty == outs = <<>>
<1>4. CASE t.ok /\ (~SettingsOk(c) \/ (Counts(c) /\ empty))
  <2>1. u = [ok |-> FALSE, mixers |-> t.mixers]
    BY <1>4, Zenon DEF AppendChannel, Throws
  <2>2. u.ok = FALSE /\ u.mixers = t.mixers
    BY <2>1
  <2> QED
    BY <1>2, <2>1, <2>2, Zenon DEF Appending
<1>skips. CASE ~t.ok
  <2>1. u = t
    BY <1>skips, Zenon DEF AppendChannel
  <2> QED
    BY <1>2, <1>skips, <2>1, Zenon
<1>5. CASE t.ok /\ SettingsOk(c) /\ ~Counts(c)
  <2>1. u = t
    BY <1>5, Zenon DEF AppendChannel
  <2>2. \A name : NewInputs(i, chans, old, old + k, name) = NewInputs(i, chans, old, old + (k - 1), name)
    <3> TAKE name
    <3>1. (IF Counts(c) THEN ChannelInputs(i, old + k, outs, name) ELSE {}) = {}
      BY <1>5, Zenon
    <3>2. NewInputs(i, chans, old, old + k, name) = NewInputs(i, chans, old, old + (k - 1), name)
            \union (IF Counts(c) THEN ChannelInputs(i, old + k, outs, name) ELSE {})
      BY NewInputsOneMore
    <3> HIDE DEF c, outs
    <3> QED
      BY <3>1, <3>2
  <2> QED
    BY <1>2, <2>1, <2>2, Zenon
<1>6. CASE t.ok /\ SettingsOk(c) /\ Counts(c) /\ ~empty
  <2> DEFINE connected == AppendOutputs(t, i, old + k, outs, scan)
  <2>1. u = InitOutputs(connected, c.outputs)
    BY <1>6, Zenon DEF AppendChannel
  <2>2. IsList(outs)
    <3>1. outs \in Seq(ToSet(c.outputs))
      BY KeptIs, Zenon DEF Ready, ChannelSettings
    <3>2. outs \in Seq(ToSet(outs))
      BY <3>1 DEF ToSet
    <3> QED
      BY <3>2 DEF IsList
  <2> HIDE DEF outs, u
  <2>3. /\ Appending(u) /\ MixersGrown(t.mixers, u.mixers)
        /\ u.ok => t.ok /\ \A n \in DOMAIN t.mixers :
             u.mixers[n].inputs = t.mixers[n].inputs \union ChannelInputs(i, old + k, outs, t.mixers[n].name)
    <3>1. /\ Appending(connected) /\ MixersGrown(t.mixers, connected.mixers)
          /\ connected.ok => t.ok /\ \A n \in DOMAIN t.mixers :
               connected.mixers[n].inputs = t.mixers[n].inputs \union ChannelInputs(i, old + k, outs, t.mixers[n].name)
      BY <1>2, <2>2, OutputsAppended
    <3> HIDE DEF connected
    <3>2. CASE u = connected
      BY <3>1, <3>2
    <3>3. CASE u = Throws(connected)
      <4>1. u = [ok |-> FALSE, mixers |-> connected.mixers]
        BY <3>3, Zenon DEF Throws
      <4>2. u.ok = FALSE /\ u.mixers = connected.mixers
        BY <4>1
      <4> QED
        BY <3>1, <4>1, <4>2, Zenon DEF Appending
    <3> QED
      BY <2>1, <3>2, <3>3, Zenon DEF InitOutputs
  <2>4. MixersGrown(s.mixers, u.mixers)
    BY <1>2, <2>3, GrownTwice, Zenon
  <2>5. ASSUME u.ok, NEW n \in DOMAIN s.mixers
        PROVE  u.mixers[n].inputs = s.mixers[n].inputs \union NewInputs(i, chans, old, old + k, s.mixers[n].name)
    <3> DEFINE name == s.mixers[n].name
    <3>1. n \in DOMAIN t.mixers /\ t.mixers[n].name = name
      BY <1>2, Zenon DEF MixersGrown, MixGrown
    <3>2. u.mixers[n].inputs = t.mixers[n].inputs \union ChannelInputs(i, old + k, outs, name)
      BY <2>3, <2>5, <3>1, Zenon
    <3>3. t.mixers[n].inputs = s.mixers[n].inputs \union NewInputs(i, chans, old, old + (k - 1), name)
      BY <1>2, <2>3, <2>5, Zenon
    <3>4. NewInputs(i, chans, old, old + k, name) =
            NewInputs(i, chans, old, old + (k - 1), name) \union ChannelInputs(i, old + k, outs, name)
      <4>1. Counts(chans[old + k])
        BY <1>6
      <4> HIDE DEF name
      <4> QED
        BY <4>1, NewInputsOneMore DEF outs, c
    <3> HIDE DEF name
    <3> QED
      BY <3>2, <3>3, <3>4 DEF name
  <2> QED
    BY <1>2, <2>3, <2>4, <2>5, Zenon
<1> QED
  BY <1>2, <1>4, <1>skips, <1>5, <1>6, Zenon DEF Appending

MixersFed(s, t, i, old, chans) ==
  /\ Appending(t) /\ MixersGrown(s.mixers, t.mixers)
  /\ t.ok => \A n \in DOMAIN s.mixers :
       t.mixers[n].inputs = s.mixers[n].inputs \union NewInputs(i, chans, old, Len(chans), s.mixers[n].name)

LEMMA ChannelsAppended ==
  ASSUME NEW i, NEW old \in Nat, NEW chans, NEW scan, Ready(chans), old <= Len(chans), NEW s, Appending(s)
  PROVE  MixersFed(s, AppendChannels(s, i, old, chans, scan), i, old, chans)
<1> DEFINE t == AppendChannels(s, i, old, chans, scan)
           len == Len(chans)
           seq == Indices(old, len)
           p == <<old, s>>
<1>1. len \in Nat /\ DOMAIN chans = 1 .. len
  BY ListFacts DEF Ready
<1>2. Len(seq) = len - old /\ len - old \in Nat /\ DOMAIN seq = 1 .. len - old /\ \A k \in 1 .. len - old : seq[k] = old + k
  BY <1>1, IndicesAre, Zenon
<1>3. p[1] = old /\ p[2] = s
  OBVIOUS
<1> HIDE DEF seq, p
<1>4. t = OfChannels!Fold(i, chans, scan, p, s, seq)
  BY Zenon DEF AppendChannels, seq, ChannelStep, OfChannels!Fold, OfChannels!FoldLeft, FoldLeft, MapThenFoldSet, OfChannels!MapThenFoldSet, Max, OfChannels!Max
<1>5. ChannelInv(i, chans, scan, p, s, 0)
  <2>1. MixersGrown(s.mixers, s.mixers)
    BY GrownNot, Zenon DEF Appending
  <2>2. \A name : NewInputs(i, chans, old, old + 0, name) = {}
    <3>1. \A j : j \notin old + 1 .. old + 0
      OBVIOUS
    <3> QED
      BY <3>1, NewAre
  <2>3. \A n \in DOMAIN s.mixers : s.mixers[n].inputs = s.mixers[n].inputs \union NewInputs(i, chans, old, old + 0, s.mixers[n].name)
    BY <2>2
  <2> QED
    BY <1>3, <2>1, <2>3, Zenon DEF ChannelInv
<1>6. ASSUME NEW u, NEW k \in DOMAIN seq, ChannelInv(i, chans, scan, p, u, k - 1)
      PROVE  ChannelInv(i, chans, scan, p, ChannelStep(i, chans, scan, p, u, seq[k]), k)
  <2>1. k \in Nat \ {0} /\ old + k \in DOMAIN chans /\ seq[k] = old + k
    BY <1>1, <1>2
  <2> QED
    BY <1>6, <2>1, ChannelAppended, Zenon DEF ChannelStep, p
<1> HIDE DEF t
<1>7. ChannelInv(i, chans, scan, p, t, Len(seq))
  BY ONLY <1>1, <1>2, <1>4, <1>5, <1>6, OfChannels!FoldKeeps
<1>8. old + Len(seq) = len
  BY <1>1, <1>2
<1> QED
  BY <1>3, <1>7, <1>8, Zenon DEF ChannelInv, MixersFed, t

-----------------------------------------------------------------------------
(* What an edit of device i leaves alone.                                  *)

SameMixers(a, b) == DOMAIN b = DOMAIN a /\ \A n \in DOMAIN a : b[n].name = a[n].name /\ b[n].remote = a[n].remote
RunFrame(r, r2, i) ==
  /\ RunOk(r2) /\ DOMAIN r2.devices = DOMAIN r.devices
  /\ \A h \in DOMAIN r.devices : h # i => r2.devices[h] = r.devices[h]
  /\ r2.devices[i] = [r.devices[i] EXCEPT !.channels = r2.devices[i].channels]
  /\ SameMixers(r.mixers, r2.mixers)

LEMMA RunningIs ==
  ASSUME NEW devs, NEW mix, NEW r, r = Running(devs, mix)
  PROVE  r.devices = devs /\ r.mixers = mix /\ r = Running(r.devices, r.mixers)
BY DEF Running

LEMMA FrameTwice ==
  ASSUME NEW a, NEW b, NEW c, NEW i \in DOMAIN a.devices, RunFrame(a, b, i), RunFrame(b, c, i)
  PROVE  RunFrame(a, c, i)
<1>1. RunOk(c) /\ DOMAIN c.devices = DOMAIN a.devices /\ \A h \in DOMAIN a.devices : h # i => c.devices[h] = a.devices[h]
  BY Zenon DEF RunFrame
<1>2. c.devices[i] = [a.devices[i] EXCEPT !.channels = c.devices[i].channels]
  <2>1. /\ b.devices[i] = [a.devices[i] EXCEPT !.channels = b.devices[i].channels]
        /\ c.devices[i] = [b.devices[i] EXCEPT !.channels = c.devices[i].channels]
    BY Zenon DEF RunFrame
  <2> QED
    BY ONLY <2>1
<1>3. SameMixers(a.mixers, c.mixers)
  BY Zenon DEF RunFrame, SameMixers
<1> QED
  BY <1>1, <1>2, <1>3, Zenon DEF RunFrame

LEMMA FrameNot ==
  ASSUME NEW r, NEW i \in DOMAIN r.devices, RunOk(r)
  PROVE  RunFrame(r, r, i)
<1>1. r.devices[i] = [r.devices[i] EXCEPT !.channels = r.devices[i].channels]
  <2> DEFINE d == r.devices[i]
  <2>1. HasFields(d, DeviceFields)
    BY Zenon DEF RunOk, DevicesOk, DevOk
  <2> HIDE DEF d
  <2>3. [d EXCEPT !.channels = d.channels] = d
    BY ONLY <2>1 DEF HasFields, DeviceFields
  <2> QED
    BY <2>3 DEF d
<1> QED
  BY <1>1, Zenon DEF RunFrame, SameMixers

LEMMA OneReplaced ==
  ASSUME NEW s, IsList(s), NEW i \in DOMAIN s, NEW x, NEW t, t = [s EXCEPT ![i] = x]
  PROVE  IsList(t) /\ DOMAIN t = DOMAIN s /\ t[i] = x /\ \A h \in DOMAIN s : h # i => t[h] = s[h]
<1>1. Len(s) \in Nat /\ DOMAIN s = 1 .. Len(s)
  BY ListFacts
<1>2. DOMAIN t = DOMAIN s /\ t[i] = x /\ \A h \in DOMAIN s : h # i => t[h] = s[h]
  OBVIOUS
<1>3. t = [k \in 1 .. Len(s) |-> t[k]]
  BY <1>1
<1> QED
  BY <1>1, <1>2, <1>3, MadeList, Zenon

LEMMA Mapped ==
  ASSUME NEW s, IsList(s), NEW t, t = [k \in DOMAIN s |-> t[k]]
  PROVE  IsList(t) /\ DOMAIN t = DOMAIN s
<1>1. Len(s) \in Nat /\ DOMAIN s = 1 .. Len(s)
  BY ListFacts
<1>2. t = [k \in 1 .. Len(s) |-> t[k]]
  BY <1>1
<1> QED
  BY <1>1, <1>2, MadeList

WithChannels(devs, i, chans) == [devs EXCEPT ![i].channels = chans]
DevFrame(devs, devs2, i) ==
  /\ DevicesOk(devs2) /\ DOMAIN devs2 = DOMAIN devs /\ \A h \in DOMAIN devs : h # i => devs2[h] = devs[h]
  /\ devs2[i] = [devs[i] EXCEPT !.channels = devs2[i].channels]

LEMMA ChannelsReplaced ==
  ASSUME NEW devs, DevicesOk(devs), NEW i \in DOMAIN devs,
         NEW chans, IsList(chans), Len(chans) <= devs[i].capacity, \A j \in DOMAIN chans : ChanOk(chans[j])
  PROVE  DevFrame(devs, WithChannels(devs, i, chans), i) /\ WithChannels(devs, i, chans)[i].channels = chans
<1> DEFINE devs2 == WithChannels(devs, i, chans)
           d == devs[i]
           e == [d EXCEPT !.channels = chans]
<1>1. DevOk(d)
  BY Zenon DEF DevicesOk
<1>2. devs2 = [devs EXCEPT ![i] = e]
  BY DEF WithChannels
<1> HIDE DEF devs2
<1>3. IsList(devs2) /\ DOMAIN devs2 = DOMAIN devs /\ devs2[i] = e /\ \A h \in DOMAIN devs : h # i => devs2[h] = devs[h]
  <2>1. IsList(devs)
    BY Zenon DEF DevicesOk
  <2> HIDE DEF e
  <2> QED
    BY ONLY <1>2, <2>1, i \in DOMAIN devs, OneReplaced
<1>4. HasFields(e, DeviceFields) /\ e.channels = chans /\ e = [d EXCEPT !.channels = e.channels]
  <2>1. HasFields(d, DeviceFields) /\ "channels" \in DeviceFields
    BY <1>1 DEF DevOk, DeviceFields
  <2> HIDE DEF d
  <2>2. DOMAIN d = DeviceFields
    BY <2>1 DEF HasFields
  <2>3. e.channels = chans
    BY ONLY <2>1, <2>2
  <2>4. HasFields(e, DeviceFields)
    BY ONLY <2>1, <2>2 DEF HasFields
  <2> QED
    BY <2>3, <2>4
<1>5. DevOk(e)
  <2>1. e.capacity = d.capacity /\ e.auto_ppm = d.auto_ppm /\ e.min_voters = d.min_voters /\ e.base = d.base
    <3> HIDE DEF d
    <3> QED
      BY <1>1 DEF DevOk, HasFields, DeviceFields
  <2>2. PpmOk(e)
    BY <1>1, <2>1, Zenon DEF DevOk, PpmOk
  <2> HIDE DEF e
  <2> QED
    BY <1>1, <1>4, <2>1, <2>2, Zenon DEF DevOk
<1> HIDE DEF e
<1>6. DevicesOk(devs2)
  BY <1>3, <1>5, Zenon DEF DevicesOk
<1> QED
  BY <1>3, <1>4, <1>6, Zenon DEF DevFrame, devs2

SameNames(m, n) == Fits(n) /\ n.name = m.name /\ n.remote = m.remote

LEMMA MaskedOne ==
  ASSUME NEW m, Fits(m), NEW gone, NEW forever \in BOOLEAN, NEW n, n = Masked(m, gone, forever)
  PROVE  SameNames(m, n) /\ n.inputs = IF forever THEN m.inputs \ gone ELSE m.inputs
<1>1. CASE gone = {}
  <2>1. n = m
    BY <1>1, Zenon DEF Masked
  <2> QED
    BY <1>1, <2>1 DEF SameNames
<1>2. CASE gone # {}
  <2> DEFINE inputs == IF forever THEN m.inputs \ gone ELSE m.inputs
             k == [m EXCEPT !.live = m.live \ gone, !.inputs = inputs]
  <2>1. n = [k EXCEPT !.enabled = k.enabled /\ HasInput(k)]
    BY <1>2, Zenon DEF Masked
  <2>2. m = [x \in MixerFields |-> m[x]] /\ DOMAIN m = MixerFields
    BY DEF Fits, HasFields
  <2> HIDE DEF inputs
  <2>3. n = [x \in MixerFields |-> n[x]]
    BY ONLY <2>1, <2>2
  <2>4. n.name = m.name /\ n.remote = m.remote /\ n.lost = m.lost /\ n.capacity = m.capacity /\ n.inputs = inputs /\ n.live = m.live \ gone
    BY ONLY <2>1, <2>2 DEF MixerFields
  <2>5. /\ m.remote \in Nat /\ m.lost \in Nat /\ m.capacity \in Nat /\ IsFiniteSet(m.inputs) /\ m.live \subseteq m.inputs
        /\ Cardinality(m.inputs) + m.lost + m.remote <= m.capacity
    BY DEF Fits
  <2>6. inputs \in SUBSET m.inputs
    BY DEF inputs
  <2>7. m.live \ gone \subseteq inputs
    BY <2>5 DEF inputs
  <2>8. IsFiniteSet(inputs) /\ Cardinality(inputs) \in Nat /\ Cardinality(m.inputs) \in Nat /\ Cardinality(inputs) <= Cardinality(m.inputs)
    BY <2>5, <2>6, FS_Subset, FS_CardinalityType, Zenon
  <2>9. Cardinality(inputs) + m.lost + m.remote <= m.capacity
    BY ONLY <2>5, <2>8
  <2>10. Fits(n)
    BY ONLY <2>3, <2>4, <2>5, <2>7, <2>8, <2>9, Zenon DEF Fits, HasFields
  <2> QED
    BY ONLY <2>4, <2>10 DEF inputs, SameNames
<1> QED
  BY <1>1, <1>2

LEMMA MaskedIs ==
  ASSUME NEW m, Fits(m), NEW gone
  PROVE  /\ SameNames(m, Masked(m, gone, TRUE)) /\ Masked(m, gone, TRUE).inputs = m.inputs \ gone
         /\ SameNames(m, Masked(m, gone, FALSE)) /\ Masked(m, gone, FALSE).inputs = m.inputs
<1>1. ASSUME NEW forever \in BOOLEAN
      PROVE  /\ SameNames(m, Masked(m, gone, forever))
             /\ Masked(m, gone, forever).inputs = IF forever THEN m.inputs \ gone ELSE m.inputs
  BY MaskedOne, Zenon
<1>2. TRUE \in BOOLEAN /\ FALSE \in BOOLEAN
  OBVIOUS
<1> QED
  BY <1>1, <1>2, Zenon

LEMMA Removed ==
  ASSUME NEW r, RunOk(r), NEW i \in DOMAIN r.devices, NEW keep \in Nat, keep <= Len(r.devices[i].channels),
         NEW r2, r2 = try_remove_channels(r, i, keep)
  PROVE  RunFrame(r, r2, i) /\ r2.devices[i].channels = [j \in 1 .. keep |-> r.devices[i].channels[j]]
<1> DEFINE ds == r.devices
           old == ds[i].channels
           cs == [j \in 1 .. keep |-> old[j]]
           ds2 == WithChannels(ds, i, cs)
           left(mx) == {x \in mx.inputs : x.dev = i /\ x.chan > keep}
           mix == [n \in DOMAIN r.mixers |-> Masked(r.mixers[n], left(r.mixers[n]), TRUE)]
<1>1. r2 = Running(ds2, mix)
  BY Zenon DEF try_remove_channels, WithChannels
<1>2. DevicesOk(ds) /\ MixersOk(r.mixers) /\ Fed(r.mixers, ds) /\ DevOk(ds[i])
  BY Zenon DEF RunOk, DevicesOk
<1>0. keep <= Len(old) /\ i \in DOMAIN ds
  OBVIOUS
<1>3. Len(old) \in Nat /\ DOMAIN old = 1 .. Len(old) /\ Len(old) <= ds[i].capacity /\ ds[i].capacity \in Nat
      /\ \A j \in DOMAIN old : ChanOk(old[j])
  BY <1>2, ListFacts, Zenon DEF DevOk
<1>4. IsList(cs) /\ Len(cs) = keep /\ DOMAIN cs = 1 .. keep
  <2>1. cs = [j \in 1 .. keep |-> cs[j]]
    BY Zenon
  <2> HIDE DEF cs
  <2> QED
    BY <2>1, MadeList, Zenon
<1>5. Len(cs) <= ds[i].capacity /\ \A j \in DOMAIN cs : j \in DOMAIN old /\ cs[j] = old[j] /\ ChanOk(cs[j])
  <2>1. \A j \in 1 .. keep : j \in 1 .. Len(old)
    BY <1>3
  <2>2. keep <= ds[i].capacity
    <3> HIDE DEF old, ds
    <3> QED
      BY <1>0, <1>3
  <2>3. \A j \in 1 .. keep : cs[j] = old[j]
    BY Zenon
  <2> HIDE DEF cs
  <2> QED
    BY <1>3, <1>4, <2>1, <2>2, <2>3, Zenon
<1> HIDE DEF cs
<1>6. DevFrame(ds, ds2, i) /\ ds2[i].channels = cs
  <2>1. DevicesOk(ds) /\ i \in DOMAIN ds /\ IsList(cs) /\ Len(cs) <= ds[i].capacity /\ \A j \in DOMAIN cs : ChanOk(cs[j])
    BY <1>2, <1>4, <1>5
  <2> HIDE DEF ds
  <2> QED
    BY ONLY <2>1, ChannelsReplaced, Zenon
<1> HIDE DEF ds2, ds
<1>7. ASSUME NEW name PROVE OwnedInputs(ds2, name) = OwnedInputs(ds, name) \ {x \in OwnedInputs(ds, name) : x.dev = i /\ x.chan > keep}
  <2>1. DOMAIN ds[i].channels \subseteq Nat
    BY <1>3
  <2>2. \A j : j \in DOMAIN ds2[i].channels <=> j \in DOMAIN ds[i].channels /\ ~(j > keep)
    BY <1>0, <1>3, <1>4, <1>6
  <2>3. \A j \in DOMAIN ds2[i].channels : ds2[i].channels[j] = ds[i].channels[j]
    BY <1>5, <1>6, Zenon
  <2> HIDE DEF old
  <2> QED
    BY <1>0, <1>6, <2>1, <2>2, <2>3, OwnedCut DEF DevFrame
<1>8. ASSUME NEW n \in DOMAIN r.mixers
      PROVE  /\ Fits(mix[n]) /\ mix[n].name = r.mixers[n].name /\ mix[n].remote = r.mixers[n].remote
             /\ mix[n].inputs = OwnedInputs(ds2, mix[n].name)
  <2> DEFINE mx == r.mixers[n]
  <2>1. Fits(mx) /\ mx.inputs = OwnedInputs(ds, mx.name)
    BY <1>2, Zenon DEF MixersOk, Fed
  <2>2. mix[n] = Masked(mx, left(mx), TRUE)
    BY Zenon
  <2> HIDE DEF mix, mx, left
  <2>3. /\ SameNames(mx, mix[n])
        /\ mix[n].inputs = mx.inputs \ left(mx)
    <3>1. Fits(mx)
      BY <2>1
    <3>2. SameNames(mx, Masked(mx, left(mx), TRUE)) /\ Masked(mx, left(mx), TRUE).inputs = mx.inputs \ left(mx)
      BY ONLY <3>1, MaskedIs, Zenon
    <3> QED
      BY ONLY <2>2, <3>2, Zenon
  <2>4. mx.inputs \ left(mx) = OwnedInputs(ds2, mx.name)
    BY <1>7, <2>1, Zenon DEF left
  <2> QED
    BY <2>3, <2>4, Zenon DEF mx, SameNames
<1>9. MixersOk(mix) /\ Fed(mix, ds2) /\ SameMixers(r.mixers, mix)
  <2>1. IsList(mix) /\ DOMAIN mix = DOMAIN r.mixers
    <3>1. mix = [n \in DOMAIN r.mixers |-> mix[n]]
      BY Zenon
    <3> HIDE DEF mix
    <3> QED
      BY <1>2, <3>1, Mapped DEF MixersOk
  <2> HIDE DEF mix
  <2> QED
    BY <1>2, <1>8, <2>1, Zenon DEF MixersOk, Fed, SameMixers, DistinctNames
<1> HIDE DEF mix
<1>10. r2.devices = ds2 /\ r2.mixers = mix /\ r2 = Running(r2.devices, r2.mixers)
  BY <1>1, RunningIs
<1> QED
  BY <1>6, <1>9, <1>10, Zenon DEF RunFrame, RunOk, DevFrame, ds, cs

-----------------------------------------------------------------------------
(* try_append_channels().                                                   *)

Followed(c) == "enabled" \in DOMAIN Signature(c) /\ Signature(c).outputs = c.outputs

LEMMA SignatureIs ==
  ASSUME NEW c, ChannelSettings(c)
  PROVE  Followed(c) /\ Signature(c) # NoSignature
<1>1. DOMAIN Signature(c) = DOMAIN c /\ Signature(c).outputs = c.outputs
  BY DEF Signature, ChannelSettings
<1>2. "enabled" \in DOMAIN Signature(c)
  BY <1>1 DEF ChannelSettings
<1>3. "enabled" \notin DOMAIN NoSignature
  BY DEF NoSignature
<1> QED
  BY <1>1, <1>2, <1>3, Zenon DEF Followed

LEMMA KeptList ==
  ASSUME NEW s, IsList(s)
  PROVE  IsList(Kept(s)) /\ \A n \in DOMAIN Kept(s) : \E q \in DOMAIN s : Kept(s)[n] = s[q]
<1> DEFINE t == Kept(s)
<1>1. t \in Seq(ToSet(s))
  BY KeptIs, Zenon
<1> HIDE DEF t
<1>2. t \in Seq(ToSet(t)) /\ \A n \in DOMAIN t : t[n] \in ToSet(s)
  BY <1>1 DEF ToSet
<1> QED
  BY <1>2 DEF IsList, ToSet, t

LEMMA ParsedIs ==
  ASSUME NEW c, ChannelSettings(c)
  PROVE  ChanOk(Parsed(c)) /\ ChanOk(HalfParsed(c)) /\ Parsed(c).outputs = Kept(c.outputs) /\ HalfParsed(c).outputs = <<>>
<1>1. IsList(Kept(c.outputs)) /\ IsList(<<>>)
  <2>1. IsList(<<>>)
    BY DEF IsList
  <2> QED
    BY <2>1, KeptList, Zenon DEF ChannelSettings
<1>2. ChanOk(Parsed(c)) /\ Parsed(c).outputs = Kept(c.outputs)
  <2> DEFINE p == [signature |-> Signature(c), enabled |-> c.enabled, outputs |-> Kept(c.outputs)]
  <2>1. Signature(c).outputs = c.outputs
    BY SignatureIs, Zenon DEF Followed
  <2>2. p.outputs = Kept(c.outputs) /\ p.signature = Signature(c) /\ p = [signature |-> p.signature, enabled |-> p.enabled, outputs |-> p.outputs]
    OBVIOUS
  <2>3. Parsed(c) = p
    BY Zenon DEF Parsed
  <2> HIDE DEF p
  <2>4. ChanOk(p)
    BY <1>1, <2>1, <2>2, Zenon DEF ChanOk
  <2> QED
    BY <2>2, <2>3, <2>4, Zenon
<1>3. ChanOk(HalfParsed(c)) /\ HalfParsed(c).outputs = <<>>
  <2> DEFINE p == HalfParsed(c)
  <2>1. p.outputs = <<>> /\ p.signature = NoSignature /\ p = [signature |-> p.signature, enabled |-> p.enabled, outputs |-> p.outputs]
    BY DEF HalfParsed
  <2> HIDE DEF p
  <2>2. ChanOk(p)
    BY <1>1, <2>1, Zenon DEF ChanOk
  <2> QED
    BY <2>1, <2>2, Zenon DEF p
<1> QED
  BY <1>2, <1>3

(* What is published of a file's channels old + 1 .. Len(chans).            *)
PublishedAre(before, after, old, chans) ==
  /\ old <= Len(after) /\ \A j \in 1 .. old : after[j] = before[j]
  /\ (\A j \in DOMAIN chans : Counts(chans[j])) =>
       Len(after) = Len(chans) /\ \A j \in old + 1 .. Len(chans) : after[j] = Parsed(chans[j])

LEMMA AppendedOk ==
  ASSUME NEW r, RunOk(r), NEW i \in DOMAIN r.devices, NEW chans, Ready(chans),
         NEW old \in Nat, old = Len(r.devices[i].channels), old <= Len(chans), Len(chans) <= r.devices[i].capacity,
         NEW s, s = AppendChannels([ok |-> TRUE, mixers |-> r.mixers], i, old, chans, Scans(r.devices[i])), s.ok,
         NEW a, a = try_append_channels(r, i, old, chans)
  PROVE  a.ok = TRUE /\ RunFrame(r, a.r, i) /\ PublishedAre(r.devices[i].channels, a.r.devices[i].channels, old, chans)
<1> DEFINE ds == r.devices
           before == ds[i].channels
           s0 == [ok |-> TRUE, mixers |-> r.mixers]
           counted == {j \in DOMAIN chans : j > old /\ Counts(chans[j])}
           count == Max({old} \union counted)
           Published(j) == IF j <= old THEN before[j] ELSE IF Counts(chans[j]) THEN Parsed(chans[j]) ELSE HalfParsed(chans[j])
           cs == [j \in 1 .. count |-> Published(j)]
           ds2 == WithChannels(ds, i, cs)
           len == Len(chans)
<1>1. a.ok = TRUE /\ a.r = Running(ds2, s.mixers)
  <2>1. a = [ok |-> TRUE, r |-> Running(ds2, s.mixers)]
    BY Zenon DEF try_append_channels, WithChannels
  <2> HIDE DEF ds2
  <2> QED
    BY ONLY <2>1
<1>2. DevicesOk(ds) /\ MixersOk(r.mixers) /\ Fed(r.mixers, ds) /\ DevOk(ds[i]) /\ i \in DOMAIN ds
  BY Zenon DEF RunOk, DevicesOk
<1>3. len \in Nat /\ DOMAIN chans = 1 .. len /\ \A j \in DOMAIN chans : ChannelSettings(chans[j])
  BY ListFacts, Zenon DEF Ready
<1>4. DOMAIN before = 1 .. old /\ \A j \in DOMAIN before : ChanOk(before[j])
  BY <1>2, ListFacts, Zenon DEF DevOk
<1>5. count \in old .. len /\ \A j \in counted : j <= count
  <2> DEFINE S == {old} \union counted
  <2>1. S \subseteq 0 .. len /\ S # {}
    BY <1>3
  <2>2. \A x \in S : x >= old /\ x <= len
    BY <1>3
  <2>3. old \in S /\ counted \subseteq S
    OBVIOUS
  <2> HIDE DEF S
  <2>4. Max(S) \in S /\ \A x \in S : x <= Max(S)
    BY <1>3, <2>1, MaxOf
  <2>5. count = Max(S)
    BY Zenon DEF S
  <2> HIDE DEF count, counted
  <2>6. count \in S /\ (\A x \in S : x <= count) /\ count \in Nat
    <3>1. count \in S /\ \A x \in S : x <= count
      BY <2>4, <2>5, Zenon
    <3>2. count \in 0 .. len
      BY <2>1, <3>1, Zenon
    <3> QED
      BY ONLY <1>3, <3>1, <3>2
  <2>7. count >= old /\ count <= len
    BY <2>2, <2>6, Zenon
  <2>8. \A j \in counted : j <= count
    BY <2>3, <2>6, Zenon
  <2> QED
    BY ONLY old \in Nat, <1>3, <2>6, <2>7, <2>8
<1>6. Appending(s0) /\ s0.mixers = r.mixers
  BY <1>2 DEF Appending
<1>7. /\ Appending(s) /\ MixersGrown(r.mixers, s.mixers)
      /\ \A n \in DOMAIN r.mixers : s.mixers[n].inputs = r.mixers[n].inputs \union NewInputs(i, chans, old, len, r.mixers[n].name)
  <2> HIDE DEF s0
  <2>1. s = AppendChannels(s0, i, old, chans, Scans(r.devices[i]))
    BY Zenon DEF s0
  <2>2. old <= len /\ old \in Nat /\ Ready(chans) /\ s.ok
    OBVIOUS
  <2>3. MixersFed(s0, AppendChannels(s0, i, old, chans, Scans(r.devices[i])), i, old, chans)
    BY ONLY <1>6, <2>2, ChannelsAppended, Zenon
  <2> QED
    BY <1>6, <2>1, <2>2, <2>3, Zenon DEF MixersFed
<1> HIDE DEF count, counted, len
<1>8. ASSUME NEW j \in 1 .. count
      PROVE  /\ ChanOk(Published(j))
             /\ j \in 1 .. old => Published(j) = before[j]
             /\ j \in old + 1 .. count => Published(j).outputs = IF Counts(chans[j]) THEN Kept(chans[j].outputs) ELSE <<>>
  <2>1. CASE j <= old
    <3>1. j \in 1 .. old /\ j \notin old + 1 .. count
      BY <1>5, <2>1
    <3>2. Published(j) = before[j]
      BY <2>1, Zenon
    <3> HIDE DEF Published
    <3> QED
      BY <1>4, <3>1, <3>2, Zenon
  <2>2. CASE ~(j <= old)
    <3>1. j \notin 1 .. old /\ ChannelSettings(chans[j])
      BY <1>3, <1>5, <2>2
    <3> QED
      BY <2>2, <3>1, ParsedIs, Zenon
  <2> QED
    BY <2>1, <2>2
<1>9. IsList(cs) /\ Len(cs) = count /\ DOMAIN cs = 1 .. count /\ count \in Nat
  <2>1. cs = [j \in 1 .. count |-> cs[j]] /\ count \in Nat
    BY <1>5
  <2> HIDE DEF cs
  <2> QED
    BY <2>1, MadeList
<1>10. \A j \in 1 .. count : cs[j] = Published(j)
  BY Zenon
<1> HIDE DEF cs
<1>11. DevFrame(ds, ds2, i) /\ ds2[i].channels = cs
  <2>1. Len(cs) <= ds[i].capacity
    BY <1>2, <1>3, <1>5, <1>9 DEF DevOk, len
  <2>2. \A j \in DOMAIN cs : ChanOk(cs[j])
    BY <1>8, <1>9, <1>10, Zenon
  <2> HIDE DEF ds
  <2> QED
    BY ONLY <1>2, <1>9, <2>1, <2>2, ChannelsReplaced, Zenon
<1> HIDE DEF ds2
<1>12. ASSUME NEW name PROVE OwnedInputs(ds2, name) = OwnedInputs(ds, name) \union NewInputs(i, chans, old, len, name)
  <2>1. DOMAIN ds2 = DOMAIN ds /\ \A h \in DOMAIN ds : h # i => ds2[h] = ds[h]
    BY <1>11, Zenon DEF DevFrame
  <2>2. DOMAIN ds[i].channels = 1 .. old /\ DOMAIN ds2[i].channels = 1 .. count
    BY <1>4, <1>9, <1>11, Zenon
  <2>3. old <= count /\ count <= len /\ count \in Nat
    BY <1>3, <1>5
  <2>4. (\A j \in 1 .. old : j \in 1 .. count) /\ \A j \in old + 1 .. count : j \in 1 .. count
    BY <2>3
  <2>5. \A j \in 1 .. old : ds2[i].channels[j] = ds[i].channels[j]
    BY <1>8, <1>10, <1>11, <2>4, Zenon
  <2>6. \A j \in old + 1 .. count : ds2[i].channels[j].outputs = IF Counts(chans[j]) THEN Kept(chans[j].outputs) ELSE <<>>
    <3> HIDE DEF Published
    <3> QED
      BY <1>8, <1>10, <1>11, <2>4, Zenon
  <2>7. \A j \in old + 1 .. len : Counts(chans[j]) => j <= count
    <3>1. \A j \in old + 1 .. len : Counts(chans[j]) => j \in counted
      BY <1>3 DEF counted
    <3> QED
      BY <1>5, <3>1, Zenon
  <2> HIDE DEF ds, before, Published
  <2> QED
    <3>1. old \in Nat /\ count \in Nat /\ len \in Nat
      BY <1>3, <2>3
    <3>2. ChannelsAdded(ds, ds2, i, chans, old, count, len)
      BY ONLY <1>2, <3>1, <2>1, <2>2, <2>3, <2>5, <2>6, <2>7, Zenon DEF ChannelsAdded
    <3> QED
      BY ONLY <3>2, OwnedGrown
<1>13. MixersOk(s.mixers) /\ Fed(s.mixers, ds2) /\ SameMixers(r.mixers, s.mixers)
  <2>1. MixersOk(s.mixers)
    BY <1>7, Zenon DEF Appending
  <2>2. SameMixers(r.mixers, s.mixers)
    BY <1>7, Zenon DEF MixersGrown, MixGrown, SameMixers
  <2>3. ASSUME NEW n \in DOMAIN s.mixers PROVE s.mixers[n].inputs = OwnedInputs(ds2, s.mixers[n].name)
    <3>1. n \in DOMAIN r.mixers /\ s.mixers[n].name = r.mixers[n].name
      BY <2>2, Zenon DEF SameMixers
    <3>2. r.mixers[n].inputs = OwnedInputs(ds, r.mixers[n].name)
      BY <1>2, <3>1, Zenon DEF Fed
    <3> HIDE DEF ds
    <3>3. s.mixers[n].inputs = r.mixers[n].inputs \union NewInputs(i, chans, old, len, r.mixers[n].name)
      BY <1>7, <3>1, Zenon
    <3>4. OwnedInputs(ds2, r.mixers[n].name) = OwnedInputs(ds, r.mixers[n].name) \union NewInputs(i, chans, old, len, r.mixers[n].name)
      BY <1>12, Zenon
    <3> QED
      BY <3>1, <3>2, <3>3, <3>4
  <2> QED
    BY <2>1, <2>2, <2>3, Zenon DEF Fed
<1>14. PublishedAre(before, cs, old, chans)
  <2>1. old <= Len(cs) /\ \A j \in 1 .. old : j \in 1 .. count
    BY <1>5, <1>9
  <2>2. \A j \in 1 .. old : cs[j] = before[j]
    BY <1>8, <1>10, <2>1, Zenon
  <2>3. ASSUME \A j \in DOMAIN chans : Counts(chans[j])
        PROVE  Len(cs) = len /\ \A j \in old + 1 .. len : cs[j] = Parsed(chans[j])
    <3>1. count = len
      <4>1. CASE old = len
        BY <1>3, <1>5, <4>1
      <4>2. CASE old # len
        <5>1. len \in DOMAIN chans /\ len > old
          BY <1>3, <4>2 DEF len
        <5>2. len \in counted
          BY <2>3, <5>1, Zenon DEF counted
        <5> QED
          BY <1>3, <1>5, <5>2
      <4> QED
        BY <4>1, <4>2
    <3>2. \A j \in old + 1 .. len : j \in 1 .. count /\ ~(j <= old) /\ j \in DOMAIN chans
      BY <1>3, <3>1
    <3> QED
      BY <1>9, <1>10, <2>3, <3>1, <3>2, Zenon
  <2> QED
    BY <2>1, <2>2, <2>3, Zenon DEF PublishedAre, len
<1>15. a.r.devices = ds2 /\ a.r.mixers = s.mixers /\ a.r = Running(a.r.devices, a.r.mixers)
  BY ONLY <1>1, RunningIs
<1>16. RunFrame(r, a.r, i)
  BY <1>11, <1>13, <1>15, Zenon DEF RunFrame, RunOk, DevFrame
<1> QED
  BY <1>1, <1>11, <1>14, <1>15, <1>16, Zenon

NoneAdded(r, a, i) == a.ok = FALSE /\ a.r.devices = r.devices /\ RunFrame(r, a.r, i)

LEMMA AppendedNot ==
  ASSUME NEW r, RunOk(r), NEW i \in DOMAIN r.devices, NEW chans, Ready(chans), NEW old \in Nat, old <= Len(chans),
         ~AppendChannels([ok |-> TRUE, mixers |-> r.mixers], i, old, chans, Scans(r.devices[i])).ok
  PROVE  NoneAdded(r, try_append_channels(r, i, old, chans), i)
<1> DEFINE s == AppendChannels([ok |-> TRUE, mixers |-> r.mixers], i, old, chans, Scans(r.devices[i]))
           a == try_append_channels(r, i, old, chans)
           s0 == [ok |-> TRUE, mixers |-> r.mixers]
           more(n) == Cardinality(s.mixers[n].inputs) - Cardinality(r.mixers[n].inputs)
           mix == [n \in DOMAIN r.mixers |-> [r.mixers[n] EXCEPT !.lost = @ + more(n), !.enabled = s.mixers[n].enabled]]
<1>1. a.ok = FALSE /\ a.r = Running(r.devices, mix)
  <2>1. a = [ok |-> FALSE, r |-> Running(r.devices, mix)]
    BY Zenon DEF try_append_channels
  <2> HIDE DEF mix, a
  <2> QED
    BY ONLY <2>1
<1> HIDE DEF a
<1>2. DevicesOk(r.devices) /\ MixersOk(r.mixers) /\ Fed(r.mixers, r.devices)
  BY Zenon DEF RunOk
<1>3. MixersGrown(r.mixers, s.mixers)
  <2>1. Appending(s0) /\ s0.mixers = r.mixers
    BY <1>2 DEF Appending
  <2> HIDE DEF s0
  <2>2. s = AppendChannels(s0, i, old, chans, Scans(r.devices[i]))
    BY Zenon DEF s0
  <2>3. old <= Len(chans) /\ old \in Nat /\ Ready(chans)
    OBVIOUS
  <2>4. MixersFed(s0, AppendChannels(s0, i, old, chans, Scans(r.devices[i])), i, old, chans)
    BY ONLY <2>1, <2>3, ChannelsAppended, Zenon
  <2> QED
    BY <2>1, <2>2, <2>4, Zenon DEF MixersFed
<1>4. ASSUME NEW n \in DOMAIN r.mixers PROVE SameNames(r.mixers[n], mix[n]) /\ mix[n].inputs = r.mixers[n].inputs
  <2> DEFINE m == r.mixers[n]
             k == s.mixers[n]
             q == mix[n]
  <2>1. Fits(m) /\ MixGrown(m, k)
    BY <1>2, <1>3, Zenon DEF MixersOk, MixersGrown
  <2>2. q = [m EXCEPT !.lost = @ + (Cardinality(k.inputs) - Cardinality(m.inputs)), !.enabled = k.enabled]
    BY Zenon
  <2> HIDE DEF m, k, q
  <2>3. m = [x \in MixerFields |-> m[x]] /\ DOMAIN m = MixerFields
    BY <2>1 DEF Fits, HasFields
  <2>4. q = [x \in MixerFields |-> q[x]]
    BY ONLY <2>2, <2>3
  <2>5. /\ q.name = m.name /\ q.remote = m.remote /\ q.inputs = m.inputs /\ q.live = m.live /\ q.capacity = m.capacity
        /\ q.lost = m.lost + (Cardinality(k.inputs) - Cardinality(m.inputs))
    BY ONLY <2>2, <2>3 DEF MixerFields
  <2>6. /\ m.remote \in Nat /\ m.lost \in Nat /\ m.capacity \in Nat /\ IsFiniteSet(m.inputs) /\ m.live \subseteq m.inputs
    BY <2>1 DEF Fits
  <2>7. IsFiniteSet(k.inputs) /\ m.inputs \in SUBSET k.inputs /\ Cardinality(k.inputs) + m.lost + m.remote <= m.capacity
    BY <2>1 DEF Fits, MixGrown
  <2>8. Cardinality(m.inputs) \in Nat /\ Cardinality(k.inputs) \in Nat /\ Cardinality(m.inputs) <= Cardinality(k.inputs)
    BY <2>6, <2>7, FS_Subset, FS_CardinalityType, Zenon
  <2>9. q.lost \in Nat /\ Cardinality(q.inputs) + q.lost + q.remote <= q.capacity
    BY ONLY <2>5, <2>6, <2>7, <2>8
  <2>10. Fits(q)
    BY ONLY <2>4, <2>5, <2>6, <2>9, Zenon DEF Fits, HasFields
  <2> QED
    BY <2>5, <2>10, Zenon DEF SameNames, m, q
<1>5. IsList(mix) /\ DOMAIN mix = DOMAIN r.mixers
  <2>1. mix = [n \in DOMAIN r.mixers |-> mix[n]]
    BY Zenon
  <2> HIDE DEF mix
  <2> QED
    BY <1>2, <2>1, Mapped DEF MixersOk
<1> HIDE DEF mix
<1>6. MixersOk(mix) /\ Fed(mix, r.devices) /\ SameMixers(r.mixers, mix)
  BY <1>2, <1>4, <1>5, Zenon DEF MixersOk, Fed, SameMixers, DistinctNames, SameNames
<1>7. a.r.devices = r.devices /\ a.r.mixers = mix /\ a.r = Running(a.r.devices, a.r.mixers)
  BY ONLY <1>1, RunningIs
<1>8. RunOk(a.r)
  BY <1>2, <1>6, <1>7, Zenon DEF RunOk
<1>9. a.r.devices[i] = [r.devices[i] EXCEPT !.channels = a.r.devices[i].channels]
  <2>1. RunFrame(r, r, i)
    BY FrameNot, Zenon
  <2> QED
    BY <1>7, <2>1, Zenon DEF RunFrame
<1> QED
  BY <1>1, <1>6, <1>7, <1>8, <1>9, Zenon DEF RunFrame, NoneAdded, a

-----------------------------------------------------------------------------
(* channel_request_enable() and channel_request_disable().                  *)

(* The same channel but for being enabled.                                  *)
SameChannel(c, e) == e = [c EXCEPT !.enabled = e.enabled]
SameChannels(cs, es) == IsList(es) /\ Len(es) = Len(cs) /\ \A j \in DOMAIN cs : SameChannel(cs[j], es[j])

LEMMA SameChannelIs ==
  ASSUME NEW c, ChanOk(c), NEW on, NEW e, e = [c EXCEPT !.enabled = on]
  PROVE  ChanOk(e) /\ e.enabled = on /\ e.outputs = c.outputs /\ e.signature = c.signature /\ SameChannel(c, e)
<1>1. c = [signature |-> c.signature, enabled |-> c.enabled, outputs |-> c.outputs]
  BY Zenon DEF ChanOk
<1>2. e.enabled = on /\ e.outputs = c.outputs /\ e.signature = c.signature
  BY ONLY <1>1, e = [c EXCEPT !.enabled = on]
<1>3. e = [signature |-> e.signature, enabled |-> e.enabled, outputs |-> e.outputs]
  BY ONLY <1>1, e = [c EXCEPT !.enabled = on]
<1> QED
  BY <1>2, <1>3, Zenon DEF ChanOk, SameChannel

SetTo(r, r2, i, j, on) ==
  LET before == r.devices[i].channels
      after == r2.devices[i].channels
  IN /\ RunFrame(r, r2, i) /\ SameChannels(before, after) /\ after[j].enabled = on
     /\ \A h \in DOMAIN before : h # j => after[h] = before[h]
     /\ before[j].enabled = on => r2 = r

LEMMA EnabledSet ==
  ASSUME NEW r, RunOk(r), NEW i \in DOMAIN r.devices, NEW j \in DOMAIN r.devices[i].channels, NEW on
  PROVE  SetTo(r, SetEnabled(r, i, j, on), i, j, on)
<1> DEFINE r2 == SetEnabled(r, i, j, on)
           ds == r.devices
           before == ds[i].channels
           e == [before[j] EXCEPT !.enabled = on]
           cs == [before EXCEPT ![j] = e]
           ds2 == WithChannels(ds, i, cs)
           its(mx) == {x \in mx.inputs : x.dev = i /\ x.chan = j}
           mix == [n \in DOMAIN r.mixers |->
                     IF on THEN [r.mixers[n] EXCEPT !.live = @ \union its(r.mixers[n])]
                     ELSE Masked(r.mixers[n], its(r.mixers[n]), FALSE)]
<1>1. DevicesOk(ds) /\ MixersOk(r.mixers) /\ Fed(r.mixers, ds) /\ DevOk(ds[i]) /\ i \in DOMAIN ds /\ j \in DOMAIN before
  BY Zenon DEF RunOk, DevicesOk
<1>2. IsList(before) /\ Len(before) <= ds[i].capacity /\ \A h \in DOMAIN before : ChanOk(before[h])
  BY <1>1, Zenon DEF DevOk
<1>3. Len(before) \in Nat /\ DOMAIN before = 1 .. Len(before)
  BY <1>2, ListFacts
<1>4. \A c : ChanOk(c) => SameChannel(c, c)
  <2> SUFFICES ASSUME NEW c, ChanOk(c) PROVE SameChannel(c, c)
    BY Zenon
  <2>1. c = [signature |-> c.signature, enabled |-> c.enabled, outputs |-> c.outputs]
    BY Zenon DEF ChanOk
  <2>2. [c EXCEPT !.enabled = c.enabled] = c
    BY ONLY <2>1
  <2> QED
    BY <2>2, Zenon DEF SameChannel
<1>5. CASE before[j].enabled = on
  <2>1. r2 = r
    BY <1>5, Zenon DEF SetEnabled
  <2>2. RunFrame(r, r, i)
    BY FrameNot, Zenon
  <2>3. SameChannels(before, before)
    BY <1>2, <1>4, Zenon DEF SameChannels
  <2> QED
    BY <1>5, <2>1, <2>2, <2>3, Zenon DEF SetTo
<1>6. CASE before[j].enabled # on
  <2>1. r2 = Running(ds2, mix)
    BY <1>6, Zenon DEF SetEnabled, WithChannels
  <2>2. ChanOk(e) /\ e.enabled = on /\ e.outputs = before[j].outputs /\ SameChannel(before[j], e)
    <3>1. ChanOk(before[j])
      BY <1>1, <1>2, Zenon
    <3> HIDE DEF before
    <3> QED
      BY ONLY <3>1, SameChannelIs
  <2>3. IsList(cs) /\ DOMAIN cs = DOMAIN before /\ cs[j] = e /\ \A h \in DOMAIN before : h # j => cs[h] = before[h]
    <3> HIDE DEF before, e
    <3> QED
      BY ONLY <1>1, <1>2, OneReplaced
  <2> HIDE DEF e, cs
  <2>4. Len(cs) = Len(before)
    <3>1. Len(cs) \in Nat /\ DOMAIN cs = 1 .. Len(cs)
      BY <2>3, ListFacts, Zenon
    <3> HIDE DEF before
    <3> QED
      BY ONLY <1>3, <2>3, <3>1
  <2>5. \A h \in DOMAIN before : ChanOk(cs[h]) /\ SameChannel(before[h], cs[h]) /\ cs[h].outputs = before[h].outputs
    <3> HIDE DEF before
    <3> QED
      BY <1>2, <1>4, <2>2, <2>3, Zenon
  <2>6. DevFrame(ds, ds2, i) /\ ds2[i].channels = cs
    <3>1. \A h \in DOMAIN cs : ChanOk(cs[h])
      BY <2>3, <2>5, Zenon
    <3>2. Len(cs) <= ds[i].capacity
      BY <1>2, <2>4
    <3> HIDE DEF ds
    <3> QED
      BY ONLY <1>1, <2>3, <3>1, <3>2, ChannelsReplaced, Zenon
  <2> HIDE DEF ds2
  <2>7. ASSUME NEW name PROVE OwnedInputs(ds2, name) = OwnedInputs(ds, name)
    <3>1. DOMAIN ds2 = DOMAIN ds
      BY <2>6, Zenon DEF DevFrame
    <3>2. ASSUME NEW h \in DOMAIN ds
          PROVE  /\ DOMAIN ds2[h].channels = DOMAIN ds[h].channels
                 /\ \A l \in DOMAIN ds[h].channels : ds2[h].channels[l].outputs = ds[h].channels[l].outputs
      <4>1. CASE h = i
        BY <2>3, <2>5, <2>6, <4>1, Zenon
      <4>2. CASE h # i
        <5>1. ds2[h] = ds[h]
          BY <2>6, <4>2, Zenon DEF DevFrame
        <5> QED
          BY <5>1, Zenon
      <4> QED
        BY <4>1, <4>2
    <3> HIDE DEF ds
    <3> QED
      BY ONLY <3>1, <3>2, OwnedSame
  <2>8. ASSUME NEW n \in DOMAIN r.mixers PROVE SameNames(r.mixers[n], mix[n]) /\ mix[n].inputs = r.mixers[n].inputs
    <3> DEFINE mx == r.mixers[n]
               q == mix[n]
               own == its(mx)
    <3>1. Fits(mx)
      BY <1>1, Zenon DEF MixersOk
    <3>2. CASE on
      <4>1. q = [mx EXCEPT !.live = @ \union own]
        BY <3>2, Zenon
      <4>2. own \subseteq mx.inputs
        OBVIOUS
      <4> HIDE DEF mx, q, own
      <4>3. mx = [x \in MixerFields |-> mx[x]] /\ DOMAIN mx = MixerFields
        BY <3>1 DEF Fits, HasFields
      <4>4. q = [x \in MixerFields |-> q[x]]
        BY ONLY <4>1, <4>3
      <4>5. /\ q.name = mx.name /\ q.remote = mx.remote /\ q.inputs = mx.inputs /\ q.live = mx.live \union own
            /\ q.capacity = mx.capacity /\ q.lost = mx.lost
        BY ONLY <4>1, <4>3 DEF MixerFields
      <4>6. mx.live \subseteq mx.inputs
        BY <3>1 DEF Fits
      <4>7. q.live \subseteq q.inputs
        BY ONLY <4>2, <4>5, <4>6
      <4>8. Fits(q)
        BY ONLY <3>1, <4>4, <4>5, <4>7, Zenon DEF Fits, HasFields
      <4> QED
        BY <4>5, <4>8, Zenon DEF SameNames, mx, q
    <3>3. CASE ~on
      <4>1. q = Masked(mx, own, FALSE)
        BY <3>3, Zenon
      <4> HIDE DEF q, own, mx
      <4>2. SameNames(mx, Masked(mx, own, FALSE)) /\ Masked(mx, own, FALSE).inputs = mx.inputs
        BY ONLY <3>1, MaskedIs, Zenon
      <4> QED
        BY <4>1, <4>2, Zenon DEF q, mx
    <3> QED
      BY <3>2, <3>3
  <2>9. IsList(mix) /\ DOMAIN mix = DOMAIN r.mixers
    <3>1. mix = [n \in DOMAIN r.mixers |-> mix[n]]
      BY Zenon
    <3> HIDE DEF mix
    <3> QED
      BY <1>1, <3>1, Mapped DEF MixersOk
  <2> HIDE DEF mix
  <2>10. MixersOk(mix) /\ SameMixers(r.mixers, mix)
    BY <1>1, <2>8, <2>9, Zenon DEF MixersOk, SameMixers, DistinctNames, SameNames
  <2>11. Fed(mix, ds2)
    <3> HIDE DEF ds
    <3> QED
      BY <1>1, <2>7, <2>8, <2>9, Zenon DEF Fed, SameNames
  <2>12. r2.devices = ds2 /\ r2.mixers = mix /\ r2 = Running(r2.devices, r2.mixers)
    BY ONLY <2>1, RunningIs
  <2>13. RunFrame(r, r2, i)
    BY <2>6, <2>10, <2>11, <2>12, Zenon DEF RunFrame, RunOk, DevFrame
  <2>14. SameChannels(before, cs)
    BY <2>3, <2>4, <2>5, Zenon DEF SameChannels
  <2>15. r2.devices[i].channels = cs
    BY <2>6, <2>12, Zenon
  <2>16. cs[j].enabled = on
    BY <2>2, <2>3, Zenon
  <2> HIDE DEF r2
  <2> QED
    BY <1>6, <2>3, <2>13, <2>14, <2>15, <2>16, Zenon DEF SetTo, r2
<1> QED
  BY <1>5, <1>6

-----------------------------------------------------------------------------
(* The toggles: the first `prefix' channels get the file's "enabled".       *)

LEMMA SameTwice ==
  ASSUME NEW a, NEW b, NEW c, IsList(a), IsList(b), SameChannels(a, b), SameChannels(b, c)
  PROVE  SameChannels(a, c)
<1>1. IsList(c) /\ Len(c) = Len(a) /\ DOMAIN a = DOMAIN b
  <2>1. DOMAIN a = 1 .. Len(a) /\ DOMAIN b = 1 .. Len(b)
    BY ListFacts
  <2> QED
    BY <2>1 DEF SameChannels
<1>2. ASSUME NEW j \in DOMAIN a PROVE SameChannel(a[j], c[j])
  <2>1. SameChannel(a[j], b[j]) /\ SameChannel(b[j], c[j])
    BY <1>1, Zenon DEF SameChannels
  <2> DEFINE x == a[j]
             y == b[j]
             z == c[j]
  <2>2. y = [x EXCEPT !.enabled = y.enabled] /\ z = [y EXCEPT !.enabled = z.enabled]
    BY <2>1, Zenon DEF SameChannel
  <2> HIDE DEF x, y, z
  <2>3. z = [x EXCEPT !.enabled = z.enabled]
    BY ONLY <2>2
  <2> QED
    BY <2>3, Zenon DEF SameChannel, x, z
<1> QED
  BY <1>1, <1>2, Zenon DEF SameChannels

ToggledTo(r0, i, chans, t, k) ==
  LET before == r0.devices[i].channels
      after == t.devices[i].channels
  IN /\ RunFrame(r0, t, i) /\ SameChannels(before, after)
     /\ \A j \in DOMAIN before : j <= k => after[j].enabled = chans[j].enabled
     /\ \A j \in DOMAIN before : ~(j <= k) => after[j] = before[j]
     /\ (\A j \in DOMAIN before : before[j].enabled = chans[j].enabled) => t = r0
ToggleStep(r0, i, chans, d, t, x) == SetEnabled(t, i, x, chans[x].enabled)
ToggleInv(r0, i, chans, d, t, k) == ToggledTo(r0, i, chans, t, k)
OfToggles == INSTANCE Folding WITH Step <- ToggleStep, Inv <- ToggleInv

LEMMA ChannelsList ==
  ASSUME NEW r, RunOk(r), NEW i \in DOMAIN r.devices
  PROVE  /\ DevOk(r.devices[i]) /\ IsList(r.devices[i].channels)
         /\ Len(r.devices[i].channels) \in Nat /\ DOMAIN r.devices[i].channels = 1 .. Len(r.devices[i].channels)
         /\ \A j \in DOMAIN r.devices[i].channels : ChanOk(r.devices[i].channels[j])
<1>1. DevOk(r.devices[i])
  BY Zenon DEF RunOk, DevicesOk
<1> QED
  BY <1>1, ListFacts, Zenon DEF DevOk

LEMMA ToggledOne ==
  ASSUME NEW r0, RunOk(r0), NEW i \in DOMAIN r0.devices, NEW chans,
         NEW t, NEW k \in DOMAIN r0.devices[i].channels, ToggledTo(r0, i, chans, t, k - 1)
  PROVE  ToggledTo(r0, i, chans, SetEnabled(t, i, k, chans[k].enabled), k)
<1> DEFINE u == SetEnabled(t, i, k, chans[k].enabled)
           before == r0.devices[i].channels
           mid == t.devices[i].channels
           after == u.devices[i].channels
<1>1. /\ RunFrame(r0, t, i) /\ SameChannels(before, mid)
      /\ \A j \in DOMAIN before : j <= k - 1 => mid[j].enabled = chans[j].enabled
      /\ \A j \in DOMAIN before : ~(j <= k - 1) => mid[j] = before[j]
      /\ (\A j \in DOMAIN before : before[j].enabled = chans[j].enabled) => t = r0
  BY Zenon DEF ToggledTo
<1>2. RunOk(t) /\ i \in DOMAIN t.devices
  BY <1>1, Zenon DEF RunFrame
<1>3. IsList(before) /\ Len(before) \in Nat /\ DOMAIN before = 1 .. Len(before) /\ IsList(mid) /\ DOMAIN mid = DOMAIN before
  <2>1. /\ IsList(before) /\ Len(before) \in Nat /\ DOMAIN before = 1 .. Len(before)
        /\ IsList(mid) /\ DOMAIN mid = 1 .. Len(mid)
    BY <1>2, ChannelsList, Zenon
  <2>2. Len(mid) = Len(before)
    BY <1>1, Zenon DEF SameChannels
  <2> HIDE DEF mid, before
  <2> QED
    BY ONLY <2>1, <2>2
<1>4. SetTo(t, u, i, k, chans[k].enabled)
  <2>1. k \in DOMAIN t.devices[i].channels
    BY <1>3, Zenon
  <2> QED
    BY <1>2, <2>1, EnabledSet, Zenon
<1> HIDE DEF u
<1>5. /\ RunFrame(t, u, i) /\ SameChannels(mid, after) /\ after[k].enabled = chans[k].enabled
      /\ \A h \in DOMAIN mid : h # k => after[h] = mid[h]
      /\ mid[k].enabled = chans[k].enabled => u = t
  BY <1>4, Zenon DEF SetTo
<1>6. RunFrame(r0, u, i)
  BY <1>1, <1>5, FrameTwice, Zenon
<1> HIDE DEF before, mid, after
<1>7. SameChannels(before, after)
  BY <1>1, <1>3, <1>5, SameTwice, Zenon
<1>8. k \in DOMAIN before
  BY DEF before
<1>9. ASSUME NEW j \in DOMAIN before PROVE (j <= k => after[j].enabled = chans[j].enabled) /\ (~(j <= k) => after[j] = before[j])
  <2>1. j = k \/ (j # k /\ (j <= k => j <= k - 1) /\ (~(j <= k) => ~(j <= k - 1)))
    BY <1>3, <1>8
  <2>2. CASE j = k
    <3>1. j <= k
      BY <1>3, <2>2
    <3> QED
      BY <1>5, <2>2, <3>1, Zenon
  <2>3. CASE j # k /\ (j <= k => j <= k - 1) /\ (~(j <= k) => ~(j <= k - 1))
    BY <1>1, <1>3, <1>5, <2>3, Zenon
  <2> QED
    BY <2>1, <2>2, <2>3
<1>10. ASSUME \A j \in DOMAIN before : before[j].enabled = chans[j].enabled PROVE u = r0
  <2>1. t = r0
    BY <1>1, <1>10, Zenon
  <2>2. mid = before
    BY <2>1 DEF mid, before
  <2> QED
    BY <1>5, <1>8, <1>10, <2>1, <2>2, Zenon
<1> QED
  BY <1>6, <1>7, <1>9, <1>10, Zenon DEF ToggledTo, before, after, u

LEMMA Toggled ==
  ASSUME NEW r, RunOk(r), NEW i \in DOMAIN r.devices, NEW chans, NEW prefix \in Nat, prefix <= Len(r.devices[i].channels)
  PROVE  ToggledTo(r, i, chans, ToggleChannels(r, i, chans, prefix), prefix)
<1> DEFINE t == ToggleChannels(r, i, chans, prefix)
           seq == Indices(0, prefix)
           before == r.devices[i].channels
<1>1. IsList(before) /\ Len(before) \in Nat /\ DOMAIN before = 1 .. Len(before) /\ \A j \in DOMAIN before : ChanOk(before[j])
  BY ChannelsList, Zenon
<1>2. Len(seq) = prefix /\ DOMAIN seq = 1 .. Len(seq) /\ \A k \in DOMAIN seq : seq[k] = k /\ k \in DOMAIN before
  <2>1. Len(seq) = prefix - 0 /\ DOMAIN seq = 1 .. prefix - 0 /\ \A k \in 1 .. prefix - 0 : seq[k] = 0 + k
    <3>1. 0 \in Nat /\ 0 <= prefix
      OBVIOUS
    <3> QED
      BY <3>1, IndicesAre, Zenon
  <2>2. prefix <= Len(before)
    OBVIOUS
  <2> HIDE DEF seq, before
  <2> QED
    BY <1>1, <2>1, <2>2
<1> HIDE DEF seq
<1>3. t = OfToggles!Fold(r, i, chans, 0, r, seq)
  BY Zenon DEF ToggleChannels, seq, ToggleStep, OfToggles!Fold, OfToggles!FoldLeft, FoldLeft, MapThenFoldSet, OfToggles!MapThenFoldSet, Max, OfToggles!Max
<1> HIDE DEF t
<1>4. ToggleInv(r, i, chans, 0, r, 0)
  <2>1. RunFrame(r, r, i)
    BY FrameNot, Zenon
  <2>2. SameChannels(before, before)
    <3>1. \A c : ChanOk(c) => SameChannel(c, c)
      <4> SUFFICES ASSUME NEW c, ChanOk(c) PROVE SameChannel(c, c)
        BY Zenon
      <4>1. c = [signature |-> c.signature, enabled |-> c.enabled, outputs |-> c.outputs]
        BY Zenon DEF ChanOk
      <4>2. [c EXCEPT !.enabled = c.enabled] = c
        BY ONLY <4>1
      <4> QED
        BY <4>2, Zenon DEF SameChannel
    <3> QED
      BY <1>1, <3>1, Zenon DEF SameChannels
  <2>3. \A j \in DOMAIN before : ~(j <= 0)
    <3> HIDE DEF before
    <3> QED
      BY <1>1
  <2> QED
    BY <2>1, <2>2, <2>3, Zenon DEF ToggleInv, ToggledTo
<1>5. ASSUME NEW u, NEW k \in DOMAIN seq, ToggleInv(r, i, chans, 0, u, k - 1)
      PROVE  ToggleInv(r, i, chans, 0, ToggleStep(r, i, chans, 0, u, seq[k]), k)
  <2>1. seq[k] = k /\ k \in DOMAIN r.devices[i].channels
    BY <1>2, Zenon
  <2>2. ToggledTo(r, i, chans, u, k - 1)
    BY <1>5, Zenon DEF ToggleInv
  <2>3. ToggledTo(r, i, chans, SetEnabled(u, i, k, chans[k].enabled), k)
    BY <2>1, <2>2, ToggledOne, Zenon
  <2> QED
    BY <2>1, <2>3, Zenon DEF ToggleInv, ToggleStep
<1>6. ToggleInv(r, i, chans, 0, t, Len(seq))
  <2>1. Len(seq) \in Nat
    BY <1>2
  <2> QED
    BY ONLY <1>2, <1>3, <1>4, <1>5, <2>1, OfToggles!FoldKeeps
<1> QED
  BY <1>2, <1>6, Zenon DEF ToggleInv, t

-----------------------------------------------------------------------------
(* The channels the running device and the file have in common.            *)

PrefixOf(live, chans, p) ==
  /\ p \in Nat /\ p <= Len(live) /\ p <= Len(chans) /\ \A j \in 1 .. p : live[j].signature = Signature(chans[j])
  /\ Len(live) = Len(chans) /\ (\A j \in DOMAIN live : live[j].signature = Signature(chans[j])) => p = Len(live)

LEMMA PrefixIs ==
  ASSUME NEW live, NEW chans, IsList(live), IsList(chans)
  PROVE  PrefixOf(live, chans, CommonPrefix(live, chans))
<1> DEFINE p == CommonPrefix(live, chans)
           common(n) == \A j \in 1 .. n : live[j].signature = Signature(chans[j])
           S == {n \in 0 .. Len(live) : n <= Len(chans) /\ common(n)}
<1>1. Len(live) \in Nat /\ DOMAIN live = 1 .. Len(live) /\ Len(chans) \in Nat
  BY ListFacts
<1>2. p = Max(S)
  BY Zenon DEF CommonPrefix
<1>3. 0 \in S
  BY <1>1
<1>4. S \subseteq 0 .. Len(live)
  OBVIOUS
<1> HIDE DEF S, p
<1>5. p \in S /\ \A n \in S : n <= p
  BY <1>1, <1>2, <1>3, <1>4, MaxOf
<1>6. p \in 0 .. Len(live) /\ p <= Len(chans) /\ common(p)
  BY <1>5, Zenon DEF S
<1>7. ASSUME Len(live) = Len(chans), \A j \in DOMAIN live : live[j].signature = Signature(chans[j]) PROVE p = Len(live)
  <2>1. Len(live) \in S
    <3>1. common(Len(live))
      BY <1>1, <1>7, Zenon
    <3> HIDE DEF common
    <3> QED
      BY <1>1, <1>7, <3>1 DEF S
  <2>2. Len(live) <= p
    BY <1>5, <2>1, Zenon
  <2>3. p \in 0 .. Len(live)
    BY <1>6, Zenon
  <2> HIDE DEF common
  <2>4. Len(live) \in Nat
    BY <1>1
  <2> QED
    BY ONLY <2>2, <2>3, <2>4
<1>8. p \in Nat /\ p <= Len(live)
  <2>1. p \in 0 .. Len(live)
    BY <1>6, Zenon
  <2> QED
    BY ONLY <1>1, <2>1
<1> QED
  BY <1>6, <1>7, <1>8, Zenon DEF PrefixOf, p

-----------------------------------------------------------------------------
(* ReplaceTail() and ReloadChannels(): the channels behind the prefix are    *)
(* those of the file, unless something is skipped.                          *)

StateOf(s) == s = [r |-> s.r, skipped |-> s.skipped] /\ RunOk(s.r)

LEMMA SkipIs ==
  ASSUME NEW s, s = [r |-> s.r, skipped |-> s.skipped], NEW what
  PROVE  /\ Skip(s, what) = [r |-> s.r, skipped |-> s.skipped \union {what}]
         /\ Skip(s, what).r = s.r /\ Skip(s, what).skipped = s.skipped \union {what}
<1>1. Skip(s, what) = [r |-> s.r, skipped |-> s.skipped \union {what}]
  BY ONLY s = [r |-> s.r, skipped |-> s.skipped] DEF Skip
<1> QED
  BY ONLY <1>1

LEMMA RunPut ==
  ASSUME NEW s, s = [r |-> s.r, skipped |-> s.skipped], NEW r
  PROVE  [s EXCEPT !.r = r] = [r |-> r, skipped |-> s.skipped]
BY ONLY s = [r |-> s.r, skipped |-> s.skipped]

TriedAppend(r, a, i, old, chans) ==
  /\ a.ok \in BOOLEAN /\ RunFrame(r, a.r, i)
  /\ a.ok => PublishedAre(r.devices[i].channels, a.r.devices[i].channels, old, chans)
  /\ ~a.ok => a.r.devices = r.devices

LEMMA TailAppended ==
  ASSUME NEW r, RunOk(r), NEW i \in DOMAIN r.devices, NEW chans, Ready(chans),
         NEW old \in Nat, old = Len(r.devices[i].channels), old <= Len(chans), Len(chans) <= r.devices[i].capacity
  PROVE  TriedAppend(r, try_append_channels(r, i, old, chans), i, old, chans)
<1> DEFINE s == AppendChannels([ok |-> TRUE, mixers |-> r.mixers], i, old, chans, Scans(r.devices[i]))
           a == try_append_channels(r, i, old, chans)
<1>1. CASE s.ok
  BY <1>1, AppendedOk DEF TriedAppend
<1>2. CASE ~s.ok
  <2>1. NoneAdded(r, a, i)
    BY <1>2, AppendedNot, Zenon
  <2> QED
    BY <2>1, Zenon DEF TriedAppend, NoneAdded
<1> QED
  BY <1>1, <1>2

(* What ReplaceTail() leaves.                                               *)
TailReplaced(s, u, i, chans) ==
  LET before == s.r.devices[i].channels
      after == u.r.devices[i].channels
      p == CommonPrefix(before, chans)
  IN /\ StateOf(u) /\ RunFrame(s.r, u.r, i) /\ s.skipped \subseteq u.skipped
     /\ p <= Len(after) /\ \A j \in 1 .. p : after[j] = before[j]
     /\ u.skipped = {} /\ (\A j \in DOMAIN chans : Counts(chans[j])) =>
          Len(after) = Len(chans) /\ \A j \in p + 1 .. Len(chans) : after[j] = Parsed(chans[j])
     /\ p = Len(before) /\ p = Len(chans) => u = s

LEMMA TailIs ==
  ASSUME NEW s, StateOf(s), NEW i \in DOMAIN s.r.devices, NEW chans, Ready(chans)
  PROVE  TailReplaced(s, ReplaceTail(s, i, chans), i, chans)
<1> DEFINE u == ReplaceTail(s, i, chans)
           before == s.r.devices[i].channels
           keep == CommonPrefix(before, chans)
           old == Len(before)
           kept == IF keep < old THEN try_remove_channels(s.r, i, keep) ELSE s.r
           added == try_append_channels(kept, i, keep, chans)
           all == \A j \in DOMAIN chans : Counts(chans[j])
<1>1. s = [r |-> s.r, skipped |-> s.skipped] /\ RunOk(s.r)
  BY Zenon DEF StateOf
<1>2. IsList(before) /\ old \in Nat /\ DOMAIN before = 1 .. old /\ DevOk(s.r.devices[i])
  BY <1>1, ChannelsList, Zenon
<1>3. IsList(chans) /\ Len(chans) \in Nat /\ DOMAIN chans = 1 .. Len(chans)
  BY ListFacts, Zenon DEF Ready
<1>4. keep \in Nat /\ keep <= old /\ keep <= Len(chans)
  <2> HIDE DEF before
  <2> QED
    BY <1>2, <1>3, PrefixIs, Zenon DEF PrefixOf
<1>5. RunFrame(s.r, kept, i) /\ Len(kept.devices[i].channels) = keep /\ \A j \in 1 .. keep : kept.devices[i].channels[j] = before[j]
  <2>1. CASE keep < old
    <3>1. kept = try_remove_channels(s.r, i, keep)
      BY <2>1, Zenon
    <3> HIDE DEF kept, keep
    <3>2. RunFrame(s.r, kept, i) /\ kept.devices[i].channels = [j \in 1 .. keep |-> before[j]]
      BY <1>1, <1>4, <3>1, Removed
    <3> HIDE DEF before
    <3>3. Len(kept.devices[i].channels) = keep /\ \A j \in 1 .. keep : kept.devices[i].channels[j] = before[j]
      BY ONLY <1>4, <3>2
    <3> QED
      BY <3>2, <3>3
  <2>2. CASE ~(keep < old)
    <3>1. kept = s.r
      BY <2>2, Zenon
    <3>2. keep = old
      <4> HIDE DEF keep, old
      <4> QED
        BY <1>2, <1>4, <2>2
    <3>3. RunFrame(s.r, s.r, i)
      BY <1>1, FrameNot, Zenon
    <3> QED
      BY <3>1, <3>2, <3>3, Zenon
  <2> QED
    BY <2>1, <2>2
<1> HIDE DEF kept, keep, u
<1>6. RunOk(kept) /\ i \in DOMAIN kept.devices /\ kept.devices[i].capacity = s.r.devices[i].capacity /\ IsList(kept.devices[i].channels)
  <2>1. RunOk(kept) /\ i \in DOMAIN kept.devices /\ kept.devices[i] = [s.r.devices[i] EXCEPT !.channels = kept.devices[i].channels]
    BY <1>5, Zenon DEF RunFrame
  <2>2. HasFields(s.r.devices[i], DeviceFields)
    BY <1>2, Zenon DEF DevOk
  <2>3. kept.devices[i].capacity = s.r.devices[i].capacity
    BY ONLY <2>1, <2>2 DEF HasFields, DeviceFields
  <2> QED
    BY <2>1, <2>3, ChannelsList, Zenon

<1> DEFINE scans == Scans(s.r.devices[i])
           full == Len(chans) > s.r.devices[i].capacity
           Good(w) == /\ RunFrame(s.r, w, i) /\ keep <= Len(w.devices[i].channels)
                      /\ \A j \in 1 .. keep : w.devices[i].channels[j] = before[j]
           Whole(w) == /\ Len(w.devices[i].channels) = Len(chans)
                       /\ \A j \in keep + 1 .. Len(chans) : w.devices[i].channels[j] = Parsed(chans[j])
           Result(w, more) == /\ Good(w) /\ u = [r |-> w, skipped |-> s.skipped \union more]
                              /\ more = {} /\ all => Whole(w)
                              /\ keep = old /\ keep = Len(chans) => u = s
<1>7. ASSUME NEW w, NEW more, Result(w, more) PROVE TailReplaced(s, u, i, chans)
  <2> HIDE DEF Whole, all
  <2>1. u.r = w /\ u.skipped = s.skipped \union more /\ u = [r |-> u.r, skipped |-> u.skipped]
    BY ONLY <1>7
  <2>2. StateOf(u)
    BY <1>7, <2>1, Zenon DEF StateOf, RunFrame
  <2>3. s.skipped \subseteq u.skipped /\ (u.skipped = {} => more = {})
    BY <2>1
  <2>4. u.skipped = {} /\ all => Whole(u.r)
    BY <1>7, <2>1, <2>3, Zenon
  <2> QED
    BY <1>7, <2>1, <2>2, <2>3, <2>4, Zenon DEF TailReplaced, Whole, all, keep, old
<1>8. Good(s.r) /\ Good(kept)
  <2>1. RunFrame(s.r, s.r, i)
    BY <1>1, FrameNot, Zenon
  <2>2. keep <= keep
    BY <1>4
  <2> QED
    BY <1>4, <1>5, <2>1, <2>2, Zenon
<1>9. keep = Len(chans) => Whole(kept)
  <2>1. keep = Len(chans) => \A j \in keep + 1 .. Len(chans) : FALSE
    BY <1>4
  <2> QED
    BY <1>5, <2>1, Zenon
<1>10. ASSUME ~full, keep # Len(chans) PROVE Good(added.r) /\ (added.ok /\ all => Whole(added.r)) /\ added.ok \in BOOLEAN
  <2>1. Len(chans) <= kept.devices[i].capacity
    <3>1. s.r.devices[i].capacity \in Nat
      BY <1>2, Zenon DEF DevOk
    <3>2. Len(chans) <= s.r.devices[i].capacity
      BY ONLY <1>3, <1>10, <3>1 DEF full
    <3> QED
      BY <1>6, <3>2, Zenon
  <2>2. TriedAppend(kept, added, i, keep, chans)
    <3>1. keep = Len(kept.devices[i].channels)
      BY <1>5, Zenon
    <3> QED
      BY ONLY Ready(chans), <1>4, <1>6, <2>1, <3>1, TailAppended, Zenon
  <2> HIDE DEF added
  <2>3. RunFrame(s.r, added.r, i)
    BY <1>5, <2>2, FrameTwice, Zenon DEF TriedAppend
  <2>4. CASE added.ok
    <3>1. PublishedAre(kept.devices[i].channels, added.r.devices[i].channels, keep, chans)
      BY <2>2, <2>4, Zenon DEF TriedAppend
    <3>2. Good(added.r)
      BY <1>5, <2>3, <3>1, Zenon DEF PublishedAre
    <3>3. all => Whole(added.r)
      BY <3>1, Zenon DEF PublishedAre
    <3> QED
      BY <2>2, <3>2, <3>3, Zenon DEF TriedAppend
  <2>5. CASE ~added.ok
    <3>1. added.r.devices = kept.devices
      BY <2>2, <2>5, Zenon DEF TriedAppend
    <3> QED
      BY <1>8, <2>2, <2>3, <2>5, <3>1, Zenon DEF TriedAppend
  <2> QED
    BY <2>2, <2>4, <2>5, Zenon DEF TriedAppend
<1>11. /\ Skip(s, "scan") = [r |-> s.r, skipped |-> s.skipped \union {"scan"}]
       /\ \A w, what : /\ [s EXCEPT !.r = w] = [r |-> w, skipped |-> s.skipped \union {}]
                       /\ Skip([s EXCEPT !.r = w], what) = [r |-> w, skipped |-> s.skipped \union {what}]
  <2>1. Skip(s, "scan") = [r |-> s.r, skipped |-> s.skipped \union {"scan"}]
    BY <1>1, SkipIs, Zenon
  <2>2. ASSUME NEW w, NEW what
        PROVE  /\ [s EXCEPT !.r = w] = [r |-> w, skipped |-> s.skipped \union {}]
               /\ Skip([s EXCEPT !.r = w], what) = [r |-> w, skipped |-> s.skipped \union {what}]
    <3>1. [s EXCEPT !.r = w] = [r |-> w, skipped |-> s.skipped]
      BY <1>1, RunPut, Zenon
    <3>2. s.skipped \union {} = s.skipped
      OBVIOUS
    <3>3. Skip([r |-> w, skipped |-> s.skipped], what) = [r |-> w, skipped |-> s.skipped \union {what}]
      BY DEF Skip
    <3> QED
      BY <3>1, <3>2, <3>3
  <2> QED
    BY <2>1, <2>2, Zenon
<1>12. u = IF keep = old /\ keep = Len(chans) THEN s
           ELSE IF scans THEN Skip(s, "scan")
           ELSE IF keep = Len(chans) THEN [s EXCEPT !.r = kept]
           ELSE IF full THEN Skip([s EXCEPT !.r = kept], "reserve_channels")
           ELSE IF added.ok THEN [s EXCEPT !.r = added.r] ELSE Skip([s EXCEPT !.r = added.r], "append")
  BY Zenon DEF u, ReplaceTail, keep, kept
<1> HIDE DEF scans, full, added, Good, Whole, all, old, Result
<1>13. CASE keep = old /\ keep = Len(chans)
  <2>1. u = s /\ s.skipped \union {} = s.skipped
    BY <1>12, <1>13
  <2>2. kept = s.r
    BY <1>4, <1>13 DEF kept, old
  <2>3. s = [r |-> kept, skipped |-> s.skipped \union {}]
    BY <1>1, <2>1, <2>2
  <2>4. Result(kept, {})
    BY <1>8, <1>9, <1>13, <2>1, <2>3, Zenon DEF Result
  <2> QED
    BY <1>7, <2>4, Zenon DEF u
<1>14. CASE ~(keep = old /\ keep = Len(chans)) /\ scans
  <2>1. u = [r |-> s.r, skipped |-> s.skipped \union {"scan"}] /\ {"scan"} # {}
    BY <1>11, <1>12, <1>14
  <2>2. Result(s.r, {"scan"})
    BY <1>8, <1>14, <2>1, Zenon DEF Result
  <2> QED
    BY <1>7, <2>2, Zenon DEF u
<1>15. CASE ~(keep = old /\ keep = Len(chans)) /\ ~scans /\ keep = Len(chans)
  <2>1. u = [r |-> kept, skipped |-> s.skipped \union {}]
    BY <1>11, <1>12, <1>15
  <2>2. Result(kept, {})
    BY <1>8, <1>9, <1>15, <2>1, Zenon DEF Result
  <2> QED
    BY <1>7, <2>2, Zenon DEF u
<1>16. CASE ~(keep = old /\ keep = Len(chans)) /\ ~scans /\ keep # Len(chans) /\ full
  <2>1. u = [r |-> kept, skipped |-> s.skipped \union {"reserve_channels"}] /\ {"reserve_channels"} # {}
    BY <1>11, <1>12, <1>16
  <2>2. Result(kept, {"reserve_channels"})
    BY <1>8, <1>16, <2>1, Zenon DEF Result
  <2> QED
    BY <1>7, <2>2, Zenon DEF u
<1>17. CASE ~(keep = old /\ keep = Len(chans)) /\ ~scans /\ keep # Len(chans) /\ ~full
  <2>1. u = IF added.ok THEN [r |-> added.r, skipped |-> s.skipped \union {}]
            ELSE [r |-> added.r, skipped |-> s.skipped \union {"append"}]
    BY <1>11, <1>12, <1>17
  <2>2. {"append"} # {}
    OBVIOUS
  <2>3. Result(added.r, {}) \/ Result(added.r, {"append"})
    BY <1>10, <1>17, <2>1, <2>2, Zenon DEF Result
  <2> QED
    BY <1>7, <2>3, Zenon DEF u
<1> QED
  BY <1>13, <1>14, <1>15, <1>16, <1>17, Zenon DEF u

-----------------------------------------------------------------------------
(* The tuner's settings.                                                    *)

TunerState(x) == x = [live |-> x.live, skipped |-> x.skipped] /\ HasFields(x.live, DeviceFields)
FieldSet(x, y, f) ==
  /\ TunerState(y) /\ x.skipped \subseteq y.skipped
  /\ y.live = [x.live EXCEPT ![f] = y.live[f]]

LEMMA NothingSet ==
  ASSUME NEW x, TunerState(x), NEW f
  PROVE  FieldSet(x, x, f)
<1>1. x.live = [g \in DeviceFields |-> x.live[g]]
  BY DEF TunerState, HasFields
<1>2. x.live = [x.live EXCEPT ![f] = x.live[f]]
  BY ONLY <1>1
<1> QED
  BY <1>2 DEF FieldSet

FieldWritten(x, f, v) == [live |-> [x.live EXCEPT ![f] = v], skipped |-> x.skipped]
FieldPutTo(x, y, f, v) == FieldSet(x, y, f) /\ y.live[f] = v /\ y.skipped = x.skipped /\ (x.live[f] = v => y = x)

LEMMA FieldPut ==
  ASSUME NEW x, TunerState(x), NEW f \in DeviceFields, NEW v
  PROVE  FieldPutTo(x, FieldWritten(x, f, v), f, v)
<1> DEFINE y == FieldWritten(x, f, v)
           d == x.live
           e == [d EXCEPT ![f] = v]
<1>1. d = [g \in DeviceFields |-> d[g]] /\ x = [live |-> d, skipped |-> x.skipped]
  BY Zenon DEF TunerState, HasFields
<1> HIDE DEF d
<1>2. e = [g \in DeviceFields |-> e[g]] /\ e[f] = v /\ (d[f] = v => e = d)
  BY ONLY <1>1, f \in DeviceFields
<1>3. y = [live |-> e, skipped |-> x.skipped]
  BY DEF d, FieldWritten
<1> HIDE DEF e, y
<1>4. y.live = e /\ y.skipped = x.skipped /\ y = [live |-> y.live, skipped |-> y.skipped]
  BY ONLY <1>3
<1>5. TunerState(y)
  BY <1>2, <1>4, Zenon DEF TunerState, HasFields
<1>6. y.live = [x.live EXCEPT ![f] = y.live[f]]
  BY <1>2, <1>4 DEF d, e
<1>7. x.live[f] = v => y = x
  BY <1>1, <1>2, <1>3 DEF d
<1> QED
  BY <1>2, <1>4, <1>5, <1>6, <1>7 DEF FieldSet, FieldPutTo, y

LEMMA FieldSkipped ==
  ASSUME NEW x, TunerState(x), NEW f, NEW what, NEW y, y = Skip(x, what)
  PROVE  FieldSet(x, y, f) /\ y.skipped # {} /\ y.live = x.live
<1>1. y = [live |-> x.live, skipped |-> x.skipped \union {what}]
  <2>1. x = [live |-> x.live, skipped |-> x.skipped]
    BY Zenon DEF TunerState
  <2> QED
    BY ONLY <2>1, y = Skip(x, what) DEF Skip
<1>2. y.live = x.live /\ y.skipped = x.skipped \union {what} /\ y = [live |-> y.live, skipped |-> y.skipped]
  BY ONLY <1>1
<1>3. y.skipped # {} /\ x.skipped \subseteq y.skipped
  BY ONLY <1>2
<1>4. x.live = [x.live EXCEPT ![f] = x.live[f]]
  BY NothingSet, Zenon DEF FieldSet
<1>5. TunerState(y)
  BY <1>2, Zenon DEF TunerState
<1> QED
  BY <1>2, <1>3, <1>4, <1>5, Zenon DEF FieldSet

LEMMA RetuneIs ==
  ASSUME NEW x, TunerState(x), NEW d, NEW tuned, NEW y, y = RetuneTo(x, d, tuned)
  PROVE  /\ FieldSet(x, y, "centerfreq") /\ (d.centerfreq = x.live.centerfreq => y = x)
         /\ y.skipped = {} /\ ~Scans(d) => y.live.centerfreq = d.centerfreq
<1>1. CASE Scans(d) \/ d.centerfreq = x.live.centerfreq
  <2>1. y = x
    BY <1>1, Zenon DEF RetuneTo
  <2> QED
    BY <1>1, <2>1, NothingSet, Zenon
<1>2. CASE ~(Scans(d) \/ d.centerfreq = x.live.centerfreq) /\ tuned
  <2>1. y = [x EXCEPT !.live.centerfreq = d.centerfreq]
    BY <1>2, Zenon DEF RetuneTo
  <2>2. y = FieldWritten(x, "centerfreq", d.centerfreq)
    BY <2>1 DEF TunerState, FieldWritten
  <2>3. "centerfreq" \in DeviceFields
    BY DEF DeviceFields
  <2>4. FieldPutTo(x, y, "centerfreq", d.centerfreq)
    BY <2>2, <2>3, FieldPut, Zenon
  <2> QED
    BY <1>2, <2>4 DEF FieldPutTo
<1>3. CASE ~(Scans(d) \/ d.centerfreq = x.live.centerfreq) /\ ~tuned
  <2>1. y = Skip(x, "centerfreq")
    BY <1>3, Zenon DEF RetuneTo
  <2> QED
    BY <1>3, <2>1, FieldSkipped
<1> QED
  BY <1>1, <1>2, <1>3

LEMMA RateIs ==
  ASSUME NEW x, TunerState(x), NEW d, NEW tuned, NEW y, y = RateTo(x, d, tuned)
  PROVE  /\ FieldSet(x, y, "sample_rate") /\ (d.sample_rate = x.live.sample_rate => y = x)
         /\ y.skipped = {} /\ ~Scans(d) => y.live.sample_rate = d.sample_rate
<1>1. CASE Scans(d) \/ d.sample_rate = x.live.sample_rate
  <2>1. y = x
    BY <1>1, Zenon DEF RateTo
  <2> QED
    BY <1>1, <2>1, NothingSet, Zenon
<1>2. CASE ~(Scans(d) \/ d.sample_rate = x.live.sample_rate) /\ tuned
  <2>1. y = [x EXCEPT !.live.sample_rate = d.sample_rate]
    BY <1>2, Zenon DEF RateTo
  <2>2. y = FieldWritten(x, "sample_rate", d.sample_rate)
    BY <2>1 DEF TunerState, FieldWritten
  <2>3. "sample_rate" \in DeviceFields
    BY DEF DeviceFields
  <2>4. FieldPutTo(x, y, "sample_rate", d.sample_rate)
    BY <2>2, <2>3, FieldPut, Zenon
  <2> QED
    BY <1>2, <2>4 DEF FieldPutTo
<1>3. CASE ~(Scans(d) \/ d.sample_rate = x.live.sample_rate) /\ ~tuned
  <2>1. y = Skip(x, "sample_rate")
    BY <1>3, Zenon DEF RateTo
  <2> QED
    BY <1>3, <2>1, FieldSkipped
<1> QED
  BY <1>1, <1>2, <1>3

LEMMA GainIs ==
  ASSUME NEW x, TunerState(x), NEW d, NEW tuned, NEW y, y = GainTo(x, d, tuned)
  PROVE  /\ FieldSet(x, y, "gain") /\ (tuned /\ d.gain = x.live.gain => y = x)
         /\ y.skipped = {} /\ d.gain # Unset /\ d.type # "file" => y.live.gain = d.gain
<1>1. CASE d.gain = Unset \/ d.type = "file"
  <2>1. y = x
    BY <1>1, Zenon DEF GainTo
  <2> QED
    BY <1>1, <2>1, NothingSet, Zenon
<1>2. CASE ~(d.gain = Unset \/ d.type = "file") /\ tuned
  <2>1. y = [x EXCEPT !.live.gain = d.gain]
    BY <1>2, Zenon DEF GainTo
  <2>2. y = FieldWritten(x, "gain", d.gain)
    BY <2>1 DEF TunerState, FieldWritten
  <2>3. "gain" \in DeviceFields
    BY DEF DeviceFields
  <2>4. FieldPutTo(x, y, "gain", d.gain)
    BY <2>2, <2>3, FieldPut, Zenon
  <2> QED
    BY <1>2, <2>4 DEF FieldPutTo
<1>3. CASE ~(d.gain = Unset \/ d.type = "file") /\ ~tuned
  <2>1. y = Skip(x, "gain")
    BY <1>3, Zenon DEF GainTo
  <2> QED
    BY <1>3, <2>1, FieldSkipped
<1> QED
  BY <1>1, <1>2, <1>3

LEMMA CorrectionIs ==
  ASSUME NEW x, TunerState(x), NEW d, NEW tuned, NEW y, y = CorrectionTo(x, d, tuned)
  PROVE  /\ FieldSet(x, y, "correction")
         /\ (tuned /\ (d.correction = Unset \/ d.correction = x.live.correction) => y = x)
         /\ y.skipped = {} /\ d.correction # Unset /\ d.type # "file" => y.live.correction = d.correction
<1>1. CASE d.correction = Unset \/ d.type = "file"
  <2>1. y = x
    BY <1>1, Zenon DEF CorrectionTo
  <2> QED
    BY <1>1, <2>1, NothingSet, Zenon
<1>2. CASE ~(d.correction = Unset \/ d.type = "file") /\ tuned
  <2>1. y = [x EXCEPT !.live.correction = d.correction]
    BY <1>2, Zenon DEF CorrectionTo
  <2>2. y = FieldWritten(x, "correction", d.correction)
    BY <2>1 DEF TunerState, FieldWritten
  <2>3. "correction" \in DeviceFields
    BY DEF DeviceFields
  <2>4. FieldPutTo(x, y, "correction", d.correction)
    BY <2>2, <2>3, FieldPut, Zenon
  <2> QED
    BY <1>2, <2>4 DEF FieldPutTo
<1>3. CASE ~(d.correction = Unset \/ d.type = "file") /\ ~tuned
  <2>1. y = Skip(x, "correction")
    BY <1>3, Zenon DEF CorrectionTo
  <2> QED
    BY <1>3, <2>1, FieldSkipped
<1> QED
  BY <1>1, <1>2, <1>3

(* Every setting but those of F is left as it was.                          *)
OthersSame(x, y, F) ==
  TunerState(y) /\ x.skipped \subseteq y.skipped /\ \A g \in DeviceFields : g \in F \/ y.live[g] = x.live[g]

LEMMA OthersAre ==
  ASSUME NEW x, TunerState(x), NEW y, NEW f, FieldSet(x, y, f)
  PROVE  OthersSame(x, y, {f})
<1>1. DOMAIN x.live = DeviceFields /\ y.live = [x.live EXCEPT ![f] = y.live[f]]
  BY DEF TunerState, HasFields, FieldSet
<1>2. \A g \in DeviceFields : g \in {f} \/ y.live[g] = x.live[g]
  BY ONLY <1>1
<1> QED
  BY <1>2, Zenon DEF OthersSame, FieldSet

LEMMA OthersTwice ==
  ASSUME NEW x, NEW y, NEW z, NEW F, NEW G, NEW H, F \subseteq H, G \subseteq H, OthersSame(x, y, F), OthersSame(y, z, G)
  PROVE  OthersSame(x, z, H)
BY Zenon DEF OthersSame

LEMMA OthersNot ==
  ASSUME NEW x, TunerState(x), NEW F
  PROVE  OthersSame(x, x, F)
BY Zenon DEF OthersSame

PpmParts == {"base", "auto_ppm", "correction"}
PpmAs(live, d) ==
  /\ live.auto_ppm = "on" <=> d.auto_ppm = "on"
  /\ d.auto_ppm = "on" => live.base = ConfCorrection(d)
  /\ d.auto_ppm # "on" /\ d.correction # Unset /\ d.type # "file" => live.correction = d.correction
PpmFrom(live, d) ==
  /\ live.auto_ppm = d.auto_ppm /\ live.min_voters = d.min_voters
  /\ live.base = ConfCorrection(d) /\ live.correction = ConfCorrection(d)

LEMMA CorrectionOthers ==
  ASSUME NEW x, TunerState(x), NEW d, NEW tuned, NEW y, y = CorrectionTo(x, d, tuned)
  PROVE  /\ OthersSame(x, y, {"correction"})
         /\ y.live.auto_ppm = x.live.auto_ppm /\ y.live.base = x.live.base /\ y.live.min_voters = x.live.min_voters
         /\ y.skipped = {} => x.skipped = {} /\ (d.correction # Unset /\ d.type # "file" => y.live.correction = d.correction)
<1>1. FieldSet(x, y, "correction")
      /\ (y.skipped = {} /\ d.correction # Unset /\ d.type # "file" => y.live.correction = d.correction)
  BY CorrectionIs
<1>2. OthersSame(x, y, {"correction"})
  BY <1>1, OthersAre, Zenon
<1>3. y.live.auto_ppm = x.live.auto_ppm /\ y.live.base = x.live.base /\ y.live.min_voters = x.live.min_voters
  BY ONLY <1>2 DEF OthersSame, DeviceFields
<1>4. y.skipped = {} => x.skipped = {}
  BY ONLY <1>2 DEF OthersSame
<1> QED
  BY <1>1, <1>2, <1>3, <1>4, Zenon

LEMMA PpmIs ==
  ASSUME NEW x, TunerState(x), PpmOk(x.live), NEW d, d.auto_ppm \in {"absent", "off", "on"}, NEW tuned,
         NEW y, y = PpmReload(x, d, tuned)
  PROVE  /\ OthersSame(x, y, PpmParts) /\ PpmOk(y.live)
         /\ y.skipped = {} => PpmAs(y.live, d)
         /\ tuned /\ PpmFrom(x.live, d) => y = x
<1> DEFINE on == d.auto_ppm = "on"
           noted == IF d.min_voters = x.live.min_voters THEN x ELSE Skip(x, "auto_ppm params")
           word == IF on THEN "on" ELSE "off"
           based == FieldWritten(noted, "base", ConfCorrection(d))
           set == FieldWritten(based, "auto_ppm", word)
           off == IF on THEN Skip(x, "auto_ppm") ELSE x
           wide == on /\ d.correction # Unset /\ Magnitude(d.correction) > MaxPpm
<1>1. OthersSame(x, noted, {}) /\ noted.live = x.live /\ TunerState(noted)
  <2>1. CASE d.min_voters = x.live.min_voters
    <3>1. noted = x
      BY <2>1, Zenon
    <3> QED
      BY <3>1, OthersNot, Zenon
  <2>2. CASE d.min_voters # x.live.min_voters
    <3>1. noted = Skip(x, "auto_ppm params")
      BY <2>2, Zenon
    <3> HIDE DEF noted
    <3>2. FieldSet(x, noted, "none") /\ noted.live = x.live
      BY <3>1, FieldSkipped
    <3> QED
      BY <3>2, Zenon DEF FieldSet, OthersSame
  <2> QED
    BY <2>1, <2>2
<1> HIDE DEF noted
<1>2. FieldPutTo(noted, based, "base", ConfCorrection(d))
  <2>1. "base" \in DeviceFields
    BY DEF DeviceFields
  <2> QED
    BY <1>1, <2>1, FieldPut, Zenon
<1> HIDE DEF based
<1>3. FieldPutTo(based, set, "auto_ppm", word)
  <2>1. "auto_ppm" \in DeviceFields /\ TunerState(based)
    BY <1>2 DEF DeviceFields, FieldPutTo, FieldSet
  <2> QED
    BY <2>1, FieldPut, Zenon
<1> HIDE DEF set
<1>4. /\ OthersSame(x, set, PpmParts) /\ TunerState(set) /\ set.live.auto_ppm = word /\ set.live.base = ConfCorrection(d)
      /\ set.live.min_voters = x.live.min_voters /\ set.live.correction = x.live.correction
  <2>1. OthersSame(noted, based, {"base"}) /\ based.live.base = ConfCorrection(d) /\ TunerState(based)
    BY <1>1, <1>2, OthersAre, Zenon DEF FieldPutTo, FieldSet
  <2>2. OthersSame(based, set, {"auto_ppm"}) /\ set.live.auto_ppm = word /\ TunerState(set)
    BY <1>3, <2>1, OthersAre, Zenon DEF FieldPutTo, FieldSet
  <2>3. OthersSame(x, set, {"base", "auto_ppm"})
    <3>1. OthersSame(x, based, {"base"})
      BY <1>1, <2>1, OthersTwice
    <3>2. {"base"} \subseteq {"base", "auto_ppm"} /\ {"auto_ppm"} \subseteq {"base", "auto_ppm"}
      OBVIOUS
    <3> QED
      BY <2>2, <3>1, <3>2, OthersTwice, Zenon
  <2>4. set.live.min_voters = x.live.min_voters /\ set.live.correction = x.live.correction
    BY ONLY <2>3 DEF OthersSame, DeviceFields
  <2>5. set.live.base = ConfCorrection(d)
    BY ONLY <2>1, <2>2 DEF OthersSame, DeviceFields
  <2>6. OthersSame(x, set, PpmParts)
    BY ONLY <2>3, Zenon DEF OthersSame, PpmParts
  <2> QED
    BY <2>2, <2>4, <2>5, <2>6
<1>5. PpmFrom(x.live, d) /\ x.live.auto_ppm # "absent" => set = x
  <2> SUFFICES ASSUME PpmFrom(x.live, d), x.live.auto_ppm # "absent" PROVE set = x
    OBVIOUS
  <2>1. noted = x
    BY Zenon DEF noted, PpmFrom
  <2>2. based = x
    BY <1>2, <2>1, Zenon DEF FieldPutTo, PpmFrom
  <2>3. x.live.auto_ppm = word
    BY DEF PpmFrom
  <2> QED
    BY <1>3, <2>2, <2>3, Zenon DEF FieldPutTo
<1>6. OthersSame(x, off, PpmParts) /\ TunerState(off) /\ off.live = x.live /\ (off.skipped = {} => ~on) /\ (~on => off = x)
  <2>1. CASE ~on
    <3>1. off = x
      BY <2>1, Zenon
    <3> QED
      BY <2>1, <3>1, OthersNot, Zenon
  <2>2. CASE on
    <3>1. off = Skip(x, "auto_ppm")
      BY <2>2, Zenon
    <3> HIDE DEF off
    <3>2. FieldSet(x, off, "base") /\ off.skipped # {} /\ off.live = x.live
      BY <3>1, FieldSkipped
    <3>3. OthersSame(x, off, {"base"})
      BY <3>2, OthersAre, Zenon
    <3>4. OthersSame(x, off, PpmParts)
      BY ONLY <3>3, Zenon DEF OthersSame, PpmParts
    <3> QED
      BY <2>2, <3>2, <3>4, Zenon DEF FieldSet
  <2> QED
    BY <2>1, <2>2
<1> DEFINE raw == [noted EXCEPT !.live = [@ EXCEPT !.base = ConfCorrection(d), !.auto_ppm = word]]
           Reloaded(z) == IF x.live.auto_ppm = "absent" THEN CorrectionTo(off, d, tuned)
                          ELSE IF d.min_voters = 0
                          THEN IF x.live.auto_ppm = "on" THEN Skip(x, "auto_ppm") ELSE CorrectionTo(Skip(x, "auto_ppm"), d, tuned)
                          ELSE IF wide THEN Skip(x, "auto_ppm")
                          ELSE IF on /\ ConfCorrection(d) = x.live.base THEN z
                          ELSE CorrectionTo(z, d, tuned)
<1>7. y = Reloaded(set)
  <2>1. raw = set
    <3>1. noted = [live |-> noted.live, skipped |-> noted.skipped]
      BY <1>1, Zenon DEF TunerState
    <3>2. based = [live |-> [noted.live EXCEPT !["base"] = ConfCorrection(d)], skipped |-> noted.skipped]
      BY Zenon DEF FieldWritten, based
    <3>3. set = [live |-> [based.live EXCEPT !["auto_ppm"] = word], skipped |-> based.skipped]
      BY Zenon DEF FieldWritten, set
    <3> HIDE DEF word
    <3>4. set = [live |-> [[noted.live EXCEPT !["base"] = ConfCorrection(d)] EXCEPT !["auto_ppm"] = word], skipped |-> noted.skipped]
      BY ONLY <3>2, <3>3
    <3>5. raw = [noted EXCEPT !.live = [[noted.live EXCEPT !["base"] = ConfCorrection(d)] EXCEPT !["auto_ppm"] = word]]
      OBVIOUS
    <3> HIDE DEF raw
    <3> QED
      BY ONLY <3>1, <3>4, <3>5
  <2>2. y = Reloaded(raw)
    BY Zenon DEF PpmReload, noted
  <2> HIDE DEF raw, Reloaded
  <2> QED
    BY <2>1, <2>2
<1> HIDE DEF off, wide
\* From a state with the same kind of tracking, the correction is set.
<1>8. ASSUME NEW z, OthersSame(x, z, PpmParts), PpmOk(z.live), y = CorrectionTo(z, d, tuned)
      PROVE  /\ OthersSame(x, y, PpmParts) /\ PpmOk(y.live)
             /\ y.live.auto_ppm = z.live.auto_ppm /\ y.live.base = z.live.base
             /\ y.skipped = {} => z.skipped = {} /\ (d.correction # Unset /\ d.type # "file" => y.live.correction = d.correction)
             /\ tuned /\ PpmFrom(z.live, d) => y = z
  <2>1. TunerState(z)
    BY <1>8, Zenon DEF OthersSame
  <2>2. /\ OthersSame(z, y, {"correction"})
        /\ y.live.auto_ppm = z.live.auto_ppm /\ y.live.base = z.live.base /\ y.live.min_voters = z.live.min_voters
        /\ y.skipped = {} => z.skipped = {} /\ (d.correction # Unset /\ d.type # "file" => y.live.correction = d.correction)
    BY ONLY <1>8, <2>1, CorrectionOthers
  <2>3. tuned /\ (d.correction = Unset \/ d.correction = z.live.correction) => y = z
    BY ONLY <1>8, <2>1, CorrectionIs
  <2>4. OthersSame(x, y, PpmParts)
    BY ONLY <1>8, <2>2, Zenon DEF OthersSame, PpmParts
  <2>5. PpmOk(y.live)
    BY <1>8, <2>2, Zenon DEF PpmOk
  <2>6. PpmFrom(z.live, d) => d.correction = Unset \/ d.correction = z.live.correction
    BY DEF PpmFrom, ConfCorrection
  <2> QED
    BY <2>2, <2>3, <2>4, <2>5, <2>6
<1>9. CASE x.live.auto_ppm = "absent"
  <2>1. y = CorrectionTo(off, d, tuned) /\ PpmOk(off.live)
    BY <1>6, <1>7, <1>9, Zenon
  <2>2. /\ OthersSame(x, y, PpmParts) /\ PpmOk(y.live)
        /\ y.live.auto_ppm = off.live.auto_ppm
        /\ y.skipped = {} => off.skipped = {} /\ (d.correction # Unset /\ d.type # "file" => y.live.correction = d.correction)
        /\ tuned /\ PpmFrom(off.live, d) => y = off
    BY <1>6, <1>8, <2>1, Zenon
  <2>3. y.skipped = {} => PpmAs(y.live, d)
    <3>1. y.live.auto_ppm # "on"
      BY <1>6, <1>9, <2>2
    <3> QED
      BY <1>6, <2>2, <3>1, Zenon DEF PpmAs
  <2>4. tuned /\ PpmFrom(x.live, d) => y = x
    <3>1. PpmFrom(x.live, d) => ~on
      BY <1>9 DEF PpmFrom
    <3> QED
      BY <1>6, <2>2, <3>1, Zenon
  <2> QED
    BY <2>2, <2>3, <2>4
\* Skipped altogether.
<1>10. ASSUME NEW z, z = Skip(x, "auto_ppm")
       PROVE  OthersSame(x, z, PpmParts) /\ z.live = x.live /\ z.skipped # {}
  <2>1. FieldSet(x, z, "base") /\ z.skipped # {} /\ z.live = x.live
    BY ONLY TunerState(x), <1>10, FieldSkipped
  <2>2. OthersSame(x, z, {"base"})
    BY <2>1, OthersAre, Zenon
  <2>3. OthersSame(x, z, PpmParts)
    BY ONLY <2>2, Zenon DEF OthersSame, PpmParts
  <2> QED
    BY <2>1, <2>3
<1>11. CASE x.live.auto_ppm # "absent" /\ d.min_voters = 0
  <2> DEFINE z == Skip(x, "auto_ppm")
  <2>1. OthersSame(x, z, PpmParts) /\ z.live = x.live /\ z.skipped # {}
    BY <1>10, Zenon
  <2>2. y = z \/ y = CorrectionTo(z, d, tuned)
    BY <1>7, <1>11, Zenon
  <2> HIDE DEF z
  <2>3. OthersSame(x, y, PpmParts) /\ PpmOk(y.live) /\ y.skipped # {}
    BY <1>8, <2>1, <2>2, Zenon
  <2>4. ~PpmFrom(x.live, d)
    BY <1>11, Zenon DEF PpmOk, PpmFrom
  <2> QED
    BY <2>3, <2>4, Zenon
<1>12. CASE x.live.auto_ppm # "absent" /\ d.min_voters # 0 /\ wide
  <2>1. y = Skip(x, "auto_ppm")
    BY <1>7, <1>12, Zenon
  <2>2. OthersSame(x, y, PpmParts) /\ y.live = x.live /\ y.skipped # {}
    BY <1>10, <2>1, Zenon
  <2>3. ~PpmFrom(x.live, d)
    <3>1. PpmFrom(x.live, d) => x.live.auto_ppm = "on" /\ x.live.base = d.correction
      BY <1>12 DEF PpmFrom, ConfCorrection, wide
    <3> QED
      BY <1>12, <3>1, Zenon DEF PpmOk, wide
  <2> QED
    BY <2>2, <2>3, Zenon
<1>13. CASE x.live.auto_ppm # "absent" /\ d.min_voters # 0 /\ ~wide
  <2>1. PpmOk(set.live)
    <3>1. set.live.auto_ppm \in {"absent", "off", "on"}
      BY <1>4
    <3>2. set.live.min_voters # 0
      BY <1>4, <1>13, Zenon DEF PpmOk
    <3>3. set.live.auto_ppm = "on" => ~(Magnitude(set.live.base) > MaxPpm)
      <4> SUFFICES ASSUME set.live.auto_ppm = "on" PROVE ~(Magnitude(ConfCorrection(d)) > MaxPpm)
        BY <1>4
      <4>1. on
        BY <1>4
      <4>2. CASE d.correction = Unset
        BY <4>2, ConfigAssumption DEF ConfCorrection, Magnitude
      <4>3. CASE d.correction # Unset
        BY <1>13, <4>1, <4>3, Zenon DEF ConfCorrection, wide
      <4> QED
        BY <4>2, <4>3
    <3> QED
      BY <3>1, <3>2, <3>3, Zenon DEF PpmOk
  <2>2. CASE on /\ ConfCorrection(d) = x.live.base
    <3>1. y = set
      BY <1>7, <1>13, <2>2, Zenon
    <3>2. PpmAs(set.live, d)
      BY <1>4, <2>2 DEF PpmAs
    <3> QED
      BY <1>4, <1>5, <1>13, <2>1, <3>1, <3>2, Zenon
  <2>3. CASE ~(on /\ ConfCorrection(d) = x.live.base)
    <3>1. y = CorrectionTo(set, d, tuned)
      BY <1>7, <1>13, <2>3, Zenon
    <3>2. /\ OthersSame(x, y, PpmParts) /\ PpmOk(y.live)
          /\ y.live.auto_ppm = set.live.auto_ppm /\ y.live.base = set.live.base
          /\ y.skipped = {} => (d.correction # Unset /\ d.type # "file" => y.live.correction = d.correction)
          /\ tuned /\ PpmFrom(set.live, d) => y = set
      BY <1>4, <1>8, <2>1, <3>1, Zenon
    <3>3. y.skipped = {} => PpmAs(y.live, d)
      BY <1>4, <3>2 DEF PpmAs
    <3>4. tuned /\ PpmFrom(x.live, d) => y = x
      BY <1>5, <1>13, <3>2, Zenon
    <3> QED
      BY <3>2, <3>3, <3>4
  <2> QED
    BY <2>2, <2>3
<1> QED
  BY <1>9, <1>11, <1>12, <1>13

TunerParts == {"centerfreq", "sample_rate", "gain"} \union PpmParts
TunerAs(live, d) ==
  /\ ~Scans(d) => live.centerfreq = d.centerfreq /\ live.sample_rate = d.sample_rate
  /\ d.gain # Unset /\ d.type # "file" => live.gain = d.gain
  /\ PpmAs(live, d)
TunerFrom(live, d) ==
  live.centerfreq = d.centerfreq /\ live.sample_rate = d.sample_rate /\ live.gain = d.gain /\ PpmFrom(live, d)
TunerReloaded(x, y, d, tuned) ==
  /\ OthersSame(x, y, TunerParts) /\ PpmOk(y.live)
  /\ y.skipped = {} => TunerAs(y.live, d)
  /\ tuned /\ TunerFrom(x.live, d) => y = x

LEMMA TunerIs ==
  ASSUME NEW x, TunerState(x), PpmOk(x.live), NEW d, d.auto_ppm \in {"absent", "off", "on"}, NEW tuned
  PROVE  TunerReloaded(x, ReloadTuner(x, d, tuned), d, tuned)
<1> DEFINE a == RetuneTo(x, d, tuned)
           b == RateTo(a, d, tuned)
           c == GainTo(b, d, tuned)
           y == PpmReload(c, d, tuned)
<1>1. /\ FieldSet(x, a, "centerfreq") /\ (d.centerfreq = x.live.centerfreq => a = x)
      /\ a.skipped = {} /\ ~Scans(d) => a.live.centerfreq = d.centerfreq
  BY RetuneIs
<1>2. OthersSame(x, a, {"centerfreq"}) /\ TunerState(a)
  BY <1>1, OthersAre, Zenon DEF FieldSet
<1> HIDE DEF a
<1>3. /\ FieldSet(a, b, "sample_rate") /\ (d.sample_rate = a.live.sample_rate => b = a)
      /\ b.skipped = {} /\ ~Scans(d) => b.live.sample_rate = d.sample_rate
  BY <1>2, RateIs
<1>4. OthersSame(a, b, {"sample_rate"}) /\ TunerState(b)
  BY <1>2, <1>3, OthersAre, Zenon DEF FieldSet
<1> HIDE DEF b
<1>5. /\ FieldSet(b, c, "gain") /\ (tuned /\ d.gain = b.live.gain => c = b)
      /\ c.skipped = {} /\ d.gain # Unset /\ d.type # "file" => c.live.gain = d.gain
  BY <1>4, GainIs
<1>6. OthersSame(b, c, {"gain"}) /\ TunerState(c)
  BY <1>4, <1>5, OthersAre, Zenon DEF FieldSet
<1> HIDE DEF c
<1>7. c.live.auto_ppm = x.live.auto_ppm /\ c.live.min_voters = x.live.min_voters /\ c.live.base = x.live.base
  BY ONLY <1>2, <1>4, <1>6 DEF OthersSame, DeviceFields
<1>8. PpmOk(c.live)
  BY <1>7, Zenon DEF PpmOk
<1>9. /\ OthersSame(c, y, PpmParts) /\ PpmOk(y.live)
      /\ y.skipped = {} => PpmAs(y.live, d)
      /\ tuned /\ PpmFrom(c.live, d) => y = c
  BY <1>6, <1>8, PpmIs
<1> HIDE DEF y
<1>10. OthersSame(x, y, TunerParts)
  BY ONLY <1>2, <1>4, <1>6, <1>9, Zenon DEF OthersSame, TunerParts
<1>11. ASSUME y.skipped = {} PROVE TunerAs(y.live, d)
  <2>1. c.skipped = {} /\ b.skipped = {} /\ a.skipped = {}
    BY ONLY <1>4, <1>6, <1>9, <1>11 DEF OthersSame
  <2>2. /\ b.live.centerfreq = a.live.centerfreq /\ c.live.centerfreq = b.live.centerfreq /\ y.live.centerfreq = c.live.centerfreq
        /\ c.live.sample_rate = b.live.sample_rate /\ y.live.sample_rate = c.live.sample_rate /\ y.live.gain = c.live.gain
    BY ONLY <1>4, <1>6, <1>9 DEF OthersSame, DeviceFields, PpmParts
  <2>3. ~Scans(d) => y.live.centerfreq = d.centerfreq /\ y.live.sample_rate = d.sample_rate
    BY <1>1, <1>3, <2>1, <2>2, Zenon
  <2>4. d.gain # Unset /\ d.type # "file" => y.live.gain = d.gain
    BY <1>5, <2>1, <2>2, Zenon
  <2> QED
    BY <1>9, <1>11, <2>3, <2>4, Zenon DEF TunerAs
<1>12. ASSUME tuned, TunerFrom(x.live, d) PROVE y = x
  <2>1. a = x
    BY <1>1, <1>12, Zenon DEF TunerFrom
  <2>2. b = x
    BY <1>3, <1>12, <2>1, Zenon DEF TunerFrom
  <2>3. c = x
    BY <1>5, <1>12, <2>2, Zenon DEF TunerFrom
  <2> QED
    BY <1>9, <1>12, <2>3, Zenon DEF TunerFrom
<1>13. ReloadTuner(x, d, tuned) = y
  BY Zenon DEF ReloadTuner, y, c, b, a
<1> QED
  BY <1>9, <1>10, <1>11, <1>12, <1>13, Zenon DEF TunerReloaded

-----------------------------------------------------------------------------
(* One device.                                                              *)

ChannelsOf(chans) == [j \in DOMAIN chans |-> Parsed(chans[j])]
ChannelsReloaded(s, u, i, chans) ==
  /\ StateOf(u) /\ RunFrame(s.r, u.r, i) /\ s.skipped \subseteq u.skipped
  /\ u.skipped = {} /\ (\A j \in DOMAIN chans : Counts(chans[j])) => u.r.devices[i].channels = ChannelsOf(chans)
  /\ s.r.devices[i].channels = ChannelsOf(chans) => u = s

LEMMA ReloadedChannels ==
  ASSUME NEW s, StateOf(s), NEW i \in DOMAIN s.r.devices, NEW chans, Ready(chans)
  PROVE  ChannelsReloaded(s, ReloadChannels(s, i, chans), i, chans)
<1> DEFINE before == s.r.devices[i].channels
           p == CommonPrefix(before, chans)
           cut == ReplaceTail(s, i, chans)
           mid == cut.r.devices[i].channels
           t == ToggleChannels(cut.r, i, chans, p)
           after == t.devices[i].channels
           u == [r |-> t, skipped |-> cut.skipped]
           all == \A j \in DOMAIN chans : Counts(chans[j])
<1>1. s = [r |-> s.r, skipped |-> s.skipped] /\ RunOk(s.r)
  BY Zenon DEF StateOf
<1>2. IsList(before) /\ Len(before) \in Nat /\ DOMAIN before = 1 .. Len(before) /\ \A j \in DOMAIN before : ChanOk(before[j])
  BY <1>1, ChannelsList, Zenon
<1>3. IsList(chans) /\ Len(chans) \in Nat /\ DOMAIN chans = 1 .. Len(chans) /\ \A j \in DOMAIN chans : ChannelSettings(chans[j])
  BY ListFacts, Zenon DEF Ready
<1> HIDE DEF p, cut, t
<1>4. /\ p \in Nat /\ p <= Len(before) /\ p <= Len(chans) /\ \A j \in 1 .. p : before[j].signature = Signature(chans[j])
      /\ Len(before) = Len(chans) /\ (\A j \in DOMAIN before : before[j].signature = Signature(chans[j])) => p = Len(before)
  <2> HIDE DEF before
  <2> QED
    BY <1>2, <1>3, PrefixIs, Zenon DEF p, PrefixOf
<1>5. TailReplaced(s, cut, i, chans)
  BY TailIs, Zenon DEF cut
<1>6. /\ StateOf(cut) /\ RunFrame(s.r, cut.r, i) /\ s.skipped \subseteq cut.skipped
      /\ p <= Len(mid) /\ \A j \in 1 .. p : mid[j] = before[j]
      /\ cut.skipped = {} /\ all => Len(mid) = Len(chans) /\ \A j \in p + 1 .. Len(chans) : mid[j] = Parsed(chans[j])
      /\ p = Len(before) /\ p = Len(chans) => cut = s
  BY <1>5, Zenon DEF TailReplaced, p
<1>7. ToggledTo(cut.r, i, chans, t, p)
  <2>1. RunOk(cut.r) /\ i \in DOMAIN cut.r.devices
    BY <1>6, Zenon DEF RunFrame
  <2> QED
    BY <1>4, <1>6, <2>1, Toggled, Zenon DEF t
<1>8. /\ RunFrame(cut.r, t, i) /\ SameChannels(mid, after)
      /\ \A j \in DOMAIN mid : j <= p => after[j].enabled = chans[j].enabled
      /\ \A j \in DOMAIN mid : ~(j <= p) => after[j] = mid[j]
      /\ (\A j \in DOMAIN mid : mid[j].enabled = chans[j].enabled) => t = cut.r
  BY <1>7, Zenon DEF ToggledTo
<1>9. RunFrame(s.r, t, i) /\ RunOk(t) /\ i \in DOMAIN t.devices /\ RunOk(cut.r) /\ i \in DOMAIN cut.r.devices
  <2>1. RunFrame(s.r, t, i)
    BY <1>6, <1>8, FrameTwice, Zenon
  <2> QED
    BY <1>6, <2>1, Zenon DEF RunFrame
<1>10. /\ IsList(after) /\ Len(after) \in Nat /\ DOMAIN after = 1 .. Len(after) /\ \A j \in DOMAIN after : ChanOk(after[j])
       /\ IsList(mid) /\ Len(mid) \in Nat /\ DOMAIN mid = 1 .. Len(mid)
  BY <1>9, ChannelsList, Zenon
<1>11. ASSUME cut.skipped = {}, all PROVE after = ChannelsOf(chans)
  <2>1. Len(mid) = Len(chans) /\ \A j \in p + 1 .. Len(chans) : mid[j] = Parsed(chans[j])
    BY <1>6, <1>11, Zenon
  <2>2. Len(after) = Len(chans) /\ DOMAIN mid = DOMAIN chans
    <3>1. Len(after) = Len(mid)
      BY <1>8, Zenon DEF SameChannels
    <3> HIDE DEF after, mid
    <3> QED
      BY <1>3, <1>10, <2>1, <3>1
  <2>3. ASSUME NEW j \in DOMAIN chans PROVE after[j] = Parsed(chans[j])
    <3>1. j \in DOMAIN mid /\ j \in DOMAIN after
      <4> HIDE DEF after, mid
      <4> QED
        BY <1>3, <1>10, <2>2
    <3>2. CASE j <= p
      <4>1. j \in 1 .. p
        BY <1>3, <1>4, <3>2
      <4>2. mid[j] = before[j] /\ before[j].signature = Signature(chans[j]) /\ after[j].enabled = chans[j].enabled
        BY <1>4, <1>6, <1>8, <3>1, <3>2, <4>1, Zenon
      <4>3. ChanOk(after[j]) /\ SameChannel(mid[j], after[j])
        BY <1>8, <1>10, <3>1, Zenon DEF SameChannels
      <4>4. ChanOk(mid[j])
        BY <1>9, <3>1, ChannelsList, Zenon
      <4> DEFINE m == mid[j]
                 e == after[j]
      <4>5. m = [signature |-> m.signature, enabled |-> m.enabled, outputs |-> m.outputs] /\ e = [m EXCEPT !.enabled = e.enabled]
        BY <4>3, <4>4, Zenon DEF ChanOk, SameChannel
      <4>6. e.signature = m.signature
        <5> HIDE DEF m, e
        <5> QED
          BY ONLY <4>5
      <4>7. e.signature = Signature(chans[j])
        BY <4>2, <4>6, Zenon
      <4>8. Signature(chans[j]) # NoSignature /\ Signature(chans[j]).outputs = chans[j].outputs
        BY <1>3, SignatureIs, Zenon DEF Followed
      <4>9. e = [signature |-> e.signature, enabled |-> e.enabled, outputs |-> e.outputs] /\ e.outputs = Kept(e.signature.outputs)
        BY <4>3, <4>7, <4>8, Zenon DEF ChanOk
      <4>10. e = [signature |-> Signature(chans[j]), enabled |-> chans[j].enabled, outputs |-> Kept(chans[j].outputs)]
        <5>1. e.enabled = chans[j].enabled
          BY <4>2, Zenon
        <5> HIDE DEF e
        <5> QED
          BY ONLY <4>7, <4>8, <4>9, <5>1
      <4> QED
        BY <4>10, Zenon DEF Parsed
    <3>3. CASE ~(j <= p)
      <4>1. j \in p + 1 .. Len(chans)
        BY <1>3, <1>4, <3>3
      <4> QED
        BY <1>8, <2>1, <3>1, <3>3, <4>1, Zenon
    <3> QED
      BY <3>2, <3>3
  <2>4. after = [j \in DOMAIN chans |-> after[j]]
    <3>1. after = [j \in 1 .. Len(after) |-> after[j]]
      BY <1>10, ListFacts, Zenon
    <3> HIDE DEF after
    <3> QED
      BY <1>3, <2>2, <3>1
  <2> HIDE DEF after
  <2> QED
    BY ONLY <2>3, <2>4, Zenon DEF ChannelsOf
<1>12. ASSUME before = ChannelsOf(chans) PROVE u = s
  <2>1. DOMAIN before = DOMAIN chans /\ \A j \in DOMAIN before : before[j].signature = Signature(chans[j]) /\ before[j].enabled = chans[j].enabled
    <3> HIDE DEF before
    <3>1. DOMAIN before = DOMAIN chans /\ \A j \in DOMAIN before : before[j] = Parsed(chans[j])
      BY <1>12, Zenon DEF ChannelsOf
    <3>2. \A c : Parsed(c).signature = Signature(c) /\ Parsed(c).enabled = c.enabled
      BY DEF Parsed
    <3> QED
      BY <3>1, <3>2
  <2>2. Len(before) = Len(chans)
    BY <1>2, <1>3, <2>1, SameLength, Zenon
  <2>3. p = Len(before)
    BY <1>4, <2>1, <2>2, Zenon
  <2>4. cut = s
    BY <1>6, <2>2, <2>3, Zenon
  <2>5. t = s.r
    BY <1>8, <2>1, <2>4, Zenon
  <2> QED
    BY <1>1, <2>4, <2>5
<1>13. u.r = t /\ u.skipped = cut.skipped /\ u = [r |-> u.r, skipped |-> u.skipped]
  OBVIOUS
<1>14. ReloadChannels(s, i, chans) = u
  BY Zenon DEF ReloadChannels, TogglePrefix, t, cut, p
<1> HIDE DEF u
<1>15. ChannelsReloaded(s, u, i, chans)
  BY <1>6, <1>9, <1>11, <1>12, <1>13, Zenon DEF ChannelsReloaded, StateOf
<1> QED
  BY <1>14, <1>15, Zenon

AllCount(d) == \A j \in DOMAIN Kept(d.channels) : Counts(Kept(d.channels)[j])
StartedAs(live, d) ==
  /\ HasFields(live, DeviceFields) /\ live.type = d.type /\ live.mode = d.mode /\ TunerFrom(live, d)
  /\ live.min_voters = d.min_voters /\ live.capacity = Capacity(d) /\ live.channels = ChannelsOf(parse_channels(d))
  /\ AllCount(d) => live.channels = ChannelsOf(Kept(d.channels))

LEMMA StartedDevice ==
  ASSUME NEW d, DeviceSettings(d)
  PROVE  StartedAs(StartDevice(d), d)
<1> DEFINE chans == ChannelsOf(parse_channels(d))
           cap == Capacity(d)
           base == ConfCorrection(d)
           live == StartDevice(d)
<1>1. live = [type |-> d.type, mode |-> d.mode, sample_rate |-> d.sample_rate, centerfreq |-> d.centerfreq,
              gain |-> d.gain, correction |-> base, auto_ppm |-> d.auto_ppm, min_voters |-> d.min_voters,
              base |-> base, capacity |-> cap, channels |-> chans]
  BY Zenon DEF StartDevice, ConfCorrection, ChannelsOf
<1> HIDE DEF chans, cap, base, live
<1>2. HasFields(live, DeviceFields)
  BY ONLY <1>1 DEF HasFields, DeviceFields
<1>3. /\ live.type = d.type /\ live.mode = d.mode /\ live.sample_rate = d.sample_rate /\ live.centerfreq = d.centerfreq
      /\ live.gain = d.gain /\ live.correction = base /\ live.base = base /\ live.auto_ppm = d.auto_ppm
      /\ live.min_voters = d.min_voters /\ live.capacity = cap /\ live.channels = chans
  BY ONLY <1>1
<1>4. TunerFrom(live, d)
  BY <1>3, Zenon DEF TunerFrom, PpmFrom, base
<1>5. AllCount(d) => live.channels = ChannelsOf(Kept(d.channels))
  <2>1. AllCount(d) => parse_channels(d) = Kept(d.channels)
    BY CountedAre, Zenon DEF DeviceSettings, AllCount
  <2> QED
    BY <1>3, <2>1, Zenon DEF chans
<1> QED
  BY <1>2, <1>3, <1>4, <1>5, Zenon DEF StartedAs, live, cap, chans

LEMMA KeptReady ==
  ASSUME NEW d, DeviceSettings(d)
  PROVE  Ready(Kept(d.channels))
BY KeptList, Zenon DEF DeviceSettings, Ready

OthersKept(r, r2, i) ==
  /\ RunOk(r2) /\ DOMAIN r2.devices = DOMAIN r.devices
  /\ \A h \in DOMAIN r.devices : h # i => r2.devices[h] = r.devices[h]
  /\ SameMixers(r.mixers, r2.mixers)
DeviceReloaded(s, u, i, d, tuned) ==
  /\ StateOf(u) /\ OthersKept(s.r, u.r, i) /\ s.skipped \subseteq u.skipped
  /\ u.skipped = {} /\ AllCount(d) => SameDevice(u.r.devices[i], d)
  /\ tuned /\ AllCount(d) /\ s.r.devices[i] = StartDevice(d) => u = s

\* A device of a state is replaced by one with the same channels.
LEMMA DeviceReplaced ==
  ASSUME NEW r, RunOk(r), NEW i \in DOMAIN r.devices, NEW live, DevOk(live), live.channels = r.devices[i].channels
  PROVE  /\ OthersKept(r, Running([r.devices EXCEPT ![i] = live], r.mixers), i)
         /\ Running([r.devices EXCEPT ![i] = live], r.mixers).devices[i] = live
<1> DEFINE devs == r.devices
           devs2 == [devs EXCEPT ![i] = live]
           r2 == Running(devs2, r.mixers)
<1>1. IsList(devs) /\ \A h \in DOMAIN devs : DevOk(devs[h])
  BY Zenon DEF RunOk, DevicesOk
<1>2. IsList(devs2) /\ DOMAIN devs2 = DOMAIN devs /\ devs2[i] = live /\ \A h \in DOMAIN devs : h # i => devs2[h] = devs[h]
  <2> HIDE DEF devs
  <2> QED
    BY <1>1, OneReplaced, Zenon DEF devs
<1> HIDE DEF devs2
<1>3. r2.devices = devs2 /\ r2.mixers = r.mixers /\ r2 = Running(r2.devices, r2.mixers)
  BY DEF Running
<1> HIDE DEF r2
<1>4. DevicesOk(devs2)
  BY <1>1, <1>2, Zenon DEF DevicesOk
<1>5. \A name : OwnedInputs(devs2, name) = OwnedInputs(devs, name)
  <2> TAKE name
  <2>1. \A h \in DOMAIN devs : devs2[h].channels = devs[h].channels
    BY <1>2, Zenon
  <2> HIDE DEF devs
  <2> QED
    BY <1>2, <2>1, OwnedSame, Zenon
<1>6. RunOk(r2)
  BY <1>3, <1>4, <1>5, Zenon DEF RunOk, Fed
<1> QED
  BY <1>2, <1>3, <1>6, Zenon DEF OthersKept, SameMixers, r2, devs2

LEMMA ReloadedDevice ==
  ASSUME NEW s, StateOf(s), NEW i \in DOMAIN s.r.devices, NEW d, DeviceSettings(d), NEW tuned
  PROVE  DeviceReloaded(s, ReloadDevice(s, i, d, tuned), i, d, tuned)
<1> DEFINE chans == Kept(d.channels)
           dev == s.r.devices[i]
           edited == ReloadChannels(s, i, chans)
           mid == edited.r.devices[i]
           x0 == [live |-> mid, skipped |-> edited.skipped]
           x == ReloadTuner(x0, d, tuned)
           done == Running([edited.r.devices EXCEPT ![i] = x.live], edited.r.mixers)
           u == ReloadDevice(s, i, d, tuned)
<1>1. s = [r |-> s.r, skipped |-> s.skipped] /\ RunOk(s.r)
  BY Zenon DEF StateOf
<1>2. u = IF d.type # dev.type THEN Skip(s, "type")
          ELSE IF d.mode # dev.mode THEN Skip(s, "mode")
          ELSE [r |-> done, skipped |-> x.skipped]
  BY Zenon DEF ReloadDevice, TuneDevice
<1> HIDE DEF u
<1>3. ASSUME NEW what, u = Skip(s, what), d.type # dev.type \/ d.mode # dev.mode
      PROVE  DeviceReloaded(s, u, i, d, tuned)
  <2>1. u = [r |-> s.r, skipped |-> s.skipped \union {what}] /\ u.r = s.r /\ u.skipped = s.skipped \union {what}
    BY <1>1, <1>3, SkipIs, Zenon
  <2>2. dev # StartDevice(d)
    BY <1>3, StartedDevice, Zenon DEF StartedAs
  <2>3. s.skipped \subseteq u.skipped /\ u.skipped # {}
    BY <2>1
  <2>4. StateOf(u) /\ OthersKept(s.r, u.r, i)
    BY <1>1, <2>1, Zenon DEF StateOf, OthersKept, SameMixers
  <2> QED
    BY <2>2, <2>3, <2>4, Zenon DEF DeviceReloaded
<1>4. CASE d.type # dev.type
  <2>1. u = Skip(s, "type")
    BY <1>2, <1>4, Zenon
  <2> QED
    BY <1>3, <1>4, <2>1, Zenon DEF u
<1>5. CASE d.type = dev.type /\ d.mode # dev.mode
  <2>1. u = Skip(s, "mode")
    BY <1>2, <1>5, Zenon
  <2> QED
    BY <1>3, <1>5, <2>1, Zenon DEF u
<1>6. CASE d.type = dev.type /\ d.mode = dev.mode
  <2>1. /\ StateOf(edited) /\ RunFrame(s.r, edited.r, i) /\ s.skipped \subseteq edited.skipped
        /\ edited.skipped = {} /\ AllCount(d) => mid.channels = ChannelsOf(chans)
        /\ dev.channels = ChannelsOf(chans) => edited = s
    <3>1. ChannelsReloaded(s, ReloadChannels(s, i, chans), i, chans)
      BY KeptReady, ReloadedChannels, Zenon
    <3> QED
      BY <3>1, Zenon DEF ChannelsReloaded, AllCount
  <2> HIDE DEF edited
  <2>2. /\ RunOk(edited.r) /\ i \in DOMAIN edited.r.devices /\ DOMAIN edited.r.devices = DOMAIN s.r.devices
        /\ \A h \in DOMAIN s.r.devices : h # i => edited.r.devices[h] = s.r.devices[h]
        /\ SameMixers(s.r.mixers, edited.r.mixers)
    BY <2>1, Zenon DEF RunFrame
  <2>3. DevOk(mid) /\ HasFields(mid, DeviceFields) /\ PpmOk(mid)
    BY <2>2, ChannelsList, Zenon DEF DevOk
  <2>4. x0.live = mid /\ x0.skipped = edited.skipped /\ x0 = [live |-> x0.live, skipped |-> x0.skipped]
    <3> HIDE DEF mid
    <3> QED
      OBVIOUS
  <2>5. TunerState(x0) /\ PpmOk(x0.live)
    BY <2>3, <2>4, Zenon DEF TunerState
  <2> HIDE DEF x0, x
  <2>6. /\ OthersSame(x0, x, TunerParts) /\ PpmOk(x.live)
        /\ x.skipped = {} => TunerAs(x.live, d)
        /\ tuned /\ TunerFrom(x0.live, d) => x = x0
    <3> d.auto_ppm \in {"absent", "off", "on"}
      BY DEF DeviceSettings
    <3>1. TunerReloaded(x0, ReloadTuner(x0, d, tuned), d, tuned)
      BY <2>5, TunerIs
    <3> QED
      BY <3>1, Zenon DEF TunerReloaded, x
  <2>7. /\ TunerState(x) /\ edited.skipped \subseteq x.skipped
        /\ x.live.channels = mid.channels /\ x.live.capacity = mid.capacity
    <3>1. "channels" \in DeviceFields /\ "channels" \notin TunerParts /\ "capacity" \in DeviceFields /\ "capacity" \notin TunerParts
      BY DEF DeviceFields, TunerParts, PpmParts
    <3> QED
      BY <2>4, <2>6, <3>1, Zenon DEF OthersSame
  <2>8. DevOk(x.live)
    BY <2>3, <2>6, <2>7, Zenon DEF DevOk, TunerState
  <2>9. OthersKept(edited.r, done, i) /\ done.devices[i] = x.live
    <3> DEFINE r == edited.r
               live == x.live
    <3>1. RunOk(r) /\ i \in DOMAIN r.devices /\ DevOk(live) /\ live.channels = r.devices[i].channels
      BY <2>2, <2>7, <2>8, Zenon
    <3> HIDE DEF r, live
    <3>2. /\ OthersKept(r, Running([r.devices EXCEPT ![i] = live], r.mixers), i)
          /\ Running([r.devices EXCEPT ![i] = live], r.mixers).devices[i] = live
      BY <3>1, DeviceReplaced
    <3> QED
      BY <3>2, Zenon DEF r, live
  <2>10. u = [r |-> done, skipped |-> x.skipped]
    BY <1>2, <1>6, Zenon
  <2> HIDE DEF done
  <2>11. u.r = done /\ u.skipped = x.skipped /\ u = [r |-> u.r, skipped |-> u.skipped]
    BY ONLY <2>10
  <2>12. OthersKept(s.r, u.r, i)
    BY <2>2, <2>9, <2>11, Zenon DEF OthersKept, SameMixers
  <2>13. StateOf(u)
    BY <2>11, <2>12, Zenon DEF StateOf, OthersKept
  <2>14. s.skipped \subseteq u.skipped
    BY <2>1, <2>7, <2>11
  <2>15. ASSUME u.skipped = {}, AllCount(d) PROVE SameDevice(u.r.devices[i], d)
    <3>1. x.skipped = {} /\ edited.skipped = {}
      BY <2>7, <2>11, <2>15
    <3>2. TunerAs(x.live, d) /\ x.live.channels = ChannelsOf(chans)
      BY <2>1, <2>6, <2>7, <2>15, <3>1, Zenon
    <3>3. StartDevice(d).channels = ChannelsOf(chans) /\ StartDevice(d).base = ConfCorrection(d)
      BY <2>15, StartedDevice, Zenon DEF StartedAs, TunerFrom, PpmFrom
    <3>4. SameDevice(x.live, d)
      BY <3>2, <3>3, Zenon DEF SameDevice, TunerAs, PpmAs
    <3> QED
      BY <2>9, <2>11, <3>4, Zenon
  <2>16. ASSUME tuned, AllCount(d), dev = StartDevice(d) PROVE u = s
    <3>1. dev.channels = ChannelsOf(chans) /\ TunerFrom(dev, d)
      BY <2>16, StartedDevice, Zenon DEF StartedAs
    <3>2. edited = s
      BY <2>1, <3>1, Zenon
    <3>3. x = x0
      BY <2>4, <2>6, <2>16, <3>1, <3>2, Zenon DEF mid
    <3>4. x.live = s.r.devices[i] /\ x.skipped = s.skipped
      BY <2>4, <3>2, <3>3, Zenon DEF mid
    <3>5. [s.r.devices EXCEPT ![i] = s.r.devices[i]] = s.r.devices
      <4>1. IsList(s.r.devices)
        BY <1>1, Zenon DEF RunOk, DevicesOk
      <4>2. s.r.devices = [k \in 1 .. Len(s.r.devices) |-> s.r.devices[k]]
        BY <4>1, ListFacts, Zenon
      <4> QED
        BY ONLY <4>2
    <3>6. done = Running(s.r.devices, s.r.mixers)
      BY <3>2, <3>4, <3>5, Zenon DEF done
    <3>7. s.r = Running(s.r.devices, s.r.mixers)
      BY <1>1, Zenon DEF RunOk
    <3> QED
      BY <1>1, <2>10, <3>4, <3>6, <3>7, Zenon
  <2> QED
    BY <2>12, <2>13, <2>14, <2>15, <2>16, Zenon DEF DeviceReloaded, u
<1> QED
  BY <1>4, <1>5, <1>6, Zenon

-----------------------------------------------------------------------------
(* Every device, then every mixer.                                          *)

SettingsOf(devs) == IsList(devs) /\ \A h \in DOMAIN devs : DeviceSettings(devs[h])
DevicesSame(devs, live, k) == \A h \in 1 .. k : AllCount(devs[h]) => SameDevice(live[h], devs[h])
DevicesFrom(devs, live) == \A h \in DOMAIN devs : AllCount(devs[h]) /\ live[h] = StartDevice(devs[h])
DevicesReloaded(s, u, devs, tuned, k) ==
  /\ StateOf(u) /\ DOMAIN u.r.devices = DOMAIN s.r.devices /\ SameMixers(s.r.mixers, u.r.mixers)
  /\ s.skipped \subseteq u.skipped
  /\ u.skipped = {} => DevicesSame(devs, u.r.devices, k)
  /\ tuned /\ DevicesFrom(devs, s.r.devices) => u = s

DeviceStep(s0, devs, tuned, d, t, x) == ReloadDevice(t, x, devs[x], tuned)
DeviceInv(s0, devs, tuned, d, t, k) == DevicesReloaded(s0, t, devs, tuned, k)
OfDevices == INSTANCE Folding WITH Step <- DeviceStep, Inv <- DeviceInv

LEMMA OneMoreDevice ==
  ASSUME NEW s, NEW devs, SettingsOf(devs), NEW tuned, NEW t, NEW k \in DOMAIN devs,
         k \in DOMAIN s.r.devices, DevicesReloaded(s, t, devs, tuned, k - 1)
  PROVE  DevicesReloaded(s, ReloadDevice(t, k, devs[k], tuned), devs, tuned, k)
<1> DEFINE u == ReloadDevice(t, k, devs[k], tuned)
           d == devs[k]
<1>1. DeviceSettings(d) /\ k \in Nat /\ k \in DOMAIN devs
  <2>1. k \in 1 .. Len(devs)
    BY ListFacts, Zenon DEF SettingsOf
  <2> QED
    BY <2>1 DEF SettingsOf
<1>2. /\ StateOf(t) /\ DOMAIN t.r.devices = DOMAIN s.r.devices /\ SameMixers(s.r.mixers, t.r.mixers)
      /\ s.skipped \subseteq t.skipped
      /\ t.skipped = {} => DevicesSame(devs, t.r.devices, k - 1)
      /\ tuned /\ DevicesFrom(devs, s.r.devices) => t = s
  BY Zenon DEF DevicesReloaded
<1> HIDE DEF u, d
<1>3. DeviceReloaded(t, u, k, d, tuned)
  <2>1. k \in DOMAIN t.r.devices
    BY <1>2, Zenon
  <2> QED
    BY <1>1, <1>2, <2>1, ReloadedDevice, Zenon DEF u, d
<1>4. /\ StateOf(u) /\ OthersKept(t.r, u.r, k) /\ t.skipped \subseteq u.skipped
      /\ u.skipped = {} /\ AllCount(d) => SameDevice(u.r.devices[k], d)
      /\ tuned /\ AllCount(d) /\ t.r.devices[k] = StartDevice(d) => u = t
  BY <1>3, Zenon DEF DeviceReloaded
<1>5. /\ DOMAIN u.r.devices = DOMAIN s.r.devices /\ SameMixers(s.r.mixers, u.r.mixers)
      /\ \A h \in DOMAIN s.r.devices : h # k => u.r.devices[h] = t.r.devices[h]
  BY <1>2, <1>4, Zenon DEF OthersKept, SameMixers
<1>6. s.skipped \subseteq u.skipped
  BY <1>2, <1>4
<1>7. ASSUME u.skipped = {} PROVE DevicesSame(devs, u.r.devices, k)
  <2>1. t.skipped = {}
    BY <1>4, <1>7
  <2>2. IsList(t.r.devices) /\ DOMAIN t.r.devices = 1 .. Len(t.r.devices) /\ Len(t.r.devices) \in Nat
    BY <1>2, ListFacts, Zenon DEF StateOf, RunOk, DevicesOk
  <2>3. ASSUME NEW h \in 1 .. k, AllCount(devs[h]) PROVE SameDevice(u.r.devices[h], devs[h])
    <3>1. h = k \/ (h \in 1 .. k - 1 /\ h # k)
      BY <1>1
    <3>2. h \in DOMAIN s.r.devices
      <4>1. k \in 1 .. Len(t.r.devices)
        BY <1>2, <2>2, Zenon
      <4>2. h \in 1 .. Len(t.r.devices)
        BY <1>1, <2>2, <4>1
      <4> QED
        BY <1>2, <2>2, <4>2, Zenon
    <3> QED
      BY <1>2, <1>4, <1>5, <1>7, <2>1, <2>3, <3>1, <3>2, Zenon DEF DevicesSame, d
  <2> QED
    BY <2>3, Zenon DEF DevicesSame
<1>8. ASSUME tuned, DevicesFrom(devs, s.r.devices) PROVE u = s
  <2>1. t = s
    BY <1>2, <1>8, Zenon
  <2>2. AllCount(d) /\ s.r.devices[k] = StartDevice(d)
    BY <1>1, <1>8, Zenon DEF DevicesFrom, d
  <2> QED
    BY <1>4, <1>8, <2>1, <2>2, Zenon
<1> QED
  BY <1>4, <1>5, <1>6, <1>7, <1>8, Zenon DEF DevicesReloaded, u

ReloadedAll(s, u, devs, tuned) ==
  /\ StateOf(u) /\ DOMAIN u.r.devices = DOMAIN s.r.devices /\ SameMixers(s.r.mixers, u.r.mixers)
  /\ s.skipped \subseteq u.skipped
  /\ u.skipped = {} =>
       DOMAIN u.r.devices = DOMAIN devs /\ \A i \in DOMAIN devs : AllCount(devs[i]) => SameDevice(u.r.devices[i], devs[i])
  /\ tuned /\ DOMAIN s.r.devices = DOMAIN devs /\ DevicesFrom(devs, s.r.devices) => u = s

LEMMA ReloadedDevices ==
  ASSUME NEW s, StateOf(s), NEW devs, SettingsOf(devs), NEW tuned
  PROVE  ReloadedAll(s, ReloadDevices(s, devs, tuned), devs, tuned)
<1> DEFINE u == ReloadDevices(s, devs, tuned)
           n == Len(devs)
           seq == Indices(0, n)
           live == s.r.devices
<1>1. s = [r |-> s.r, skipped |-> s.skipped] /\ RunOk(s.r) /\ IsList(live) /\ IsList(devs)
  BY Zenon DEF StateOf, RunOk, DevicesOk, SettingsOf
<1>2. n \in Nat /\ DOMAIN devs = 1 .. n /\ Len(live) \in Nat /\ DOMAIN live = 1 .. Len(live)
  BY <1>1, ListFacts, Zenon
<1> HIDE DEF u, n
<1>3. CASE n # Len(live)
  <2>1. u = Skip(s, "device count")
    BY <1>3, Zenon DEF ReloadDevices, u, n
  <2>2. u = [r |-> s.r, skipped |-> s.skipped \union {"device count"}] /\ u.r = s.r /\ u.skipped = s.skipped \union {"device count"}
    BY <1>1, <2>1, SkipIs, Zenon
  <2>3. s.skipped \subseteq u.skipped /\ u.skipped # {}
    BY ONLY <2>2
  <2>4. DOMAIN live # DOMAIN devs
    BY <1>1, <1>3, SameLength, Zenon DEF n
  <2>5. StateOf(u) /\ SameMixers(s.r.mixers, u.r.mixers)
    BY <1>1, <2>2, Zenon DEF StateOf, SameMixers
  <2> QED
    BY <2>2, <2>3, <2>4, <2>5, Zenon DEF ReloadedAll, u
<1>4. CASE n = Len(live)
  <2>1. Len(seq) = n /\ DOMAIN seq = 1 .. Len(seq) /\ \A k \in DOMAIN seq : seq[k] = k /\ k \in DOMAIN devs
    <3>1. Len(seq) = n - 0 /\ DOMAIN seq = 1 .. n - 0 /\ \A k \in 1 .. n - 0 : seq[k] = 0 + k
      <4>1. 0 \in Nat /\ 0 <= n
        BY <1>2
      <4> QED
        BY <1>2, <4>1, IndicesAre, Zenon
    <3> HIDE DEF seq
    <3> QED
      BY <1>2, <3>1
  <2> HIDE DEF seq
  <2>2. u = OfDevices!Fold(s, devs, tuned, 0, s, seq)
    <3>1. u = FoldLeft(LAMBDA t, i : ReloadDevice(t, i, devs[i], tuned), s, seq)
      BY <1>4, Zenon DEF ReloadDevices, u, n, seq
    <3> QED
      BY <3>1, Zenon DEF DeviceStep, OfDevices!Fold, OfDevices!FoldLeft, FoldLeft, MapThenFoldSet, OfDevices!MapThenFoldSet, Max, OfDevices!Max
  <2>3. DeviceInv(s, devs, tuned, 0, s, 0)
    <3>1. DevicesSame(devs, s.r.devices, 0)
      BY DEF DevicesSame
    <3>2. s.skipped \subseteq s.skipped
      OBVIOUS
    <3> QED
      BY <3>1, <3>2, Zenon DEF DeviceInv, DevicesReloaded, SameMixers
  <2>4. ASSUME NEW t, NEW k \in DOMAIN seq, DeviceInv(s, devs, tuned, 0, t, k - 1)
        PROVE  DeviceInv(s, devs, tuned, 0, DeviceStep(s, devs, tuned, 0, t, seq[k]), k)
    <3>1. seq[k] = k /\ k \in DOMAIN devs /\ k \in DOMAIN s.r.devices
      BY <1>2, <1>4, <2>1, Zenon
    <3>2. DevicesReloaded(s, t, devs, tuned, k - 1)
      BY <2>4, Zenon DEF DeviceInv
    <3>3. DevicesReloaded(s, ReloadDevice(t, k, devs[k], tuned), devs, tuned, k)
      BY <3>1, <3>2, OneMoreDevice, Zenon
    <3> QED
      BY <3>1, <3>3, Zenon DEF DeviceInv, DeviceStep
  <2>5. DeviceInv(s, devs, tuned, 0, u, Len(seq))
    <3>1. Len(seq) \in Nat
      BY <1>2, <2>1
    <3> QED
      BY ONLY <2>1, <2>2, <2>3, <2>4, <3>1, OfDevices!FoldKeeps
  <2>6. DevicesReloaded(s, u, devs, tuned, n)
    BY <2>1, <2>5, Zenon DEF DeviceInv
  <2>7. DOMAIN u.r.devices = DOMAIN devs
    BY <1>2, <1>4, <2>6, Zenon DEF DevicesReloaded
  <2> QED
    BY <1>2, <2>6, <2>7, Zenon DEF DevicesReloaded, DevicesSame, ReloadedAll, u
<1> QED
  BY <1>3, <1>4, Zenon

EnableMixer(r, i, on) == Running(r.devices, [r.mixers EXCEPT ![i].enabled = on])
MixerEnabled(r, r2, i, on) ==
  /\ RunOk(r2) /\ r2.devices = r.devices /\ SameMixers(r.mixers, r2.mixers) /\ r2.mixers[i].enabled = on
  /\ \A n \in DOMAIN r.mixers : n # i => r2.mixers[n] = r.mixers[n]
  /\ r.mixers[i].enabled = on => r2 = r

LEMMA EnabledMixer ==
  ASSUME NEW r, RunOk(r), NEW i \in DOMAIN r.mixers, NEW on
  PROVE  MixerEnabled(r, EnableMixer(r, i, on), i, on)
<1> DEFINE mixers == r.mixers
           m == mixers[i]
           m2 == [m EXCEPT !.enabled = on]
           mixers2 == [mixers EXCEPT ![i] = m2]
           r2 == Running(r.devices, mixers2)
<1>1. IsList(mixers) /\ i \in DOMAIN mixers /\ (\A n \in DOMAIN mixers : Fits(mixers[n])) /\ DistinctNames(mixers)
  BY Zenon DEF RunOk, MixersOk
<1>2. m = [g \in MixerFields |-> m[g]] /\ Fits(m)
  BY <1>1, Zenon DEF Fits, HasFields
<1>3. EnableMixer(r, i, on) = r2
  BY <1>1 DEF EnableMixer
<1>4. /\ m2 = [g \in MixerFields |-> m2[g]] /\ m2.enabled = on /\ (m.enabled = on => m2 = m)
      /\ m2.name = m.name /\ m2.remote = m.remote /\ m2.inputs = m.inputs /\ m2.live = m.live
      /\ m2.lost = m.lost /\ m2.capacity = m.capacity
  <2> HIDE DEF m
  <2> QED
    BY ONLY <1>2 DEF MixerFields
<1> HIDE DEF m2
<1>5. Fits(m2)
  BY <1>2, <1>4, Zenon DEF Fits, HasFields
<1>6. IsList(mixers2) /\ DOMAIN mixers2 = DOMAIN mixers /\ mixers2[i] = m2 /\ \A n \in DOMAIN mixers : n # i => mixers2[n] = mixers[n]
  <2> HIDE DEF mixers
  <2> QED
    BY <1>1, OneReplaced, Zenon
<1>7. m2 = m => mixers2 = mixers
  <2>1. mixers = [k \in 1 .. Len(mixers) |-> mixers[k]]
    BY <1>1, ListFacts, Zenon
  <2> HIDE DEF mixers
  <2> QED
    BY ONLY <2>1 DEF m
<1> HIDE DEF mixers2
<1>8. r2.devices = r.devices /\ r2.mixers = mixers2 /\ r2 = Running(r2.devices, r2.mixers)
  BY DEF Running
<1> HIDE DEF r2
<1>9. \A n \in DOMAIN mixers : /\ mixers2[n].name = mixers[n].name /\ mixers2[n].remote = mixers[n].remote
                               /\ mixers2[n].inputs = mixers[n].inputs /\ Fits(mixers2[n])
  BY <1>1, <1>4, <1>5, <1>6, Zenon
<1>10. RunOk(r2)
  <2>1. DistinctNames(mixers2)
    BY <1>1, <1>6, <1>9, Zenon DEF DistinctNames
  <2>2. MixersOk(mixers2)
    BY <1>6, <1>9, <2>1, Zenon DEF MixersOk
  <2>3. Fed(mixers2, r.devices)
    BY <1>6, <1>9, Zenon DEF RunOk, Fed
  <2> QED
    BY <1>8, <2>2, <2>3, Zenon DEF RunOk
<1>11. m.enabled = on => r2 = r
  BY <1>4, <1>7, <1>8, Zenon DEF RunOk
<1> QED
  BY <1>3, <1>4, <1>6, <1>8, <1>9, <1>10, <1>11, Zenon DEF MixerEnabled, SameMixers

MixerAs(live, m) == live.name = m.name /\ live.remote = m.remote /\ live.enabled = m.enabled
MixersReloaded(s, u, mix, k) ==
  /\ StateOf(u) /\ u.r.devices = s.r.devices /\ SameMixers(s.r.mixers, u.r.mixers) /\ s.skipped \subseteq u.skipped
  /\ u.skipped = {} => \A n \in 1 .. k : MixerAs(u.r.mixers[n], mix[n])
  /\ (\A n \in DOMAIN mix : MixerAs(s.r.mixers[n], mix[n])) => u = s

MixerStep(s0, mix, c, d, t, x) == ReloadMixer(t, x, mix[x])
MixerInv(s0, mix, c, d, t, k) == MixersReloaded(s0, t, mix, k)
OfMixers == INSTANCE Folding WITH Step <- MixerStep, Inv <- MixerInv

LEMMA OneMoreMixer ==
  ASSUME NEW s, NEW mix, IsList(mix), NEW t, NEW k \in DOMAIN mix, k \in DOMAIN s.r.mixers, MixersReloaded(s, t, mix, k - 1)
  PROVE  MixersReloaded(s, ReloadMixer(t, k, mix[k]), mix, k)
<1> DEFINE u == ReloadMixer(t, k, mix[k])
           m == mix[k]
           now == t.r.mixers[k]
           done == EnableMixer(t.r, k, m.enabled)
<1>1. k \in Nat
  <2>1. k \in 1 .. Len(mix)
    BY ListFacts, Zenon
  <2> QED
    BY <2>1
<1>2. /\ StateOf(t) /\ t.r.devices = s.r.devices /\ SameMixers(s.r.mixers, t.r.mixers) /\ s.skipped \subseteq t.skipped
      /\ t.skipped = {} => \A n \in 1 .. k - 1 : MixerAs(t.r.mixers[n], mix[n])
      /\ (\A n \in DOMAIN mix : MixerAs(s.r.mixers[n], mix[n])) => t = s
      /\ t = [r |-> t.r, skipped |-> t.skipped] /\ RunOk(t.r) /\ k \in DOMAIN t.r.mixers
  BY Zenon DEF MixersReloaded, StateOf, SameMixers
<1>3. u = IF m.name # now.name THEN Skip(t, "mixer name")
          ELSE IF m.remote # now.remote THEN Skip(t, "remote_inputs")
          ELSE [r |-> done, skipped |-> t.skipped]
  BY Zenon DEF ReloadMixer, EnableMixer
<1> HIDE DEF u, done
<1>4. now.name = s.r.mixers[k].name /\ now.remote = s.r.mixers[k].remote
  BY <1>2, Zenon DEF SameMixers
<1>5. ASSUME NEW what, u = Skip(t, what), m.name # now.name \/ m.remote # now.remote
      PROVE  MixersReloaded(s, u, mix, k)
  <2>1. u = [r |-> t.r, skipped |-> t.skipped \union {what}] /\ u.r = t.r /\ u.skipped = t.skipped \union {what}
    BY <1>2, <1>5, SkipIs, Zenon
  <2>2. s.skipped \subseteq u.skipped /\ u.skipped # {}
    BY ONLY <1>2, <2>1
  <2>3. ~(\A n \in DOMAIN mix : MixerAs(s.r.mixers[n], mix[n]))
    BY <1>4, <1>5, Zenon DEF MixerAs
  <2>4. StateOf(u)
    BY <1>2, <2>1, Zenon DEF StateOf
  <2> QED
    BY <1>2, <2>1, <2>2, <2>3, <2>4, Zenon DEF MixersReloaded
<1>6. CASE m.name # now.name
  <2>1. u = Skip(t, "mixer name")
    BY <1>3, <1>6, Zenon
  <2> QED
    BY <1>5, <1>6, <2>1, Zenon DEF u
<1>7. CASE m.name = now.name /\ m.remote # now.remote
  <2>1. u = Skip(t, "remote_inputs")
    BY <1>3, <1>7, Zenon
  <2> QED
    BY <1>5, <1>7, <2>1, Zenon DEF u
<1>8. CASE m.name = now.name /\ m.remote = now.remote
  <2>1. u = [r |-> done, skipped |-> t.skipped]
    BY <1>3, <1>8, Zenon
  <2>2. u.r = done /\ u.skipped = t.skipped /\ u = [r |-> u.r, skipped |-> u.skipped]
    BY ONLY <2>1
  <2>3. /\ RunOk(done) /\ done.devices = t.r.devices /\ SameMixers(t.r.mixers, done.mixers) /\ done.mixers[k].enabled = m.enabled
        /\ \A n \in DOMAIN t.r.mixers : n # k => done.mixers[n] = t.r.mixers[n]
        /\ now.enabled = m.enabled => done = t.r
    <3>1. MixerEnabled(t.r, done, k, m.enabled)
      BY <1>2, EnabledMixer, Zenon DEF done
    <3> QED
      BY <3>1, Zenon DEF MixerEnabled
  <2>4. MixerAs(done.mixers[k], m)
    BY <1>2, <1>8, <2>3, Zenon DEF MixerAs, SameMixers
  <2>5. ASSUME u.skipped = {}, NEW n \in 1 .. k PROVE MixerAs(u.r.mixers[n], mix[n])
    <3>1. CASE n = k
      BY <2>2, <2>4, <3>1, Zenon
    <3>2. CASE n # k
      <4>1. n \in 1 .. k - 1
        BY <1>1, <3>2
      <4>2. n \in DOMAIN t.r.mixers
        <5>1. DOMAIN t.r.mixers = 1 .. Len(t.r.mixers) /\ Len(t.r.mixers) \in Nat
          BY <1>2, ListFacts, Zenon DEF RunOk, MixersOk
        <5>2. k \in 1 .. Len(t.r.mixers)
          BY <1>2, <5>1, Zenon
        <5>3. n \in 1 .. Len(t.r.mixers)
          BY ONLY <5>1, <5>2, k \in Nat, n \in 1 .. k, <1>1
        <5> QED
          BY <5>1, <5>3, Zenon
      <4> QED
        BY <1>2, <2>2, <2>3, <2>5, <3>2, <4>1, <4>2, Zenon
    <3> QED
      BY <3>1, <3>2
  <2>6. (\A n \in DOMAIN mix : MixerAs(s.r.mixers[n], mix[n])) => u = s
    <3>1. ASSUME \A n \in DOMAIN mix : MixerAs(s.r.mixers[n], mix[n]) PROVE u = s
      <4>1. t = s /\ MixerAs(s.r.mixers[k], m)
        BY <1>2, <3>1, Zenon
      <4>2. done = t.r
        BY <2>3, <4>1, Zenon DEF MixerAs
      <4> QED
        BY <1>2, <2>1, <4>1, <4>2, Zenon
    <3> QED
      BY <3>1, Zenon
  <2>7. SameMixers(s.r.mixers, u.r.mixers) /\ u.r.devices = s.r.devices /\ StateOf(u) /\ s.skipped \subseteq u.skipped
    BY <1>2, <2>2, <2>3, Zenon DEF SameMixers, StateOf
  <2> QED
    BY <2>5, <2>6, <2>7, Zenon DEF MixersReloaded, u
<1> QED
  BY <1>6, <1>7, <1>8, Zenon

ReloadedMix(s, u, mix) ==
  /\ StateOf(u) /\ u.r.devices = s.r.devices /\ SameMixers(s.r.mixers, u.r.mixers) /\ s.skipped \subseteq u.skipped
  /\ u.skipped = {} => DOMAIN u.r.mixers = DOMAIN mix /\ \A n \in DOMAIN mix : MixerAs(u.r.mixers[n], mix[n])
  /\ DOMAIN s.r.mixers = DOMAIN mix /\ (\A n \in DOMAIN mix : MixerAs(s.r.mixers[n], mix[n])) => u = s

LEMMA ReloadedMixers ==
  ASSUME NEW s, StateOf(s), NEW mix, IsList(mix)
  PROVE  ReloadedMix(s, ReloadMixers(s, mix), mix)
<1> DEFINE u == ReloadMixers(s, mix)
           n == Len(mix)
           seq == Indices(0, n)
           live == s.r.mixers
<1>1. s = [r |-> s.r, skipped |-> s.skipped] /\ RunOk(s.r) /\ IsList(live)
  BY Zenon DEF StateOf, RunOk, MixersOk
<1>2. n \in Nat /\ DOMAIN mix = 1 .. n /\ Len(live) \in Nat /\ DOMAIN live = 1 .. Len(live)
  BY <1>1, ListFacts, Zenon
<1> HIDE DEF u, n
<1>3. CASE n # Len(live)
  <2>1. u = Skip(s, "mixer count")
    BY <1>3, Zenon DEF ReloadMixers, u, n
  <2>2. u = [r |-> s.r, skipped |-> s.skipped \union {"mixer count"}] /\ u.r = s.r /\ u.skipped = s.skipped \union {"mixer count"}
    BY <1>1, <2>1, SkipIs, Zenon
  <2>3. s.skipped \subseteq u.skipped /\ u.skipped # {}
    BY ONLY <2>2
  <2>4. DOMAIN live # DOMAIN mix
    BY <1>1, <1>3, SameLength, Zenon DEF n
  <2>5. StateOf(u) /\ SameMixers(s.r.mixers, u.r.mixers)
    BY <1>1, <2>2, Zenon DEF StateOf, SameMixers
  <2> QED
    BY <2>2, <2>3, <2>4, <2>5, Zenon DEF ReloadedMix, u
<1>4. CASE n = Len(live)
  <2>1. Len(seq) = n /\ DOMAIN seq = 1 .. Len(seq) /\ \A k \in DOMAIN seq : seq[k] = k /\ k \in DOMAIN mix
    <3>1. Len(seq) = n - 0 /\ DOMAIN seq = 1 .. n - 0 /\ \A k \in 1 .. n - 0 : seq[k] = 0 + k
      <4>1. 0 \in Nat /\ 0 <= n
        BY <1>2
      <4> QED
        BY <1>2, <4>1, IndicesAre, Zenon
    <3> HIDE DEF seq
    <3> QED
      BY <1>2, <3>1
  <2> HIDE DEF seq
  <2>2. u = OfMixers!Fold(s, mix, 0, 0, s, seq)
    <3>1. u = FoldLeft(LAMBDA t, i : ReloadMixer(t, i, mix[i]), s, seq)
      BY <1>4, Zenon DEF ReloadMixers, u, n, seq
    <3> QED
      BY <3>1, Zenon DEF MixerStep, OfMixers!Fold, OfMixers!FoldLeft, FoldLeft, MapThenFoldSet, OfMixers!MapThenFoldSet, Max, OfMixers!Max
  <2>3. MixerInv(s, mix, 0, 0, s, 0)
    <3>1. (\A k \in 1 .. 0 : MixerAs(s.r.mixers[k], mix[k])) /\ s.skipped \subseteq s.skipped
      OBVIOUS
    <3> QED
      BY <3>1, Zenon DEF MixerInv, MixersReloaded, SameMixers
  <2>4. ASSUME NEW t, NEW k \in DOMAIN seq, MixerInv(s, mix, 0, 0, t, k - 1)
        PROVE  MixerInv(s, mix, 0, 0, MixerStep(s, mix, 0, 0, t, seq[k]), k)
    <3>1. seq[k] = k /\ k \in DOMAIN mix /\ k \in DOMAIN s.r.mixers
      BY <1>2, <1>4, <2>1, Zenon
    <3>2. MixersReloaded(s, t, mix, k - 1)
      BY <2>4, Zenon DEF MixerInv
    <3>3. MixersReloaded(s, ReloadMixer(t, k, mix[k]), mix, k)
      BY <3>1, <3>2, OneMoreMixer, Zenon
    <3> QED
      BY <3>1, <3>3, Zenon DEF MixerInv, MixerStep
  <2>5. MixerInv(s, mix, 0, 0, u, Len(seq))
    <3>1. Len(seq) \in Nat
      BY <1>2, <2>1
    <3> QED
      BY ONLY <2>1, <2>2, <2>3, <2>4, <3>1, OfMixers!FoldKeeps
  <2>6. MixersReloaded(s, u, mix, n)
    BY <2>1, <2>5, Zenon DEF MixerInv
  <2>7. DOMAIN u.r.mixers = 1 .. n
    BY <1>2, <1>4, <2>6, Zenon DEF MixersReloaded, SameMixers
  <2> QED
    BY <1>2, <2>6, <2>7, Zenon DEF MixersReloaded, ReloadedMix, u
<1> QED
  BY <1>3, <1>4, Zenon

\* The whole of compute_and_apply_diff(), on a program that runs.
DiffApplied(u, f, tuned) ==
  LET devs == Kept(f.devices)
      mix == Kept(f.mixers)
  IN /\ RunOk(u.r) /\ DOMAIN u.r.devices = DOMAIN running.devices /\ SameMixers(running.mixers, u.r.mixers)
     /\ u.skipped = {} =>
          /\ DOMAIN u.r.devices = DOMAIN devs /\ \A i \in DOMAIN devs : AllCount(devs[i]) => SameDevice(u.r.devices[i], devs[i])
          /\ DOMAIN u.r.mixers = DOMAIN mix /\ \A n \in DOMAIN mix : MixerAs(u.r.mixers[n], mix[n])
     /\ /\ tuned /\ DOMAIN running.devices = DOMAIN devs /\ DevicesFrom(devs, running.devices)
        /\ DOMAIN running.mixers = DOMAIN mix /\ \A n \in DOMAIN mix : MixerAs(running.mixers[n], mix[n])
        => u.r = running /\ u.skipped = {}

LEMMA KeptSettings ==
  ASSUME NEW f \in Files
  PROVE  /\ SettingsOf(Kept(f.devices)) /\ IsList(Kept(f.mixers)) /\ DistinctNames(Kept(f.mixers))
         /\ \A n \in DOMAIN Kept(f.mixers) : MixerSettings(Kept(f.mixers)[n])
<1>1. /\ IsList(f.devices) /\ \A i \in DOMAIN f.devices : DeviceSettings(f.devices[i])
      /\ IsList(f.mixers) /\ (\A n \in DOMAIN f.mixers : MixerSettings(f.mixers[n])) /\ DistinctNames(f.mixers)
  BY ConfigAssumption, Zenon
<1>2. IsList(Kept(f.devices)) /\ \A n \in DOMAIN Kept(f.devices) : \E q \in DOMAIN f.devices : Kept(f.devices)[n] = f.devices[q]
  BY <1>1, KeptList, Zenon
<1>3. IsList(Kept(f.mixers)) /\ \A n \in DOMAIN Kept(f.mixers) : \E q \in DOMAIN f.mixers : Kept(f.mixers)[n] = f.mixers[q]
  BY <1>1, KeptList, Zenon
<1>4. DistinctNames(Kept(f.mixers))
  BY <1>1, KeptIs, Zenon
<1> QED
  BY <1>1, <1>2, <1>3, <1>4, Zenon DEF SettingsOf

LEMMA AppliedDiff ==
  ASSUME RunOk(running), NEW f \in Files, NEW tuned
  PROVE  DiffApplied(compute_and_apply_diff(f, tuned), f, tuned)
<1> DEFINE devs == Kept(f.devices)
           mix == Kept(f.mixers)
           s == [r |-> running, skipped |-> {}]
           t == ReloadDevices(s, devs, tuned)
           u == ReloadMixers(t, mix)
<1>1. compute_and_apply_diff(f, tuned) = u
  BY Zenon DEF compute_and_apply_diff
<1>2. SettingsOf(devs) /\ IsList(mix)
  BY KeptSettings, Zenon
<1> HIDE DEF devs, mix
<1>3. s.r = running /\ s.skipped = {} /\ StateOf(s)
  BY DEF StateOf
<1> HIDE DEF s
<1>4. ReloadedAll(s, t, devs, tuned)
  BY <1>2, <1>3, ReloadedDevices, Zenon
<1> HIDE DEF t
<1>5. StateOf(t)
  BY <1>4, Zenon DEF ReloadedAll
<1>6. ReloadedMix(t, u, mix)
  BY <1>2, <1>5, ReloadedMixers, Zenon
<1> HIDE DEF u
<1>7. /\ DOMAIN t.r.devices = DOMAIN running.devices /\ SameMixers(running.mixers, t.r.mixers)
      /\ t.skipped = {} =>
           DOMAIN t.r.devices = DOMAIN devs /\ \A i \in DOMAIN devs : AllCount(devs[i]) => SameDevice(t.r.devices[i], devs[i])
      /\ tuned /\ DOMAIN running.devices = DOMAIN devs /\ DevicesFrom(devs, running.devices) => t = s
  BY <1>3, <1>4, Zenon DEF ReloadedAll
<1>8. /\ StateOf(u) /\ u.r.devices = t.r.devices /\ SameMixers(t.r.mixers, u.r.mixers) /\ t.skipped \subseteq u.skipped
      /\ u.skipped = {} => DOMAIN u.r.mixers = DOMAIN mix /\ \A n \in DOMAIN mix : MixerAs(u.r.mixers[n], mix[n])
      /\ DOMAIN t.r.mixers = DOMAIN mix /\ (\A n \in DOMAIN mix : MixerAs(t.r.mixers[n], mix[n])) => u = t
  BY <1>6, Zenon DEF ReloadedMix
<1>9. RunOk(u.r) /\ DOMAIN u.r.devices = DOMAIN running.devices /\ SameMixers(running.mixers, u.r.mixers)
  BY <1>7, <1>8, Zenon DEF StateOf, SameMixers
<1>10. u.skipped = {} => t.skipped = {}
  BY ONLY <1>8
<1>11. u.skipped = {} =>
          /\ DOMAIN u.r.devices = DOMAIN devs /\ \A i \in DOMAIN devs : AllCount(devs[i]) => SameDevice(u.r.devices[i], devs[i])
          /\ DOMAIN u.r.mixers = DOMAIN mix /\ \A n \in DOMAIN mix : MixerAs(u.r.mixers[n], mix[n])
  BY <1>7, <1>8, <1>10, Zenon
<1>12. ASSUME tuned, DOMAIN running.devices = DOMAIN devs, DevicesFrom(devs, running.devices),
              DOMAIN running.mixers = DOMAIN mix, \A n \in DOMAIN mix : MixerAs(running.mixers[n], mix[n])
       PROVE  u.r = running /\ u.skipped = {}
  <2>1. t = s
    BY <1>7, <1>12, Zenon
  <2>2. u = s
    BY <1>3, <1>8, <1>12, <2>1, Zenon
  <2> QED
    BY <1>3, <2>2, Zenon
<1> QED
  BY <1>1, <1>9, <1>11, <1>12, Zenon DEF DiffApplied, devs, mix

-----------------------------------------------------------------------------
(* The program as main() starts it, and the commands of the control socket. *)

LEMMA StartedChannels ==
  ASSUME NEW d, DeviceSettings(d)
  PROVE  /\ IsList(ChannelsOf(parse_channels(d))) /\ Len(ChannelsOf(parse_channels(d))) = Len(parse_channels(d))
         /\ Len(parse_channels(d)) \in Nat
         /\ \A j \in DOMAIN ChannelsOf(parse_channels(d)) : ChanOk(ChannelsOf(parse_channels(d))[j])
<1> DEFINE chans == parse_channels(d)
           kept == Kept(d.channels)
           out == ChannelsOf(chans)
<1>1. IsList(kept) /\ \A n \in DOMAIN kept : ChannelSettings(kept[n])
  BY KeptReady, Zenon DEF Ready
<1>2. chans \in Seq(ToSet(kept))
  BY CountedAre, Zenon DEF DeviceSettings
<1> HIDE DEF chans, kept
<1>3. Len(chans) \in Nat /\ DOMAIN chans = 1 .. Len(chans) /\ \A j \in DOMAIN chans : chans[j] \in ToSet(kept)
  BY ONLY <1>2
<1>4. \A j \in DOMAIN chans : ChannelSettings(chans[j])
  BY <1>1, <1>3, Zenon DEF ToSet
<1>5. out = [j \in 1 .. Len(chans) |-> out[j]] /\ \A j \in 1 .. Len(chans) : out[j] = Parsed(chans[j])
  BY <1>3, Zenon DEF ChannelsOf
<1> HIDE DEF out
<1>6. IsList(out) /\ Len(out) = Len(chans) /\ DOMAIN out = 1 .. Len(chans)
  BY <1>3, <1>5, MadeList, Zenon
<1>7. \A j \in DOMAIN out : ChanOk(out[j])
  BY <1>3, <1>4, <1>5, <1>6, ParsedIs, Zenon
<1> QED
  BY <1>3, <1>6, <1>7, Zenon DEF out, chans

LEMMA StartedDevOk ==
  ASSUME NEW d, DeviceSettings(d), AutoPpmOk(d)
  PROVE  DevOk(StartDevice(d))
<1> DEFINE live == StartDevice(d)
<1>1. /\ HasFields(live, DeviceFields) /\ live.min_voters = d.min_voters /\ live.auto_ppm = d.auto_ppm
      /\ live.base = ConfCorrection(d) /\ live.capacity = Capacity(d) /\ live.channels = ChannelsOf(parse_channels(d))
  BY StartedDevice, Zenon DEF StartedAs, TunerFrom, PpmFrom
<1> HIDE DEF live
<1>2. d.reserve \in Nat /\ d.correction \in Int /\ d.auto_ppm \in {"absent", "off", "on"}
  BY DEF DeviceSettings
<1>3. /\ IsList(live.channels) /\ Len(live.channels) = Len(parse_channels(d)) /\ Len(parse_channels(d)) \in Nat
      /\ \A j \in DOMAIN live.channels : ChanOk(live.channels[j])
  BY <1>1, StartedChannels, Zenon
<1>4. live.capacity \in Nat /\ Len(live.channels) <= live.capacity
  BY <1>1, <1>2, <1>3 DEF Capacity
<1>5. ASSUME d.auto_ppm # "absent" PROVE d.min_voters # 0 /\ ~(Magnitude(ConfCorrection(d)) > MaxPpm)
  <2>1. MaxPpm \in Nat
    BY ConfigAssumption
  <2>2. d.min_voters > 0 /\ (d.correction # Unset => Magnitude(d.correction) <= MaxPpm)
    BY <1>5 DEF AutoPpmOk
  <2>3. Magnitude(0) = 0 /\ Magnitude(d.correction) \in Int
    BY <1>2 DEF Magnitude
  <2>4. d.min_voters # 0
    BY <2>2
  <2>5. CASE d.correction = Unset
    BY <2>1, <2>3, <2>4, <2>5 DEF ConfCorrection
  <2>6. CASE d.correction # Unset
    BY <2>1, <2>2, <2>3, <2>4, <2>6 DEF ConfCorrection
  <2> QED
    BY <2>5, <2>6
<1>6. PpmOk(live)
  BY <1>1, <1>2, <1>5 DEF PpmOk
<1> QED
  BY <1>1, <1>3, <1>4, <1>6, Zenon DEF DevOk, live

StartedMix(m, devs, live) ==
  /\ Fits(live) /\ live.name = m.name /\ live.remote = m.remote /\ live.inputs = OwnedInputs(devs, m.name)
  /\ live.live = live.inputs /\ live.lost = 0
  /\ live.enabled = (m.enabled /\ Cardinality(live.inputs) + m.remote > 0)

LEMMA StartedMixer ==
  ASSUME NEW m, MixerSettings(m), NEW devs, DevicesOk(devs)
  PROVE  StartedMix(m, devs, StartMixer(m, devs))
<1> DEFINE inputs == OwnedInputs(devs, m.name)
           on == (m.enabled /\ Cardinality(inputs) + m.remote > 0)
           cap == Cardinality(inputs) + m.remote + m.reserve
           live == StartMixer(m, devs)
<1>1. IsFiniteSet(inputs)
  <2>1. \A i \in DOMAIN devs : IsList(devs[i].channels) /\ \A j \in DOMAIN devs[i].channels : IsList(devs[i].channels[j].outputs)
    BY Zenon DEF DevicesOk, DevOk, ChanOk
  <2> QED
    BY <2>1, OwnedFinite, Zenon DEF DevicesOk
<1>2. Cardinality(inputs) \in Nat
  BY <1>1, FS_CardinalityType, Zenon
<1>3. live = [name |-> m.name, remote |-> m.remote, inputs |-> inputs, live |-> inputs, lost |-> 0, capacity |-> cap, enabled |-> on]
  BY Zenon DEF StartMixer
<1> HIDE DEF inputs, on, cap, live
<1>4. HasFields(live, MixerFields)
  BY ONLY <1>3 DEF HasFields, MixerFields
<1>5. /\ live.name = m.name /\ live.remote = m.remote /\ live.inputs = inputs /\ live.live = inputs
      /\ live.lost = 0 /\ live.capacity = cap /\ live.enabled = on
  BY ONLY <1>3
<1>6. m.remote \in Nat /\ cap \in Nat /\ Cardinality(inputs) + 0 + m.remote <= cap /\ 0 \in Nat /\ inputs \subseteq inputs
  BY <1>2 DEF MixerSettings, cap
<1>7. Fits(live)
  BY <1>1, <1>4, <1>5, <1>6, Zenon DEF Fits
<1> QED
  BY <1>5, <1>7, Zenon DEF StartedMix, on, inputs, live

StartedRun(f, r) ==
  LET devs == Kept(f.devices)
      mix == Kept(f.mixers)
  IN /\ RunOk(r) /\ DOMAIN r.devices = DOMAIN devs /\ \A i \in DOMAIN devs : r.devices[i] = StartDevice(devs[i])
     /\ DOMAIN r.mixers = DOMAIN mix /\ \A n \in DOMAIN mix : StartedMix(mix[n], r.devices, r.mixers[n])

LEMMA StartedIs ==
  ASSUME NEW f \in Files, Startable(f)
  PROVE  StartedRun(f, Started(f))
<1> DEFINE devs == Kept(f.devices)
           mix == Kept(f.mixers)
           live == [i \in DOMAIN devs |-> StartDevice(devs[i])]
           mixers == [n \in DOMAIN mix |-> StartMixer(mix[n], live)]
           r == Running(live, mixers)
<1>1. /\ IsList(devs) /\ (\A i \in DOMAIN devs : DeviceSettings(devs[i])) /\ IsList(mix) /\ DistinctNames(mix)
      /\ \A n \in DOMAIN mix : MixerSettings(mix[n])
  BY KeptSettings, Zenon DEF SettingsOf
<1>2. \A i \in DOMAIN devs : AutoPpmOk(devs[i])
  BY Zenon DEF Startable, DeviceOk
<1>3. Started(f) = r
  BY Zenon DEF Started
<1> HIDE DEF devs, mix
<1>4. DOMAIN live = DOMAIN devs /\ (\A i \in DOMAIN devs : live[i] = StartDevice(devs[i])) /\ live = [i \in DOMAIN devs |-> live[i]]
  OBVIOUS
<1> HIDE DEF live
<1>5. DevicesOk(live)
  <2>1. IsList(live)
    BY <1>1, <1>4, Mapped, Zenon
  <2> QED
    BY <1>1, <1>2, <1>4, <2>1, StartedDevOk, Zenon DEF DevicesOk
<1>6. /\ DOMAIN mixers = DOMAIN mix /\ (\A n \in DOMAIN mix : mixers[n] = StartMixer(mix[n], live))
      /\ mixers = [n \in DOMAIN mix |-> mixers[n]]
  OBVIOUS
<1> HIDE DEF mixers
<1>7. \A n \in DOMAIN mix : StartedMix(mix[n], live, mixers[n])
  BY <1>1, <1>5, <1>6, StartedMixer, Zenon
<1>8. MixersOk(mixers)
  <2>1. IsList(mixers)
    BY <1>1, <1>6, Mapped, Zenon
  <2>2. \A n \in DOMAIN mix : Fits(mixers[n]) /\ mixers[n].name = mix[n].name
    BY <1>7, Zenon DEF StartedMix
  <2>3. DistinctNames(mixers)
    BY <1>1, <1>6, <2>2, Zenon DEF DistinctNames
  <2> QED
    BY <1>6, <2>1, <2>2, <2>3, Zenon DEF MixersOk
<1>9. Fed(mixers, live)
  BY <1>6, <1>7, Zenon DEF Fed, StartedMix
<1>10. r.devices = live /\ r.mixers = mixers /\ r = Running(r.devices, r.mixers)
  BY DEF Running
<1> HIDE DEF r
<1>11. RunOk(r)
  BY <1>5, <1>8, <1>9, <1>10, Zenon DEF RunOk
<1> QED
  BY <1>3, <1>4, <1>6, <1>7, <1>10, <1>11, Zenon DEF StartedRun, devs, mix

StartedParts(f, r) ==
  LET devs == Kept(f.devices)
      mix == Kept(f.mixers)
  IN /\ DOMAIN r.devices = DOMAIN devs /\ \A i \in DOMAIN devs : r.devices[i] = StartDevice(devs[i])
     /\ DOMAIN r.mixers = DOMAIN mix
     /\ DevicesOk(r.devices) => \A n \in DOMAIN mix : StartedMix(mix[n], r.devices, r.mixers[n])

LEMMA PartsStarted ==
  ASSUME NEW f \in Files
  PROVE  StartedParts(f, Started(f))
<1> DEFINE devs == Kept(f.devices)
           mix == Kept(f.mixers)
           live == [i \in DOMAIN devs |-> StartDevice(devs[i])]
           mixers == [n \in DOMAIN mix |-> StartMixer(mix[n], live)]
           r == Running(live, mixers)
<1>1. \A n \in DOMAIN mix : MixerSettings(mix[n])
  BY KeptSettings, Zenon
<1>2. Started(f) = r
  BY Zenon DEF Started
<1> HIDE DEF devs, mix
<1>3. DOMAIN live = DOMAIN devs /\ \A i \in DOMAIN devs : live[i] = StartDevice(devs[i])
  OBVIOUS
<1> HIDE DEF live
<1>4. DOMAIN mixers = DOMAIN mix /\ \A n \in DOMAIN mix : mixers[n] = StartMixer(mix[n], live)
  OBVIOUS
<1> HIDE DEF mixers
<1>5. DevicesOk(live) => \A n \in DOMAIN mix : StartedMix(mix[n], live, mixers[n])
  BY <1>1, <1>4, StartedMixer, Zenon
<1>6. r.devices = live /\ r.mixers = mixers
  BY DEF Running
<1> HIDE DEF r
<1> QED
  BY <1>2, <1>3, <1>4, <1>5, <1>6, Zenon DEF StartedParts, devs, mix

LEMMA CorrectionCommanded ==
  ASSUME NEW r, RunOk(r), NEW i \in DOMAIN r.devices, NEW v
  PROVE  RunOk(Running([r.devices EXCEPT ![i].correction = v], r.mixers))
<1> DEFINE dev == r.devices[i]
           live == [dev EXCEPT !.correction = v]
           devs == r.devices
<1>1. DevOk(dev)
  BY ChannelsList, Zenon
<1>2. [devs EXCEPT ![i].correction = v] = [devs EXCEPT ![i] = live]
  OBVIOUS
<1>3. dev = [g \in DeviceFields |-> dev[g]]
  BY <1>1, Zenon DEF DevOk, HasFields
<1>4. /\ live = [g \in DeviceFields |-> live[g]] /\ live.capacity = dev.capacity /\ live.channels = dev.channels
      /\ live.auto_ppm = dev.auto_ppm /\ live.min_voters = dev.min_voters /\ live.base = dev.base
  <2> HIDE DEF dev
  <2> QED
    BY ONLY <1>3 DEF DeviceFields
<1> HIDE DEF live
<1>5. DevOk(live)
  BY <1>1, <1>4, Zenon DEF DevOk, HasFields, PpmOk
<1>6. OthersKept(r, Running([devs EXCEPT ![i] = live], r.mixers), i)
  BY <1>4, <1>5, DeviceReplaced, Zenon
<1> QED
  BY <1>2, <1>6, Zenon DEF OthersKept

LEMMA Commands ==
  ASSUME NEW r, RunOk(r)
  PROVE  /\ \A i \in DOMAIN r.devices : \A j \in DOMAIN r.devices[i].channels : \A on : RunOk(SetEnabled(r, i, j, on))
         /\ \A n \in DOMAIN r.mixers : RunOk(Running(r.devices, [r.mixers EXCEPT ![n].enabled = ~@]))
         /\ \A i \in DOMAIN r.devices : \A v : RunOk(Running([r.devices EXCEPT ![i].correction = v], r.mixers))
<1>1. ASSUME NEW i \in DOMAIN r.devices, NEW j \in DOMAIN r.devices[i].channels, NEW on PROVE RunOk(SetEnabled(r, i, j, on))
  <2>1. SetTo(r, SetEnabled(r, i, j, on), i, j, on)
    BY EnabledSet, Zenon
  <2> QED
    BY <2>1, Zenon DEF SetTo, RunFrame
<1>2. ASSUME NEW n \in DOMAIN r.mixers PROVE RunOk(Running(r.devices, [r.mixers EXCEPT ![n].enabled = ~@]))
  <2>1. MixerEnabled(r, EnableMixer(r, n, ~r.mixers[n].enabled), n, ~r.mixers[n].enabled)
    BY EnabledMixer, Zenon
  <2>2. EnableMixer(r, n, ~r.mixers[n].enabled) = Running(r.devices, [r.mixers EXCEPT ![n].enabled = ~@])
    BY DEF EnableMixer
  <2> QED
    BY <2>1, <2>2, Zenon DEF MixerEnabled
<1> QED
  BY <1>1, <1>2, CorrectionCommanded, Zenon

-----------------------------------------------------------------------------
(* The inductive invariant, and the theorems.                               *)

LEMMA ConfInvInit == ConfInit => ConfInv
BY DEF ConfInit, ConfInv

LEMMA ConfInvNext == ConfInv /\ [ConfNext]_confVars => ConfInv'
<1> SUFFICES ASSUME ConfInv, [ConfNext]_confVars PROVE ConfInv'
  BY Zenon
<1>1. conf_file \in Files /\ (running = NotRunning \/ RunOk(running))
  BY DEF ConfInv
<1>2. running.up => RunOk(running)
  BY <1>1 DEF NotRunning
<1>3. running = NotRunning => DOMAIN running.devices = {} /\ DOMAIN running.mixers = {}
  BY DEF NotRunning
<1>4. CASE StartProgram
  <2>1. RunOk(Started(conf_file))
    BY <1>1, <1>4, StartedIs, Zenon DEF StartProgram, StartedRun
  <2> QED
    BY <1>1, <1>4, <2>1, Zenon DEF StartProgram, ConfInv, RunOk, DevicesOk, MixersOk, Fed
<1>5. CASE StopProgram
  BY <1>1, <1>5, Zenon DEF StopProgram, ConfInv, NotRunning
<1>6. ASSUME NEW f \in Files, EditFile(f) PROVE ConfInv'
  BY <1>1, <1>6, Zenon DEF EditFile, ConfInv, NotRunning
<1>7. ASSUME NEW tuned \in BOOLEAN, ReloadDiff(tuned) PROVE ConfInv'
  <2>1. running.up /\ running' = compute_and_apply_diff(conf_file, tuned).r /\ UNCHANGED conf_file
    BY <1>7, Zenon DEF ReloadDiff, Applied
  <2>2. RunOk(compute_and_apply_diff(conf_file, tuned).r)
    BY <1>1, <1>2, <2>1, AppliedDiff, Zenon DEF DiffApplied
  <2> QED
    BY <1>1, <2>1, <2>2, Zenon DEF ConfInv
<1>8. ASSUME NEW i \in DOMAIN running.devices, CommandCorrection(i) PROVE ConfInv'
  BY <1>1, <1>3, <1>8, Commands, Zenon DEF CommandCorrection, Command, ConfInv
<1>9. ASSUME NEW i \in DOMAIN running.devices, NEW j \in DOMAIN running.devices[i].channels, CommandChannel(i, j) PROVE ConfInv'
  BY <1>1, <1>3, <1>9, Commands, Zenon DEF CommandChannel, Command, ConfInv
<1>10. ASSUME NEW n \in DOMAIN running.mixers, CommandMixer(n) PROVE ConfInv'
  BY <1>1, <1>3, <1>10, Commands, Zenon DEF CommandMixer, Command, ConfInv
<1>11. CASE UNCHANGED confVars
  BY <1>1, <1>11 DEF confVars, ConfInv
<1> QED
  BY <1>4, <1>5, <1>6, <1>7, <1>8, <1>9, <1>10, <1>11, Zenon DEF ConfNext

LEMMA SlotsAreOwned == ConfInv => SlotsOwned
<1> SUFFICES ASSUME ConfInv, NEW n \in DOMAIN running.mixers
             PROVE  LET m == running.mixers[n] IN
                      /\ m.inputs = OwnedInputs(running.devices, m.name)
                      /\ m.live \subseteq m.inputs
                      /\ Cardinality(m.inputs) + m.lost + m.remote <= m.capacity
  BY Zenon DEF SlotsOwned
<1>1. RunOk(running)
  <2>1. running = NotRunning => DOMAIN running.mixers = {}
    BY DEF NotRunning
  <2> QED
    BY <2>1, Zenon DEF ConfInv
<1> QED
  BY <1>1, Zenon DEF RunOk, MixersOk, Fits, Fed

LEMMA ConfTypes == ConfInv => ConfTypeOK
<1> SUFFICES ASSUME ConfInv PROVE ConfTypeOK
  OBVIOUS
<1>1. CASE running = NotRunning
  BY <1>1 DEF ConfInv, ConfTypeOK, NotRunning
<1>2. CASE RunOk(running)
  <2>1. running.up = TRUE
    <3>1. running = Running(running.devices, running.mixers)
      BY <1>2, Zenon DEF RunOk
    <3> QED
      BY ONLY <3>1 DEF Running
  <2>2. \A i \in DOMAIN running.devices : running.devices[i].auto_ppm \in {"absent", "off", "on"}
                                          /\ Len(running.devices[i].channels) <= running.devices[i].capacity
    BY <1>2, Zenon DEF RunOk, DevicesOk, DevOk, PpmOk
  <2> QED
    BY <2>1, <2>2 DEF ConfInv, ConfTypeOK
<1> QED
  BY <1>1, <1>2 DEF ConfInv

LEMMA SameMixerIs ==
  ASSUME NEW m, MixerSettings(m), NEW devs, NEW fresh, StartedMix(m, devs, fresh), NEW live, MixerAs(live, m),
         live.inputs = OwnedInputs(devs, live.name)
  PROVE  SameMixer(live, fresh)
<1>1. /\ Fits(fresh) /\ fresh.name = m.name /\ fresh.remote = m.remote /\ fresh.inputs = OwnedInputs(devs, m.name)
      /\ fresh.enabled = (m.enabled /\ Cardinality(fresh.inputs) + m.remote > 0)
      /\ live.name = m.name /\ live.enabled = m.enabled
  BY Zenon DEF StartedMix, MixerAs
<1>2. live.inputs = fresh.inputs
  BY <1>1, Zenon
<1>3. ASSUME fresh.inputs # {} \/ fresh.remote > 0 PROVE fresh.enabled = m.enabled
  <2>1. IsFiniteSet(fresh.inputs) /\ Cardinality(fresh.inputs) \in Nat /\ (Cardinality(fresh.inputs) = 0 <=> fresh.inputs = {})
    BY <1>1, FS_CardinalityType, FS_EmptySet, Zenon DEF Fits
  <2>2. m.remote \in Nat /\ m.enabled \in BOOLEAN
    BY Zenon DEF MixerSettings
  <2> DEFINE c == Cardinality(fresh.inputs)
             none == fresh.inputs = {}
  <2>3. c \in Nat /\ (c = 0 <=> none) /\ (~none \/ m.remote > 0)
    BY <1>1, <1>3, <2>1, Zenon
  <2> HIDE DEF c, none
  <2>4. c + m.remote > 0
    BY ONLY <2>2, <2>3
  <2> QED
    BY <1>1, <2>2, <2>4, Zenon DEF c
<1> QED
  BY <1>1, <1>2, <1>3, Zenon DEF SameMixer

LEMMA RestartStep ==
  ASSUME ConfInv, running.up, skipped' = {}, NoLegacy(conf_file), Startable(conf_file), NEW tuned, ReloadDiff(tuned)
  PROVE  RunsAs(running', conf_file)
<1> DEFINE f == conf_file
           devs == Kept(f.devices)
           mix == Kept(f.mixers)
           u == compute_and_apply_diff(f, tuned)
           r == u.r
           fresh == Started(f)
<1>1. f \in Files /\ RunOk(running)
  BY DEF ConfInv, NotRunning
<1>2. running' = r /\ u.skipped = {}
  BY Zenon DEF ReloadDiff, Applied
<1>3. DiffApplied(u, f, tuned)
  BY <1>1, AppliedDiff, Zenon
<1> HIDE DEF u
<1>4. /\ RunOk(r) /\ DOMAIN r.devices = DOMAIN devs /\ DOMAIN r.mixers = DOMAIN mix
      /\ \A i \in DOMAIN devs : AllCount(devs[i]) => SameDevice(r.devices[i], devs[i])
      /\ \A n \in DOMAIN mix : MixerAs(r.mixers[n], mix[n])
  BY <1>2, <1>3, Zenon DEF DiffApplied
<1>5. \A i \in DOMAIN devs : AllCount(devs[i])
  BY Zenon DEF NoLegacy, AllCount
<1>6. /\ RunOk(fresh) /\ DOMAIN fresh.devices = DOMAIN devs /\ \A i \in DOMAIN devs : fresh.devices[i] = StartDevice(devs[i])
      /\ \A n \in DOMAIN mix : StartedMix(mix[n], fresh.devices, fresh.mixers[n])
  BY <1>1, StartedIs, Zenon DEF StartedRun
<1>7. \A n \in DOMAIN mix : MixerSettings(mix[n])
  BY <1>1, KeptSettings, Zenon
<1> HIDE DEF r, fresh, devs, mix
<1>8. \A i \in DOMAIN devs : r.devices[i].channels = fresh.devices[i].channels
  BY <1>4, <1>5, <1>6, Zenon DEF SameDevice
<1>9. \A name : OwnedInputs(r.devices, name) = OwnedInputs(fresh.devices, name)
  <2> TAKE name
  <2> QED
    BY <1>4, <1>6, <1>8, OwnedSame, Zenon
<1>10. ASSUME NEW n \in DOMAIN mix PROVE SameMixer(r.mixers[n], fresh.mixers[n])
  <2>1. r.mixers[n].inputs = OwnedInputs(fresh.devices, r.mixers[n].name)
    BY <1>4, <1>9, Zenon DEF RunOk, Fed
  <2> QED
    BY <1>4, <1>6, <1>7, <2>1, SameMixerIs, Zenon
<1>11. RunsAs(r, f)
  BY <1>4, <1>5, <1>10, Zenon DEF RunsAs, devs, mix, fresh
<1> QED
  BY <1>2, <1>11, Zenon

LEMMA IdleStep ==
  ASSUME ConfInv, running.up, NoLegacy(conf_file), FromThisFile, ReloadDiff(TRUE)
  PROVE  running' = running /\ skipped' = {}
<1> DEFINE f == conf_file
           devs == Kept(f.devices)
           mix == Kept(f.mixers)
           u == compute_and_apply_diff(f, TRUE)
<1>1. f \in Files /\ RunOk(running) /\ running = Started(f) /\ \A n \in DOMAIN running.mixers : HasInput(running.mixers[n])
  BY DEF ConfInv, NotRunning, FromThisFile
<1>2. running' = u.r /\ skipped' = u.skipped
  BY Zenon DEF ReloadDiff, Applied
<1>3. DiffApplied(u, f, TRUE)
  BY <1>1, AppliedDiff, Zenon
<1> HIDE DEF u
<1>4. /\ DOMAIN running.devices = DOMAIN devs /\ \A i \in DOMAIN devs : running.devices[i] = StartDevice(devs[i])
      /\ DOMAIN running.mixers = DOMAIN mix /\ \A n \in DOMAIN mix : StartedMix(mix[n], running.devices, running.mixers[n])
  BY <1>1, PartsStarted, Zenon DEF StartedParts, RunOk
<1>5. DevicesFrom(devs, running.devices)
  BY <1>4, Zenon DEF NoLegacy, AllCount, DevicesFrom
<1>6. ASSUME NEW n \in DOMAIN mix PROVE MixerAs(running.mixers[n], mix[n])
  <2> DEFINE live == running.mixers[n]
             m == mix[n]
             c == Cardinality(live.inputs)
             none == live.inputs = {}
  <2>1. /\ Fits(live) /\ live.name = m.name /\ live.remote = m.remote /\ live.live = live.inputs /\ live.lost = 0
        /\ live.enabled = (m.enabled /\ c + m.remote > 0)
    BY <1>4, Zenon DEF StartedMix
  <2>2. MixerSettings(m) /\ m.remote \in Nat /\ m.enabled \in BOOLEAN
    BY <1>1, KeptSettings, Zenon DEF MixerSettings
  <2>3. c \in Nat /\ (c = 0 <=> none)
    BY <2>1, FS_CardinalityType, FS_EmptySet, Zenon DEF Fits
  <2>4. ~none \/ live.lost > 0 \/ live.remote > 0
    BY <1>1, <1>4, <2>1, Zenon DEF HasInput
  <2> HIDE DEF live, m, c, none
  <2>5. c + m.remote > 0
    BY ONLY <2>1, <2>2, <2>3, <2>4
  <2> QED
    BY <2>1, <2>2, <2>5, Zenon DEF MixerAs, live, m
<1> HIDE DEF f, devs, mix
<1>7. u.r = running /\ u.skipped = {}
  BY <1>3, <1>4, <1>5, <1>6, Zenon DEF DiffApplied, devs, mix
<1> QED
  BY <1>2, <1>7, Zenon

\* Whatever an operator edits, reloads and commands, the state keeps its type: no device has more channels
\* than its capacity (config.cpp:1001-1044, live_reconfig.cpp:771-868).
THEOREM ConfTypeCorrect == ConfSpec => []ConfTypeOK
<1>1. ConfSpec => []ConfInv
  BY ConfInvInit, ConfInvNext, PTL DEF ConfSpec
<1> QED
  BY <1>1, ConfTypes, PTL

\* For every set of files, every mixer's slots belong to the published channels that feed it and fit its
\* capacity; a reload_diff that reports nothing as needing a restart leaves what a restart would start; and a
\* reload_diff of the file the program was started from changes nothing (live_reconfig.cpp:771-1005).
THEOREM ConfigStaysSound == ConfSpec => ConfigSound
<1>1. ConfSpec => []ConfInv
  BY ConfInvInit, ConfInvNext, PTL DEF ConfSpec
<1>2. ConfInv /\ [ConfNext]_confVars =>
        [/\ running.up /\ skipped' = {} /\ NoLegacy(conf_file) /\ Startable(conf_file)
         /\ ReloadDiff(TRUE) \/ ReloadDiff(FALSE)
         => RunsAs(running', conf_file)]_confVars
  BY RestartStep, Zenon
<1>3. ConfInv /\ [ConfNext]_confVars =>
        [running.up /\ NoLegacy(conf_file) /\ FromThisFile /\ ReloadDiff(TRUE) => running' = running /\ skipped' = {}]_confVars
  BY IdleStep, Zenon
<1>4. ConfSpec => ReloadIsRestart
  BY <1>1, <1>2, PTL DEF ConfSpec, ReloadIsRestart
<1>5. ConfSpec => ReloadIsIdle
  BY <1>1, <1>3, PTL DEF ConfSpec, ReloadIsIdle
<1> QED
  BY <1>1, <1>4, <1>5, SlotsAreOwned, PTL DEF ConfigSound
=============================================================================
