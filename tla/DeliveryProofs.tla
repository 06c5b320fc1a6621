--------------------------- MODULE DeliveryProofs ---------------------------
(***************************************************************************)
(* Proofs about what is handed on, from the dongle's samples to what is    *)
(* written and sent: the ring buffer of a device (InputBuffer), its batches *)
(* (Pipeline), files (OutputFile), streams with their titles (Icecast,     *)
(* TagUpdates, ScanTags), uploads (Uploads) and packets between processes  *)
(* (RemoteMixer); for every number of devices, threads, retries and        *)
(* restarts, every length of the queues and every setting.                 *)
(***************************************************************************)
EXTENDS InputBuffer, Pipeline, ScanTags, OutputFile, Icecast, TagUpdates, Uploads, RemoteMixer,
        FiniteSetTheorems, SequenceTheorems, TLAPS

-----------------------------------------------------------------------------
(***************************************************************************)
(* The ring buffer: for every size of the ring, step, window and set of    *)
(* chunks, the window the demodulator reads is intact, and the read        *)
(* position never overtakes the write position.                            *)
(***************************************************************************)

BufSpec == BufInit /\ [][BufNext]_bufVars

\* Where in the stream the ring's first cell is, for the writer's lap and for the reader's.
WriteLap == written - bufe
ReadLap == consumed - bufs
Multiple(n) == \E q \in Int : n = q * BufSize

\* The positions, and how far the reader is behind.
PositionInv ==
  /\ bufs \in Ring /\ bufe \in Ring /\ bufs % Step = 0
  /\ written \in 0 .. MaxWritten /\ consumed \in Nat /\ consumed <= written
  /\ overflow_count \in Nat /\ fft \in BOOLEAN /\ lapped \in BOOLEAN /\ shortHead \in BOOLEAN
  /\ ReadLap >= 0 /\ (WriteLap = 0 \/ WriteLap >= BufSize) /\ Multiple(WriteLap - ReadLap)
  /\ fft => written - consumed >= Step + Window
  /\ ~lapped => written - consumed <= BufSize

\* What a cell of the ring holds: the sample of this lap, or of the last one, if there was one.
Held(c) == IF c < bufe THEN WriteLap + c ELSE IF WriteLap >= BufSize THEN WriteLap - BufSize + c ELSE -1
RingInv == buffer = [c \in Ring \union TailCopy |-> buffer[c]] /\ \A c \in Ring : buffer[c] = Held(c)

\* Behind the end is what the beginning holds, unless it was begun with a short chunk.
TailInv ==
  ~shortHead => /\ bufe = 0 \/ bufe >= Window
                /\ \A k \in 0 .. Window - 1 : k < BufSize => buffer[BufSize + k] = buffer[k]

BInv == PositionInv /\ RingInv /\ TailInv
-----------------------------------------------------------------------------

LEMMA Sizes ==
  /\ Step \in Nat /\ Step > 0 /\ Window \in Nat /\ Window > 0 /\ BufSize \in Nat /\ BufSize > 0
  /\ MaxWritten \in Nat /\ Chunks \subseteq 1 .. BufSize
  BY BufAssumption

\* Positions are reduced modulo the size from less than a size outside the ring.
LEMMA Modulo ==
  ASSUME NEW x \in Int, -BufSize <= x, x < 2 * BufSize
  PROVE  x % BufSize = IF x < 0 THEN x + BufSize ELSE IF x < BufSize THEN x ELSE x - BufSize
  BY Sizes

\* A remainder of zero is a multiple.
LEMMA Divides ==
  ASSUME NEW x \in Int, NEW y \in Nat, y > 0, x % y = 0
  PROVE  \E i \in Int : x = i * y
  OBVIOUS

LEMMA StepFits == Step <= BufSize
  BY BufAssumption

\* The laps are apart by a whole number of sizes.
LEMMA Laps ==
  ASSUME PositionInv
  PROVE  \/ WriteLap = ReadLap
         \/ WriteLap = ReadLap + BufSize
         \/ WriteLap >= ReadLap + 2 * BufSize
<1>1. PICK q \in Int : WriteLap - ReadLap = q * BufSize
  BY DEF PositionInv, Multiple
<1>2. WriteLap - ReadLap > -BufSize
  BY Sizes DEF PositionInv, WriteLap, ReadLap, Ring
<1>3. q >= 0
  BY <1>1, <1>2, Sizes
<1>4. CASE q = 0
  BY <1>1, <1>4, Sizes DEF PositionInv, WriteLap, ReadLap, Ring
<1>5. CASE q = 1
  BY <1>1, <1>5, Sizes DEF PositionInv, WriteLap, ReadLap, Ring
<1>6. CASE q >= 2
  <2>1. q * BufSize >= 2 * BufSize
    BY <1>6, Sizes
  <2> QED
    BY <1>1, <2>1, Sizes DEF PositionInv, WriteLap, ReadLap, Ring
<1> QED
  BY <1>3, <1>4, <1>5, <1>6

LEMMA MultipleShift ==
  ASSUME NEW n \in Int, Multiple(n)
  PROVE  Multiple(n + BufSize) /\ Multiple(n - BufSize)
<1>1. PICK q \in Int : n = q * BufSize
  BY DEF Multiple
<1>2. q + 1 \in Int /\ q - 1 \in Int /\ n + BufSize = (q + 1) * BufSize /\ n - BufSize = (q - 1) * BufSize
  BY <1>1, Sizes
<1> QED
  BY <1>2 DEF Multiple

LEMMA InitBInv == BufInit => BInv
<1> SUFFICES ASSUME BufInit PROVE BInv
  OBVIOUS
<1> USE Sizes DEF BufInit
<1>1. Multiple(0)
  BY DEF Multiple
<1>2. WriteLap = 0 /\ ReadLap = 0 /\ WriteLap - ReadLap = 0 /\ 0 \in Ring
  BY DEF WriteLap, ReadLap, Ring
<1>3. 0 % Step = 0
  OBVIOUS
<1>4. PositionInv
  <2>1. /\ bufs \in Ring /\ bufe \in Ring /\ bufs % Step = 0
        /\ written \in 0 .. MaxWritten /\ consumed \in Nat /\ consumed <= written /\ overflow_count \in Nat
        /\ ReadLap >= 0 /\ WriteLap = 0 /\ written - consumed <= BufSize
    BY <1>2, <1>3
  <2>2. fft \in BOOLEAN /\ lapped \in BOOLEAN /\ shortHead \in BOOLEAN /\ ~fft
    BY Zenon
  <2>3. Multiple(WriteLap - ReadLap)
    BY <1>1, <1>2, Zenon
  <2> QED
    BY <2>1, <2>2, <2>3, Zenon DEF PositionInv
<1>5. RingInv
  BY DEF RingInv, Held, WriteLap, Ring, TailCopy
<1>6. TailInv
  BY DEF TailInv, Ring, TailCopy
<1> QED
  BY <1>4, <1>5, <1>6 DEF BInv


-----------------------------------------------------------------------------
(***************************************************************************)
(* circbuffer_append()                                                     *)
(***************************************************************************)

\* The write position moves on by the chunk, and the lap changes when it passes the end.
LEMMA WriterMoves ==
  ASSUME PositionInv, NEW len \in Chunks, circbuffer_append(len)
  PROVE  /\ len \in 1 .. BufSize /\ bufe \in 0 .. BufSize - 1 /\ written \in Nat
         /\ bufe' = IF bufe + len < BufSize THEN bufe + len ELSE bufe + len - BufSize
         /\ bufe' \in Ring /\ written' = written + len /\ written' <= MaxWritten
         /\ WriteLap' = IF bufe + len < BufSize THEN WriteLap ELSE WriteLap + BufSize
<1>1. len \in 1 .. BufSize /\ bufe \in 0 .. BufSize - 1 /\ written \in Nat
  BY Sizes DEF PositionInv, Ring
<1>2. (bufe + len) % BufSize = IF bufe + len < BufSize THEN bufe + len ELSE bufe + len - BufSize
  BY <1>1, Sizes, Modulo
<1>3. bufe' = (bufe + len) % BufSize /\ written' = written + len /\ written + len <= MaxWritten
  BY DEF circbuffer_append
<1> QED
  BY <1>1, <1>2, <1>3, Sizes DEF Ring, WriteLap

LEMMA AppendPosition ==
  ASSUME PositionInv, NEW len \in Chunks, circbuffer_append(len)
  PROVE  PositionInv'
<1>1. /\ len \in 1 .. BufSize /\ bufe \in 0 .. BufSize - 1 /\ written \in Nat
      /\ bufe' = IF bufe + len < BufSize THEN bufe + len ELSE bufe + len - BufSize
      /\ bufe' \in Ring /\ written' = written + len /\ written' <= MaxWritten
      /\ WriteLap' = IF bufe + len < BufSize THEN WriteLap ELSE WriteLap + BufSize
  BY WriterMoves
<1>2. /\ bufs' = bufs /\ consumed' = consumed /\ fft' = fft
      /\ overflow_count' \in {overflow_count, overflow_count + 1}
      /\ lapped' = (lapped \/ written' - consumed > BufSize) /\ shortHead' \in BOOLEAN /\ lapped' \in BOOLEAN
  <2>1. overflow_count' \in {overflow_count, overflow_count + 1}
    BY Zenon DEF circbuffer_append
  <2>2. lapped' = (lapped \/ written' - consumed > BufSize)
    BY Zenon DEF circbuffer_append
  <2>3. lapped' \in BOOLEAN
    BY <2>2, Zenon
  <2>4. shortHead' \in BOOLEAN
    <3>1. shortHead' = IF AtHead(len) > 0 THEN AtHead(len) < Window ELSE shortHead
      BY Zenon DEF circbuffer_append
    <3>2. shortHead \in BOOLEAN
      BY DEF PositionInv
    <3>3. (AtHead(len) < Window) \in BOOLEAN
      <4>1. AtHead(len) \in Int
        BY Sizes DEF AtHead, PositionInv, Ring
      <4> QED
        BY <4>1, Sizes
    <3> QED
      BY <3>1, <3>2, <3>3, Zenon
  <2>5. bufs' = bufs /\ consumed' = consumed /\ fft' = fft
    BY DEF circbuffer_append
  <2> QED
    BY <2>1, <2>2, <2>3, <2>4, <2>5
<1>3. bufs \in 0 .. BufSize - 1 /\ consumed \in Nat /\ ReadLap' = ReadLap
  BY <1>2, Sizes DEF PositionInv, Ring, ReadLap
<1>4. Multiple(WriteLap' - ReadLap')
  <2>1. WriteLap \in Int /\ ReadLap \in Int /\ Multiple(WriteLap - ReadLap)
    BY <1>1, <1>3, Sizes DEF PositionInv, WriteLap, ReadLap
  <2>2. Multiple(WriteLap - ReadLap + BufSize)
    BY <2>1, MultipleShift
  <2>3. WriteLap + BufSize - ReadLap = WriteLap - ReadLap + BufSize
    BY <2>1, Sizes
  <2>4. CASE bufe + len < BufSize
    BY <1>1, <1>3, <2>1, <2>4, Zenon
  <2>5. CASE ~(bufe + len < BufSize)
    <3>1. WriteLap' - ReadLap' = WriteLap - ReadLap + BufSize
      <4>1. WriteLap' = WriteLap + BufSize
        BY <1>1, <2>5, Zenon
      <4> QED
        BY <1>3, <2>1, <4>1, Sizes
    <3> QED
      BY <2>2, <3>1, Zenon
  <2> QED
    BY <2>4, <2>5
<1>5. Multiple(WriteLap - ReadLap)'
  BY <1>4 DEF Multiple
<1>6. bufs' \in Ring /\ bufs' % Step = 0
  BY <1>2 DEF PositionInv
<1>7. /\ written' \in 0 .. MaxWritten /\ consumed' \in Nat /\ consumed' <= written'
      /\ overflow_count' \in Nat /\ fft' \in BOOLEAN /\ lapped' \in BOOLEAN /\ shortHead' \in BOOLEAN
      /\ (fft' => written' - consumed' >= Step + Window)
      /\ (~lapped' => written' - consumed' <= BufSize)
  <2>1. /\ overflow_count' \in Nat /\ consumed \in Nat /\ consumed <= written
    BY <1>2, <1>3 DEF PositionInv
  <2>2. written' \in 0 .. MaxWritten /\ consumed' \in Nat /\ consumed' <= written'
    BY <1>1, <1>2, <2>1, Sizes
  <2>3. fft \in BOOLEAN /\ (fft => written - consumed >= Step + Window)
    BY DEF PositionInv
  <2>4. fft' => written' - consumed' >= Step + Window
    <3>1. written - consumed >= Step + Window => written' - consumed' >= Step + Window
      BY <1>1, <1>2, <2>1, Sizes
    <3> QED
      BY <1>2, <2>3, <3>1, Zenon
  <2>5. ~lapped' => ~(written' - consumed > BufSize)
    BY <1>2, Zenon
  <2>6. ~(written' - consumed > BufSize) => written' - consumed' <= BufSize
    BY <1>1, <1>2, <2>1, Sizes
  <2> QED
    BY <1>2, <2>1, <2>2, <2>3, <2>4, <2>5, <2>6, Zenon
<1>8. ReadLap' >= 0 /\ (WriteLap' = 0 \/ WriteLap' >= BufSize)
  <2>1. WriteLap \in Int /\ (WriteLap = 0 \/ WriteLap >= BufSize) /\ ReadLap >= 0
    BY <1>1, Sizes DEF PositionInv, WriteLap
  <2> QED
    BY <1>1, <1>3, <2>1, Sizes
<1> QED
  BY <1>1, <1>5, <1>6, <1>7, <1>8 DEF PositionInv

\* A cell of the ring is written by a chunk when it is within the chunk's length of the write position.
LEMMA CellAfter ==
  ASSUME PositionInv, NEW len \in Chunks, circbuffer_append(len), NEW c \in Ring
  PROVE  buffer'[c] = IF c >= bufe THEN IF c < bufe + len THEN written + (c - bufe) ELSE buffer[c]
                      ELSE IF c < bufe + len - BufSize THEN written + (c - bufe) + BufSize ELSE buffer[c]
<1>1. len \in 1 .. BufSize /\ bufe \in 0 .. BufSize - 1 /\ written \in Nat /\ c \in 0 .. BufSize - 1
  BY WriterMoves, Sizes DEF Ring
<1>2. (c - bufe) % BufSize = IF c < bufe THEN c - bufe + BufSize ELSE c - bufe
  BY <1>1, Sizes, Modulo
<1>3. buffer'[c] = LET off == (c - bufe) % BufSize IN IF off < len THEN written + off ELSE buffer[c]
  BY DEF circbuffer_append, Appended
<1> QED
  BY <1>1, <1>2, <1>3, Sizes

LEMMA AppendRing ==
  ASSUME PositionInv, RingInv, NEW len \in Chunks, circbuffer_append(len)
  PROVE  RingInv'
<1>1. /\ len \in 1 .. BufSize /\ bufe \in 0 .. BufSize - 1 /\ written \in Nat
      /\ bufe' = IF bufe + len < BufSize THEN bufe + len ELSE bufe + len - BufSize
      /\ written' = written + len
      /\ WriteLap' = IF bufe + len < BufSize THEN WriteLap ELSE WriteLap + BufSize
  BY WriterMoves
<1>2. WriteLap \in Int /\ (WriteLap = 0 \/ WriteLap >= BufSize) /\ written = WriteLap + bufe
  BY <1>1, Sizes DEF PositionInv, WriteLap
<1>3. ASSUME NEW c \in Ring PROVE buffer'[c] = Held(c)'
  <2>1. buffer'[c] = IF c >= bufe THEN IF c < bufe + len THEN written + (c - bufe) ELSE buffer[c]
                     ELSE IF c < bufe + len - BufSize THEN written + (c - bufe) + BufSize ELSE buffer[c]
    BY CellAfter
  <2>2. buffer[c] = IF c < bufe THEN WriteLap + c ELSE IF WriteLap >= BufSize THEN WriteLap - BufSize + c ELSE -1
    BY DEF RingInv, Held
  <2>3. Held(c)' = IF c < bufe' THEN WriteLap' + c ELSE IF WriteLap' >= BufSize THEN WriteLap' - BufSize + c ELSE -1
    BY DEF Held
  <2>4. c \in 0 .. BufSize - 1
    BY DEF Ring
  <2> HIDE DEF WriteLap
  <2>5. CASE bufe + len < BufSize
    BY <1>1, <1>2, <2>1, <2>2, <2>3, <2>4, <2>5, Sizes
  <2>6. CASE bufe + len >= BufSize
    <3>1. WriteLap' >= BufSize /\ WriteLap' = WriteLap + BufSize /\ bufe' = bufe + len - BufSize
      BY <1>1, <1>2, <2>6, Sizes
    <3>2. Held(c)' = IF c < bufe' THEN WriteLap + BufSize + c ELSE WriteLap + c
      BY <2>3, <3>1, <1>2, <2>4, Sizes
    <3> QED
      BY <1>1, <1>2, <2>1, <2>2, <2>4, <2>6, <3>1, <3>2, Sizes
  <2> QED
    BY <2>5, <2>6, <1>1, Sizes
<1>4. buffer' = [c \in Ring \union TailCopy |-> buffer'[c]]
  BY DEF circbuffer_append
<1> QED
  BY <1>3, <1>4 DEF RingInv

LEMMA AppendTail ==
  ASSUME PositionInv, TailInv, NEW len \in Chunks, circbuffer_append(len)
  PROVE  TailInv'
<1> SUFFICES ASSUME ~shortHead'
             PROVE  /\ bufe' = 0 \/ bufe' >= Window
                    /\ \A k \in 0 .. Window - 1 : k < BufSize => buffer'[BufSize + k] = buffer'[k]
  BY DEF TailInv
<1>1. /\ len \in 1 .. BufSize /\ bufe \in 0 .. BufSize - 1
      /\ bufe' = IF bufe + len < BufSize THEN bufe + len ELSE bufe + len - BufSize
  BY WriterMoves
<1>2. shortHead' = IF AtHead(len) > 0 THEN AtHead(len) < Window ELSE shortHead
  BY DEF circbuffer_append
<1>3. ASSUME NEW k \in 0 .. Window - 1, k < BufSize
      PROVE  /\ k \in Ring /\ BufSize + k \in TailCopy /\ BufSize + k \notin Ring
             /\ buffer'[k] = Appended(len)[k]
             /\ buffer'[BufSize + k] = IF k < AtHead(len) THEN buffer'[k] ELSE buffer[BufSize + k]
  <2>1. k \in Ring /\ BufSize + k \in TailCopy /\ BufSize + k \notin Ring /\ BufSize + k - BufSize = k
    BY <1>3, Sizes DEF Ring, TailCopy
  <2>2. buffer'[k] = Appended(len)[k]
    BY <2>1 DEF circbuffer_append
  <2>3. buffer'[BufSize + k] = IF k < AtHead(len) THEN Appended(len)[k] ELSE buffer[BufSize + k]
    <3>1. BufSize + k \in Ring \union TailCopy
      BY <2>1
    <3>2. ASSUME NEW c \in TailCopy, c \notin Ring
          PROVE  buffer'[c] = IF c - BufSize < AtHead(len) THEN Appended(len)[c - BufSize] ELSE buffer[c]
      <4>1. c \in Ring \union TailCopy
        BY <3>2
      <4> HIDE DEF Ring, TailCopy, Appended, AtHead
      <4> QED
        BY <4>1, <3>2, Zenon DEF circbuffer_append, CopiesTail
    <3>3. PICK c \in Int : c = BufSize + k
      BY Sizes
    <3>4. c \in TailCopy /\ c \notin Ring /\ c - BufSize = k
      <4>1. BufSize + k \in TailCopy /\ BufSize + k \notin Ring
        BY <2>1
      <4>2. c - BufSize = k
        BY <3>3, Sizes
      <4> QED
        BY <3>3, <4>1, <4>2, Zenon
    <3>5. buffer'[c] = IF k < AtHead(len) THEN Appended(len)[k] ELSE buffer[c]
      BY <3>2, <3>4, Zenon
    <3> QED
      BY <3>3, <3>5, Zenon
  <2> QED
    BY <2>1, <2>2, <2>3
<1>4. CASE AtHead(len) > 0
  <2>1. AtHead(len) \in Int /\ AtHead(len) >= Window
    <3>1. ~(AtHead(len) < Window)
      BY <1>2, <1>4, Zenon
    <3>2. AtHead(len) \in Int
      BY <1>1, Sizes DEF AtHead
    <3> QED
      BY <3>1, <3>2, Sizes
  <2>2. bufe' = 0 \/ bufe' >= Window
    BY <1>1, <1>4, <2>1, Sizes DEF AtHead, Wraps
  <2>3. ASSUME NEW k \in 0 .. Window - 1, k < BufSize PROVE buffer'[BufSize + k] = buffer'[k]
    BY <1>3, <2>1, <2>3, Sizes
  <2> QED
    BY <2>2, <2>3
<1>5. CASE ~(AtHead(len) > 0)
  <2>1. bufe # 0 /\ bufe + len <= BufSize /\ AtHead(len) <= 0 /\ AtHead(len) \in Int
    BY <1>1, <1>5, Sizes DEF AtHead, Wraps
  <2>2. ~shortHead /\ bufe >= Window
    BY <1>2, <1>5, <2>1 DEF TailInv
  <2>3. bufe' = 0 \/ bufe' >= Window
    BY <1>1, <2>1, <2>2, Sizes
  <2>4. ASSUME NEW k \in 0 .. Window - 1, k < BufSize PROVE buffer'[BufSize + k] = buffer'[k]
    <3>1. buffer'[BufSize + k] = buffer[BufSize + k]
      BY <1>3, <2>1, <2>4, Sizes
    <3>2. buffer'[k] = buffer[k]
      BY <1>1, <1>3, <2>1, <2>2, <2>4, CellAfter, Sizes
    <3> QED
      BY <3>1, <3>2, <2>2, <2>4 DEF TailInv
  <2> QED
    BY <2>3, <2>4
<1> QED
  BY <1>4, <1>5


LEMMA AppendKeeps ==
  ASSUME BInv, NEW len \in Chunks, circbuffer_append(len)
  PROVE  BInv'
  BY AppendPosition, AppendRing, AppendTail DEF BInv

-----------------------------------------------------------------------------
(***************************************************************************)
(* The demodulator                                                         *)
(***************************************************************************)

\* What the ring is said to hold from the read position on has been written and not read.
LEMMA AvailableIsUnread ==
  ASSUME PositionInv
  PROVE  Available \in Nat /\ Available <= written - consumed
<1>1. bufs \in 0 .. BufSize - 1 /\ bufe \in 0 .. BufSize - 1 /\ written \in Nat /\ consumed \in Nat /\ consumed <= written
  BY Sizes DEF PositionInv, Ring
<1>2. CASE WriteLap = ReadLap
  BY <1>1, <1>2, Sizes DEF WriteLap, ReadLap, Available
<1>3. CASE WriteLap >= ReadLap + BufSize
  BY <1>1, <1>3, Sizes DEF WriteLap, ReadLap, Available
<1>4. WriteLap = ReadLap + BufSize \/ WriteLap >= ReadLap + 2 * BufSize => WriteLap >= ReadLap + BufSize
  BY <1>1, Sizes DEF WriteLap, ReadLap
<1> QED
  BY <1>2, <1>3, <1>4, Laps

\* RingInv and TailInv are about the ring and the write position only.
LEMMA ReaderLeavesRing ==
  ASSUME RingInv, TailInv, UNCHANGED <<buffer, bufe, written, shortHead>>
  PROVE  RingInv' /\ TailInv'
<1>1. WriteLap' = WriteLap
  BY DEF WriteLap
<1>2. \A c : Held(c)' = Held(c)
  BY <1>1 DEF Held
<1>3. RingInv'
  BY <1>2 DEF RingInv
<1>4. TailInv'
  BY DEF TailInv
<1> QED
  BY <1>3, <1>4

LEMMA EnoughKeeps ==
  ASSUME BInv, EnoughSamples
  PROVE  BInv'
<1>1. RingInv' /\ TailInv'
  BY ReaderLeavesRing DEF BInv, EnoughSamples
<1>2. Available \in Nat /\ Available <= written - consumed
  BY AvailableIsUnread DEF BInv
<1>3. /\ bufs' = bufs /\ bufe' = bufe /\ written' = written /\ consumed' = consumed /\ fft' = TRUE
      /\ overflow_count' = overflow_count /\ lapped' = lapped /\ shortHead' = shortHead
      /\ Available >= Step + Window
  BY DEF EnoughSamples
<1>4. WriteLap' = WriteLap /\ ReadLap' = ReadLap
  BY <1>3 DEF WriteLap, ReadLap
<1>5. written - consumed >= Step + Window
  <2>1. written \in Int /\ consumed \in Int
    BY DEF BInv, PositionInv
  <2> QED
    BY <1>2, <1>3, <2>1, Sizes
<1>6. Multiple(WriteLap - ReadLap)'
  BY <1>4 DEF BInv, PositionInv, Multiple
<1>7. PositionInv'
  <2> HIDE DEF WriteLap, ReadLap, Multiple, Ring, Available
  <2> QED
    BY <1>3, <1>4, <1>5, <1>6, Zenon DEF BInv, PositionInv
<1> QED
  BY <1>1, <1>7 DEF BInv

\* The read position goes on by a step, and the lap changes when it passes the end.
LEMMA ReaderMoves ==
  ASSUME PositionInv, AdvanceBufs
  PROVE  /\ bufs' \in Ring /\ bufs' % Step = 0 /\ consumed' = consumed + Step
         /\ ReadLap' = ReadLap \/ ReadLap' = ReadLap + BufSize
<1>1. bufs \in 0 .. BufSize - 1 /\ consumed \in Nat /\ bufs % Step = 0
  BY Sizes DEF PositionInv, Ring
<1>2. (bufs + Step) % BufSize = IF bufs + Step < BufSize THEN bufs + Step ELSE bufs + Step - BufSize
  BY <1>1, StepFits, Sizes, Modulo
<1>3. bufs' = (bufs + Step) % BufSize /\ consumed' = consumed + Step
  BY DEF AdvanceBufs
<1>4. bufs' \in Ring /\ (ReadLap' = ReadLap \/ ReadLap' = ReadLap + BufSize)
  BY <1>1, <1>2, <1>3, StepFits, Sizes DEF Ring, ReadLap
<1>5. bufs' % Step = 0
  <2>1. PICK i \in Int, j \in Int : bufs = i * Step /\ BufSize = j * Step
    <3>1. PICK i \in Int : bufs = i * Step
      BY <1>1, Sizes, Divides
    <3>2. PICK j \in Int : BufSize = j * Step
      <4>1. BufSize % Step = 0
        BY BufAssumption
      <4>2. BufSize \in Int /\ Step \in Nat /\ Step > 0
        BY Sizes
      <4> QED
        BY <4>1, <4>2, Divides, Zenon
    <3> QED
      BY <3>1, <3>2
  <2>2. bufs + Step = (i + 1) * Step /\ bufs + Step - BufSize = (i + 1 - j) * Step
    BY <2>1, Sizes
  <2>3. \A q \in Int : (q * Step) % Step = 0
    BY Sizes
  <2> QED
    BY <1>2, <1>3, <2>1, <2>2, <2>3
<1> QED
  BY <1>3, <1>4, <1>5

LEMMA AdvanceKeeps ==
  ASSUME BInv, AdvanceBufs
  PROVE  BInv'
<1>1. RingInv' /\ TailInv'
  BY ReaderLeavesRing DEF BInv, AdvanceBufs
<1>2. /\ bufs' \in Ring /\ bufs' % Step = 0 /\ consumed' = consumed + Step
      /\ ReadLap' = ReadLap \/ ReadLap' = ReadLap + BufSize
  BY ReaderMoves DEF BInv
<1>3. /\ bufe' = bufe /\ written' = written /\ fft /\ fft' = FALSE
      /\ overflow_count' = overflow_count /\ lapped' = lapped /\ shortHead' = shortHead
  BY DEF AdvanceBufs
<1>4. WriteLap' = WriteLap
  BY <1>3 DEF WriteLap
<1>5. /\ WriteLap \in Int /\ ReadLap \in Int /\ ReadLap >= 0 /\ Multiple(WriteLap - ReadLap)
      /\ written \in 0 .. MaxWritten /\ consumed \in Nat
      /\ fft => written - consumed >= Step + Window
      /\ ~lapped => written - consumed <= BufSize
  BY Sizes DEF BInv, PositionInv, WriteLap, ReadLap, Ring
<1>6. consumed' \in Nat /\ consumed' <= written' /\ (~lapped' => written' - consumed' <= BufSize) /\ ReadLap' >= 0
  BY <1>2, <1>3, <1>5, Sizes
<1>7. Multiple(WriteLap' - ReadLap')
  <2>1. Multiple(WriteLap - ReadLap - BufSize)
    BY <1>5, MultipleShift
  <2>2. CASE ReadLap' = ReadLap
    BY <1>4, <1>5, <2>2
  <2>3. CASE ReadLap' = ReadLap + BufSize
    <3>1. WriteLap' - ReadLap' = WriteLap - ReadLap - BufSize
      BY <1>4, <1>5, <2>3, Sizes
    <3> QED
      BY <2>1, <3>1, Zenon
  <2> QED
    BY <1>2, <2>2, <2>3
<1>8. Multiple(WriteLap - ReadLap)'
  BY <1>7 DEF Multiple
<1>9. PositionInv'
  <2> HIDE DEF WriteLap, ReadLap, Multiple, Ring
  <2> QED
    BY <1>2, <1>3, <1>4, <1>6, <1>8, Zenon DEF BInv, PositionInv
<1> QED
  BY <1>1, <1>9 DEF BInv

LEMMA StutterKeeps ==
  ASSUME BInv, UNCHANGED bufVars
  PROVE  BInv'
<1>1. RingInv' /\ TailInv'
  BY ReaderLeavesRing DEF BInv, bufVars
<1>2. PositionInv'
  BY DEF BInv, PositionInv, bufVars, WriteLap, ReadLap, Multiple, Ring
<1> QED
  BY <1>1, <1>2 DEF BInv

\* The ring's invariant holds in every behaviour.
THEOREM RingConsistent == BufSpec => []BInv
<1>1. BInv /\ [BufNext]_bufVars => BInv'
  BY AppendKeeps, EnoughKeeps, AdvanceKeeps, StutterKeeps DEF BufNext
<1> QED
  BY InitBInv, <1>1, PTL DEF BufSpec

\* What the demodulator reads is the stream, in order and without a gap.
LEMMA BInvImpliesIntact == BInv => WindowIntact
<1> SUFFICES ASSUME BInv, fft, ~lapped, ~shortHead, NEW k \in 0 .. Window - 1
             PROVE  buffer[bufs + k] = consumed + k
  BY DEF WindowIntact
<1>1. /\ bufs \in 0 .. BufSize - 1 /\ bufe \in 0 .. BufSize - 1 /\ written \in Nat /\ consumed \in Nat
      /\ consumed <= written /\ ReadLap >= 0 /\ (WriteLap = 0 \/ WriteLap >= BufSize)
      /\ written - consumed >= Step + Window /\ written - consumed <= BufSize
  BY Sizes DEF BInv, PositionInv, Ring
<1>2. Step + Window <= BufSize /\ k < BufSize /\ k < Window /\ k \in Nat
  BY <1>1, Sizes
<1>3. written = WriteLap + bufe /\ consumed = ReadLap + bufs /\ WriteLap \in Int /\ ReadLap \in Int
  BY <1>1, Sizes DEF WriteLap, ReadLap
<1>4. \A c \in Ring : buffer[c] = Held(c)
  BY DEF BInv, RingInv
<1>5. WriteLap = ReadLap \/ WriteLap = ReadLap + BufSize
  BY <1>1, <1>3, Laps, Sizes DEF BInv
<1>6. CASE bufs + k < BufSize
  <2>1. bufs + k \in Ring
    BY <1>1, <1>2, <1>6, Sizes DEF Ring
  <2>2. Held(bufs + k) = ReadLap + (bufs + k)
    BY <1>1, <1>2, <1>3, <1>5, <1>6, Sizes DEF Held
  <2> QED
    BY <1>1, <1>2, <1>3, <1>4, <2>1, <2>2
<1>7. CASE bufs + k >= BufSize
  <2> DEFINE j == bufs + k - BufSize
  <2>1. j \in 0 .. Window - 1 /\ j < BufSize /\ j \in Ring /\ bufs + k = BufSize + j
    BY <1>1, <1>2, <1>7, Sizes DEF Ring
  <2>2. buffer[BufSize + j] = buffer[j]
    BY <2>1 DEF BInv, TailInv
  <2>3. Held(j) = ReadLap + BufSize + j
    BY <1>1, <1>2, <1>3, <1>5, <1>7, <2>1, Sizes DEF Held
  <2>4. ReadLap + BufSize + j = consumed + k
    BY <1>1, <1>2, <1>3, Sizes
  <2> QED
    BY <1>4, <2>1, <2>2, <2>3, <2>4
<1> QED
  BY <1>1, <1>2, <1>6, <1>7, Sizes

\* Once a window is said to be there, nothing the driver appends while it is being read disturbs it:
\* the samples are the stream's from the read position on, across the end of the ring too.
THEOREM WindowHolds == BufSpec => []WindowIntact
  BY RingConsistent, BInvImpliesIntact, PTL

-----------------------------------------------------------------------------

\* Every cell holds a sample of the stream, or nothing yet.
Cells == buffer \in [Ring \union TailCopy -> -1 .. MaxWritten - 1]

LEMMA AppendCells ==
  ASSUME BInv, Cells, NEW len \in Chunks, circbuffer_append(len)
  PROVE  Cells'
<1>1. len \in 1 .. BufSize /\ bufe \in 0 .. BufSize - 1 /\ written \in Nat /\ written + len <= MaxWritten
  BY WriterMoves DEF BInv, circbuffer_append
<1>2. ASSUME NEW c \in Ring PROVE Appended(len)[c] \in -1 .. MaxWritten - 1
  <2>1. (c - bufe) % BufSize \in 0 .. BufSize - 1
    BY <1>1, Sizes DEF Ring
  <2>2. buffer[c] \in -1 .. MaxWritten - 1
    BY DEF Cells
  <2>3. Appended(len)[c] = LET off == (c - bufe) % BufSize IN IF off < len THEN written + off ELSE buffer[c]
    BY DEF Appended
  <2> QED
    BY <1>1, <2>1, <2>2, <2>3, Sizes
<1>3. ASSUME NEW c \in TailCopy, CopiesTail(len, c) PROVE c - BufSize \in Ring
  BY <1>1, <1>3, Sizes DEF TailCopy, CopiesTail, AtHead, Wraps, Ring
<1>4. ASSUME NEW c \in Ring \union TailCopy PROVE buffer'[c] \in -1 .. MaxWritten - 1
  <2>1. buffer[c] \in -1 .. MaxWritten - 1
    BY DEF Cells
  <2>2. CASE c \in Ring
    BY <1>2, <2>2 DEF circbuffer_append
  <2>3. CASE c \notin Ring /\ CopiesTail(len, c)
    <3>1. buffer'[c] = Appended(len)[c - BufSize]
      BY <2>3, Zenon DEF circbuffer_append
    <3> QED
      BY <1>2, <1>3, <2>3, <3>1
  <2>4. CASE c \notin Ring /\ ~CopiesTail(len, c)
    <3>1. buffer'[c] = buffer[c]
      BY <2>4, Zenon DEF circbuffer_append
    <3> QED
      BY <2>1, <3>1
  <2> QED
    BY <2>2, <2>3, <2>4
<1>5. buffer' = [c \in Ring \union TailCopy |-> buffer'[c]]
  BY DEF circbuffer_append
<1> QED
  BY <1>4, <1>5 DEF Cells, Ring, TailCopy

\* The ring's positions stay in it and its cells are of the stream, and the read position has not
\* passed what was written.
THEOREM BufferTypeCorrect == BufSpec => []BufTypeOK
<1>1. BufInit => Cells
  BY Sizes DEF BufInit, Cells
<1>2. BInv /\ Cells /\ [BufNext]_bufVars => Cells'
  <2>1. ASSUME Cells, UNCHANGED buffer PROVE Cells'
    BY <2>1 DEF Cells, Ring, TailCopy
  <2> QED
    BY <2>1, AppendCells DEF BufNext, EnoughSamples, AdvanceBufs, bufVars
<1>3. BInv /\ Cells => BufTypeOK
  BY DEF BInv, PositionInv, Cells, BufTypeOK
<1>4. BufSpec => []Cells
  BY RingConsistent, <1>1, <1>2, PTL DEF BufSpec
<1> QED
  BY RingConsistent, <1>3, <1>4, PTL

-----------------------------------------------------------------------------
(***************************************************************************)
(* Batches, uploads and packets: each is in exactly one place or counted   *)
(* in exactly one counter.                                                 *)
(***************************************************************************)

\* A demodulator is at one of its own devices.
DemodPlace ==
  /\ manyDemods \in BOOLEAN /\ manyOutputs \in BOOLEAN /\ mixers \in BOOLEAN
  /\ demodDev \in [Devs -> Devs] /\ (manyDemods => \A t \in Devs : demodDev[t] = t)
  /\ demod \in [Devs -> {"loop", "flag", "send", "exited"}]

\* So is an output thread, and a batch stays available while it is being output.
Busy(o) == output[o] \in {"outputs", "flushing"}
OutputPlace ==
  /\ outputDev \in [0 .. PipeDevices -> Devs]
  /\ output \in [0 .. PipeDevices -> {"top", "wait", "device", "outputs", "flush", "flushing", "exited"}]
  /\ \A o \in Outputs : output[o] \in {"device", "outputs", "flush", "flushing"} =>
       HasDevices(o) /\ (manyOutputs /\ manyDemods => outputDev[o] = o)
  /\ \A o \in Outputs : Busy(o) => waveavail[outputDev[o]]

Flagging(d) == \E t \in Demods : demod[t] = "flag" /\ demodDev[t] = d
BatchTypes ==
  /\ waveavail \in [Devs -> BOOLEAN] /\ pending_ \in [0 .. PipeDevices -> BOOLEAN]
  /\ made \in [Devs -> 0 .. MaxBatches] /\ delivered \in [Devs -> Nat] /\ output_overrun_count \in [Devs -> Nat]
  /\ main \in {"demods", "send", "join", "done"} /\ joining \in Outputs

PInv == DemodPlace /\ OutputPlace /\ BatchTypes /\ BatchesAccounted

-----------------------------------------------------------------------------
(***************************************************************************)
(* Pipeline                                                                *)
(***************************************************************************)

LEMMA PipeNumbers ==
  /\ PipeDevices \in Nat /\ PipeDevices > 0 /\ MaxBatches \in Nat /\ Devs \subseteq Nat /\ 0 \in Devs
  /\ PipeDevices - 1 \in Devs /\ \A d \in Devs : d <= PipeDevices - 1
  BY PipeAssumption DEF Devs

\* The threads there are.
LEMMA Threads ==
  ASSUME manyDemods \in BOOLEAN, manyOutputs \in BOOLEAN, mixers \in BOOLEAN
  PROVE  /\ Demods \subseteq Devs /\ (manyDemods => Demods = Devs) /\ (~manyDemods => Demods = {0})
         /\ 0 \in Outputs /\ Outputs \subseteq 0 .. PipeDevices
         /\ \A o \in Outputs : HasDevices(o) => o \in Devs /\ (~(manyOutputs /\ manyDemods) => o = 0)
<1>1. Demods \subseteq Devs /\ (manyDemods => Demods = Devs) /\ (~manyDemods => Demods = {0})
  BY PipeNumbers DEF Demods
<1>2. 0 \in Demods
  BY PipeNumbers DEF Demods
<1>3. DeviceOutputs \subseteq Devs /\ 0 \in DeviceOutputs /\ (~(manyOutputs /\ manyDemods) => DeviceOutputs = {0})
  BY <1>1, <1>2, PipeNumbers DEF DeviceOutputs
<1>4. MixerOutput \in 0 .. PipeDevices
  BY PipeNumbers DEF MixerOutput
<1>5. Devs \subseteq 0 .. PipeDevices
  BY PipeNumbers DEF Devs
<1>6. 0 \in Outputs /\ Outputs \subseteq 0 .. PipeDevices
  BY <1>3, <1>4, <1>5 DEF Outputs
<1> QED
  BY <1>1, <1>3, <1>6 DEF HasDevices

\* Two demodulators are never at the same device, nor are two output threads.
LEMMA OneDemod ==
  ASSUME DemodPlace, NEW t \in Demods, NEW u \in Demods, demodDev[t] = demodDev[u]
  PROVE  t = u
  BY Threads DEF DemodPlace

LEMMA OneOutput ==
  ASSUME DemodPlace, OutputPlace, NEW o \in Outputs, NEW p \in Outputs, Busy(o), Busy(p), outputDev[o] = outputDev[p]
  PROVE  o = p
  BY Threads DEF DemodPlace, OutputPlace, Busy

\* What is due of a device's batches.
Balance(d) ==
  made[d] = delivered[d] + output_overrun_count[d] + (IF waveavail[d] THEN 1 ELSE 0) + (IF Flagging(d) THEN 1 ELSE 0)

LEMMA Accounts == BatchesAccounted <=> \A d \in Devs : Balance(d)
  BY DEF BatchesAccounted, Balance, Flagging

LEMMA AccountsNext == BatchesAccounted' <=> \A d \in Devs : Balance(d)'
  BY DEF BatchesAccounted, Balance, Flagging

LEMMA PipeStart == PipeInit => PInv
<1> SUFFICES ASSUME PipeInit PROVE PInv
  OBVIOUS
<1>1. manyDemods \in BOOLEAN /\ manyOutputs \in BOOLEAN /\ mixers \in BOOLEAN
  BY DEF PipeInit
<1>2. DemodPlace
  BY <1>1 DEF PipeInit, DemodPlace
<1>3. OutputPlace
  BY <1>1, PipeNumbers, Threads DEF PipeInit, OutputPlace, Busy
<1>4. BatchTypes
  BY <1>1, PipeNumbers, Threads DEF PipeInit, BatchTypes
<1>5. BatchesAccounted
  BY <1>1, Threads DEF PipeInit, BatchesAccounted
<1> QED
  BY <1>2, <1>3, <1>4, <1>5 DEF PInv

\* A demodulator goes on to one of its own devices.
LEMMA DemodGoesOn ==
  ASSUME DemodPlace, NEW t \in Demods, NextDev(t)
  PROVE  demodDev' \in [Devs -> Devs] /\ (manyDemods => \A u \in Devs : demodDev'[u] = u)
<1>1. t \in Devs /\ demodDev[t] \in Devs /\ demodDev \in [Devs -> Devs] /\ manyDemods \in BOOLEAN
  BY Threads DEF DemodPlace
<1>2. CASE manyDemods
  BY <1>1, <1>2 DEF NextDev, LastDev, First, DemodPlace
<1>3. CASE ~manyDemods
  <2>1. demodDev[t] # PipeDevices - 1 => demodDev[t] + 1 \in Devs
    <3>1. demodDev[t] \in 0 .. PipeDevices - 1
      BY <1>1 DEF Devs
    <3> QED
      BY <3>1, PipeAssumption DEF Devs
  <2> QED
    BY <1>1, <1>3, <2>1, PipeNumbers DEF NextDev, LastDev, First
<1> QED
  BY <1>1, <1>2, <1>3

\* What does not touch the batches nor who is flagging one leaves the account as it is.
LEMMA AccountKept ==
  ASSUME PInv, UNCHANGED <<made, delivered, output_overrun_count, waveavail, manyDemods>>,
         \A t \in Demods : (demod'[t] = "flag") = (demod[t] = "flag") /\ (demod[t] = "flag" => demodDev'[t] = demodDev[t])
  PROVE  BatchesAccounted'
<1>1. Demods' = Demods
  BY DEF Demods
<1>2. \A d \in Devs : (\E t \in Demods' : demod'[t] = "flag" /\ demodDev'[t] = d)
                        <=> (\E t \in Demods : demod[t] = "flag" /\ demodDev[t] = d)
  BY <1>1
<1> QED
  BY <1>2 DEF PInv, BatchesAccounted

\* A step of a demodulator leaves the output threads where they are, and takes no batch away.
LEMMA DemodLeavesOutputs ==
  ASSUME OutputPlace, UNCHANGED <<manyDemods, manyOutputs, mixers, output, outputDev>>,
         \A d \in Devs : waveavail[d] => waveavail'[d]
  PROVE  OutputPlace'
<1>1. Outputs' = Outputs /\ DeviceOutputs' = DeviceOutputs
  BY DEF Outputs, DeviceOutputs, MixerOutput, Demods
<1>2. \A o \in Outputs : Busy(o)' = Busy(o)
  BY DEF Busy
<1>3. \A o \in Outputs : outputDev[o] \in Devs
  <2>1. Outputs \subseteq 0 .. PipeDevices
    BY PipeNumbers DEF Outputs, DeviceOutputs, MixerOutput, Demods, Devs
  <2> QED
    BY <2>1 DEF OutputPlace
<1> QED
  BY <1>1, <1>2, <1>3 DEF OutputPlace, HasDevices

LEMMA DemodKeeps ==
  ASSUME PInv, NEW t \in Demods, DemodStep(t)
  PROVE  PInv'
<1>1. /\ t \in Devs /\ demodDev[t] \in Devs /\ demod \in [Devs -> {"loop", "flag", "send", "exited"}]
      /\ demodDev \in [Devs -> Devs] /\ manyDemods \in BOOLEAN /\ manyOutputs \in BOOLEAN /\ mixers \in BOOLEAN
  BY Threads DEF PInv, DemodPlace
<1>2. UNCHANGED <<manyDemods, manyOutputs, mixers, output, outputDev, exiting, main, joining>>
  BY DEF DemodStep, DemodExits, NoBatch, WriteBatch, FlagBatch, SendBatch, DemodAt, pipeConfig
<1>3. Demods' = Demods /\ Outputs' = Outputs
  BY <1>2 DEF Demods, Outputs, DeviceOutputs, MixerOutput
<1>4. /\ waveavail \in [Devs -> BOOLEAN] /\ made \in [Devs -> 0 .. MaxBatches] /\ delivered \in [Devs -> Nat]
      /\ output_overrun_count \in [Devs -> Nat] /\ pending_ \in [0 .. PipeDevices -> BOOLEAN]
      /\ main \in {"demods", "send", "join", "done"} /\ joining \in Outputs
  BY DEF PInv, BatchTypes
<1>5. CASE DemodExits(t)
  <2>1. /\ demod[t] = "loop" /\ demod' = [demod EXCEPT ![t] = "exited"] /\ UNCHANGED <<batchVars, pending_, demodDev>>
    BY <1>5 DEF DemodExits, DemodAt
  <2>2. DemodPlace'
    BY <1>1, <1>2, <2>1 DEF PInv, DemodPlace
  <2>3. OutputPlace'
    BY <1>2, <2>1, DemodLeavesOutputs DEF PInv, batchVars
  <2>4. BatchTypes'
    BY <1>2, <1>3, <1>4, <2>1 DEF BatchTypes, batchVars
  <2>5. BatchesAccounted'
    BY <1>1, <1>2, <2>1, Threads, AccountKept DEF batchVars
  <2> QED
    BY <2>2, <2>3, <2>4, <2>5 DEF PInv
<1>6. CASE NoBatch(t)
  <2>1. demod[t] = "loop" /\ NextDev(t) /\ UNCHANGED <<batchVars, pending_, demod>>
    BY <1>6 DEF NoBatch, DemodAt
  <2>2. DemodPlace'
    BY <1>1, <1>2, <2>1, DemodGoesOn DEF PInv, DemodPlace
  <2>3. OutputPlace'
    BY <1>2, <2>1, DemodLeavesOutputs DEF PInv, batchVars
  <2>4. BatchTypes'
    BY <1>2, <1>3, <1>4, <2>1 DEF BatchTypes, batchVars
  <2>5. \A u \in Demods : demod[u] = "flag" => demodDev'[u] = demodDev[u]
    BY <1>1, <2>1, Threads DEF NextDev
  <2>6. BatchesAccounted'
    BY <1>2, <2>1, <2>5, AccountKept DEF batchVars
  <2> QED
    BY <2>2, <2>3, <2>4, <2>6 DEF PInv
<1>7. CASE WriteBatch(t)
  <2> DEFINE d == demodDev[t]
  <2>1. /\ demod[t] = "loop" /\ made[d] < MaxBatches /\ made' = [made EXCEPT ![d] = @ + 1]
        /\ demod' = [demod EXCEPT ![t] = "flag"]
        /\ UNCHANGED <<waveavail, output_overrun_count, delivered, pending_, demodDev>>
    BY <1>7 DEF WriteBatch, DemodAt
  <2>2. DemodPlace'
    BY <1>1, <1>2, <2>1 DEF PInv, DemodPlace
  <2>3. OutputPlace'
    BY <1>2, <2>1, DemodLeavesOutputs DEF PInv
  <2>4. BatchTypes'
    <3>1. made[d] + 1 \in 0 .. MaxBatches
      <4>1. made[d] \in 0 .. MaxBatches /\ made[d] < MaxBatches /\ MaxBatches \in Nat
        BY <1>1, <1>4, <2>1, PipeNumbers
      <4> QED
        BY <4>1
    <3> QED
      BY <1>1, <1>2, <1>3, <1>4, <2>1, <3>1 DEF BatchTypes
  <2>5. ASSUME NEW e \in Devs, e # d PROVE Flagging(e)' <=> Flagging(e)
    BY <1>1, <1>3, <2>1, <2>5, Threads DEF Flagging
  <2>6. ~Flagging(d) /\ Flagging(d)'
    <3>1. ~Flagging(d)
      BY <1>1, <2>1, OneDemod DEF Flagging, PInv
    <3>2. demod'[t] = "flag" /\ demodDev'[t] = d
      BY <1>1, <2>1
    <3>3. \E u \in Demods' : demod'[u] = "flag" /\ demodDev'[u] = d
      BY <1>3, <3>2
    <3> QED
      BY <2>1, <3>1, <3>3 DEF Flagging
  <2>7. \A e \in Devs : Balance(e)'
    <3>1. ASSUME NEW e \in Devs, e # d PROVE Balance(e)'
      BY <1>1, <1>4, <2>1, <2>5, <3>1, Accounts DEF PInv, Balance
    <3>2. Balance(d)'
      <4>1. made[d] \in Nat /\ delivered[d] \in Nat /\ output_overrun_count[d] \in Nat /\ waveavail[d] \in BOOLEAN
        BY <1>1, <1>4
      <4>2. Balance(d)
        BY <1>1, Accounts DEF PInv
      <4> QED
        BY <1>1, <1>4, <2>1, <2>6, <4>1, <4>2 DEF Balance
    <3>3. d' = d
      BY <2>1
    <3>4. ASSUME NEW e \in Devs, e = d PROVE Balance(e)'
      <4>1. e = d'
        BY <3>3, <3>4, Zenon
      <4> QED
        BY <3>2, <4>1, Zenon DEF Balance, Flagging
    <3> QED
      BY <3>1, <3>4
  <2>8. BatchesAccounted'
    BY <2>7, AccountsNext
  <2> QED
    BY <2>2, <2>3, <2>4, <2>8 DEF PInv
<1>8. CASE FlagBatch(t)
  <2> DEFINE d == demodDev[t]
  <2>1. /\ demod[t] = "flag" /\ demod' = [demod EXCEPT ![t] = "send"]
        /\ IF waveavail[d]
           THEN output_overrun_count' = [output_overrun_count EXCEPT ![d] = @ + 1] /\ UNCHANGED waveavail
           ELSE waveavail' = [waveavail EXCEPT ![d] = TRUE] /\ UNCHANGED output_overrun_count
        /\ UNCHANGED <<made, delivered, pending_, demodDev>>
    BY <1>8 DEF FlagBatch, DemodAt
  <2>2. DemodPlace'
    BY <1>1, <1>2, <2>1 DEF PInv, DemodPlace
  <2>3. OutputPlace'
    BY <1>1, <1>2, <1>4, <2>1, DemodLeavesOutputs DEF PInv
  <2>4. BatchTypes'
    <3>1. waveavail' \in [Devs -> BOOLEAN] /\ output_overrun_count' \in [Devs -> Nat]
      <4>1. output_overrun_count[d] + 1 \in Nat
        BY <1>1, <1>4
      <4> QED
        BY <1>1, <1>4, <2>1, <4>1
    <3> QED
      BY <1>2, <1>3, <1>4, <2>1, <3>1 DEF BatchTypes
  <2>5. ASSUME NEW e \in Devs, e # d PROVE Flagging(e)' <=> Flagging(e)
    BY <1>1, <1>3, <2>1, <2>5, Threads DEF Flagging
  <2>6. Flagging(d) /\ ~Flagging(d)'
    <3>1. Flagging(d)
      BY <2>1 DEF Flagging
    <3>2. \A u \in Demods : demodDev[u] = d => u = t
      BY OneDemod DEF PInv
    <3> QED
      BY <1>1, <1>3, <2>1, <3>1, <3>2, Threads DEF Flagging
  <2>7. \A e \in Devs : Balance(e)'
    <3>1. ASSUME NEW e \in Devs, e # d PROVE Balance(e)'
      BY SMTT(30), <1>1, <1>4, <2>1, <2>5, <3>1, Accounts DEF PInv, Balance
    <3>2. Balance(d)'
      <4>1. made[d] \in Nat /\ delivered[d] \in Nat /\ output_overrun_count[d] \in Nat /\ waveavail[d] \in BOOLEAN
        BY <1>1, <1>4
      <4>2. Balance(d)
        BY <1>1, Accounts DEF PInv
      <4> QED
        BY <1>1, <1>4, <2>1, <2>6, <4>1, <4>2 DEF Balance
    <3>3. d' = d
      BY <2>1
    <3>4. ASSUME NEW e \in Devs, e = d PROVE Balance(e)'
      <4>1. e = d'
        BY <3>3, <3>4, Zenon
      <4> QED
        BY <3>2, <4>1, Zenon DEF Balance, Flagging
    <3> QED
      BY <3>1, <3>4
  <2>8. BatchesAccounted'
    BY <2>7, AccountsNext
  <2> QED
    BY <2>2, <2>3, <2>4, <2>8 DEF PInv
<1>9. CASE SendBatch(t)
  <2>1. /\ demod[t] = "send" /\ pending_' = [pending_ EXCEPT ![SignalOf(t)] = TRUE]
        /\ demod' = [demod EXCEPT ![t] = "loop"] /\ NextDev(t) /\ UNCHANGED batchVars
    BY <1>9 DEF SendBatch, DemodAt, Send
  <2>2. DemodPlace'
    BY <1>1, <1>2, <2>1, DemodGoesOn DEF PInv, DemodPlace
  <2>3. OutputPlace'
    BY <1>2, <2>1, DemodLeavesOutputs DEF PInv, batchVars
  <2>4. BatchTypes'
    BY <1>2, <1>3, <1>4, <2>1 DEF BatchTypes, batchVars
  <2>5. \A u \in Demods : demod[u] = "flag" => demodDev'[u] = demodDev[u]
    BY <1>1, <2>1, Threads DEF NextDev
  <2>6. \A u \in Demods : (demod'[u] = "flag") = (demod[u] = "flag")
    BY <1>1, <2>1, Threads
  <2>7. BatchesAccounted'
    BY <1>2, <2>1, <2>5, <2>6, AccountKept DEF batchVars
  <2> QED
    BY <2>2, <2>3, <2>4, <2>7 DEF PInv
<1> QED
  BY <1>5, <1>6, <1>7, <1>8, <1>9 DEF DemodStep


\* Where an output thread goes next is one of its own devices, or it is at none.
LEMMA OutputGoesOn ==
  ASSUME PInv, NEW o \in Outputs, NEW pc \in {"device", "flush"},
         Pass(o, pc) \/ (HasDevices(o) /\ (manyOutputs /\ manyDemods => outputDev[o] = o) /\ NextOfPass(o, pc))
  PROVE  \E e \in Devs, q \in {"device", "flush", "top", "exited"} :
           /\ Visit(o, q, e)
           /\ q \in {"device", "flush"} => HasDevices(o) /\ (manyOutputs /\ manyDemods => e = o)
<1>1. o \in 0 .. PipeDevices /\ outputDev[o] \in Devs
  BY Threads DEF PInv, DemodPlace, OutputPlace
<1>2. HasDevices(o) => o \in Devs
  BY Threads DEF PInv, DemodPlace
<1>3. CASE Pass(o, pc)
  BY <1>2, <1>3, PipeNumbers DEF Pass, OutputFirst, First
<1>4. CASE HasDevices(o) /\ (manyOutputs /\ manyDemods => outputDev[o] = o) /\ NextOfPass(o, pc)
  <2>1. CASE outputDev[o] = LastDev(o, manyOutputs /\ manyDemods)
    BY <1>4, <2>1, PipeNumbers DEF NextOfPass
  <2>2. CASE outputDev[o] # LastDev(o, manyOutputs /\ manyDemods)
    <3>1. ~(manyOutputs /\ manyDemods) /\ outputDev[o] # PipeDevices - 1
      BY <1>4, <2>2 DEF LastDev
    <3>2. outputDev[o] + 1 \in Devs
      <4>1. outputDev[o] \in 0 .. PipeDevices - 1
        BY <1>1 DEF Devs
      <4> QED
        BY <3>1, <4>1, PipeAssumption DEF Devs
    <3> QED
      BY <1>4, <2>2, <3>1, <3>2 DEF NextOfPass
  <2> QED
    BY <2>1, <2>2
<1> QED
  BY <1>3, <1>4

\* An output thread that goes to a device, with the batches of the others still available.
LEMMA OutputMoves ==
  ASSUME PInv, NEW o \in Outputs, NEW e \in Devs,
         NEW q \in {"top", "wait", "device", "outputs", "flush", "flushing", "exited"}, Visit(o, q, e),
         UNCHANGED <<manyDemods, manyOutputs, mixers>>,
         q \in {"device", "outputs", "flush", "flushing"} => HasDevices(o) /\ (manyOutputs /\ manyDemods => e = o),
         q \in {"outputs", "flushing"} => waveavail'[e],
         \A p \in Outputs : p # o /\ Busy(p) => waveavail'[outputDev[p]]
  PROVE  OutputPlace'
<1>1. Outputs' = Outputs /\ DeviceOutputs' = DeviceOutputs
  BY DEF Outputs, DeviceOutputs, MixerOutput, Demods
<1>2. Outputs \subseteq 0 .. PipeDevices
  BY Threads DEF PInv, DemodPlace
<1>3. /\ outputDev \in [0 .. PipeDevices -> Devs]
      /\ output \in [0 .. PipeDevices -> {"top", "wait", "device", "outputs", "flush", "flushing", "exited"}]
      /\ \A p \in Outputs : output[p] \in {"device", "outputs", "flush", "flushing"} =>
           HasDevices(p) /\ (manyOutputs /\ manyDemods => outputDev[p] = p)
  BY DEF PInv, OutputPlace
<1>4. /\ output' = [output EXCEPT ![o] = q] /\ outputDev' = [outputDev EXCEPT ![o] = e]
  BY DEF Visit
<1>5. /\ outputDev' \in [0 .. PipeDevices -> Devs]
      /\ output' \in [0 .. PipeDevices -> {"top", "wait", "device", "outputs", "flush", "flushing", "exited"}]
      /\ output'[o] = q /\ outputDev'[o] = e
      /\ \A p \in Outputs : p # o => output'[p] = output[p] /\ outputDev'[p] = outputDev[p]
  BY <1>2, <1>3, <1>4
<1>6. \A p \in Outputs : output'[p] \in {"device", "outputs", "flush", "flushing"} =>
        p \in DeviceOutputs' /\ (manyOutputs' /\ manyDemods' => outputDev'[p] = p)
  BY <1>1, <1>3, <1>5 DEF HasDevices
<1>7. \A p \in Outputs : output'[p] \in {"outputs", "flushing"} => waveavail'[outputDev'[p]]
  BY <1>5 DEF Busy
<1> QED
  BY <1>1, <1>5, <1>6, <1>7 DEF OutputPlace, HasDevices, Busy

\* The demodulators stay where they are.
LEMMA OutputLeavesDemods ==
  ASSUME DemodPlace, UNCHANGED <<manyDemods, manyOutputs, mixers, demod, demodDev>>
  PROVE  DemodPlace' /\ \A d \in Devs : Flagging(d)' <=> Flagging(d)
<1>1. DemodPlace'
  BY DEF DemodPlace
<1>2. Demods' = Demods
  BY DEF Demods
<1> QED
  BY <1>1, <1>2 DEF Flagging

LEMMA OutputKeeps ==
  ASSUME PInv, NEW o \in Outputs, OutputStep(o)
  PROVE  PInv'
<1>1. o \in 0 .. PipeDevices /\ outputDev[o] \in Devs /\ Outputs \subseteq 0 .. PipeDevices
  BY Threads DEF PInv, DemodPlace, OutputPlace
<1>2. UNCHANGED <<manyDemods, manyOutputs, mixers, demod, demodDev, exiting, main, joining, made, output_overrun_count>>
  BY DEF OutputStep, OutputTop, OutputWakes, OutputPass, NothingAvailable, BeginOutputs, EndOutputs, OutputAt,
         pipeConfig, batchVars
<1>3. DemodPlace' /\ \A d \in Devs : Flagging(d)' <=> Flagging(d)
  BY <1>2, OutputLeavesDemods DEF PInv
<1>4. Outputs' = Outputs
  BY <1>2 DEF Outputs, DeviceOutputs, MixerOutput, Demods
<1>5. /\ waveavail \in [Devs -> BOOLEAN] /\ made \in [Devs -> 0 .. MaxBatches] /\ delivered \in [Devs -> Nat]
      /\ output_overrun_count \in [Devs -> Nat] /\ pending_ \in [0 .. PipeDevices -> BOOLEAN]
      /\ main \in {"demods", "send", "join", "done"} /\ joining \in Outputs
  BY DEF PInv, BatchTypes
<1>6. \A p \in Outputs : Busy(p) => waveavail[outputDev[p]]
  BY DEF PInv, OutputPlace
<1>7. ASSUME UNCHANGED <<waveavail, delivered>>, pending_' \in [0 .. PipeDevices -> BOOLEAN]
      PROVE  BatchTypes' /\ BatchesAccounted'
  <2>1. BatchTypes'
    BY <1>2, <1>4, <1>5, <1>7 DEF BatchTypes
  <2>2. \A d \in Devs : Balance(d)'
    BY <1>2, <1>3, <1>7, Accounts DEF PInv, Balance
  <2> QED
    BY <2>1, <2>2, AccountsNext
<1>8. ASSUME NEW pc \in {"device", "flush"}, Pass(o, pc), UNCHANGED waveavail
      PROVE  OutputPlace'
  <2>1. PICK e \in Devs, q \in {"device", "flush", "top", "exited"} :
           Visit(o, q, e) /\ (q \in {"device", "flush"} => HasDevices(o) /\ (manyOutputs /\ manyDemods => e = o))
    BY <1>8, OutputGoesOn
  <2> QED
    BY <1>2, <1>6, <1>8, <2>1, OutputMoves
<1>9. CASE OutputTop(o)
  <2>1. UNCHANGED <<waveavail, delivered, pending_>>
    BY <1>9 DEF OutputTop, batchVars
  <2>2. CASE exiting
    BY <1>3, <1>5, <1>7, <1>8, <1>9, <2>1, <2>2 DEF PInv, OutputTop
  <2>3. CASE ~exiting
    <3>1. Visit(o, "wait", 0)
      BY <1>9, <2>3 DEF OutputTop
    <3>2. OutputPlace'
      BY <1>2, <1>6, <2>1, <3>1, PipeNumbers, OutputMoves
    <3> QED
      BY <1>3, <1>5, <1>7, <2>1, <3>2 DEF PInv
  <2> QED
    BY <2>2, <2>3
<1>10. CASE OutputWakes(o)
  <2>1. UNCHANGED <<waveavail, delivered>> /\ Pass(o, "device") /\ pending_' \in [0 .. PipeDevices -> BOOLEAN]
    BY <1>1, <1>5, <1>10 DEF OutputWakes, batchVars, Wait
  <2> QED
    BY <1>3, <1>7, <1>8, <2>1 DEF PInv
<1>11. ASSUME NEW pc \in {"device", "flush"}, NothingAvailable(o, pc) PROVE PInv'
  <2>1. output[o] = pc /\ NextOfPass(o, pc) /\ UNCHANGED <<waveavail, delivered, pending_>>
    BY <1>11 DEF NothingAvailable, OutputAt, batchVars
  <2>2. HasDevices(o) /\ (manyOutputs /\ manyDemods => outputDev[o] = o)
    BY <2>1 DEF PInv, OutputPlace
  <2>3. PICK e \in Devs, q \in {"device", "flush", "top", "exited"} :
           Visit(o, q, e) /\ (q \in {"device", "flush"} => HasDevices(o) /\ (manyOutputs /\ manyDemods => e = o))
    BY <2>1, <2>2, OutputGoesOn
  <2>4. OutputPlace'
    BY <1>2, <1>6, <2>1, <2>3, OutputMoves
  <2> QED
    BY <1>3, <1>5, <1>7, <2>1, <2>4 DEF PInv
<1>12. ASSUME NEW pc \in {"device", "flush"}, BeginOutputs(o, pc) PROVE PInv'
  <2>1. /\ output[o] = pc /\ waveavail[outputDev[o]] /\ UNCHANGED <<waveavail, delivered, pending_>>
        /\ \E q \in {"flushing", "outputs"} : Visit(o, q, outputDev[o])
    BY <1>12 DEF BeginOutputs, OutputAt, batchVars
  <2>2. HasDevices(o) /\ (manyOutputs /\ manyDemods => outputDev[o] = o)
    BY <2>1 DEF PInv, OutputPlace
  <2>3. OutputPlace'
    BY <1>1, <1>2, <1>6, <2>1, <2>2, OutputMoves
  <2> QED
    BY <1>3, <1>5, <1>7, <2>1, <2>3 DEF PInv
<1>13. ASSUME NEW pc \in {"device", "flush"}, EndOutputs(o, pc) PROVE PInv'
  <2> DEFINE d == outputDev[o]
  <2>1. /\ Busy(o) /\ waveavail' = [waveavail EXCEPT ![d] = FALSE] /\ delivered' = [delivered EXCEPT ![d] = @ + 1]
        /\ NextOfPass(o, pc) /\ UNCHANGED pending_
    BY <1>13 DEF EndOutputs, OutputAt, Busy
  <2>2. HasDevices(o) /\ (manyOutputs /\ manyDemods => outputDev[o] = o) /\ waveavail[d]
    BY <2>1 DEF PInv, OutputPlace, Busy
  <2>3. PICK e \in Devs, q \in {"device", "flush", "top", "exited"} :
           Visit(o, q, e) /\ (q \in {"device", "flush"} => HasDevices(o) /\ (manyOutputs /\ manyDemods => e = o))
    BY <2>1, <2>2, OutputGoesOn
  <2>4. \A p \in Outputs : p # o /\ Busy(p) => waveavail'[outputDev[p]]
    <3> SUFFICES ASSUME NEW p \in Outputs, p # o, Busy(p) PROVE waveavail'[outputDev[p]]
      OBVIOUS
    <3>1. outputDev[p] # d
      BY <2>1, OneOutput DEF PInv
    <3>2. outputDev[p] \in Devs
      BY <1>1 DEF PInv, OutputPlace
    <3> QED
      BY <1>5, <1>6, <2>1, <3>1, <3>2
  <2>5. OutputPlace'
    BY <1>2, <2>3, <2>4, OutputMoves
  <2>6. BatchTypes'
    <3>1. delivered[d] + 1 \in Nat
      BY <1>1, <1>5
    <3>2. delivered' \in [Devs -> Nat] /\ waveavail' \in [Devs -> BOOLEAN]
      BY <1>1, <1>5, <2>1, <3>1
    <3> QED
      BY <1>2, <1>4, <1>5, <2>1, <3>2 DEF BatchTypes
  <2>7. ASSUME NEW x \in Devs PROVE Balance(x)'
    <3>1. made[x] \in Nat /\ delivered[x] \in Nat /\ output_overrun_count[x] \in Nat /\ waveavail[x] \in BOOLEAN
      BY <1>5
    <3>2. Balance(x)
      BY Accounts DEF PInv
    <3>3. /\ made'[x] = made[x] /\ output_overrun_count'[x] = output_overrun_count[x]
          /\ delivered'[x] = (IF x = d THEN delivered[x] + 1 ELSE delivered[x])
          /\ waveavail'[x] = (IF x = d THEN FALSE ELSE waveavail[x])
      BY <1>1, <1>2, <1>5, <2>1
    <3>4. Flagging(x)' <=> Flagging(x)
      BY <1>3
    <3>5. CASE x = d
      BY <2>2, <3>1, <3>2, <3>3, <3>4, <3>5 DEF Balance
    <3>6. CASE x # d
      BY <3>1, <3>2, <3>3, <3>4, <3>6 DEF Balance
    <3> QED
      BY <3>5, <3>6
  <2> QED
    BY <1>3, <2>5, <2>6, <2>7, AccountsNext DEF PInv
<1> QED
  BY <1>9, <1>10, <1>11, <1>12, <1>13 DEF OutputStep, OutputPass

\* The steps of main(), of the mixers' thread and the order to exit leave every batch where it is.
LEMMA OthersKeep ==
  ASSUME PInv, MixerSends \/ Signalled \/ MainStep \/ UNCHANGED pipeVars
  PROVE  PInv'
<1>1. UNCHANGED <<manyDemods, manyOutputs, mixers, batchVars, demod, demodDev, output, outputDev>>
  BY DEF MixerSends, Signalled, MainStep, DemodsJoined, WakeOutput, OutputJoined, MainAt, pipeConfig, pipeVars
<1>2. DemodPlace' /\ \A d \in Devs : Flagging(d)' <=> Flagging(d)
  BY <1>1, OutputLeavesDemods DEF PInv
<1>3. OutputPlace'
  BY <1>1, DemodLeavesOutputs DEF PInv, batchVars
<1>4. BatchesAccounted'
  BY <1>1, AccountKept DEF batchVars
<1>5. BatchTypes'
  <2>1. Outputs' = Outputs
    BY <1>1 DEF Outputs, DeviceOutputs, MixerOutput, Demods
  <2>2. pending_ \in [0 .. PipeDevices -> BOOLEAN] /\ main \in {"demods", "send", "join", "done"} /\ joining \in Outputs
    BY DEF PInv, BatchTypes
  <2>3. pending_' \in [0 .. PipeDevices -> BOOLEAN]
    BY <2>2 DEF MixerSends, Signalled, MainStep, DemodsJoined, WakeOutput, OutputJoined, MainAt, Send, pipeVars
  <2>4. main' \in {"demods", "send", "join", "done"}
    BY <2>2 DEF MixerSends, Signalled, MainStep, DemodsJoined, WakeOutput, OutputJoined, MainAt, pipeVars
  <2>5. joining' \in Outputs
    <3>1. 0 \in Outputs
      BY Threads DEF PInv, DemodPlace
    <3>2. CASE OutputJoined /\ \E o \in Outputs : o > joining
      <4>1. \E o \in Outputs : o > joining /\ \A p \in Outputs : p > joining => o <= p
        <5>1. joining \in 0 .. PipeDevices
          BY <2>2, Threads DEF PInv, DemodPlace
        <5>2. /\ DeviceOutputs = {0} \/ DeviceOutputs = 0 .. PipeDevices - 1
              /\ Outputs = DeviceOutputs \/ Outputs = DeviceOutputs \union {0}
                 \/ Outputs = DeviceOutputs \union {PipeDevices}
          BY DEF DeviceOutputs, Demods, Outputs, MixerOutput, Devs
        <5>3. CASE joining + 1 \in DeviceOutputs
          BY <5>1, <5>2, <5>3, PipeNumbers
        <5>4. CASE joining + 1 \notin DeviceOutputs
          <6>1. \A p \in DeviceOutputs : ~(p > joining)
            BY <5>1, <5>2, <5>4, PipeNumbers
          <6> QED
            BY <3>2, <5>1, <5>2, <6>1, PipeNumbers
        <5> QED
          BY <5>3, <5>4
      <4> DEFINE Nearest(o) == o > joining /\ \A p \in Outputs : p > joining => o <= p
      <4>2. joining' = CHOOSE o \in Outputs : Nearest(o)
        BY <3>2 DEF OutputJoined
      <4>3. \E o \in Outputs : Nearest(o)
        BY <4>1
      <4> HIDE DEF Nearest
      <4> QED
        BY <4>2, <4>3
    <3>3. CASE ~(OutputJoined /\ \E o \in Outputs : o > joining)
      BY <2>2, <3>1, <3>3 DEF MixerSends, Signalled, MainStep, DemodsJoined, WakeOutput, OutputJoined, MainAt, pipeVars
    <3> QED
      BY <3>2, <3>3
  <2> QED
    BY <1>1, <2>1, <2>3, <2>4, <2>5 DEF PInv, BatchTypes, batchVars
<1> QED
  BY <1>2, <1>3, <1>4, <1>5 DEF PInv

PipeSafety == PipeInit /\ [][PipeNext]_pipeVars

LEMMA PipeInvariant == PipeSafety => []PInv
<1>1. PInv /\ [PipeNext]_pipeVars => PInv'
  BY DemodKeeps, OutputKeeps, OthersKeep DEF PipeNext
<1> QED
  BY PipeStart, <1>1, PTL DEF PipeSafety

\* Every batch a demodulator completed was handed to the outputs exactly once, waits to be, or is
\* counted in output_overrun_count: for every number of devices and every way main() sets up threads.
THEOREM BatchesNeverVanish == PipeSpec => []BatchesAccounted
<1>1. PInv => BatchesAccounted
  BY DEF PInv
<1> QED
  BY PipeInvariant, <1>1, PTL DEF PipeSpec, PipeSafety

LEMMA PipeTyped == PInv => PipeTypeOK
<1> SUFFICES ASSUME PInv PROVE PipeTypeOK
  OBVIOUS
<1>1. /\ made \in [Devs -> 0 .. MaxBatches] /\ delivered \in [Devs -> Nat]
      /\ output_overrun_count \in [Devs -> Nat]
  BY DEF PInv, BatchTypes
<1>2. ASSUME NEW d \in Devs PROVE delivered[d] \in 0 .. MaxBatches
  <2>1. made[d] \in 0 .. MaxBatches /\ delivered[d] \in Nat /\ output_overrun_count[d] \in Nat
    BY <1>1
  <2>2. Balance(d)
    BY Accounts DEF PInv
  <2>3. delivered[d] <= made[d]
    BY <2>1, <2>2 DEF Balance
  <2> QED
    BY <2>1, <2>3, PipeNumbers
<1>3. delivered \in [Devs -> 0 .. MaxBatches]
  BY <1>1, <1>2
<1> QED
  BY <1>3 DEF PipeTypeOK, PInv, DemodPlace, OutputPlace, BatchTypes

\* Every variable of the pipeline has its type; no more batches are delivered than were made.
THEOREM PipelineTypeCorrect == PipeSpec => []PipeTypeOK
BY PipeInvariant, PipeTyped, PTL DEF PipeSpec, PipeSafety


-----------------------------------------------------------------------------
(***************************************************************************)
(* Uploads                                                                 *)
(***************************************************************************)

\* What is no longer waiting, in the places it may be.
Gone == InWork \union uploaded \union droppedJobs \union failed

\* The worker has a transmission while it sends or waits to try again, and has then tried it.
WorkInv ==
  /\ job_queue \in Seq(Nat) /\ finished \in 0 .. MaxJobs /\ attempt \in 0 .. MaxRetries
  /\ uploadPc \in {"idle", "send", "backoff", "done"} /\ uploadMain \in {"run", "join", "exit"}
  /\ shutdown_requested \in BOOLEAN
  /\ IF uploadPc \in {"send", "backoff"} THEN upload \in 1 .. finished ELSE upload = 0
  /\ uploadPc = "backoff" => attempt < MaxRetries /\ upload \in attempted
  /\ uploaded \union failed \subseteq attempted
  /\ uploadMain = "run" <=> ~shutdown_requested /\ uploadMain # "exit"
  /\ uploadPc = "done" /\ shutdown_requested => job_queue = <<>>
  /\ uploadMain = "exit" /\ shutdown_requested => uploadPc = "done"

\* No transmission is in two places.
ApartInv ==
  /\ uploaded \intersect droppedJobs = {} /\ uploaded \intersect failed = {} /\ droppedJobs \intersect failed = {}
  /\ upload \notin uploaded /\ upload \notin droppedJobs /\ upload \notin failed
  /\ uploaded \subseteq 1 .. finished /\ droppedJobs \subseteq 1 .. finished /\ failed \subseteq 1 .. finished

UInv == WorkInv /\ ApartInv /\ JobsAccounted


Items(q) == {q[i] : i \in DOMAIN q}
Rising(q) == \A i, j \in DOMAIN q : i < j => q[i] < q[j]

LEMMA UploadNumbers == QueueDepth \in Nat /\ QueueDepth > 0 /\ MaxRetries \in Nat /\ MaxJobs \in Nat
  BY UploadsAssumption

\* The first of a queue that rises is the least.
LEMMA TakenFromFront ==
  ASSUME NEW q \in Seq(Nat), q # <<>>
  PROVE  /\ Tail(q) \in Seq(Nat) /\ Len(Tail(q)) = Len(q) - 1 /\ Len(q) >= 1
         /\ Head(q) \in Items(q) /\ Items(q) = Items(Tail(q)) \union {Head(q)}
         /\ Rising(q) => Rising(Tail(q)) /\ \A w \in Items(Tail(q)) : Head(q) < w
<1>1. /\ Tail(q) \in Seq(Nat) /\ Len(Tail(q)) = Len(q) - 1 /\ Len(q) \in Nat /\ Len(q) >= 1 /\ Head(q) = q[1]
      /\ \A i \in 1 .. Len(q) - 1 : Tail(q)[i] = q[i + 1]
      /\ DOMAIN q = 1 .. Len(q) /\ DOMAIN Tail(q) = 1 .. Len(q) - 1
  BY HeadTailProperties, LenProperties, EmptySeq
<1>2. Items(Tail(q)) = {q[i] : i \in 2 .. Len(q)}
  <2>1. ASSUME NEW w \in Items(Tail(q)) PROVE \E i \in 2 .. Len(q) : w = q[i]
    <3>1. PICK i \in 1 .. Len(q) - 1 : w = Tail(q)[i]
      BY <1>1, <2>1 DEF Items
    <3>2. i + 1 \in 2 .. Len(q) /\ w = q[i + 1]
      BY <1>1, <3>1
    <3> QED
      BY <3>2
  <2>2. ASSUME NEW i \in 2 .. Len(q) PROVE q[i] \in Items(Tail(q))
    <3>1. i - 1 \in 1 .. Len(q) - 1 /\ (i - 1) + 1 = i
      BY <1>1
    <3>2. Tail(q)[i - 1] = q[i]
      BY <1>1, <3>1
    <3> QED
      BY <1>1, <3>1, <3>2 DEF Items
  <2> QED
    BY <2>1, <2>2
<1>3. Head(q) \in Items(q) /\ Items(q) = Items(Tail(q)) \union {Head(q)}
  <2>1. 1 .. Len(q) = (2 .. Len(q)) \union {1}
    BY <1>1
  <2>2. Items(q) = {q[i] : i \in (2 .. Len(q)) \union {1}}
    BY <1>1, <2>1 DEF Items
  <2>3. Items(q) = {q[i] : i \in 2 .. Len(q)} \union {q[1]}
    BY <2>2
  <2> QED
    BY <1>1, <1>2, <2>3
<1>4. ASSUME Rising(q) PROVE Rising(Tail(q)) /\ \A w \in Items(Tail(q)) : Head(q) < w
  <2>1. ASSUME NEW i \in 1 .. Len(q) - 1, NEW j \in 1 .. Len(q) - 1, i < j PROVE Tail(q)[i] < Tail(q)[j]
    <3>1. i + 1 \in 1 .. Len(q) /\ j + 1 \in 1 .. Len(q) /\ i + 1 < j + 1
      BY <1>1, <2>1
    <3> QED
      BY <1>1, <1>4, <3>1 DEF Rising
  <2>2. ASSUME NEW i \in 2 .. Len(q) PROVE q[1] < q[i]
    <3>1. 1 \in DOMAIN q /\ i \in DOMAIN q /\ 1 < i
      BY <1>1
    <3> QED
      BY <1>4, <3>1 DEF Rising
  <2> QED
    BY <1>1, <1>2, <2>1, <2>2 DEF Rising
<1> QED
  BY <1>1, <1>3, <1>4

\* A number greater than all of a queue's goes behind them.
LEMMA QueuedBehind ==
  ASSUME NEW q \in Seq(Nat), NEW n \in Nat, Rising(q), \A w \in Items(q) : w < n
  PROVE  /\ Append(q, n) \in Seq(Nat) /\ Len(Append(q, n)) = Len(q) + 1
         /\ Items(Append(q, n)) = Items(q) \union {n} /\ Rising(Append(q, n))
<1>1. /\ Append(q, n) \in Seq(Nat) /\ Len(Append(q, n)) = Len(q) + 1 /\ Len(q) \in Nat /\ DOMAIN q = 1 .. Len(q)
      /\ \A i \in 1 .. Len(q) : Append(q, n)[i] = q[i]
      /\ Append(q, n)[Len(q) + 1] = n /\ DOMAIN Append(q, n) = 1 .. Len(q) + 1
  BY AppendProperties, LenProperties
<1>2. 1 .. Len(q) + 1 = (1 .. Len(q)) \union {Len(q) + 1}
  BY <1>1
<1>3. Items(Append(q, n)) = Items(q) \union {n}
  BY <1>1, <1>2 DEF Items
<1>4. ASSUME NEW i \in 1 .. Len(q) + 1, NEW j \in 1 .. Len(q) + 1, i < j PROVE Append(q, n)[i] < Append(q, n)[j]
  <2>1. i \in 1 .. Len(q) /\ q[i] \in Items(q) /\ Append(q, n)[i] = q[i]
    BY <1>1, <1>4 DEF Items
  <2>2. CASE j = Len(q) + 1
    BY <1>1, <2>1, <2>2
  <2>3. CASE j # Len(q) + 1
    <3>1. j \in 1 .. Len(q)
      BY <1>1, <2>3
    <3> QED
      BY <1>1, <1>4, <2>1, <3>1 DEF Rising
  <2> QED
    BY <2>2, <2>3
<1> QED
  BY <1>1, <1>3, <1>4 DEF Rising

\* One more in a set of numbers up to n.
LEMMA OneMore ==
  ASSUME NEW n \in Nat, NEW S \in SUBSET (1 .. n), NEW x, x \notin S
  PROVE  IsFiniteSet(S) /\ Cardinality(S) \in Nat /\ Cardinality(S \union {x}) = Cardinality(S) + 1
<1>1. IsFiniteSet(S)
  <2>1. IsFiniteSet(1 .. n)
    BY FS_Interval
  <2> QED
    BY <2>1, FS_Subset
<1> QED
  BY <1>1, FS_AddElement, FS_CardinalityType

LEMMA Counted3 ==
  ASSUME ApartInv, finished \in Nat
  PROVE  Cardinality(uploaded) \in Nat /\ Cardinality(droppedJobs) \in Nat /\ Cardinality(failed) \in Nat
<1>1. IsFiniteSet(1 .. finished)
  BY FS_Interval
<1> QED
  BY <1>1, FS_Subset, FS_CardinalityType DEF ApartInv

\* None or one in work.
LEMMA AtWork ==
  /\ upload = 0 => InWork = {} /\ Cardinality(InWork) = 0
  /\ upload # 0 => InWork = {upload} /\ Cardinality(InWork) = 1
<1>1. upload = 0 => InWork = {}
  BY DEF InWork
<1>2. upload # 0 => InWork = {upload}
  BY DEF InWork
<1> QED
  BY <1>1, <1>2, FS_EmptySet, FS_Singleton

\* JobsAccounted, by its parts.
Whole == Items(job_queue) \union Gone = 1 .. finished
Tally == Len(job_queue) + Cardinality(InWork) + Cardinality(uploaded) + Cardinality(droppedJobs) + Cardinality(failed) = finished
InOrder == Rising(job_queue) /\ \A w \in Items(job_queue) : \A s \in Gone : s < w

LEMMA JobsParts ==
  /\ JobsAccounted <=> Whole /\ Tally /\ Len(job_queue) <= QueueDepth /\ InOrder /\ deleted \subseteq received
  /\ JobsAccounted' <=> Whole' /\ Tally' /\ Len(job_queue)' <= QueueDepth /\ InOrder' /\ deleted' \subseteq received'
<1>1. Waiting = Items(job_queue)
  BY DEF Waiting, Items
<1>2. Waiting' = Items(job_queue)'
  BY DEF Waiting, Items
<1>3. JobsAccounted <=> Whole /\ Tally /\ Len(job_queue) <= QueueDepth /\ InOrder /\ deleted \subseteq received
  BY <1>1, Zenon DEF JobsAccounted, Whole, Tally, InOrder, Gone, Rising
<1>4. JobsAccounted' <=> Whole' /\ Tally' /\ Len(job_queue)' <= QueueDepth /\ InOrder' /\ deleted' \subseteq received'
  BY <1>2, Zenon DEF JobsAccounted, Whole, Tally, InOrder, Gone, Rising
<1> QED
  BY <1>3, <1>4


LEMMA UploadsStart == UpInit => UInv
<1> SUFFICES ASSUME UpInit PROVE UInv
  OBVIOUS
<1>1. /\ job_queue = <<>> /\ upload = 0 /\ attempt = 0 /\ uploadPc \in {"idle", "done"} /\ shutdown_requested = FALSE
      /\ finished = 0 /\ received = {} /\ uploaded = {} /\ droppedJobs = {} /\ failed = {}
      /\ attempted = {} /\ deleted = {} /\ uploadMain = "run"
  BY DEF UpInit
<1>2. job_queue \in Seq(Nat) /\ Len(job_queue) = 0 /\ DOMAIN job_queue = {}
  BY <1>1
<1>3. WorkInv
  <2>1. finished \in 0 .. MaxJobs /\ attempt \in 0 .. MaxRetries /\ uploaded \union failed \subseteq attempted
    BY <1>1, UploadNumbers
  <2>2. uploadPc \in {"idle", "send", "backoff", "done"} /\ uploadPc \notin {"send", "backoff"} /\ uploadPc # "backoff"
    BY <1>1
  <2>3. uploadMain = "run" /\ uploadMain # "exit" /\ uploadMain \in {"run", "join", "exit"}
    BY <1>1
  <2>4. shutdown_requested \in BOOLEAN /\ ~shutdown_requested
    BY <1>1, Zenon
  <2> QED
    BY <1>1, <1>2, <2>1, <2>2, <2>3, <2>4, Zenon DEF WorkInv
<1>4. ApartInv
  BY <1>1 DEF ApartInv
<1>5. InWork = {} /\ Cardinality(InWork) = 0 /\ Cardinality({}) = 0
  BY <1>1, AtWork, FS_EmptySet
<1>6. Items(job_queue) = {} /\ Gone = {} /\ Rising(job_queue)
  BY <1>1, <1>2, <1>5 DEF Items, Gone, Rising
<1>7. Whole /\ Tally /\ InOrder
  <2>1. 1 .. finished = {}
    BY <1>1
  <2> QED
    BY <1>1, <1>2, <1>5, <1>6, <2>1 DEF Whole, Tally, InOrder
<1>8. JobsAccounted
  BY <1>1, <1>2, <1>7, UploadNumbers, JobsParts
<1> QED
  BY <1>3, <1>4, <1>8 DEF UInv

LEMMA EnqueueKeeps ==
  ASSUME UInv, rdio_scanner_enqueue
  PROVE  UInv'
<1> DEFINE n == finished + 1
           q == DropOldest
<1>1. /\ uploadMain = "run" /\ finished < MaxJobs /\ finished' = n /\ job_queue' = Append(q, n)
      /\ droppedJobs' = IF Len(job_queue) >= QueueDepth THEN droppedJobs \union {Head(job_queue)} ELSE droppedJobs
      /\ UNCHANGED <<upload, attempt, uploadPc, shutdown_requested, received, uploaded, failed, attempted, deleted, uploadMain>>
  BY DEF rdio_scanner_enqueue
<1>2. /\ job_queue \in Seq(Nat) /\ finished \in 0 .. MaxJobs /\ n \in 1 .. MaxJobs /\ finished \in Nat /\ n \in Nat
      /\ Len(job_queue) \in Nat /\ Len(job_queue) <= QueueDepth
  <2>1. job_queue \in Seq(Nat) /\ finished \in 0 .. MaxJobs /\ Len(job_queue) <= QueueDepth
    BY JobsParts DEF UInv, WorkInv
  <2> QED
    BY <1>1, <2>1, UploadNumbers, LenProperties
<1>3. Whole /\ Tally /\ InOrder /\ Rising(job_queue) /\ deleted \subseteq received
  BY JobsParts DEF UInv, InOrder
<1>4. Cardinality(uploaded) \in Nat /\ Cardinality(droppedJobs) \in Nat /\ Cardinality(failed) \in Nat
  BY <1>2, Counted3 DEF UInv
<1>5. InWork' = InWork /\ Cardinality(InWork) \in Nat
  BY <1>1, AtWork DEF InWork
<1>6. Items(job_queue) \subseteq 1 .. finished /\ Gone \subseteq 1 .. finished
  BY <1>3 DEF Whole
<1>7. /\ q \in Seq(Nat) /\ Rising(q) /\ Len(q) < QueueDepth /\ Items(q) \union Gone' = 1 .. finished
      /\ \A w \in Items(q) : \A s \in Gone' : s < w
      /\ Len(q) + Cardinality(droppedJobs') = Len(job_queue) + Cardinality(droppedJobs)
      /\ droppedJobs' \subseteq 1 .. finished /\ upload \notin droppedJobs'
      /\ uploaded \intersect droppedJobs' = {} /\ droppedJobs' \intersect failed = {}
  <2>1. CASE Len(job_queue) < QueueDepth
    <3>1. q = job_queue /\ droppedJobs' = droppedJobs
      BY <1>1, <1>2, <2>1, UploadNumbers DEF DropOldest
    <3>2. Gone' = Gone
      BY <1>1, <1>5, <3>1 DEF Gone
    <3> HIDE DEF q
    <3> QED
      BY <1>2, <1>3, <2>1, <3>1, <3>2 DEF UInv, ApartInv, Whole, InOrder
  <2>2. CASE ~(Len(job_queue) < QueueDepth)
    <3> DEFINE h == Head(job_queue)
    <3>1. q = Tail(job_queue) /\ droppedJobs' = droppedJobs \union {h} /\ job_queue # <<>>
      BY <1>1, <1>2, <2>2, UploadNumbers DEF DropOldest
    <3>2. /\ q \in Seq(Nat) /\ Len(q) = Len(job_queue) - 1 /\ Rising(q)
          /\ h \in Items(job_queue) /\ Items(job_queue) = Items(q) \union {h}
          /\ \A w \in Items(q) : h < w
      BY <1>2, <1>3, <3>1, TakenFromFront
    <3>3. h \in 1 .. finished /\ h \notin Gone
      <4>1. h \in 1 .. finished
        BY <1>6, <3>2
      <4>2. h \in Nat /\ ~(h < h)
        BY <1>2, <4>1
      <4>3. \A s \in Gone : s < h
        BY <1>3, <3>2 DEF InOrder
      <4> QED
        BY <4>1, <4>2, <4>3
    <3>4. Gone' = Gone \union {h}
      BY <1>1, <1>5, <3>1 DEF Gone
    <3>5. Items(q) \union Gone' = 1 .. finished
      BY <1>3, <3>2, <3>4 DEF Whole
    <3>6. \A w \in Items(q) : \A s \in Gone' : s < w
      BY <1>3, <3>2, <3>4 DEF InOrder
    <3>7. Cardinality(droppedJobs') = Cardinality(droppedJobs) + 1
      BY <1>2, <3>1, <3>3, OneMore DEF UInv, ApartInv, Gone
    <3>8. upload # h
      BY <1>2, <3>3 DEF Gone, InWork
    <3> HIDE DEF q, h
    <3>9. Len(q) < QueueDepth /\ Len(q) + Cardinality(droppedJobs') = Len(job_queue) + Cardinality(droppedJobs)
      BY <1>2, <1>4, <3>2, <3>7, UploadNumbers
    <3>10. /\ droppedJobs' \subseteq 1 .. finished /\ upload \notin droppedJobs'
           /\ uploaded \intersect droppedJobs' = {} /\ droppedJobs' \intersect failed = {}
      BY <3>1, <3>3, <3>8 DEF UInv, ApartInv, Gone
    <3> QED
      BY <3>2, <3>5, <3>6, <3>9, <3>10
  <2> QED
    BY <2>1, <2>2
<1>8. \A w \in Items(q) : w < n
  <2>1. Items(q) \subseteq 1 .. finished
    BY <1>7
  <2> HIDE DEF q
  <2> QED
    BY <1>2, <2>1
<1>9. /\ job_queue' \in Seq(Nat) /\ Len(job_queue') = Len(q) + 1 /\ Items(job_queue') = Items(q) \union {n}
      /\ Rising(job_queue')
  BY <1>1, <1>2, <1>7, <1>8, QueuedBehind
<1>10. 1 .. n = (1 .. finished) \union {n} /\ finished < n
  BY <1>2
<1> HIDE DEF q, n
<1>11. WorkInv'
  BY <1>1, <1>2, <1>9, <1>10 DEF UInv, WorkInv
<1>12. ApartInv'
  BY <1>1, <1>7, <1>10 DEF UInv, ApartInv
<1>13. Whole'
  BY <1>1, <1>7, <1>9, <1>10 DEF Whole
<1>14. Tally'
  <2>1. Len(q) \in Nat /\ Cardinality(droppedJobs') \in Nat
    <3>1. Len(q) \in Nat
      BY <1>7, LenProperties
    <3>2. IsFiniteSet(1 .. finished)
      BY <1>2, FS_Interval
    <3>3. IsFiniteSet(droppedJobs')
      BY <1>7, <3>2, FS_Subset
    <3> QED
      BY <3>1, <3>3, FS_CardinalityType
  <2>2. n = finished + 1
    BY DEF n
  <2>3. /\ Len(job_queue) + Cardinality(InWork) + Cardinality(uploaded) + Cardinality(droppedJobs) + Cardinality(failed) = finished
        /\ Len(q) + Cardinality(droppedJobs') = Len(job_queue) + Cardinality(droppedJobs)
        /\ Len(job_queue') = Len(q) + 1
    BY <1>3, <1>7, <1>9 DEF Tally
  <2>4. Len(job_queue') + Cardinality(InWork) + Cardinality(uploaded) + Cardinality(droppedJobs') + Cardinality(failed) = n
    BY SMTT(30), <1>2, <1>4, <1>5, <2>1, <2>2, <2>3
  <2> QED
    BY <1>1, <1>5, <2>4 DEF Tally
<1>15. InOrder'
  <2>1. Gone' \subseteq 1 .. finished
    BY <1>7
  <2>2. \A s \in Gone' : s < n
    BY <1>2, <1>10, <2>1
  <2> QED
    BY <1>7, <1>9, <2>2 DEF InOrder
<1>16. Len(job_queue)' <= QueueDepth
  BY <1>2, <1>7, <1>9, UploadNumbers, LenProperties
<1> QED
  BY <1>1, <1>3, <1>11, <1>12, <1>13, <1>14, <1>15, <1>16, JobsParts DEF UInv


LEMMA TakeJobKeeps ==
  ASSUME UInv, TakeJob
  PROVE  UInv'
<1> DEFINE h == Head(job_queue)
<1>1. /\ uploadPc = "idle" /\ job_queue # <<>> /\ upload' = h /\ job_queue' = Tail(job_queue)
      /\ attempt' = 0 /\ uploadPc' = "send"
      /\ UNCHANGED <<shutdown_requested, finished, droppedJobs, uploadMain, received, uploaded, failed, attempted, deleted>>
  BY DEF TakeJob, WorkerOnly
<1>2. job_queue \in Seq(Nat) /\ finished \in Nat /\ upload = 0 /\ Len(job_queue) \in Nat
  BY <1>1, UploadNumbers, LenProperties DEF UInv, WorkInv
<1>3. Whole /\ Tally /\ InOrder /\ Len(job_queue) <= QueueDepth /\ deleted \subseteq received
  BY JobsParts DEF UInv
<1>4. /\ Tail(job_queue) \in Seq(Nat) /\ Len(Tail(job_queue)) = Len(job_queue) - 1
      /\ h \in Items(job_queue) /\ Items(job_queue) = Items(Tail(job_queue)) \union {h}
      /\ Rising(Tail(job_queue)) /\ \A w \in Items(Tail(job_queue)) : h < w
  BY <1>1, <1>2, <1>3, TakenFromFront DEF InOrder
<1>5. InWork = {} /\ Cardinality(InWork) = 0
  BY <1>2, AtWork
<1>6. h \in 1 .. finished /\ h # 0 /\ h \notin Gone
  <2>1. h \in 1 .. finished
    BY <1>3, <1>4 DEF Whole
  <2>2. h \in Nat /\ h # 0 /\ ~(h < h)
    BY <1>2, <2>1
  <2> QED
    BY <1>3, <1>4, <2>1, <2>2 DEF InOrder
<1>7. InWork' = {h} /\ Cardinality(InWork') = 1
  <2> HIDE DEF h
  <2>1. InWork' = {h}
    BY <1>1, <1>6 DEF InWork
  <2> QED
    BY <2>1, FS_Singleton
<1>8. Gone' = Gone \union {h}
  BY <1>1, <1>5, <1>7 DEF Gone
<1> HIDE DEF h
<1>9. WorkInv'
  <2>1. 0 \in 0 .. MaxRetries
    BY UploadNumbers
  <2>2. job_queue' \in Seq(Nat) /\ upload' \in 1 .. finished'
    BY <1>1, <1>4, <1>6
  <2> QED
    BY <1>1, <2>1, <2>2 DEF UInv, WorkInv
<1>10. ApartInv'
  BY <1>1, <1>6 DEF UInv, ApartInv, Gone
<1>11. Whole' /\ InOrder'
  BY <1>1, <1>3, <1>4, <1>8 DEF Whole, InOrder
<1>12. Tally'
  <2>1. Cardinality(uploaded) \in Nat /\ Cardinality(droppedJobs) \in Nat /\ Cardinality(failed) \in Nat
    BY <1>2, Counted3 DEF UInv
  <2>2. Len(job_queue) + 0 + Cardinality(uploaded) + Cardinality(droppedJobs) + Cardinality(failed) = finished
    BY <1>3, <1>5 DEF Tally
  <2>3. Len(job_queue') = Len(job_queue) - 1
    BY <1>1, <1>4
  <2>4. Len(job_queue') + 1 + Cardinality(uploaded) + Cardinality(droppedJobs) + Cardinality(failed) = finished
    BY <1>2, <2>1, <2>2, <2>3
  <2> QED
    BY <1>1, <1>7, <2>4 DEF Tally
<1>13. Len(job_queue)' <= QueueDepth
  BY <1>1, <1>2, <1>3, <1>4, UploadNumbers
<1> QED
  BY <1>1, <1>3, <1>9, <1>10, <1>11, <1>12, <1>13, JobsParts DEF UInv

\* A transmission that leaves the worker is uploaded or failed, with no other's place changed.
LEMMA JobEndsKeeps ==
  ASSUME UInv, upload \in 1 .. finished, JobEnds, upload \in attempted',
         \/ uploaded' = uploaded \union {upload} /\ failed' = failed
         \/ uploaded' = uploaded /\ failed' = failed \union {upload},
         attempted \subseteq attempted', deleted' \subseteq received',
         UNCHANGED <<job_queue, shutdown_requested, finished, droppedJobs, uploadMain>>,
         uploadPc # "done"
  PROVE  UInv'
<1>1. job_queue \in Seq(Nat) /\ finished \in 0 .. MaxJobs /\ finished \in Nat /\ Len(job_queue) \in Nat
  BY UploadNumbers, LenProperties DEF UInv, WorkInv
<1>2. Whole /\ Tally /\ InOrder /\ Len(job_queue) <= QueueDepth
  BY JobsParts DEF UInv
<1>3. InWork = {upload} /\ Cardinality(InWork) = 1
  BY <1>1, AtWork
<1>4. upload' = 0 /\ attempt' = 0 /\ uploadPc' = "idle" /\ InWork' = {} /\ Cardinality(InWork') = 0
  BY FS_EmptySet DEF JobEnds, InWork
<1>5. Gone' = Gone
  BY <1>3, <1>4 DEF Gone
<1>6. WorkInv'
  <2>1. 0 \in 0 .. MaxRetries
    BY UploadNumbers
  <2>2. uploaded' \union failed' \subseteq attempted'
    BY DEF UInv, WorkInv
  <2>3. uploadMain = "exit" /\ shutdown_requested => FALSE
    BY DEF UInv, WorkInv
  <2> QED
    BY <1>1, <1>4, <2>1, <2>2, <2>3 DEF UInv, WorkInv
<1>7. ApartInv'
  <2>1. 0 \notin 1 .. finished
    OBVIOUS
  <2>2. /\ uploaded \intersect droppedJobs = {} /\ uploaded \intersect failed = {} /\ droppedJobs \intersect failed = {}
        /\ upload \notin uploaded /\ upload \notin droppedJobs /\ upload \notin failed
        /\ uploaded \subseteq 1 .. finished /\ droppedJobs \subseteq 1 .. finished /\ failed \subseteq 1 .. finished
    BY DEF UInv, ApartInv
  <2>3. CASE uploaded' = uploaded \union {upload} /\ failed' = failed
    BY <1>4, <2>1, <2>2, <2>3 DEF ApartInv
  <2>4. CASE uploaded' = uploaded /\ failed' = failed \union {upload}
    BY <1>4, <2>1, <2>2, <2>4 DEF ApartInv
  <2> QED
    BY <2>3, <2>4
<1>8. Whole' /\ InOrder'
  BY <1>2, <1>5 DEF Whole, InOrder
<1>9. Tally'
  <2>1. Cardinality(uploaded) \in Nat /\ Cardinality(droppedJobs) \in Nat /\ Cardinality(failed) \in Nat
    BY <1>1, Counted3 DEF UInv
  <2>2. /\ uploaded \in SUBSET (1 .. finished) /\ failed \in SUBSET (1 .. finished)
        /\ upload \notin uploaded /\ upload \notin failed
    BY DEF UInv, ApartInv
  <2>3. /\ Cardinality(uploaded \union {upload}) = Cardinality(uploaded) + 1
        /\ Cardinality(failed \union {upload}) = Cardinality(failed) + 1
    BY <1>1, <2>2, OneMore
  <2>4. Len(job_queue) + 1 + Cardinality(uploaded) + Cardinality(droppedJobs) + Cardinality(failed) = finished
    BY <1>2, <1>3 DEF Tally
  <2>5. Len(job_queue) + 0 + Cardinality(uploaded') + Cardinality(droppedJobs) + Cardinality(failed') = finished
    <3>1. CASE uploaded' = uploaded \union {upload} /\ failed' = failed
      BY <1>1, <2>1, <2>3, <2>4, <3>1
    <3>2. CASE uploaded' = uploaded /\ failed' = failed \union {upload}
      BY <1>1, <2>1, <2>3, <2>4, <3>2
    <3> QED
      BY <3>1, <3>2
  <2> QED
    BY <1>4, <2>5 DEF Tally
<1> QED
  BY <1>2, <1>6, <1>7, <1>8, <1>9, JobsParts DEF UInv

\* What changes neither the queue nor where any transmission is.
LEMMA PlacesKeep ==
  ASSUME UInv, UNCHANGED <<job_queue, upload, finished, uploaded, droppedJobs, failed>>, deleted' \subseteq received'
  PROVE  ApartInv' /\ JobsAccounted'
<1>1. Whole /\ Tally /\ InOrder /\ Len(job_queue) <= QueueDepth
  BY JobsParts DEF UInv
<1>2. InWork' = InWork /\ Gone' = Gone
  BY DEF InWork, Gone
<1>3. Whole' /\ InOrder' /\ Len(job_queue)' <= QueueDepth
  BY <1>1, <1>2 DEF Whole, InOrder
<1>4. Tally'
  BY <1>1, <1>2 DEF Tally
<1>5. ApartInv'
  BY DEF UInv, ApartInv
<1> QED
  BY <1>3, <1>4, <1>5, JobsParts

LEMMA WorkerKeeps ==
  ASSUME UInv, UploadWorker
  PROVE  UInv'
<1>0. deleted \subseteq received /\ (uploadPc \in {"send", "backoff"} => upload \in 1 .. finished)
  BY JobsParts DEF UInv, WorkInv
<1>1. CASE TakeJob
  BY <1>1, TakeJobKeeps
<1>2. CASE WorkerReturns
  <2>1. /\ uploadPc = "idle" /\ job_queue = <<>> /\ shutdown_requested /\ uploadPc' = "done"
        /\ UNCHANGED <<job_queue, upload, attempt, received, uploaded, failed, attempted, deleted,
                       shutdown_requested, finished, droppedJobs, uploadMain>>
    BY <1>2 DEF WorkerReturns, WorkerOnly
  <2>2. WorkInv'
    BY <2>1 DEF UInv, WorkInv
  <2> QED
    BY <1>0, <2>1, <2>2, PlacesKeep DEF UInv
<1>3. CASE UploadWorks
  <2>1. /\ uploadPc = "send" /\ received' = received \union {upload} /\ uploaded' = uploaded \union {upload}
        /\ attempted' = attempted \union {upload} /\ failed' = failed /\ JobEnds
        /\ deleted' = IF deleteAfter THEN deleted \union {upload} ELSE deleted
        /\ UNCHANGED <<job_queue, shutdown_requested, finished, droppedJobs, uploadMain>>
    BY <1>3 DEF UploadWorks, WorkerOnly
  <2>2. deleted' \subseteq received'
    BY <1>0, <2>1
  <2> QED
    BY <1>0, <2>1, <2>2, JobEndsKeeps
<1>4. CASE UploadFails
  <2>1. /\ uploadPc = "send" /\ received \subseteq received' /\ attempted' = attempted \union {upload}
        /\ UNCHANGED <<job_queue, uploaded, deleted, shutdown_requested, finished, droppedJobs, uploadMain>>
    BY <1>4 DEF UploadFails, WorkerOnly
  <2>2. CASE RetryLater
    <3>1. uploadPc' = "backoff" /\ UNCHANGED <<upload, attempt, failed>> /\ attempt < MaxRetries
      BY <1>4, <2>2 DEF UploadFails, RetryLater
    <3>2. uploadMain = "exit" /\ shutdown_requested => FALSE
      BY <2>1 DEF UInv, WorkInv
    <3>3. WorkInv'
      BY <1>0, <2>1, <3>1, <3>2 DEF UInv, WorkInv
    <3> QED
      BY <1>0, <2>1, <3>1, <3>3, PlacesKeep DEF UInv
  <2>3. CASE ~RetryLater
    <3>1. failed' = failed \union {upload} /\ JobEnds
      BY <1>4, <2>3 DEF UploadFails, GivesUp
    <3> QED
      BY <1>0, <2>1, <3>1, JobEndsKeeps
  <2> QED
    BY <2>2, <2>3
<1>5. CASE BackoffEnds
  <2>1. /\ uploadPc = "backoff"
        /\ UNCHANGED <<job_queue, received, uploaded, attempted, deleted, shutdown_requested, finished, droppedJobs, uploadMain>>
    BY <1>5 DEF BackoffEnds, WorkerOnly
  <2>2. upload \in attempted /\ attempt < MaxRetries /\ attempt \in 0 .. MaxRetries
    BY <2>1 DEF UInv, WorkInv
  <2>3. CASE shutdown_requested
    <3>1. failed' = failed \union {upload} /\ JobEnds
      BY <1>5, <2>3 DEF BackoffEnds, GivesUp
    <3> QED
      BY <1>0, <2>1, <2>2, <3>1, JobEndsKeeps
  <2>4. CASE ~shutdown_requested
    <3>1. uploadPc' = "send" /\ attempt' = attempt + 1 /\ UNCHANGED <<upload, failed>>
      BY <1>5, <2>4 DEF BackoffEnds
    <3>2. attempt' \in 0 .. MaxRetries
      BY <2>2, <3>1, UploadNumbers
    <3>3. WorkInv'
      BY <1>0, <2>1, <2>4, <3>1, <3>2 DEF UInv, WorkInv
    <3> QED
      BY <1>0, <2>1, <3>1, <3>3, PlacesKeep DEF UInv
  <2> QED
    BY <2>3, <2>4
<1> QED
  BY <1>1, <1>2, <1>3, <1>4, <1>5 DEF UploadWorker

LEMMA ShutdownKeeps ==
  ASSUME UInv, RequestsShutdown \/ JoinsWorker \/ UNCHANGED upVars
  PROVE  UInv'
<1>1. UNCHANGED <<job_queue, upload, attempt, uploadPc, finished, received, uploaded, droppedJobs, failed, attempted, deleted>>
  BY DEF RequestsShutdown, JoinsWorker, upVars
<1>2. ApartInv' /\ JobsAccounted'
  BY <1>1, JobsParts, PlacesKeep DEF UInv
<1>3. WorkInv'
  <2>1. CASE RequestsShutdown
    <3>1. uploadMain = "run" /\ ~shutdown_requested
      BY <2>1 DEF RequestsShutdown, UInv, WorkInv
    <3>2. CASE WorkerStarted
      <4>1. shutdown_requested' = TRUE /\ uploadMain' = "join" /\ uploadPc # "done"
        BY <2>1, <3>1, <3>2 DEF RequestsShutdown, WorkerStarted
      <4> QED
        BY <1>1, <4>1 DEF UInv, WorkInv
    <3>3. CASE ~WorkerStarted
      <4>1. uploadMain' = "exit" /\ shutdown_requested' = shutdown_requested
        BY <2>1, <3>3 DEF RequestsShutdown
      <4> QED
        BY <1>1, <3>1, <4>1 DEF UInv, WorkInv
    <3> QED
      BY <3>2, <3>3
  <2>2. CASE JoinsWorker
    <3>1. uploadMain = "join" /\ uploadPc = "done" /\ uploadMain' = "exit" /\ UNCHANGED shutdown_requested
      BY <2>2 DEF JoinsWorker
    <3> QED
      BY <1>1, <3>1 DEF UInv, WorkInv
  <2>3. CASE UNCHANGED upVars
    BY <2>3 DEF UInv, WorkInv, upVars
  <2> QED
    BY <2>1, <2>2, <2>3
<1> QED
  BY <1>2, <1>3 DEF UInv

UpSafety == UpInit /\ [][UpNext]_upVars

LEMMA UploadsInvariant == UpSafety => []UInv
<1>1. UInv /\ [UpNext]_upVars => UInv'
  BY EnqueueKeeps, WorkerKeeps, ShutdownKeeps DEF UpNext
<1> QED
  BY UploadsStart, <1>1, PTL DEF UpSafety

\* Each finished transmission is in one place - waiting, being uploaded, uploaded, dropped or failed -
\* in the order they ended, and no file is deleted that the server does not hold.
THEOREM UploadsAccounted == UpSpec => []JobsAccounted
<1>1. UInv => JobsAccounted
  BY DEF UInv
<1> QED
  BY UploadsInvariant, <1>1, PTL DEF UpSpec, UpSafety

\* When main() has joined the worker, every transmission that was not dropped was tried, whatever
\* the order in which transmissions end, the server fails and the shutdown comes.
THEOREM TriedBeforeExit ==
  UpSpec => [](uploadMain = "exit" /\ shutdown_requested => (1 .. finished) \ droppedJobs \subseteq attempted)
<1>1. UInv => (uploadMain = "exit" /\ shutdown_requested => (1 .. finished) \ droppedJobs \subseteq attempted)
  <2> SUFFICES ASSUME UInv, uploadMain = "exit", shutdown_requested
               PROVE  (1 .. finished) \ droppedJobs \subseteq attempted
    OBVIOUS
  <2>1. uploadPc = "done" /\ job_queue = <<>> /\ upload = 0 /\ uploaded \union failed \subseteq attempted
    BY DEF UInv, WorkInv
  <2>2. Items(job_queue) = {} /\ InWork = {}
    BY <2>1 DEF Items, InWork
  <2>3. uploaded \union droppedJobs \union failed = 1 .. finished
    BY <2>2, JobsParts DEF UInv, Whole, Gone
  <2> QED
    BY <2>1, <2>3
<1> QED
  BY UploadsInvariant, <1>1, PTL DEF UpSpec, UpSafety

LEMMA UpTyped == UInv => UpTypeOK
<1> SUFFICES ASSUME UInv PROVE UpTypeOK
  OBVIOUS
<1>1. Waiting \subseteq 1 .. finished
  BY JobsParts DEF UInv, Whole, Waiting, Items
<1>2. finished \in Nat
  BY UploadNumbers DEF UInv, WorkInv
<1>3. upload \in 0 .. finished
  BY <1>2 DEF UInv, WorkInv
<1> QED
  BY <1>1, <1>3 DEF UpTypeOK, UInv, WorkInv

\* A transmission is tried at most MaxRetries + 1 times, and every variable has its type.
THEOREM UploadsTypeCorrect == UpSpec => []UpTypeOK
BY UploadsInvariant, UpTyped, PTL DEF UpSpec, UpSafety


-----------------------------------------------------------------------------
(***************************************************************************)
(* RemoteMixer                                                             *)
(***************************************************************************)

Batches == [run : Nat, n : Nat]

\* How many packets of a run of the sender a queue holds.
Of(q, run) == Cardinality({i \in DOMAIN q : q[i].run = run})

RemoteTypes ==
  /\ seq \in 0 .. MaxPackets /\ dropped_packet_count \in Nat /\ processed \in Nat /\ lostOnWay \in Nat
  /\ senderRun \in Nat /\ senderRun >= 1 /\ verdict \in Faults \union {"ok"}
  /\ backlog \in Seq(Batches) /\ Len(backlog) <= SocketQueue
  /\ listening \in BOOLEAN /\ (~listening => backlog = <<>>)
  /\ have_last_seq \in BOOLEAN /\ last_seq \in 0 .. MaxPackets /\ counts \in [Counters -> Nat]
  /\ lastSeen \in Batches /\ put = lastSeen /\ holes \in Nat /\ jumpedBack \in Nat

\* The kernel keeps the order of what it takes: every packet is younger than those before it and than
\* the last one put, and older than the sender's next one.
FifoInv ==
  /\ \A i \in DOMAIN backlog : /\ Older(lastSeen, backlog[i]) /\ Older(backlog[i], Batch(senderRun, seq))
                               /\ backlog[i].run >= 1 /\ backlog[i].n < MaxPackets
  /\ \A i, j \in DOMAIN backlog : i < j => Older(backlog[i], backlog[j])
  /\ Older(lastSeen, Batch(senderRun, seq))

\* The receiver's number is that of the last packet it put, or greater if a sender began anew.
SeqInv ==
  /\ have_last_seq <=> lastSeen.run >= 1
  /\ ~have_last_seq => lastSeen = NoneSeen
  /\ have_last_seq => last_seq >= lastSeen.n /\ (jumpedBack = 0 => last_seq = lastSeen.n)
  /\ jumpedBack = 0 => counts["seq_gap"] = holes /\ counts["seq_reorder_or_duplicate"] = 0
  /\ counts["seq_gap"] <= holes + jumpedBack

SentInv == seq = dropped_packet_count + processed + lostOnWay + Of(backlog, senderRun)

RInv == RemoteTypes /\ FifoInv /\ SeqInv /\ SentInv


LEMMA RemoteNumbers == SocketQueue \in Nat /\ MaxPackets \in Nat
  BY RemoteAssumption

LEMMA OfFinite ==
  ASSUME NEW q \in Seq(Batches), NEW r
  PROVE  IsFiniteSet({i \in DOMAIN q : q[i].run = r}) /\ Of(q, r) \in Nat
<1>1. DOMAIN q = 1 .. Len(q) /\ Len(q) \in Nat
  BY LenProperties
<1>2. IsFiniteSet({i \in DOMAIN q : q[i].run = r})
  <2>1. IsFiniteSet(1 .. Len(q)) /\ {i \in DOMAIN q : q[i].run = r} \subseteq 1 .. Len(q)
    BY <1>1, FS_Interval
  <2> QED
    BY <2>1, FS_Subset
<1> QED
  BY <1>2, FS_CardinalityType DEF Of

LEMMA OfAppended ==
  ASSUME NEW q \in Seq(Batches), NEW b \in Batches, NEW r
  PROVE  Of(Append(q, b), r) = Of(q, r) + (IF b.run = r THEN 1 ELSE 0)
<1> DEFINE S == {i \in DOMAIN q : q[i].run = r}
           T == {i \in DOMAIN Append(q, b) : Append(q, b)[i].run = r}
<1>1. /\ DOMAIN q = 1 .. Len(q) /\ Len(q) \in Nat /\ DOMAIN Append(q, b) = 1 .. Len(q) + 1
      /\ \A i \in 1 .. Len(q) : Append(q, b)[i] = q[i]
      /\ Append(q, b)[Len(q) + 1] = b
  BY AppendProperties, LenProperties
<1>2. 1 .. Len(q) + 1 = (1 .. Len(q)) \union {Len(q) + 1} /\ Len(q) + 1 \notin 1 .. Len(q)
  BY <1>1
<1>3. T = IF b.run = r THEN S \union {Len(q) + 1} ELSE S
  BY <1>1, <1>2
<1>4. IsFiniteSet(S) /\ Len(q) + 1 \notin S /\ Cardinality(S) \in Nat
  BY <1>1, <1>2, OfFinite, FS_CardinalityType
<1>5. Cardinality(S \union {Len(q) + 1}) = Cardinality(S) + 1
  BY <1>4, FS_AddElement
<1>6. Of(q, r) = Cardinality(S) /\ Of(Append(q, b), r) = Cardinality(T)
  BY DEF Of
<1> HIDE DEF S, T
<1> QED
  BY <1>3, <1>4, <1>5, <1>6

LEMMA OfTaken ==
  ASSUME NEW q \in Seq(Batches), q # <<>>, NEW r
  PROVE  Of(q, r) = Of(Tail(q), r) + (IF Head(q).run = r THEN 1 ELSE 0)
<1> DEFINE S == {i \in 1 .. Len(q) - 1 : q[i + 1].run = r}
           R == {i \in 2 .. Len(q) : q[i].run = r}
           T == {i \in 1 .. Len(q) : q[i].run = r}
<1>1. /\ Tail(q) \in Seq(Batches) /\ Len(q) \in Nat /\ Len(q) >= 1 /\ Head(q) = q[1]
      /\ \A i \in 1 .. Len(q) - 1 : Tail(q)[i] = q[i + 1]
      /\ DOMAIN q = 1 .. Len(q) /\ DOMAIN Tail(q) = 1 .. Len(q) - 1
  BY HeadTailProperties, LenProperties, EmptySeq
<1>2. Of(Tail(q), r) = Cardinality(S) /\ Of(q, r) = Cardinality(T)
  <2>1. {i \in DOMAIN Tail(q) : Tail(q)[i].run = r} = S
    BY <1>1
  <2> QED
    BY <1>1, <2>1 DEF Of
<1>3. IsFiniteSet(S) /\ IsFiniteSet(R)
  <2>1. IsFiniteSet(1 .. Len(q)) /\ S \subseteq 1 .. Len(q) /\ R \subseteq 1 .. Len(q)
    BY SMTT(30), <1>1, FS_Interval
  <2> HIDE DEF S, R
  <2> QED
    BY <2>1, FS_Subset
<1>4. Cardinality(R) = Cardinality(S)
  <2> DEFINE f == [i \in S |-> i + 1]
  <2>1. f \in [S -> R]
    BY <1>1
  <2>2. \A i, j \in S : f[i] = f[j] => i = j
    BY <1>1
  <2>3. \A j \in R : \E i \in S : f[i] = j
    <3> SUFFICES ASSUME NEW j \in R PROVE \E i \in S : f[i] = j
      OBVIOUS
    <3>1. j - 1 \in 1 .. Len(q) - 1 /\ (j - 1) + 1 = j
      BY <1>1
    <3>2. j - 1 \in S
      BY <3>1
    <3>3. f[j - 1] = j
      BY <3>1, <3>2
    <3> QED
      BY <3>2, <3>3
  <2> HIDE DEF f, S, R
  <2>4. ExistsBijection(S, R)
    BY <2>1, <2>2, <2>3 DEF ExistsBijection, Bijection, Injection, Surjection, IsInjective
  <2> QED
    BY <1>3, <2>4, FS_Bijection
<1>5. T = IF Head(q).run = r THEN R \union {1} ELSE R
  <2>1. 1 .. Len(q) = (2 .. Len(q)) \union {1}
    BY <1>1
  <2> QED
    BY <1>1, <2>1
<1>6. 1 \notin R
  BY <1>1
<1> HIDE DEF S, R, T
<1>7. Cardinality(R \union {1}) = Cardinality(R) + 1 /\ Cardinality(R) \in Nat
  BY <1>3, <1>6, FS_AddElement, FS_CardinalityType
<1> QED
  BY <1>2, <1>4, <1>5, <1>7

LEMMA OfEmpty == \A r : Of(<<>>, r) = 0
  BY FS_EmptySet DEF Of

\* None of a run that has not begun.
LEMMA OfNone ==
  ASSUME NEW q \in Seq(Batches), NEW r, \A i \in DOMAIN q : q[i].run # r
  PROVE  Of(q, r) = 0
<1>1. {i \in DOMAIN q : q[i].run = r} = {}
  OBVIOUS
<1> QED
  BY <1>1, FS_EmptySet DEF Of

LEMMA MineAreOf ==
  /\ Cardinality({i \in DOMAIN backlog : Mine(backlog[i]) = 1}) = Of(backlog, senderRun)
  /\ Cardinality({i \in DOMAIN backlog : Mine(backlog[i]) = 1})' = Of(backlog, senderRun)'
<1>1. \A i \in DOMAIN backlog : Mine(backlog[i]) = 1 <=> backlog[i].run = senderRun
  BY DEF Mine
<1>2. \A i \in DOMAIN backlog' : Mine(backlog[i])' = 1 <=> backlog'[i].run = senderRun'
  BY DEF Mine
<1>3. {i \in DOMAIN backlog : Mine(backlog[i]) = 1} = {i \in DOMAIN backlog : backlog[i].run = senderRun}
  BY <1>1
<1>4. {i \in DOMAIN backlog : Mine(backlog[i]) = 1}' = {i \in DOMAIN backlog' : backlog'[i].run = senderRun'}
  BY <1>2
<1> QED
  BY <1>3, <1>4, Zenon DEF Of

LEMMA OlderOlder ==
  ASSUME NEW a \in Batches, NEW b \in Batches, NEW c \in Batches, Older(a, b), Older(b, c)
  PROVE  Older(a, c)
  BY DEF Batches, Older

LEMMA RemoteStart == RemoteInit => RInv
<1> SUFFICES ASSUME RemoteInit PROVE RInv
  OBVIOUS
<1>1. /\ seq = 0 /\ dropped_packet_count = 0 /\ senderRun = 1 /\ verdict \in Faults \union {"ok"}
      /\ listening \in BOOLEAN /\ backlog = <<>> /\ have_last_seq = FALSE /\ last_seq = 0
      /\ counts = [c \in Counters |-> 0] /\ put = NoneSeen /\ lastSeen = NoneSeen
      /\ holes = 0 /\ jumpedBack = 0 /\ processed = 0 /\ lostOnWay = 0
  BY DEF RemoteInit
<1>2. backlog \in Seq(Batches) /\ Len(backlog) = 0 /\ DOMAIN backlog = {}
  BY <1>1
<1>3. NoneSeen \in Batches /\ NoneSeen.run = 0 /\ NoneSeen.n = 0
  BY DEF NoneSeen, Batch, Batches
<1>4. RemoteTypes
  <2>1. counts \in [Counters -> Nat]
    BY <1>1
  <2>2. seq \in 0 .. MaxPackets /\ last_seq \in 0 .. MaxPackets /\ Len(backlog) <= SocketQueue
    BY <1>1, <1>2, RemoteNumbers
  <2> QED
    <3>1. dropped_packet_count \in Nat /\ processed \in Nat /\ lostOnWay \in Nat /\ senderRun \in Nat /\ senderRun >= 1
          /\ holes \in Nat /\ jumpedBack \in Nat
      BY <1>1
    <3>2. have_last_seq \in BOOLEAN /\ lastSeen \in Batches /\ put = lastSeen
      BY <1>1, <1>3, Zenon
    <3> QED
      BY <1>1, <1>2, <2>1, <2>2, <3>1, <3>2, Zenon DEF RemoteTypes
<1>5. FifoInv
  BY <1>1, <1>2 DEF FifoInv, NoneSeen, Batch, Older
<1>6. SeqInv
  <2>1. counts["seq_gap"] = 0 /\ counts["seq_reorder_or_duplicate"] = 0
    BY <1>1 DEF Counters
  <2> QED
    BY <1>1, <1>3, <2>1 DEF SeqInv
<1>7. SentInv
  BY <1>1, OfEmpty DEF SentInv
<1> QED
  BY <1>4, <1>5, <1>6, <1>7 DEF RInv


LEMMA SendKeeps ==
  ASSUME RInv, mixer_remote_send
  PROVE  RInv'
<1> DEFINE b == Batch(senderRun, seq)
<1>1. /\ seq < MaxPackets /\ seq' = seq + 1
      /\ UNCHANGED <<talking, send_socket, senderRun, verdict, listening, have_last_seq, last_seq, counts, put, lastSeen,
                     holes, jumpedBack, processed, lostOnWay>>
  BY DEF mixer_remote_send, routeVars
<1>2. RemoteTypes /\ SentInv /\ SeqInv /\ FifoInv
  BY DEF RInv
<1>3. /\ seq \in Nat /\ senderRun \in Nat /\ senderRun >= 1 /\ b \in Batches /\ b.run = senderRun /\ b.n = seq
      /\ backlog \in Seq(Batches) /\ Len(backlog) \in Nat /\ DOMAIN backlog = 1 .. Len(backlog) /\ lastSeen \in Batches
      /\ \A i \in DOMAIN backlog : backlog[i] \in Batches
  <2>1. seq \in Nat /\ senderRun \in Nat /\ senderRun >= 1 /\ backlog \in Seq(Batches) /\ lastSeen \in Batches
    BY <1>2, RemoteNumbers DEF RemoteTypes
  <2> QED
    BY <2>1, LenProperties, ElementOfSeq DEF Batch, Batches
<1>4. Older(b, Batch(senderRun, seq'))
  BY <1>1, <1>3 DEF Older, Batch
<1>5. Batch(senderRun, seq') \in Batches /\ Batch(senderRun', seq') = Batch(senderRun, seq')
  BY <1>1, <1>3 DEF Batch, Batches
<1>6. seq' \in 0 .. MaxPackets
  BY <1>1, <1>3, RemoteNumbers
<1>7. SeqInv'
  BY <1>1, <1>2 DEF SeqInv
<1>8. \A i \in DOMAIN backlog : Older(backlog[i], b) /\ Older(backlog[i], Batch(senderRun', seq'))
  <2>1. ASSUME NEW i \in DOMAIN backlog PROVE Older(backlog[i], b) /\ Older(backlog[i], Batch(senderRun', seq'))
    <3>1. Older(backlog[i], b) /\ backlog[i] \in Batches
      BY <1>2, <1>3 DEF FifoInv
    <3> QED
      BY <1>3, <1>4, <1>5, <3>1, OlderOlder
  <2> QED
    BY <2>1
<1>9. Older(lastSeen, b) /\ Older(lastSeen, Batch(senderRun', seq'))
  BY <1>2, <1>3, <1>4, <1>5, OlderOlder DEF FifoInv
<1>10. CASE listening /\ Len(backlog) < SocketQueue
  <2>1. backlog' = Append(backlog, b) /\ dropped_packet_count' = dropped_packet_count
    BY <1>10 DEF mixer_remote_send
  <2>2. /\ backlog' \in Seq(Batches) /\ Len(backlog') = Len(backlog) + 1 /\ DOMAIN backlog' = 1 .. Len(backlog) + 1
        /\ \A i \in 1 .. Len(backlog) : backlog'[i] = backlog[i]
        /\ backlog'[Len(backlog) + 1] = b
    BY <1>3, <2>1, AppendProperties, LenProperties
  <2> HIDE DEF b
  <2>3. RemoteTypes'
    <3>1. Len(backlog') <= SocketQueue
      BY <1>3, <1>10, <2>2, RemoteNumbers
    <3> QED
      BY <1>1, <1>2, <1>6, <1>10, <2>1, <2>2, <3>1 DEF RemoteTypes
  <2>4. FifoInv'
    <3>1. ASSUME NEW i \in 1 .. Len(backlog) + 1
          PROVE  /\ Older(lastSeen, backlog'[i]) /\ Older(backlog'[i], Batch(senderRun', seq'))
                 /\ backlog'[i].run >= 1 /\ backlog'[i].n < MaxPackets
      <4>1. CASE i = Len(backlog) + 1
        BY <1>1, <1>3, <1>4, <1>5, <1>9, <2>2, <4>1
      <4>2. CASE i # Len(backlog) + 1
        <5>1. i \in DOMAIN backlog /\ backlog'[i] = backlog[i]
          BY <1>3, <2>2, <4>2
        <5> QED
          BY <1>2, <1>8, <5>1 DEF FifoInv
      <4> QED
        BY <4>1, <4>2
    <3>2. ASSUME NEW i \in 1 .. Len(backlog) + 1, NEW j \in 1 .. Len(backlog) + 1, i < j
          PROVE  Older(backlog'[i], backlog'[j])
      <4>1. i \in DOMAIN backlog /\ backlog'[i] = backlog[i]
        BY <1>3, <2>2, <3>2
      <4>2. CASE j = Len(backlog) + 1
        BY <1>8, <2>2, <4>1, <4>2
      <4>3. CASE j # Len(backlog) + 1
        <5>1. j \in DOMAIN backlog /\ backlog'[j] = backlog[j]
          BY <1>3, <2>2, <4>3
        <5> QED
          BY <1>2, <3>2, <4>1, <5>1 DEF FifoInv
      <4> QED
        BY <4>2, <4>3
    <3> QED
      BY <1>1, <1>9, <2>2, <3>1, <3>2 DEF FifoInv
  <2>5. SentInv'
    <3>1. Of(backlog', senderRun) = Of(backlog, senderRun) + 1
      BY <1>3, <2>1, OfAppended
    <3>2. Of(backlog, senderRun) \in Nat
      BY <1>3, OfFinite
    <3>3. dropped_packet_count \in Nat /\ processed \in Nat /\ lostOnWay \in Nat
      BY <1>2 DEF RemoteTypes
    <3> QED
      BY <1>1, <1>2, <1>3, <2>1, <3>1, <3>2, <3>3 DEF SentInv
  <2> QED
    BY <1>7, <2>3, <2>4, <2>5 DEF RInv
<1>11. CASE ~(listening /\ Len(backlog) < SocketQueue)
  <2>1. dropped_packet_count' = dropped_packet_count + 1 /\ backlog' = backlog
    BY <1>11 DEF mixer_remote_send
  <2>2. dropped_packet_count \in Nat /\ processed \in Nat /\ lostOnWay \in Nat /\ Of(backlog, senderRun) \in Nat
    BY <1>2, <1>3, OfFinite DEF RemoteTypes
  <2>3. dropped_packet_count' \in Nat
    BY <2>1, <2>2
  <2>4. RemoteTypes'
    BY <1>1, <1>2, <1>6, <2>1, <2>3 DEF RemoteTypes
  <2>5. FifoInv'
    BY <1>1, <1>2, <1>8, <1>9, <2>1 DEF FifoInv
  <2>6. SentInv'
    <3>1. Of(backlog, senderRun)' = Of(backlog, senderRun)
      BY <1>1, <2>1 DEF Of
    <3>2. seq = dropped_packet_count + processed + lostOnWay + Of(backlog, senderRun)
      BY <1>2 DEF SentInv
    <3>3. seq' = dropped_packet_count' + processed' + lostOnWay' + Of(backlog, senderRun)
      BY <1>1, <1>3, <2>1, <2>2, <3>2
    <3> QED
      BY <3>1, <3>3 DEF SentInv
  <2> QED
    BY <1>7, <2>4, <2>5, <2>6 DEF RInv
<1> QED
  BY <1>10, <1>11

\* A receiver that takes the first packet of its socket: what is left is as it was.
LEMMA BacklogTaken ==
  ASSUME RInv, backlog # <<>>, backlog' = Tail(backlog)
  PROVE  /\ backlog' \in Seq(Batches) /\ Len(backlog') <= SocketQueue /\ Head(backlog) \in Batches
         /\ Older(lastSeen, Head(backlog)) /\ Older(Head(backlog), Batch(senderRun, seq))
         /\ Head(backlog).run >= 1 /\ Head(backlog).n < MaxPackets
         /\ \A i \in DOMAIN backlog' : /\ Older(lastSeen, backlog'[i]) /\ Older(Head(backlog), backlog'[i])
                                       /\ Older(backlog'[i], Batch(senderRun, seq))
                                       /\ backlog'[i].run >= 1 /\ backlog'[i].n < MaxPackets
         /\ \A i, j \in DOMAIN backlog' : i < j => Older(backlog'[i], backlog'[j])
         /\ Of(backlog, senderRun) = Of(backlog', senderRun) + Mine(Head(backlog))
<1>1. backlog \in Seq(Batches) /\ Len(backlog) <= SocketQueue /\ FifoInv
  BY DEF RInv, RemoteTypes
<1>2. /\ Tail(backlog) \in Seq(Batches) /\ Len(backlog) \in Nat /\ Len(backlog) >= 1 /\ Head(backlog) = backlog[1]
      /\ \A i \in 1 .. Len(backlog) - 1 : Tail(backlog)[i] = backlog[i + 1]
      /\ DOMAIN backlog = 1 .. Len(backlog) /\ DOMAIN Tail(backlog) = 1 .. Len(backlog) - 1
      /\ Len(Tail(backlog)) = Len(backlog) - 1
  BY <1>1, HeadTailProperties, LenProperties, EmptySeq
<1>3. 1 \in DOMAIN backlog /\ Head(backlog) \in Batches
  BY <1>1, <1>2, ElementOfSeq
<1>4. ASSUME NEW i \in DOMAIN backlog'
      PROVE  /\ i + 1 \in DOMAIN backlog /\ 1 < i + 1 /\ backlog'[i] = backlog[i + 1] /\ i \in Nat
  BY <1>2, <1>4
<1>5. \A i \in DOMAIN backlog' : /\ Older(lastSeen, backlog'[i]) /\ Older(Head(backlog), backlog'[i])
                                 /\ Older(backlog'[i], Batch(senderRun, seq))
                                 /\ backlog'[i].run >= 1 /\ backlog'[i].n < MaxPackets
  BY <1>1, <1>2, <1>3, <1>4 DEF FifoInv
<1>6. \A i, j \in DOMAIN backlog' : i < j => Older(backlog'[i], backlog'[j])
  <2> SUFFICES ASSUME NEW i \in DOMAIN backlog', NEW j \in DOMAIN backlog', i < j PROVE Older(backlog'[i], backlog'[j])
    OBVIOUS
  <2>1. i + 1 < j + 1
    BY <1>4
  <2> QED
    BY <1>1, <1>4, <2>1 DEF FifoInv
<1>7. Of(backlog, senderRun) = Of(backlog', senderRun) + Mine(Head(backlog))
  BY <1>1, OfTaken DEF Mine
<1>8. Len(backlog') <= SocketQueue
  BY <1>1, <1>2, RemoteNumbers
<1> QED
  BY <1>1, <1>2, <1>3, <1>5, <1>6, <1>7, <1>8 DEF FifoInv


LEMMA RejectKeeps ==
  ASSUME RInv, RejectsPacket
  PROVE  RInv'
<1>1. /\ listening /\ backlog # <<>> /\ verdict # "ok" /\ counts' = [counts EXCEPT ![verdict] = @ + 1]
      /\ backlog' = Tail(backlog) /\ processed' = processed + Mine(Head(backlog))
      /\ UNCHANGED <<talking, send_socket, seq, dropped_packet_count, senderRun, verdict, listening, have_last_seq, last_seq,
                     put, lastSeen, holes, jumpedBack, lostOnWay>>
  BY DEF RejectsPacket, Counted, sendVars
<1>2. RemoteTypes /\ FifoInv /\ SeqInv /\ SentInv
  BY DEF RInv
<1>3. verdict \in Faults /\ verdict \in Counters /\ verdict # "seq_gap" /\ verdict # "seq_reorder_or_duplicate"
  BY <1>1, <1>2 DEF RemoteTypes, Faults
<1>4. Mine(Head(backlog)) \in {0, 1}
  BY DEF Mine
<1>5. RemoteTypes'
  <2>1. processed' \in Nat
    BY <1>1, <1>2, <1>4 DEF RemoteTypes
  <2>2. counts' \in [Counters -> Nat]
    <3>1. counts[verdict] + 1 \in Nat
      BY <1>2, <1>3 DEF RemoteTypes
    <3> QED
      BY <1>1, <1>2, <1>3, <3>1 DEF RemoteTypes
  <2>3. backlog' \in Seq(Batches) /\ Len(backlog') <= SocketQueue
    BY <1>1, BacklogTaken
  <2> QED
    BY <1>1, <1>2, <2>1, <2>2, <2>3 DEF RemoteTypes
<1>6. FifoInv'
  BY <1>1, <1>2, BacklogTaken DEF FifoInv
<1>7. SeqInv'
  <2>1. counts'["seq_gap"] = counts["seq_gap"] /\ counts'["seq_reorder_or_duplicate"] = counts["seq_reorder_or_duplicate"]
    <3>1. counts \in [Counters -> Nat] /\ "seq_gap" \in Counters /\ "seq_reorder_or_duplicate" \in Counters
      BY <1>2 DEF RemoteTypes, Counters
    <3> QED
      BY <1>1, <1>3, <3>1
  <2> QED
    BY <1>1, <1>2, <2>1 DEF SeqInv
<1>8. SentInv'
  <2>1. Of(backlog, senderRun) = Of(backlog', senderRun) + Mine(Head(backlog)) /\ backlog' \in Seq(Batches)
    BY <1>1, BacklogTaken
  <2>2. Of(backlog', senderRun) \in Nat
    BY <2>1, OfFinite
  <2>3. Of(backlog, senderRun)' = Of(backlog', senderRun)
    BY <1>1 DEF Of
  <2>4. dropped_packet_count \in Nat /\ processed \in Nat /\ lostOnWay \in Nat /\ seq \in Nat
    BY <1>2, RemoteNumbers DEF RemoteTypes
  <2>5. seq = dropped_packet_count + processed + lostOnWay + Of(backlog, senderRun)
    BY <1>2 DEF SentInv
  <2>6. seq' = dropped_packet_count' + processed' + lostOnWay' + Of(backlog', senderRun)
    BY SMTT(30), <1>1, <1>4, <2>1, <2>2, <2>4, <2>5
  <2> QED
    BY <2>3, <2>6 DEF SentInv
<1> QED
  BY <1>5, <1>6, <1>7, <1>8 DEF RInv

\* A packet that is put is younger than the last one, and what the counters say of it is what an
\* observer of every packet put would.
LEMMA AcceptKeeps ==
  ASSUME RInv, AcceptsPacket
  PROVE  RInv'
<1> DEFINE b == Head(backlog)
           class == ClassifySeq(b.n)
<1>1. /\ listening /\ backlog # <<>> /\ verdict = "ok"
      /\ IF class \in Counters THEN counts' = [counts EXCEPT ![class] = @ + 1] ELSE counts' = counts
      /\ last_seq' = IF class = "seq_reorder_or_duplicate" THEN last_seq ELSE b.n
      /\ have_last_seq' = TRUE /\ put' = b /\ lastSeen' = b
      /\ holes' = IF lastSeen.run = b.run /\ b.n # lastSeen.n + 1 THEN holes + 1 ELSE holes
      /\ jumpedBack' = IF lastSeen # NoneSeen /\ lastSeen.run # b.run THEN jumpedBack + 1 ELSE jumpedBack
      /\ processed' = processed + Mine(b) /\ backlog' = Tail(backlog)
      /\ UNCHANGED <<talking, send_socket, seq, dropped_packet_count, senderRun, verdict, listening, lostOnWay>>
  BY DEF AcceptsPacket, Counted, Observed, sendVars
<1>2. RemoteTypes /\ FifoInv /\ SeqInv /\ SentInv
  BY DEF RInv
<1>3. /\ backlog' \in Seq(Batches) /\ Len(backlog') <= SocketQueue /\ b \in Batches
      /\ Older(lastSeen, b) /\ Older(b, Batch(senderRun, seq)) /\ b.run >= 1 /\ b.n < MaxPackets
      /\ \A i \in DOMAIN backlog' : /\ Older(b, backlog'[i]) /\ Older(backlog'[i], Batch(senderRun, seq))
                                    /\ backlog'[i].run >= 1 /\ backlog'[i].n < MaxPackets
      /\ \A i, j \in DOMAIN backlog' : i < j => Older(backlog'[i], backlog'[j])
      /\ Of(backlog, senderRun) = Of(backlog', senderRun) + Mine(b)
  BY <1>1, BacklogTaken
<1>4. Mine(b) \in {0, 1}
  BY DEF Mine
<1>5. /\ b.run \in Nat /\ b.n \in Nat /\ lastSeen.run \in Nat /\ lastSeen.n \in Nat /\ last_seq \in Nat
      /\ holes \in Nat /\ jumpedBack \in Nat /\ counts \in [Counters -> Nat] /\ have_last_seq \in BOOLEAN
      /\ counts["seq_gap"] \in Nat /\ counts["seq_reorder_or_duplicate"] \in Nat
      /\ "seq_gap" \in Counters /\ "seq_reorder_or_duplicate" \in Counters
  <2>1. b \in Batches /\ lastSeen \in Batches
    BY <1>2, <1>3 DEF RemoteTypes
  <2>2. /\ last_seq \in Nat /\ holes \in Nat /\ jumpedBack \in Nat
        /\ counts \in [Counters -> Nat] /\ have_last_seq \in BOOLEAN
    BY <1>2, RemoteNumbers DEF RemoteTypes
  <2>3. "seq_gap" \in Counters /\ "seq_reorder_or_duplicate" \in Counters
    BY DEF Counters
  <2> HIDE DEF b, class
  <2>4. b.run \in Nat /\ b.n \in Nat /\ lastSeen.run \in Nat /\ lastSeen.n \in Nat
    BY <2>1 DEF Batches
  <2> QED
    BY <2>2, <2>3, <2>4
<1>6. /\ "first" \notin Counters /\ "in_order" \notin Counters
      /\ class = IF ~have_last_seq THEN "first"
                 ELSE IF b.n = last_seq + 1 THEN "in_order"
                 ELSE IF b.n > last_seq + 1 THEN "seq_gap" ELSE "seq_reorder_or_duplicate"
  BY DEF ClassifySeq, Counters
<1>7. class \in {"first", "in_order", "seq_gap", "seq_reorder_or_duplicate"}
  BY <1>6
<1> HIDE DEF b, class
<1>8. /\ counts' \in [Counters -> Nat]
      /\ counts'["seq_gap"] = counts["seq_gap"] + (IF class = "seq_gap" THEN 1 ELSE 0)
      /\ counts'["seq_reorder_or_duplicate"]
         = counts["seq_reorder_or_duplicate"] + (IF class = "seq_reorder_or_duplicate" THEN 1 ELSE 0)
  BY SMTT(30), <1>1, <1>5, <1>6, <1>7
<1>9. RemoteTypes'
  <2>1. processed' \in Nat /\ holes' \in Nat /\ jumpedBack' \in Nat
    <3>1. processed \in Nat /\ processed' = processed + Mine(b)
      BY <1>1, <1>2 DEF RemoteTypes
    <3>2. holes' \in {holes, holes + 1} /\ jumpedBack' \in {jumpedBack, jumpedBack + 1}
      BY <1>1
    <3>3. processed' \in Nat
      BY <1>4, <3>1
    <3> QED
      BY <1>5, <3>2, <3>3
  <2>2. last_seq' \in 0 .. MaxPackets
    BY <1>1, <1>2, <1>3, <1>5, RemoteNumbers DEF RemoteTypes
  <2> QED
    BY <1>1, <1>2, <1>3, <1>8, <2>1, <2>2 DEF RemoteTypes
<1>10. FifoInv'
  BY <1>1, <1>3 DEF FifoInv
<1>11. SeqInv'
  <2>1. have_last_seq' /\ lastSeen'.run >= 1 /\ lastSeen'.n = b.n
    BY <1>1, <1>3
  <2>2. Older(lastSeen, b) /\ (lastSeen.run < b.run \/ (lastSeen.run = b.run /\ lastSeen.n < b.n))
    BY <1>3 DEF Older
  <2>3. last_seq' >= b.n
    BY <1>1, <1>5, <1>6
  <2>4. CASE ~have_last_seq
    <3>1. lastSeen = NoneSeen /\ lastSeen.run = 0 /\ class = "first"
      BY <1>2, <1>6, <2>4 DEF SeqInv, NoneSeen, Batch
    <3>2. holes' = holes /\ jumpedBack' = jumpedBack /\ last_seq' = b.n
      BY <1>1, <1>3, <3>1
    <3>3. counts'["seq_gap"] = counts["seq_gap"] /\ counts'["seq_reorder_or_duplicate"] = counts["seq_reorder_or_duplicate"]
      BY <1>5, <1>8, <3>1
    <3> QED
      BY <1>2, <2>1, <2>3, <3>2, <3>3 DEF SeqInv
  <2>5. CASE have_last_seq /\ lastSeen.run = b.run
    <3>1. lastSeen.n < b.n /\ lastSeen.n <= last_seq /\ (jumpedBack = 0 => last_seq = lastSeen.n) /\ jumpedBack' = jumpedBack
      BY <1>1, <1>2, <1>5, <2>2, <2>5 DEF SeqInv
    <3>2. holes' = IF b.n # lastSeen.n + 1 THEN holes + 1 ELSE holes
      BY <1>1, <2>5
    <3>3. class = "seq_gap" => b.n # lastSeen.n + 1
      BY <1>5, <1>6, <3>1
    <3>4. jumpedBack = 0 => (class = "seq_gap" <=> b.n # lastSeen.n + 1) /\ class # "seq_reorder_or_duplicate"
      BY <1>5, <1>6, <2>5, <3>1
    <3>5. jumpedBack' = 0 => last_seq' = b.n
      BY <1>1, <3>1, <3>4
    <3>6. counts["seq_gap"] <= holes + jumpedBack
          /\ (jumpedBack = 0 => counts["seq_gap"] = holes /\ counts["seq_reorder_or_duplicate"] = 0)
      BY <1>2 DEF SeqInv
    <3>7. jumpedBack' = 0 => counts'["seq_gap"] = holes' /\ counts'["seq_reorder_or_duplicate"] = 0
      BY <1>5, <1>8, <3>1, <3>2, <3>4, <3>6
    <3>8. counts'["seq_gap"] <= holes' + jumpedBack'
      BY <1>5, <1>8, <3>1, <3>2, <3>3, <3>6
    <3> QED
      BY <2>1, <2>3, <3>5, <3>7, <3>8 DEF SeqInv
  <2>6. CASE have_last_seq /\ lastSeen.run # b.run
    <3>1. lastSeen # NoneSeen
      BY <1>2, <2>6 DEF SeqInv, NoneSeen, Batch
    <3>2. jumpedBack' = jumpedBack + 1 /\ holes' = holes
      BY <1>1, <2>6, <3>1
    <3>3. counts["seq_gap"] <= holes + jumpedBack
      BY <1>2 DEF SeqInv
    <3>4. counts'["seq_gap"] <= holes' + jumpedBack' /\ jumpedBack' # 0
      BY <1>5, <1>8, <3>2, <3>3
    <3> QED
      BY <2>1, <2>3, <3>4 DEF SeqInv
  <2> QED
    BY <2>4, <2>5, <2>6
<1>12. SentInv'
  <2>1. Of(backlog', senderRun) \in Nat
    BY <1>3, OfFinite
  <2>2. Of(backlog, senderRun)' = Of(backlog', senderRun)
    BY <1>1 DEF Of
  <2>3. dropped_packet_count \in Nat /\ processed \in Nat /\ lostOnWay \in Nat /\ seq \in Nat
    BY <1>2, RemoteNumbers DEF RemoteTypes
  <2>4. seq = dropped_packet_count + processed + lostOnWay + Of(backlog, senderRun)
    BY <1>2 DEF SentInv
  <2>5. seq' = dropped_packet_count' + processed' + lostOnWay' + Of(backlog', senderRun)
    BY SMTT(30), <1>1, <1>3, <1>4, <2>1, <2>3, <2>4
  <2> QED
    BY <2>2, <2>5 DEF SentInv
<1> QED
  BY <1>9, <1>10, <1>11, <1>12 DEF RInv

LEMMA RestartsKeep ==
  ASSUME RInv, DisableSender \/ EnableSender \/ RestartSender \/ StopReceiver \/ StartReceiver \/ UNCHANGED remoteVars
  PROVE  RInv'
<1>1. RemoteTypes /\ FifoInv /\ SeqInv /\ SentInv
  BY DEF RInv
<1>2. /\ dropped_packet_count \in Nat /\ processed \in Nat /\ lostOnWay \in Nat /\ seq \in Nat /\ senderRun \in Nat
      /\ backlog \in Seq(Batches) /\ lastSeen \in Batches
      /\ Of(backlog, senderRun) \in Nat /\ \A i \in DOMAIN backlog : backlog[i] \in Batches
  <2>1. /\ dropped_packet_count \in Nat /\ processed \in Nat /\ lostOnWay \in Nat /\ seq \in Nat /\ senderRun \in Nat
        /\ backlog \in Seq(Batches) /\ lastSeen \in Batches
    BY <1>1, RemoteNumbers DEF RemoteTypes
  <2>2. Of(backlog, senderRun) \in Nat
    BY <2>1, OfFinite
  <2>3. \A i \in DOMAIN backlog : backlog[i] \in Batches
    BY <2>1, ElementOfSeq, LenProperties
  <2> QED
    BY <2>1, <2>2, <2>3
<1>3. CASE DisableSender \/ EnableSender \/ UNCHANGED remoteVars
  <2>1. UNCHANGED <<seq, dropped_packet_count, senderRun, verdict, listening, backlog, have_last_seq, last_seq, counts,
                    put, lastSeen, holes, jumpedBack, processed, lostOnWay>>
    BY <1>3 DEF DisableSender, EnableSender, remoteVars, routeVars
  <2>2. RemoteTypes' /\ FifoInv' /\ SeqInv'
    BY <1>1, <2>1 DEF RemoteTypes, FifoInv, SeqInv
  <2>3. SentInv'
    BY <1>1, <2>1 DEF SentInv, Of
  <2> QED
    BY <2>2, <2>3 DEF RInv
<1>4. CASE RestartSender
  <2>1. /\ seq' = 0 /\ dropped_packet_count' = 0 /\ senderRun' = senderRun + 1 /\ processed' = 0 /\ lostOnWay' = 0
        /\ UNCHANGED <<verdict, listening, backlog, have_last_seq, last_seq, counts, put, lastSeen, holes, jumpedBack>>
    BY <1>4 DEF RestartSender, routeVars
  <2>2. RemoteTypes'
    <3>1. 0 \in 0 .. MaxPackets
      BY RemoteNumbers
    <3>2. senderRun' \in Nat /\ senderRun' >= 1
      BY <1>2, <2>1
    <3> QED
      BY <1>1, <2>1, <3>1, <3>2 DEF RemoteTypes
  <2>3. ASSUME NEW a \in Batches, Older(a, Batch(senderRun, seq))
        PROVE  Older(a, Batch(senderRun', seq')) /\ a.run < senderRun'
    BY <1>2, <2>1, <2>3 DEF Older, Batch, Batches
  <2>4. FifoInv'
    BY <1>1, <1>2, <2>1, <2>3 DEF FifoInv
  <2>5. SeqInv'
    BY <1>1, <2>1 DEF SeqInv
  <2>6. SentInv'
    <3>1. \A i \in DOMAIN backlog : backlog[i].run # senderRun'
      <4>1. \A i \in DOMAIN backlog : backlog[i].run < senderRun' /\ backlog[i].run \in Nat
        BY <1>1, <1>2, <2>3 DEF FifoInv, Batches
      <4>2. senderRun' \in Nat
        BY <1>2, <2>1
      <4> QED
        BY <4>1, <4>2
    <3>2. Of(backlog, senderRun') = 0
      BY <1>2, <3>1, OfNone
    <3>3. Of(backlog, senderRun)' = 0
      BY <2>1, <3>2 DEF Of
    <3> QED
      BY <2>1, <3>3 DEF SentInv
  <2> QED
    BY <2>2, <2>4, <2>5, <2>6 DEF RInv
<1>5. CASE StopReceiver
  <2>1. /\ listening' = FALSE /\ backlog' = <<>> /\ lostOnWay' = lostOnWay + Of(backlog, senderRun)
        /\ UNCHANGED <<seq, dropped_packet_count, senderRun, verdict, have_last_seq, last_seq, counts,
                       put, lastSeen, holes, jumpedBack, processed>>
    BY <1>5, MineAreOf DEF StopReceiver, routeVars, sendVars
  <2>2. <<>> \in Seq(Batches) /\ Len(<<>>) = 0 /\ DOMAIN <<>> = {}
    OBVIOUS
  <2>3. RemoteTypes'
    <3>1. lostOnWay' \in Nat
      BY <1>2, <2>1
    <3>2. Len(backlog') <= SocketQueue
      BY <2>1, <2>2, RemoteNumbers
    <3> QED
      BY <1>1, <2>1, <2>2, <3>1, <3>2 DEF RemoteTypes
  <2>4. FifoInv' /\ SeqInv'
    BY <1>1, <2>1, <2>2 DEF FifoInv, SeqInv
  <2>5. SentInv'
    <3>1. Of(backlog, senderRun)' = 0
      BY <2>1, FS_EmptySet DEF Of
    <3> QED
      BY <1>1, <1>2, <2>1, <3>1 DEF SentInv
  <2> QED
    BY <2>3, <2>4, <2>5 DEF RInv
<1>6. CASE StartReceiver
  <2>1. /\ ~listening /\ listening' = TRUE /\ have_last_seq' = FALSE /\ last_seq' = 0 /\ counts' = [c \in Counters |-> 0]
        /\ put' = NoneSeen /\ lastSeen' = NoneSeen /\ holes' = 0 /\ jumpedBack' = 0
        /\ UNCHANGED <<seq, dropped_packet_count, senderRun, verdict, backlog, processed, lostOnWay>>
    BY <1>6 DEF StartReceiver, FreshRoute, sendVars
  <2>2. NoneSeen \in Batches /\ NoneSeen.run = 0 /\ NoneSeen.n = 0
    BY DEF NoneSeen, Batch, Batches
  <2>3. RemoteTypes'
    <3>1. 0 \in 0 .. MaxPackets /\ [c \in Counters |-> 0] \in [Counters -> Nat]
      BY RemoteNumbers
    <3>2. have_last_seq' \in BOOLEAN /\ listening' \in BOOLEAN /\ listening'
      BY <2>1
    <3> QED
      BY <1>1, <2>1, <2>2, <3>1, <3>2 DEF RemoteTypes
  <2>4. backlog' = <<>>
    BY <1>1, <2>1 DEF RemoteTypes
  <2>5. FifoInv'
    <3>1. Older(NoneSeen, Batch(senderRun', seq'))
      BY <1>1, <2>1 DEF Older, NoneSeen, Batch, RemoteTypes
    <3> QED
      BY <2>1, <2>4, <3>1 DEF FifoInv
  <2>6. SeqInv'
    <3>1. counts'["seq_gap"] = 0 /\ counts'["seq_reorder_or_duplicate"] = 0
      BY <2>1 DEF Counters
    <3> QED
      BY <2>1, <2>2, <3>1 DEF SeqInv
  <2>7. SentInv'
    BY <1>1, <2>1 DEF SentInv, Of
  <2> QED
    BY <2>3, <2>5, <2>6, <2>7 DEF RInv
<1> QED
  BY <1>3, <1>4, <1>5, <1>6

RemoteSafety == RemoteInit /\ [][RemoteNext]_remoteVars

LEMMA RemoteInvariant == RemoteSafety => []RInv
<1>1. RInv /\ [RemoteNext]_remoteVars => RInv'
  BY SendKeeps, RejectKeeps, AcceptKeeps, RestartsKeep DEF RemoteNext, RemoteReceiver
<1> QED
  BY RemoteStart, <1>1, PTL DEF RemoteSafety

\* The counters of the two processes account for every packet, whatever the kernel drops and
\* whichever side restarts; a receiver counts the gaps there were while its sender runs on.
THEOREM PacketsAccounted == RemoteSpec => []CountersTell
<1>1. RInv => CountersTell
  BY MineAreOf DEF RInv, SentInv, SeqInv, CountersTell
<1> QED
  BY RemoteInvariant, <1>1, PTL DEF RemoteSpec, RemoteSafety

\* A mixer input is never given a batch older than one it was given before.
THEOREM PutsNeverGoBack == RemoteSpec => PutsInOrder
<1>1. RInv /\ [RemoteNext]_remoteVars => [put' # put /\ put' # NoneSeen => Older(put, put')]_remoteVars
  <2> SUFFICES ASSUME RInv, RemoteNext, put' # put, put' # NoneSeen PROVE Older(put, put')
    OBVIOUS
  <2>1. AcceptsPacket
    BY DEF RemoteNext, mixer_remote_send, DisableSender, EnableSender, RestartSender, RemoteReceiver, RejectsPacket,
           StopReceiver, StartReceiver, FreshRoute, routeVars
  <2>2. put' = Head(backlog) /\ backlog # <<>> /\ backlog' = Tail(backlog)
    BY <2>1 DEF AcceptsPacket
  <2>3. put = lastSeen
    BY DEF RInv, RemoteTypes
  <2> QED
    BY <2>2, <2>3, BacklogTaken
<1> QED
  BY RemoteInvariant, <1>1, PTL DEF RemoteSpec, RemoteSafety, PutsInOrder

LEMMA RemoteTyped == RInv => RemoteTypeOK
<1> SUFFICES ASSUME RInv PROVE RemoteTypeOK
  OBVIOUS
<1>1. RemoteTypes /\ SentInv /\ Of(backlog, senderRun) \in Nat
  BY OfFinite DEF RInv, RemoteTypes
<1>2. dropped_packet_count \in 0 .. MaxPackets
  <2>1. seq \in 0 .. MaxPackets /\ dropped_packet_count \in Nat /\ processed \in Nat /\ lostOnWay \in Nat
    BY <1>1 DEF RemoteTypes
  <2>2. seq = dropped_packet_count + processed + lostOnWay + Of(backlog, senderRun)
    BY <1>1 DEF SentInv
  <2> QED
    BY <1>1, <2>1, <2>2, RemoteNumbers
<1> QED
  BY <1>1, <1>2 DEF RemoteTypes, RemoteTypeOK

\* Every variable of both processes has its type, and a socket holds no more than the kernel lets it.
THEOREM RemoteTypeCorrect == RemoteSpec => []RemoteTypeOK
BY RemoteInvariant, RemoteTyped, PTL DEF RemoteSpec, RemoteSafety

-----------------------------------------------------------------------------
(***************************************************************************)
(* Files: for every setting of the output and every split time the         *)
(* configuration parser accepts, nothing recorded is overwritten, nothing  *)
(* but a short transmission is deleted, and a file holds one hour's        *)
(* batches.                                                                *)
(***************************************************************************)

FileSafety == FileInit /\ [][FileNext]_fileVars

\* The second or hour of a tick, and what the output and the file system are made of.
UnitOf(t) == t \div Unit
FileStates == [file : BOOLEAN, path : Paths, batches : SUBSET Nat, open_time : Nat, last_write : Nat,
          tx_start : Nat, transmission : SUBSET Nat, active : BOOLEAN]
Disks == UNION {[S -> SUBSET Nat] : S \in SUBSET Paths}
Worlds == [f : FileStates, disk : Disks, dropped : SUBSET [file : SUBSET Nat, transmission : SUBSET Nat],
           lost : SUBSET Nat, maxTime : BOOLEAN]

\* The functions of the code are proved about one by one, as steps between worlds: s is the output
\* as one of them finds or leaves it, now the clock, intr whether there was an interruption.
Times(s, now) == s.f.tx_start <= s.f.open_time /\ s.f.open_time <= s.f.last_write /\ s.f.last_write <= now

\* A name that no file opened from now on will be given, not even when it is renamed: of an earlier
\* second or hour, or of this one and begun in an earlier one.
Past(p, now) == p.at < UnitOf(now) \/ (p.at = UnitOf(now) /\ p.tx < p.at)

\* An open file is named by the tick it was opened at, and has its name for itself.
NameInv(s, now) ==
  /\ \A p \in DOMAIN s.disk : Past(p, now)
  /\ s.f.file => /\ s.f.path.at = UnitOf(s.f.open_time) /\ Past(s.f.path, now)
                 /\ \A p \in DOMAIN s.disk : p # s.f.path /\ Past(p, s.f.open_time)

\* Unless there was an interruption, every closed file is of an earlier second or hour.
FreshInv(s, now, intr) ==
  ~intr => \A p \in DOMAIN s.disk : p.at < IF s.f.file THEN s.f.path.at ELSE UnitOf(now)

LostInv(s, intr) == mode.append \/ ~intr => s.lost = {}

WholeFile(d) == d.file = d.transmission /\ \A a, b \in d.file : b - a < mode.dropShorter
DropInv(s, intr) == ~intr /\ mode.minRx = 0 => \A d \in s.dropped : WholeFile(d)

\* The first file of a transmission holds all of it so far.
FirstInv(s, intr) ==
  s.f.file /\ ~intr => /\ \A b \in s.f.batches : s.f.open_time <= b /\ b <= s.f.last_write
                       /\ FirstFile(s.f) => s.f.batches = s.f.transmission

HourInv(s) ==
  ~mode.split => /\ \A p \in DOMAIN s.disk : \A b \in s.disk[p] : UnitOf(b) = p.at
                 /\ s.f.file => \A b \in s.f.batches : UnitOf(b) = s.f.path.at

Sound(s, now, intr) ==
  /\ s \in Worlds /\ now \in 0 .. LastTick
  /\ Times(s, now) /\ NameInv(s, now) /\ FreshInv(s, now, intr)
  /\ LostInv(s, intr) /\ DropInv(s, intr) /\ FirstInv(s, intr) /\ HourInv(s)

FInv == mode \in FileModes /\ outputOn \in BOOLEAN /\ interrupted \in BOOLEAN /\ Sound(World, clock, interrupted)

-----------------------------------------------------------------------------

LEMMA Numbers ==
  /\ Second \in Nat /\ Second > 0 /\ Hour \in Nat /\ Hour > 0 /\ LastTick \in Nat
  /\ split_min_file_time \in Nat /\ split_max_file_time \in Nat /\ split_max_idle_time \in Nat
  /\ split_min_file_time >= Second /\ split_max_file_time >= Second
  BY FileSettings, FileTimesAssumption

LEMMA ModeFields ==
  ASSUME mode \in FileModes
  PROVE  /\ mode.split \in BOOLEAN /\ mode.append \in BOOLEAN /\ mode.txName \in BOOLEAN /\ mode.continuous \in BOOLEAN
         /\ mode.dropShorter \in Nat /\ mode.minRx \in Nat
         /\ Unit \in Nat /\ Unit > 0 /\ (mode.split => Unit = Second) /\ (~mode.split => Unit = Hour)
  BY FileSettings DEF Unit

\* Division by a constant the prover does not know.
LEMMA Division ==
  ASSUME NEW u \in Nat, u > 0, NEW a \in Nat, NEW b \in Nat
  PROVE  /\ a \div u \in Nat /\ a \div u <= a
         /\ a <= b => a \div u <= b \div u
         /\ a + u <= b => a \div u < b \div u
<1>1. a \div u \in Nat /\ u * (a \div u) <= a /\ a < u * (a \div u) + u
  OBVIOUS
<1>2. b \div u \in Nat /\ u * (b \div u) <= b /\ b < u * (b \div u) + u
  OBVIOUS
<1> DEFINE x == a \div u
           y == b \div u
<1>3. x \in Nat /\ u * x <= a /\ a < u * x + u /\ y \in Nat /\ u * y <= b /\ b < u * y + u
  BY <1>1, <1>2
<1> HIDE DEF x, y
<1>4. x <= a
  <2>1. x <= u * x
    BY <1>3
  <2> QED
    BY <1>3, <2>1
<1>5. a <= b => x <= y
  <2> SUFFICES ASSUME a <= b, x >= y + 1 PROVE FALSE
    BY <1>3
  <2>1. u * x >= u * (y + 1) /\ u * (y + 1) = u * y + u
    BY <1>3
  <2> QED
    BY <1>3, <2>1
<1>6. a + u <= b => x < y
  <2> SUFFICES ASSUME a + u <= b, x >= y PROVE FALSE
    BY <1>3
  <2>1. u * x >= u * y
    BY <1>3
  <2> QED
    BY <1>3, <2>1
<1> QED
  BY <1>3, <1>4, <1>5, <1>6 DEF x, y

\* Later ticks are not of earlier seconds or hours, and later ones by as much are of later ones.
LEMMA AtFacts ==
  ASSUME mode \in FileModes
  PROVE  /\ \A t \in Nat : UnitOf(t) \in Nat /\ UnitOf(t) <= t
         /\ \A a, b \in Nat : a <= b => UnitOf(a) <= UnitOf(b)
         /\ mode.split => \A a, b \in Nat : a + Second <= b => UnitOf(a) < UnitOf(b)
         /\ mode.split => \A a \in Nat : a \div Second = UnitOf(a)
         /\ ~mode.split => \A a \in Nat : a \div Hour = UnitOf(a)
         /\ \A tx, t : Path(tx, t) = [tx |-> tx, at |-> UnitOf(t)]
<1>1. Unit \in Nat /\ Unit > 0 /\ (mode.split => Unit = Second) /\ (~mode.split => Unit = Hour)
  BY ModeFields
<1> HIDE DEF Unit
<1>2. \A t \in Nat : UnitOf(t) \in Nat /\ UnitOf(t) <= t
  BY <1>1, Division DEF UnitOf
<1>3. \A a, b \in Nat : a <= b => UnitOf(a) <= UnitOf(b)
  BY <1>1, Division DEF UnitOf
<1>4. mode.split => \A a, b \in Nat : a + Second <= b => UnitOf(a) < UnitOf(b)
  BY <1>1, Division DEF UnitOf
<1>5. mode.split => \A a \in Nat : a \div Second = UnitOf(a)
  BY <1>1 DEF UnitOf
<1>6. ~mode.split => \A a \in Nat : a \div Hour = UnitOf(a)
  BY <1>1 DEF UnitOf
<1>7. \A tx, t : Path(tx, t) = [tx |-> tx, at |-> UnitOf(t)]
  BY DEF Path, UnitOf
<1> QED
  BY <1>2, <1>3, <1>4, <1>5, <1>6, <1>7

-----------------------------------------------------------------------------
(***************************************************************************)
(* The file system                                                         *)
(***************************************************************************)

LEMMA DiskFacts ==
  ASSUME NEW d \in Disks
  PROVE  /\ d \in [DOMAIN d -> SUBSET Nat] /\ DOMAIN d \subseteq Paths
         /\ \A p \in DOMAIN d : d[p] \in SUBSET Nat
  BY DEF Disks

LEMMA UnderFacts ==
  ASSUME NEW d \in Disks, NEW p
  PROVE  /\ Under(p, d) \in SUBSET Nat
         /\ p \in DOMAIN d => Under(p, d) = d[p]
         /\ p \notin DOMAIN d => Under(p, d) = {}
  BY DiskFacts DEF Under

LEMMA PutFacts ==
  ASSUME NEW d \in Disks, NEW p \in Paths, NEW b \in SUBSET Nat
  PROVE  /\ Put(d, p, b) \in Disks /\ DOMAIN Put(d, p, b) = DOMAIN d \union {p}
         /\ Put(d, p, b)[p] = b /\ \A q \in DOMAIN d : q # p => Put(d, p, b)[q] = d[q]
<1>1. Put(d, p, b) \in [DOMAIN d \union {p} -> SUBSET Nat] /\ DOMAIN d \union {p} \in SUBSET Paths
  BY DiskFacts DEF Put
<1>2. Put(d, p, b) \in Disks
  BY <1>1 DEF Disks
<1> QED
  BY <1>2 DEF Put

LEMMA WithoutFacts ==
  ASSUME NEW d \in Disks, NEW p
  PROVE  /\ Without(d, p) \in Disks /\ DOMAIN Without(d, p) = DOMAIN d \ {p}
         /\ \A q \in DOMAIN d : q # p => Without(d, p)[q] = d[q]
<1>1. Without(d, p) \in [DOMAIN d \ {p} -> SUBSET Nat] /\ DOMAIN d \ {p} \in SUBSET Paths
  BY DiskFacts DEF Without
<1>2. Without(d, p) \in Disks
  BY <1>1 DEF Disks
<1> QED
  BY <1>2 DEF Without

LEMMA WorldFields ==
  ASSUME NEW s \in Worlds
  PROVE  /\ s.f \in FileStates /\ s.disk \in Disks /\ s.lost \in SUBSET Nat /\ s.maxTime \in BOOLEAN
         /\ s.dropped \in SUBSET [file : SUBSET Nat, transmission : SUBSET Nat]
         /\ s.f.file \in BOOLEAN /\ s.f.path \in Paths /\ s.f.batches \in SUBSET Nat /\ s.f.open_time \in Nat
         /\ s.f.last_write \in Nat /\ s.f.tx_start \in Nat /\ s.f.transmission \in SUBSET Nat /\ s.f.active \in BOOLEAN
  BY DEF Worlds, FileStates

\* What a function changes of the file, and of the world around it.
LEMMA FileUpdates ==
  ASSUME NEW f \in FileStates
  PROVE  /\ Shut(f) \in FileStates
         /\ \A p \in Paths : [f EXCEPT !.path = p] \in FileStates
         /\ \A p \in Paths, b \in SUBSET Nat : [f EXCEPT !.file = TRUE, !.path = p, !.batches = b] \in FileStates
         /\ \A t, o, w \in Nat, m \in SUBSET Nat :
              [f EXCEPT !.tx_start = t, !.open_time = o, !.last_write = w, !.transmission = m] \in FileStates
         /\ \A b, m \in SUBSET Nat, w \in Nat, a \in BOOLEAN :
              [f EXCEPT !.batches = b, !.transmission = m, !.last_write = w, !.active = a] \in FileStates
         /\ \A a \in BOOLEAN, w \in Nat : [f EXCEPT !.active = a, !.last_write = w] \in FileStates
<1> HIDE DEF Paths
<1>1. Shut(f) \in FileStates
  BY DEF FileStates, Shut
<1>2. \A p \in Paths : [f EXCEPT !.path = p] \in FileStates
  BY DEF FileStates
<1>3. \A p \in Paths, b \in SUBSET Nat : [f EXCEPT !.file = TRUE, !.path = p, !.batches = b] \in FileStates
  BY DEF FileStates
<1>4. \A t, o, w \in Nat, m \in SUBSET Nat :
        [f EXCEPT !.tx_start = t, !.open_time = o, !.last_write = w, !.transmission = m] \in FileStates
  BY DEF FileStates
<1>5. \A b, m \in SUBSET Nat, w \in Nat, a \in BOOLEAN :
        [f EXCEPT !.batches = b, !.transmission = m, !.last_write = w, !.active = a] \in FileStates
  BY DEF FileStates
<1>6. \A a \in BOOLEAN, w \in Nat : [f EXCEPT !.active = a, !.last_write = w] \in FileStates
  BY DEF FileStates
<1> QED
  BY <1>1, <1>2, <1>3, <1>4, <1>5, <1>6

LEMMA WorldUpdates ==
  ASSUME NEW s \in Worlds, NEW f \in FileStates
  PROVE  /\ [s EXCEPT !.f = f] \in Worlds
         /\ \A r \in SUBSET [file : SUBSET Nat, transmission : SUBSET Nat] : [s EXCEPT !.f = f, !.dropped = r] \in Worlds
         /\ \A l \in SUBSET Nat, d \in Disks : [s EXCEPT !.f = f, !.lost = l, !.disk = d] \in Worlds
         /\ \A l \in SUBSET Nat, d \in Disks : [s EXCEPT !.f = f, !.disk = d, !.lost = l] \in Worlds
<1>1. [s EXCEPT !.f = f] \in Worlds
  BY DEF Worlds
<1>2. \A r \in SUBSET [file : SUBSET Nat, transmission : SUBSET Nat] : [s EXCEPT !.f = f, !.dropped = r] \in Worlds
  BY DEF Worlds
<1>3. \A l \in SUBSET Nat, d \in Disks : [s EXCEPT !.f = f, !.lost = l, !.disk = d] \in Worlds
  BY DEF Worlds
<1>4. \A l \in SUBSET Nat, d \in Disks : [s EXCEPT !.f = f, !.disk = d, !.lost = l] \in Worlds
  BY DEF Worlds
<1> QED
  BY <1>1, <1>2, <1>3, <1>4

\* What close_file() leaves of an open file.
LEMMA ClosedFields ==
  ASSUME NEW s \in Worlds, s.f.file, NEW drop \in BOOLEAN
  PROVE  LET c == close_file(s, drop) IN
         /\ c \in Worlds /\ c.maxTime = s.maxTime
         /\ c.f = Shut(s.f)
         /\ drop \/ TooShort(s.f) =>
              /\ c.dropped = s.dropped \union {[file |-> s.f.batches, transmission |-> s.f.transmission]}
              /\ c.disk = s.disk /\ c.lost = s.lost
         /\ ~(drop \/ TooShort(s.f)) =>
              /\ c.dropped = s.dropped /\ c.disk = Put(s.disk, s.f.path, s.f.batches)
              /\ c.lost = s.lost \union Under(s.f.path, s.disk)
<1> DEFINE r == s.dropped \union {[file |-> s.f.batches, transmission |-> s.f.transmission]}
           l == s.lost \union Under(s.f.path, s.disk)
           d == Put(s.disk, s.f.path, s.f.batches)
           D == [s EXCEPT !.f = Shut(@), !.dropped = r]
           K == [s EXCEPT !.f = Shut(@), !.lost = l, !.disk = d]
<1>1. /\ drop \/ TooShort(s.f) => close_file(s, drop) = D
      /\ ~(drop \/ TooShort(s.f)) => close_file(s, drop) = K
  BY Zenon DEF close_file
<1>2. Shut(s.f) \in FileStates /\ d \in Disks /\ l \in SUBSET Nat
  BY WorldFields, FileUpdates, PutFacts, UnderFacts
<1>3. r \in SUBSET [file : SUBSET Nat, transmission : SUBSET Nat]
  BY WorldFields
<1> HIDE DEF r, l, d
<1>4. D \in Worlds /\ K \in Worlds
  BY <1>2, <1>3, WorldUpdates
<1>5. D.f = Shut(s.f) /\ D.maxTime = s.maxTime /\ D.disk = s.disk /\ D.lost = s.lost /\ D.dropped = r
  BY DEF Worlds
<1>6. K.f = Shut(s.f) /\ K.maxTime = s.maxTime /\ K.disk = d /\ K.lost = l /\ K.dropped = s.dropped
  BY DEF Worlds
<1> HIDE DEF D, K
<1> QED
  BY <1>1, <1>4, <1>5, <1>6 DEF r, l, d

LEMMA ShutFields ==
  ASSUME NEW f \in FileStates
  PROVE  /\ Shut(f).file = FALSE /\ Shut(f).batches = {} /\ Shut(f).path = f.path /\ Shut(f).open_time = f.open_time
         /\ Shut(f).last_write = f.last_write /\ Shut(f).tx_start = f.tx_start
         /\ Shut(f).transmission = f.transmission /\ Shut(f).active = f.active
  BY DEF FileStates, Shut

-----------------------------------------------------------------------------
(***************************************************************************)
(* What keeps a world sound without a function of the code                 *)
(***************************************************************************)

\* The invariant says nothing of maxTime.
LEMMA SameWorld ==
  ASSUME NEW s, NEW w \in Worlds, NEW now, NEW intr, Sound(s, now, intr),
         w.f = s.f, w.disk = s.disk, w.dropped = s.dropped, w.lost = s.lost
  PROVE  Sound(w, now, intr)
  BY DEF Sound, Times, NameInv, FreshInv, LostInv, DropInv, FirstInv, HourInv

\* An interruption excuses what it excuses.
LEMMA Interrupted ==
  ASSUME NEW s, NEW now, NEW intr, Sound(s, now, intr)
  PROVE  Sound(s, now, TRUE)
  BY DEF Sound, FreshInv, LostInv, DropInv, FirstInv

\* A past name stays past.
LEMMA PastLater ==
  ASSUME mode \in FileModes, NEW a \in Nat, NEW b \in Nat, a <= b
  PROVE  \A p \in Paths : Past(p, a) => Past(p, b)
<1>1. UnitOf(a) \in Nat /\ UnitOf(b) \in Nat /\ UnitOf(a) <= UnitOf(b)
  BY AtFacts
<1>2. \A p \in Paths : p.at \in Int /\ p.tx \in Int
  BY Numbers DEF Paths
<1> HIDE DEF Paths
<1> QED
  BY <1>1, <1>2 DEF Past

LEMMA SoundLater ==
  ASSUME mode \in FileModes, NEW s, NEW now, NEW later \in 0 .. LastTick, NEW intr, Sound(s, now, intr), now <= later
  PROVE  Sound(s, later, intr)
<1>1. s \in Worlds /\ now \in Nat /\ later \in Nat /\ DOMAIN s.disk \subseteq Paths /\ s.f.path \in Paths
  BY WorldFields, DiskFacts, Numbers DEF Sound
<1>2. \A p \in Paths : Past(p, now) => Past(p, later)
  BY <1>1, PastLater
<1>3. NameInv(s, later)
  BY <1>1, <1>2 DEF Sound, NameInv
<1>4. FreshInv(s, later, intr)
  <2>1. UnitOf(now) \in Nat /\ UnitOf(later) \in Nat /\ UnitOf(now) <= UnitOf(later)
    BY <1>1, AtFacts
  <2>2. \A p \in Paths : p.at \in Int
    BY Numbers DEF Paths
  <2> HIDE DEF Paths
  <2> QED
    BY <1>1, <2>1, <2>2 DEF Sound, FreshInv
<1>5. Times(s, later)
  BY <1>1, WorldFields DEF Sound, Times
<1> QED
  BY <1>3, <1>4, <1>5 DEF Sound

\* While no file is open, what is remembered of the last one can be replaced.
LEMMA OtherFile ==
  ASSUME NEW s, NEW now, NEW intr, Sound(s, now, intr), ~s.f.file, NEW g \in FileStates, ~g.file,
         g.tx_start <= g.open_time, g.open_time <= g.last_write, g.last_write <= now
  PROVE  Sound([s EXCEPT !.f = g], now, intr)
<1> DEFINE w == [s EXCEPT !.f = g]
<1>1. s \in Worlds
  BY DEF Sound
<1>2. w \in Worlds /\ w.f = g /\ w.disk = s.disk /\ w.dropped = s.dropped /\ w.lost = s.lost
  BY <1>1 DEF Worlds
<1> HIDE DEF w
<1>3. Times(w, now)
  BY <1>2 DEF Times
<1>4. NameInv(w, now)
  BY <1>2 DEF Sound, NameInv
<1>5. FreshInv(w, now, intr)
  BY <1>2 DEF Sound, FreshInv
<1>6. LostInv(w, intr) /\ DropInv(w, intr) /\ FirstInv(w, intr) /\ HourInv(w)
  BY <1>2 DEF Sound, LostInv, DropInv, FirstInv, HourInv
<1>7. Sound(w, now, intr)
  BY <1>2, <1>3, <1>4, <1>5, <1>6 DEF Sound
<1> QED
  BY <1>7 DEF w

-----------------------------------------------------------------------------
(***************************************************************************)
(* Closing                                                                 *)
(***************************************************************************)

\* A file may be closed under a name that is past and free, and deleted if nothing is to be kept of
\* it.
LEMMA CloseSound ==
  ASSUME mode \in FileModes, clock \in 0 .. LastTick, NEW intr \in BOOLEAN, NEW drop \in BOOLEAN,
         NEW s \in Worlds, s.f.file, Times(s, clock),
         Past(s.f.path, clock), \A p \in DOMAIN s.disk : Past(p, clock) /\ p # s.f.path,
         ~intr => s.f.path.at < UnitOf(clock) /\ \A p \in DOMAIN s.disk : p.at < UnitOf(clock),
         LostInv(s, intr), DropInv(s, intr), HourInv(s),
         drop /\ ~intr => WholeFile([file |-> s.f.batches, transmission |-> s.f.transmission])
  PROVE  Sound(close_file(s, drop), clock, intr) /\ ~close_file(s, drop).f.file
<1> DEFINE c == close_file(s, drop)
           gone == [file |-> s.f.batches, transmission |-> s.f.transmission]
<1>1. c \in Worlds /\ c.f = Shut(s.f)
  BY ClosedFields
<1>2. /\ s.f \in FileStates /\ s.f.path \in Paths /\ s.f.batches \in SUBSET Nat /\ s.disk \in Disks /\ s.lost \in SUBSET Nat
      /\ s.f.open_time \in Nat /\ s.f.last_write \in Nat
  BY WorldFields
<1>3. ~c.f.file /\ c.f.open_time = s.f.open_time /\ c.f.last_write = s.f.last_write /\ c.f.tx_start = s.f.tx_start
  BY <1>1, <1>2, ShutFields
<1>4. CASE drop \/ TooShort(s.f)
  <2>1. c.dropped = s.dropped \union {gone} /\ c.disk = s.disk /\ c.lost = s.lost
    BY <1>4, ClosedFields
  <2>2. DropInv(c, intr)
    <3>1. mode.minRx = 0 => ~TooShort(s.f)
      BY <1>2 DEF TooShort, Times
    <3> HIDE DEF c, gone
    <3> QED
      BY <1>4, <2>1, <3>1 DEF DropInv, gone
  <2> HIDE DEF c
  <2>3. Times(c, clock) /\ NameInv(c, clock) /\ FreshInv(c, clock, intr)
    BY <1>3, <2>1 DEF Times, NameInv, FreshInv
  <2>4. LostInv(c, intr) /\ FirstInv(c, intr) /\ HourInv(c)
    BY <1>3, <2>1 DEF LostInv, FirstInv, HourInv
  <2> QED
    BY <1>1, <1>3, <2>2, <2>3, <2>4 DEF Sound, c
<1>5. CASE ~(drop \/ TooShort(s.f))
  <2>1. c.dropped = s.dropped /\ c.disk = Put(s.disk, s.f.path, s.f.batches)
        /\ c.lost = s.lost \union Under(s.f.path, s.disk)
    BY <1>5, ClosedFields
  <2>2. c.lost = s.lost
    BY <1>2, <2>1, UnderFacts
  <2>3. /\ DOMAIN c.disk = DOMAIN s.disk \union {s.f.path}
        /\ c.disk[s.f.path] = s.f.batches /\ \A q \in DOMAIN s.disk : c.disk[q] = s.disk[q]
    <3>1. \A q \in DOMAIN s.disk : q # s.f.path
      OBVIOUS
    <3>2. /\ DOMAIN Put(s.disk, s.f.path, s.f.batches) = DOMAIN s.disk \union {s.f.path}
          /\ Put(s.disk, s.f.path, s.f.batches)[s.f.path] = s.f.batches
          /\ \A q \in DOMAIN s.disk : q # s.f.path => Put(s.disk, s.f.path, s.f.batches)[q] = s.disk[q]
      <4> DEFINE d == s.disk
                 p == s.f.path
                 b == s.f.batches
      <4>1. d \in Disks /\ p \in Paths /\ b \in SUBSET Nat
        BY <1>2
      <4> HIDE DEF d, p, b
      <4>2. /\ DOMAIN Put(d, p, b) = DOMAIN d \union {p}
            /\ Put(d, p, b)[p] = b /\ \A q \in DOMAIN d : q # p => Put(d, p, b)[q] = d[q]
        BY <4>1, PutFacts
      <4> QED
        BY <4>2 DEF d, p, b
    <3> HIDE DEF c
    <3> QED
      BY <2>1, <3>1, <3>2
  <2> HIDE DEF c
  <2>4. Times(c, clock) /\ NameInv(c, clock)
    BY <1>3, <2>3 DEF Times, NameInv
  <2>5. FreshInv(c, clock, intr)
    BY <1>3, <2>3 DEF FreshInv
  <2>6. HourInv(c)
    BY <1>3, <2>3 DEF HourInv
  <2>7. LostInv(c, intr) /\ FirstInv(c, intr) /\ DropInv(c, intr)
    BY <1>3, <2>1, <2>2 DEF LostInv, FirstInv, DropInv
  <2> QED
    BY <1>1, <1>3, <2>4, <2>5, <2>6, <2>7 DEF Sound, c
<1> QED
  BY <1>4, <1>5

\* The file of an earlier second or hour may be closed.
LEMMA CloseOld ==
  ASSUME mode \in FileModes, NEW intr \in BOOLEAN, NEW drop \in BOOLEAN, NEW s, Sound(s, clock, intr),
         s.f.file, UnitOf(s.f.open_time) < UnitOf(clock),
         drop /\ ~intr => WholeFile([file |-> s.f.batches, transmission |-> s.f.transmission])
  PROVE  Sound(close_file(s, drop), clock, intr) /\ ~close_file(s, drop).f.file
<1>1. s \in Worlds /\ clock \in 0 .. LastTick /\ Times(s, clock) /\ LostInv(s, intr) /\ DropInv(s, intr) /\ HourInv(s)
  BY DEF Sound
<1>2. Past(s.f.path, clock) /\ \A p \in DOMAIN s.disk : Past(p, clock) /\ p # s.f.path
  BY DEF Sound, NameInv
<1>3. ~intr => s.f.path.at < UnitOf(clock) /\ \A p \in DOMAIN s.disk : p.at < UnitOf(clock)
  <2>1. s.f.path.at = UnitOf(s.f.open_time) /\ (~intr => \A p \in DOMAIN s.disk : p.at < s.f.path.at)
    BY DEF Sound, NameInv, FreshInv
  <2>2. s.f.path.at \in Nat /\ UnitOf(clock) \in Nat /\ \A p \in DOMAIN s.disk : p.at \in Nat
    BY <1>1, <2>1, Numbers, AtFacts, WorldFields, DiskFacts DEF Paths
  <2> QED
    BY <2>1, <2>2
<1> QED
  BY <1>1, <1>2, <1>3, CloseSound

\* A name with the second its transmission began in is free when the first file gets it.
LEMMA RenameSound ==
  ASSUME mode \in FileModes, NEW intr \in BOOLEAN, NEW s, Sound(s, clock, intr), s.f.file, mode.split,
         UnitOf(s.f.open_time) < UnitOf(clock), NEW reopening \in BOOLEAN
  PROVE  LET r == RenameFirst(s, reopening) IN
         /\ Sound(r, clock, intr) /\ r.maxTime = s.maxTime
         /\ r.f.file /\ r.f.open_time = s.f.open_time /\ r.f.last_write = s.f.last_write /\ r.f.tx_start = s.f.tx_start
         /\ r.f.batches = s.f.batches /\ r.f.transmission = s.f.transmission
<1> DEFINE name == [tx |-> UnitOf(s.f.open_time), at |-> UnitOf(s.f.open_time)]
           g == [s.f EXCEPT !.path = name]
           r == [s EXCEPT !.f = g]
<1>1. s \in Worlds /\ clock \in 0 .. LastTick /\ s.f \in FileStates /\ s.f.open_time \in Nat /\ s.f.open_time <= clock
  BY WorldFields DEF Sound, Times
<1>2. UnitOf(s.f.open_time) \in 0 .. LastTick
  BY <1>1, AtFacts, Numbers
<1>3. RenameFirst(s, reopening) = s \/ RenameFirst(s, reopening) = r
  <2>1. FirstFile(s.f) => Path(s.f.tx_start \div Second, s.f.open_time) = name
    BY <1>1, AtFacts DEF FirstFile
  <2> HIDE DEF name
  <2> QED
    BY <2>1, Zenon DEF RenameFirst
<1>4. name \in Paths /\ name.at = UnitOf(s.f.open_time) /\ name.tx = UnitOf(s.f.open_time)
  BY <1>2, Numbers DEF Paths
<1> HIDE DEF name
<1>5. g \in FileStates /\ r \in Worlds
  <2>1. g \in FileStates
    BY <1>1, <1>4, FileUpdates
  <2> HIDE DEF g
  <2> QED
    BY <1>1, <2>1, WorldUpdates
<1>6. /\ g.path = name /\ g.file = s.f.file /\ g.batches = s.f.batches /\ g.open_time = s.f.open_time
      /\ g.last_write = s.f.last_write /\ g.tx_start = s.f.tx_start /\ g.transmission = s.f.transmission
  BY <1>1 DEF FileStates
<1> HIDE DEF g
<1>7. r.f = g /\ r.disk = s.disk /\ r.dropped = s.dropped /\ r.lost = s.lost /\ r.maxTime = s.maxTime
  BY <1>1 DEF Worlds
<1> HIDE DEF r
<1>8. s.f.path.at = name.at /\ \A p \in DOMAIN s.disk : Past(p, clock) /\ Past(p, s.f.open_time)
  BY <1>4 DEF Sound, NameInv
<1>9. NameInv(r, clock)
  <2>1. Past(name, clock)
    BY <1>4 DEF Past
  <2>2. \A p \in DOMAIN s.disk : p # name
    BY <1>2, <1>4, <1>8, Numbers DEF Past
  <2> QED
    BY <1>4, <1>6, <1>7, <1>8, <2>1, <2>2 DEF NameInv
<1>10. Times(r, clock) /\ FreshInv(r, clock, intr)
  BY <1>6, <1>7, <1>8 DEF Sound, Times, FreshInv
<1>11. LostInv(r, intr) /\ DropInv(r, intr) /\ HourInv(r)
  BY <1>6, <1>7 DEF Sound, LostInv, DropInv, HourInv
<1>12. FirstInv(r, intr)
  BY <1>6, <1>7 DEF Sound, FirstInv, FirstFile
<1>13. Sound(r, clock, intr)
  BY <1>1, <1>5, <1>9, <1>10, <1>11, <1>12 DEF Sound
<1>14. CASE RenameFirst(s, reopening) = r
  BY <1>6, <1>7, <1>13, <1>14
<1>15. CASE RenameFirst(s, reopening) = s
  BY <1>15
<1> QED
  BY <1>3, <1>14, <1>15

\* A transmission may be dropped whose only file is a short one.
LEMMA DropsWhole ==
  ASSUME mode \in FileModes, NEW intr \in BOOLEAN, NEW s, Sound(s, clock, intr), s.f.file, NEW continues \in BOOLEAN,
         should_drop_split_tx(s.f, continues), ~intr
  PROVE  WholeFile([file |-> s.f.batches, transmission |-> s.f.transmission])
<1>1. /\ s \in Worlds /\ clock \in Nat /\ s.f.open_time \in Nat /\ s.f.last_write \in Nat /\ mode.dropShorter \in Nat
      /\ s.f.batches \in SUBSET Nat
  BY WorldFields, ModeFields, Numbers DEF Sound
<1>2. s.f.batches = s.f.transmission /\ \A b \in s.f.batches : s.f.open_time <= b /\ b <= s.f.last_write
  BY DEF Sound, FirstInv, should_drop_split_tx
<1>3. s.f.last_write - s.f.open_time < mode.dropShorter
  BY <1>1 DEF should_drop_split_tx, Duration, Idle
<1>4. \A a, b \in s.f.batches : b - a < mode.dropShorter
  BY <1>1, <1>2, <1>3
<1> QED
  BY <1>2, <1>4 DEF WholeFile

\* A file is closed over its time or its idle time in a second, and over the hour in an hour, later
\* than the one it was opened in.
LEMMA CloseIfNecessary ==
  ASSUME mode \in FileModes, NEW intr \in BOOLEAN, NEW s, Sound(s, clock, intr), ~s.maxTime, NEW reopening \in BOOLEAN
  PROVE  LET c == close_if_necessary(s, reopening) IN
         /\ Sound(c, clock, intr)
         /\ c.maxTime => mode.split /\ ~c.f.file /\ c.f.tx_start + Second <= clock
         /\ c.f.file /\ ~mode.split => c.f.path.at = UnitOf(clock)
<1> DEFINE c == close_if_necessary(s, reopening)
<1>1. /\ s \in Worlds /\ s.f.open_time \in Nat /\ s.f.tx_start \in Nat /\ clock \in Nat /\ s.f.open_time <= clock
      /\ s.f.tx_start <= s.f.open_time
  BY WorldFields, Numbers DEF Sound, Times
<1>2. UnitOf(s.f.open_time) \in Nat /\ UnitOf(clock) \in Nat /\ UnitOf(s.f.open_time) <= UnitOf(clock)
  BY <1>1, AtFacts
<1>3. s.f.file => s.f.path.at = UnitOf(s.f.open_time)
  BY DEF Sound, NameInv
<1>4. CASE ~s.f.file
  BY <1>4 DEF close_if_necessary
<1>5. CASE s.f.file /\ ~mode.split
  <2>1. s.f.open_time \div Hour = UnitOf(s.f.open_time) /\ clock \div Hour = UnitOf(clock)
    BY <1>1, <1>5, AtFacts
  <2>2. CASE UnitOf(s.f.open_time) # UnitOf(clock)
    <3>1. c = close_file(s, FALSE)
      BY <1>5, <2>1, <2>2 DEF close_if_necessary
    <3> DEFINE drop == FALSE
    <3>2. UnitOf(s.f.open_time) < UnitOf(clock) /\ drop \in BOOLEAN /\ ~drop
      BY <1>2, <2>2
    <3> HIDE DEF drop
    <3>3. Sound(close_file(s, drop), clock, intr) /\ ~close_file(s, drop).f.file
      BY <1>5, <3>2, CloseOld
    <3>4. ~close_file(s, drop).maxTime
      BY <1>1, <1>5, <3>2, ClosedFields
    <3> QED
      BY <3>1, <3>3, <3>4 DEF drop
  <2>3. CASE UnitOf(s.f.open_time) = UnitOf(clock)
    <3>1. c = s
      BY <1>5, <2>1, <2>3 DEF close_if_necessary
    <3> QED
      BY <1>3, <2>3, <3>1
  <2> QED
    BY <2>2, <2>3
<1>6. CASE s.f.file /\ mode.split /\ OnlyMaxTime(s.f)
  <2> DEFINE r == RenameFirst(s, reopening)
             drop == should_drop_split_tx(s.f, reopening)
             d == close_file(r, drop)
  <2>1. c = [d EXCEPT !.maxTime = TRUE]
    BY <1>6, Zenon DEF close_if_necessary
  <2>2. s.f.open_time + Second <= clock
    BY <1>1, <1>6, Numbers DEF OnlyMaxTime, OverMaxTime, Duration
  <2>3. UnitOf(s.f.open_time) < UnitOf(clock)
    BY <1>1, <1>6, <2>2, AtFacts
  <2>4. /\ Sound(r, clock, intr) /\ r.f.file /\ r.f.open_time = s.f.open_time /\ r.f.tx_start = s.f.tx_start
        /\ r.f.batches = s.f.batches /\ r.f.transmission = s.f.transmission
    BY <1>6, <2>3, RenameSound
  <2>5. drop \in BOOLEAN
    BY DEF should_drop_split_tx
  <2>6. drop /\ ~intr => WholeFile([file |-> s.f.batches, transmission |-> s.f.transmission])
    BY <1>6, DropsWhole
  <2> HIDE DEF r, drop
  <2>7. Sound(d, clock, intr) /\ ~d.f.file
    BY <2>3, <2>4, <2>5, <2>6, CloseOld
  <2>8. d.f = Shut(r.f) /\ r.f \in FileStates
    BY <2>4, <2>5, ClosedFields, WorldFields DEF Sound
  <2>9. d.f.tx_start = s.f.tx_start
    BY <2>4, <2>8, ShutFields
  <2>10. d \in Worlds
    BY <2>7 DEF Sound
  <2> HIDE DEF d, c
  <2>11. c \in Worlds /\ c.f = d.f /\ c.disk = d.disk /\ c.dropped = d.dropped /\ c.lost = d.lost
    BY <2>1, <2>10 DEF Worlds
  <2>12. Sound(c, clock, intr)
    BY <2>7, <2>11, SameWorld
  <2> QED
    BY <1>1, <1>6, <2>2, <2>7, <2>9, <2>11, <2>12, Numbers DEF c
<1>7. CASE s.f.file /\ mode.split /\ ~OnlyMaxTime(s.f) /\ OverIdle(s.f)
  <2> DEFINE drop == should_drop_split_tx(s.f, FALSE)
  <2>1. c = close_file(s, drop)
    BY <1>7, Zenon DEF close_if_necessary
  <2>2. UnitOf(s.f.open_time) < UnitOf(clock)
    <3>1. s.f.open_time + Second <= clock
      BY <1>1, <1>7, Numbers DEF OverIdle, Duration
    <3> QED
      BY <1>1, <1>7, <3>1, AtFacts
  <2>3. drop \in BOOLEAN
    BY DEF should_drop_split_tx
  <2>4. drop /\ ~intr => WholeFile([file |-> s.f.batches, transmission |-> s.f.transmission])
    BY <1>7, DropsWhole
  <2> HIDE DEF drop
  <2>5. Sound(close_file(s, drop), clock, intr) /\ ~close_file(s, drop).f.file
    BY <1>7, <2>2, <2>3, <2>4, CloseOld
  <2>6. ~close_file(s, drop).maxTime
    BY <1>1, <1>7, <2>3, ClosedFields
  <2> QED
    BY <2>1, <2>5, <2>6
<1>8. CASE s.f.file /\ mode.split /\ ~OnlyMaxTime(s.f) /\ ~OverIdle(s.f)
  <2>1. c = s
    BY <1>8, Zenon DEF close_if_necessary
  <2> QED
    BY <1>8, <2>1
<1> QED
  BY <1>4, <1>5, <1>6, <1>7, <1>8

-----------------------------------------------------------------------------
(***************************************************************************)
(* Opening and writing                                                     *)
(***************************************************************************)

LEMMA NewPartSound ==
  ASSUME mode \in FileModes, NEW intr \in BOOLEAN, NEW c, Sound(c, clock, intr), ~c.f.file
  PROVE  LET n == NewPart(c) IN
         /\ Sound(n, clock, intr) /\ ~n.f.file /\ n.maxTime = c.maxTime /\ n.disk = c.disk /\ n.lost = c.lost
         /\ n.f.open_time = clock /\ n.f.last_write = clock
         /\ c.maxTime => n.f.tx_start = c.f.tx_start
         /\ ~c.maxTime => n.f.tx_start = clock /\ n.f.transmission = {}
<1> DEFINE t == IF c.maxTime THEN c.f.tx_start ELSE clock
           m == IF c.maxTime THEN c.f.transmission ELSE {}
           g == [c.f EXCEPT !.tx_start = t, !.open_time = clock, !.last_write = clock, !.transmission = m]
           n == [c EXCEPT !.f = g]
<1>1. NewPart(c) = n
  BY DEF NewPart
<1>2. /\ c \in Worlds /\ c.f \in FileStates /\ clock \in Nat /\ c.f.tx_start \in Nat /\ c.f.tx_start <= clock
      /\ c.f.transmission \in SUBSET Nat
  BY WorldFields, Numbers DEF Sound, Times
<1>3. t \in Nat /\ t <= clock /\ m \in SUBSET Nat
  BY <1>2
<1>4. (c.maxTime => t = c.f.tx_start) /\ (~c.maxTime => t = clock /\ m = {})
  OBVIOUS
<1> HIDE DEF t, m
<1>5. g \in FileStates
  BY <1>2, <1>3, FileUpdates
<1>6. g.file = c.f.file /\ g.tx_start = t /\ g.open_time = clock /\ g.last_write = clock /\ g.transmission = m
  BY <1>2 DEF FileStates
<1> HIDE DEF g
<1>7. n.f = g /\ n.maxTime = c.maxTime /\ n.disk = c.disk /\ n.lost = c.lost
  BY <1>2 DEF Worlds
<1>8. Sound(n, clock, intr)
  BY <1>2, <1>3, <1>5, <1>6, OtherFile
<1> HIDE DEF n
<1> QED
  BY <1>1, <1>4, <1>6, <1>7, <1>8

\* A new file has its name for itself: without an interruption nothing has that name yet.
LEMMA OpenNewSound ==
  ASSUME mode \in FileModes, NEW intr \in BOOLEAN, NEW c, Sound(c, clock, intr), ~c.f.file,
         c.maxTime => mode.split /\ c.f.tx_start + Second <= clock
  PROVE  LET o == OpenNew(c) IN Sound(o, clock, intr) /\ o.f.file /\ o.f.path.at = UnitOf(clock)
<1> DEFINE n == NewPart(c)
           tx == IF mode.txName /\ c.maxTime THEN n.f.tx_start \div Second ELSE -1
           name == [tx |-> tx, at |-> UnitOf(clock)]
           b == IF mode.append THEN Under(name, n.disk) ELSE {}
           l == IF mode.append THEN n.lost ELSE n.lost \union Under(name, n.disk)
           d == Without(n.disk, name)
           g == [n.f EXCEPT !.file = TRUE, !.path = name, !.batches = b]
           o == [n EXCEPT !.f = g, !.disk = d, !.lost = l]
<1>1. OpenNew(c) = o
  BY AtFacts, Zenon DEF OpenNew, open_file
<1>2. /\ Sound(n, clock, intr) /\ ~n.f.file /\ n.disk = c.disk /\ n.lost = c.lost
      /\ n.f.open_time = clock /\ n.f.last_write = clock
      /\ c.maxTime => n.f.tx_start = c.f.tx_start
      /\ ~c.maxTime => n.f.tx_start = clock /\ n.f.transmission = {}
  BY NewPartSound
<1> HIDE DEF n
<1>3. /\ n \in Worlds /\ n.f \in FileStates /\ n.disk \in Disks /\ n.lost \in SUBSET Nat /\ clock \in 0 .. LastTick
      /\ n.f.tx_start \in Nat /\ n.f.tx_start <= clock
  BY <1>2, WorldFields DEF Sound, Times
<1>4. UnitOf(clock) \in 0 .. LastTick
  BY <1>3, AtFacts, Numbers
<1>5. tx \in -1 .. LastTick /\ tx < UnitOf(clock)
  <2>1. CASE mode.txName /\ c.maxTime
    <3>1. tx = UnitOf(n.f.tx_start) /\ n.f.tx_start + Second <= clock /\ mode.split
      BY <1>2, <1>3, <2>1, AtFacts
    <3>2. UnitOf(n.f.tx_start) \in Nat /\ UnitOf(n.f.tx_start) < UnitOf(clock)
      BY <1>3, <3>1, AtFacts, Numbers
    <3> QED
      BY <1>4, <3>1, <3>2, Numbers
  <2>2. CASE ~(mode.txName /\ c.maxTime)
    BY <1>4, <2>2, Numbers
  <2> QED
    BY <2>1, <2>2
<1> HIDE DEF tx
<1>6. name \in Paths /\ name.at = UnitOf(clock) /\ name.tx = tx
  BY <1>4, <1>5 DEF Paths
<1> HIDE DEF name
<1>7. Under(name, n.disk) \in SUBSET Nat /\ d \in Disks
  BY <1>3, UnderFacts, WithoutFacts
<1>8. b \in SUBSET Nat /\ l \in SUBSET Nat
  BY <1>3, <1>7
<1>9. \A p \in DOMAIN n.disk : Past(p, clock)
  BY <1>2 DEF Sound, NameInv
<1>10. ~intr => /\ name \notin DOMAIN n.disk /\ \A p \in DOMAIN n.disk : p.at < UnitOf(clock)
  BY <1>2, <1>4, <1>6 DEF Sound, FreshInv
<1>11. ~intr => b = {} /\ l = n.lost
  BY <1>3, <1>10, UnderFacts
<1>12. mode.append => l = n.lost
  OBVIOUS
<1>13. b = {} \/ (name \in DOMAIN n.disk /\ b = n.disk[name])
  BY <1>3, UnderFacts
<1>14. DOMAIN d = DOMAIN n.disk \ {name} /\ \A q \in DOMAIN d : d[q] = n.disk[q]
  BY ZenonT(30), <1>3, WithoutFacts
<1> HIDE DEF b, l, d
<1>15. g \in FileStates
  BY <1>3, <1>6, <1>8, FileUpdates
<1>16. /\ g.file = TRUE /\ g.path = name /\ g.batches = b /\ g.tx_start = n.f.tx_start /\ g.open_time = clock
       /\ g.last_write = clock /\ g.transmission = n.f.transmission
  BY <1>2, <1>3 DEF FileStates
<1> HIDE DEF g
<1>17. o \in Worlds
  BY <1>3, <1>7, <1>8, <1>15, WorldUpdates
<1>18. o.f = g /\ o.disk = d /\ o.lost = l /\ o.dropped = n.dropped
  BY <1>3 DEF Worlds
<1> HIDE DEF o
<1>19. Times(o, clock)
  BY <1>3, <1>16, <1>18, Numbers DEF Times
<1>20. NameInv(o, clock)
  <2>1. Past(name, clock)
    BY <1>5, <1>6 DEF Past
  <2> QED
    BY <1>6, <1>9, <1>14, <1>16, <1>18, <2>1 DEF NameInv
<1>21. FreshInv(o, clock, intr)
  BY <1>6, <1>10, <1>14, <1>16, <1>18 DEF FreshInv
<1>22. LostInv(o, intr) /\ DropInv(o, intr)
  BY <1>2, <1>11, <1>12, <1>18 DEF Sound, LostInv, DropInv
<1>23. FirstInv(o, intr)
  <2>1. ~intr /\ FirstFile(g) => g.batches = g.transmission
    <3> SUFFICES ASSUME ~intr, FirstFile(g) PROVE g.batches = g.transmission
      OBVIOUS
    <3>1. n.f.tx_start = clock
      BY <1>16 DEF FirstFile
    <3>2. ~c.maxTime
      BY <1>2, <1>3, <3>1, Numbers
    <3> QED
      BY <1>2, <1>11, <1>16, <3>2
  <2> QED
    BY <1>11, <1>16, <1>18, <2>1 DEF FirstInv
<1>24. HourInv(o)
  BY <1>2, <1>6, <1>13, <1>14, <1>16, <1>18 DEF Sound, HourInv
<1>25. Sound(o, clock, intr)
  BY <1>3, <1>17, <1>19, <1>20, <1>21, <1>22, <1>23, <1>24 DEF Sound
<1> QED
  BY <1>1, <1>6, <1>16, <1>18, <1>25

LEMMA ReadySound ==
  ASSUME mode \in FileModes, NEW intr \in BOOLEAN, NEW s, Sound(s, clock, intr), ~s.maxTime
  PROVE  LET o == output_file_ready(s) IN
         Sound(o, clock, intr) /\ o.f.file /\ (~mode.split => o.f.path.at = UnitOf(clock))
<1> DEFINE reopening == TRUE
           c == close_if_necessary(s, reopening)
<1>1. reopening \in BOOLEAN
  OBVIOUS
<1>2. output_file_ready(s) = IF c.f.file THEN c ELSE OpenNew(c)
  BY DEF output_file_ready
<1> HIDE DEF reopening
<1>3. /\ Sound(c, clock, intr)
      /\ c.maxTime => mode.split /\ ~c.f.file /\ c.f.tx_start + Second <= clock
      /\ c.f.file /\ ~mode.split => c.f.path.at = UnitOf(clock)
  BY <1>1, CloseIfNecessary
<1> HIDE DEF c
<1>4. CASE c.f.file
  BY <1>2, <1>3, <1>4
<1>5. CASE ~c.f.file
  <2>1. Sound(OpenNew(c), clock, intr) /\ OpenNew(c).f.file /\ OpenNew(c).f.path.at = UnitOf(clock)
    BY <1>3, <1>5, OpenNewSound
  <2> QED
    BY <1>2, <1>5, <2>1
<1> QED
  BY <1>4, <1>5

LEMMA WrittenSound ==
  ASSUME mode \in FileModes, NEW intr \in BOOLEAN, NEW s, Sound(s, clock, intr), s.f.file,
         ~mode.split => s.f.path.at = UnitOf(clock), NEW hasSignal \in BOOLEAN
  PROVE  Sound(Written(s, hasSignal), clock, intr)
<1> DEFINE b == s.f.batches \union {clock}
           m == s.f.transmission \union {clock}
           g == [s.f EXCEPT !.batches = b, !.transmission = m, !.last_write = clock, !.active = hasSignal]
           w == [s EXCEPT !.f = g]
<1>1. Written(s, hasSignal) = w
  BY DEF Written
<1>2. /\ s \in Worlds /\ s.f \in FileStates /\ clock \in Nat /\ s.f.batches \in SUBSET Nat
      /\ s.f.transmission \in SUBSET Nat /\ s.f.open_time \in Nat /\ s.f.last_write \in Nat
      /\ s.f.tx_start <= s.f.open_time /\ s.f.open_time <= clock /\ s.f.last_write <= clock
  BY WorldFields, Numbers DEF Sound, Times
<1>3. b \in SUBSET Nat /\ m \in SUBSET Nat
  BY <1>2
<1>4. \A a \in b : a \in s.f.batches \/ a = clock
  OBVIOUS
<1>5. s.f.batches = s.f.transmission => b = m
  OBVIOUS
<1> HIDE DEF b, m
<1>6. g \in FileStates
  BY <1>2, <1>3, FileUpdates
<1>7. /\ g.file = s.f.file /\ g.path = s.f.path /\ g.batches = b /\ g.transmission = m /\ g.tx_start = s.f.tx_start
      /\ g.open_time = s.f.open_time /\ g.last_write = clock
  BY <1>2 DEF FileStates
<1> HIDE DEF g
<1>8. w \in Worlds /\ w.f = g /\ w.disk = s.disk /\ w.dropped = s.dropped /\ w.lost = s.lost
  BY <1>2, <1>6, WorldUpdates DEF Worlds
<1> HIDE DEF w
<1>9. Times(w, clock)
  BY <1>2, <1>7, <1>8 DEF Times
<1>10. NameInv(w, clock) /\ FreshInv(w, clock, intr)
  BY <1>7, <1>8 DEF Sound, NameInv, FreshInv
<1>11. LostInv(w, intr) /\ DropInv(w, intr)
  BY <1>8 DEF Sound, LostInv, DropInv
<1>12. FirstInv(w, intr)
  <2> SUFFICES ASSUME ~intr
               PROVE  /\ \A a \in b : s.f.open_time <= a /\ a <= clock
                      /\ FirstFile(w.f) => b = m
    BY <1>7, <1>8 DEF FirstInv
  <2>1. /\ \A a \in s.f.batches : s.f.open_time <= a /\ a <= s.f.last_write
        /\ FirstFile(s.f) => s.f.batches = s.f.transmission
    BY DEF Sound, FirstInv
  <2>2. FirstFile(w.f) => FirstFile(s.f)
    BY <1>7, <1>8 DEF FirstFile
  <2>3. \A a \in b : s.f.open_time <= a /\ a <= clock
    BY <1>2, <1>4, <2>1
  <2> QED
    BY <1>5, <2>1, <2>2, <2>3
<1>13. HourInv(w)
  BY <1>4, <1>7, <1>8 DEF Sound, HourInv
<1>14. Sound(w, clock, intr)
  BY <1>8, <1>9, <1>10, <1>11, <1>12, <1>13 DEF Sound
<1> QED
  BY <1>1, <1>14

\* After a failed write or a disabling the file is closed whatever its time; nothing is promised then
\* of the file that is closed but that its name is not a later file's.
LEMMA ClosedAnyTime ==
  ASSUME mode \in FileModes, NEW intr \in BOOLEAN, NEW s, Sound(s, clock, intr)
  PROVE  Sound(close_file(s, FALSE), clock, TRUE) /\ ~close_file(s, FALSE).f.file
<1> DEFINE i == TRUE
           drop == FALSE
<1>1. i \in BOOLEAN /\ drop \in BOOLEAN /\ i /\ ~drop
  OBVIOUS
<1>2. Sound(s, clock, i)
  BY Interrupted
<1> HIDE DEF i, drop
<1>3. s \in Worlds /\ clock \in 0 .. LastTick /\ Times(s, clock) /\ LostInv(s, i) /\ DropInv(s, i) /\ HourInv(s)
  BY <1>2 DEF Sound
<1>4. CASE ~s.f.file
  <2>1. close_file(s, drop) = s
    BY <1>4 DEF close_file
  <2> QED
    BY <1>2, <1>4, <2>1 DEF i, drop
<1>5. CASE s.f.file
  <2>1. Past(s.f.path, clock) /\ \A p \in DOMAIN s.disk : Past(p, clock) /\ p # s.f.path
    BY <1>2, <1>5 DEF Sound, NameInv
  <2>2. Sound(close_file(s, drop), clock, i) /\ ~close_file(s, drop).f.file
    BY <1>1, <1>3, <1>5, <2>1, CloseSound
  <2> QED
    BY <2>2 DEF i, drop
<1> QED
  BY <1>4, <1>5

-----------------------------------------------------------------------------
(***************************************************************************)
(* The steps                                                               *)
(***************************************************************************)

\* The world a step leaves is the one the functions return, and the settings stay.
LEMMA Primed ==
  ASSUME mode' = mode, NEW STATE x, Sound(x, clock', interrupted'), Becomes(x)
  PROVE  Sound(World, clock, interrupted)'
<1>1. x \in Worlds
  BY DEF Sound
<1>2. World' \in Worlds /\ World'.f = x.f /\ World'.disk = x.disk /\ World'.dropped = x.dropped /\ World'.lost = x.lost
  BY <1>1 DEF World, Worlds, Becomes
<1>3. Sound(World', clock', interrupted')
  BY <1>2, SameWorld
<1>4. Unit' = Unit
  BY DEF Unit
<1>5. (Times(World, clock) /\ NameInv(World, clock))'
  <2>1. Times(World', clock') /\ NameInv(World', clock')
    BY <1>3 DEF Sound
  <2> QED
    BY <1>4, <2>1 DEF Times, NameInv, Past, UnitOf
<1>6. FreshInv(World, clock, interrupted)'
  <2>1. FreshInv(World', clock', interrupted')
    BY <1>3 DEF Sound
  <2> QED
    BY <1>4, <2>1 DEF FreshInv, UnitOf
<1>7. (LostInv(World, interrupted) /\ DropInv(World, interrupted))'
  <2>1. LostInv(World', interrupted') /\ DropInv(World', interrupted')
    BY <1>3 DEF Sound
  <2> QED
    BY <2>1 DEF LostInv, DropInv, WholeFile
<1>8. FirstInv(World, interrupted)'
  <2>1. FirstInv(World', interrupted')
    BY <1>3 DEF Sound
  <2> QED
    BY <2>1 DEF FirstInv, FirstFile
<1>9. HourInv(World)'
  <2>1. HourInv(World')
    BY <1>3 DEF Sound
  <2> QED
    BY <1>4, <2>1 DEF HourInv, UnitOf
<1>10. (World \in Worlds /\ clock \in 0 .. LastTick)'
  BY <1>3 DEF Sound, Worlds, Disks, FileStates, Paths
<1> QED
  BY <1>5, <1>6, <1>7, <1>8, <1>9, <1>10 DEF Sound

\* The clock moves on after what a tick does.
LEMMA Ticked ==
  ASSUME FInv, Tick, NEW STATE x, Becomes(x), NEW intr \in BOOLEAN, Sound(x, clock, intr),
         interrupted' = intr, outputOn' \in BOOLEAN
  PROVE  FInv'
<1>1. clock \in Nat /\ clock' \in 0 .. LastTick /\ clock <= clock' /\ mode' = mode /\ mode \in FileModes
  BY Numbers DEF FInv, Sound, Tick
<1>2. Sound(x, clock', interrupted')
  <2> DEFINE t == clock'
  <2>1. t \in 0 .. LastTick /\ clock <= t
    BY <1>1
  <2> HIDE DEF t
  <2>2. Sound(x, t, intr)
    BY <1>1, <2>1, SoundLater
  <2> QED
    BY <2>2 DEF t
<1>3. Sound(World, clock, interrupted)'
  BY <1>1, <1>2, Primed
<1> QED
  BY <1>1, <1>3 DEF FInv

LEMMA WorldNow ==
  World.maxTime = FALSE /\ World.f = fdata /\ World.disk = disk /\ World.dropped = dropped /\ World.lost = lost
  BY DEF World

LEMMA FInitial ==
  FileInit => FInv
<1> SUFFICES ASSUME FileInit PROVE FInv
  OBVIOUS
<1>1. mode \in FileModes /\ clock = 0 /\ 0 \in Nat /\ 0 \in 0 .. LastTick
  BY Numbers DEF FileInit
<1>2. UnitOf(0) = 0
  <2>1. UnitOf(0) \in Nat /\ UnitOf(0) <= 0
    BY <1>1, AtFacts
  <2> QED
    BY <2>1
<1>3. Path(-1, 0) = [tx |-> -1, at |-> 0]
  BY <1>1, <1>2, AtFacts
<1>4. Path(-1, 0) \in Paths
  BY <1>3, Numbers DEF Paths
<1>5. World.f \in FileStates
  BY <1>4, WorldNow DEF FileInit, Closed, FileStates
<1>6. World.disk \in Disks /\ DOMAIN World.disk = {}
  <2>1. World.disk = [p \in {} |-> {}]
    BY WorldNow DEF FileInit
  <2>2. [p \in {} |-> {}] \in [{} -> SUBSET Nat]
    OBVIOUS
  <2>3. {} \in SUBSET Paths
    OBVIOUS
  <2> QED
    BY <2>1, <2>2, <2>3 DEF Disks
<1>7. World \in Worlds
  BY <1>5, <1>6, WorldNow DEF FileInit, World, Worlds
<1>8. /\ World.f.file = FALSE /\ World.f.tx_start = 0 /\ World.f.open_time = 0 /\ World.f.last_write = 0
      /\ World.lost = {} /\ World.dropped = {}
  BY WorldNow DEF FileInit, Closed
<1>9. Times(World, clock) /\ NameInv(World, clock) /\ FreshInv(World, clock, interrupted)
  BY <1>1, <1>6, <1>8 DEF Times, NameInv, FreshInv
<1>10. LostInv(World, interrupted) /\ DropInv(World, interrupted) /\ FirstInv(World, interrupted) /\ HourInv(World)
  BY <1>6, <1>8 DEF LostInv, DropInv, FirstInv, HourInv
<1> QED
  BY <1>1, <1>7, <1>9, <1>10 DEF FInv, Sound, FileInit

LEMMA FPreserved ==
  FInv /\ [FileNext]_fileVars => FInv'
<1> SUFFICES ASSUME FInv, [FileNext]_fileVars PROVE FInv'
  OBVIOUS
<1>1. /\ mode \in FileModes /\ interrupted \in BOOLEAN /\ outputOn \in BOOLEAN /\ Sound(World, clock, interrupted)
      /\ ~World.maxTime
  BY WorldNow DEF FInv
<1>2. ASSUME NEW hasSignal \in BOOLEAN, QuietBatch(hasSignal) PROVE FInv'
  <2> DEFINE reopening == FALSE
             x == close_if_necessary(World, reopening)
  <2>1. Tick /\ Becomes(x) /\ interrupted' = interrupted /\ outputOn' = outputOn
    BY <1>2 DEF QuietBatch
  <2>2. reopening \in BOOLEAN
    OBVIOUS
  <2> HIDE DEF reopening
  <2>3. Sound(x, clock, interrupted)
    BY <1>1, <2>2, CloseIfNecessary
  <2> HIDE DEF x
  <2> QED
    BY <1>1, <2>1, <2>3, Ticked
<1>3. ASSUME NEW hasSignal \in BOOLEAN, WriteBatchTo(hasSignal) PROVE FInv'
  <2> DEFINE o == output_file_ready(World)
             x == Written(o, hasSignal)
  <2>1. Tick /\ Becomes(x) /\ interrupted' = interrupted /\ outputOn' = outputOn
    BY <1>3 DEF WriteBatchTo
  <2>2. Sound(o, clock, interrupted) /\ o.f.file /\ (~mode.split => o.f.path.at = UnitOf(clock))
    BY <1>1, ReadySound
  <2> HIDE DEF o
  <2>3. Sound(x, clock, interrupted)
    BY <1>1, <2>2, WrittenSound
  <2> HIDE DEF x
  <2> QED
    BY <1>1, <2>1, <2>3, Ticked
<1>4. ASSUME NEW hasSignal \in BOOLEAN, NothingEncoded(hasSignal) PROVE FInv'
  <2> DEFINE x == output_file_ready(World)
  <2>1. Tick /\ Becomes(x) /\ interrupted' = interrupted /\ outputOn' = outputOn
    BY <1>4 DEF NothingEncoded
  <2>2. Sound(x, clock, interrupted)
    BY <1>1, ReadySound
  <2> HIDE DEF x
  <2> QED
    BY <1>1, <2>1, <2>2, Ticked
<1>5. ASSUME NEW hasSignal \in BOOLEAN, WriteFails(hasSignal) PROVE FInv'
  <2> DEFINE o == output_file_ready(World)
             c == close_file(o, FALSE)
             g == [c.f EXCEPT !.active = hasSignal, !.last_write = clock]
             x == [c EXCEPT !.f = g]
             intr == TRUE
  <2>1. Tick /\ Becomes(x) /\ interrupted' = intr /\ outputOn' \in BOOLEAN /\ intr \in BOOLEAN
    BY <1>5 DEF WriteFails
  <2>2. Sound(o, clock, interrupted)
    BY <1>1, ReadySound
  <2> HIDE DEF o
  <2>3. Sound(c, clock, intr) /\ ~c.f.file
    BY <1>1, <2>2, ClosedAnyTime
  <2> HIDE DEF c, intr
  <2>4. c.f \in FileStates /\ clock \in Nat /\ c.f.tx_start <= c.f.open_time /\ c.f.open_time <= clock
        /\ c.f.open_time \in Nat /\ c.f.last_write \in Nat
    BY <2>3, WorldFields, Numbers DEF Sound, Times
  <2>5. g \in FileStates
    BY <2>4, FileUpdates
  <2>6. g.file = c.f.file /\ g.tx_start = c.f.tx_start /\ g.open_time = c.f.open_time /\ g.last_write = clock
    BY <2>4 DEF FileStates
  <2> HIDE DEF g
  <2>7. Sound(x, clock, intr)
    BY <2>3, <2>4, <2>5, <2>6, OtherFile
  <2> HIDE DEF x
  <2> QED
    BY <1>1, <2>1, <2>7, Ticked
<1>6. ASSUME NEW hasSignal \in BOOLEAN, OpenFails(hasSignal) PROVE FInv'
  <2> DEFINE reopening == TRUE
             c == close_if_necessary(World, reopening)
             x == NewPart(c)
             intr == TRUE
  <2>1. Tick /\ ~c.f.file /\ Becomes(x) /\ interrupted' = intr /\ outputOn' \in BOOLEAN /\ intr \in BOOLEAN
    BY <1>6 DEF OpenFails
  <2>2. reopening \in BOOLEAN
    OBVIOUS
  <2> HIDE DEF reopening
  <2>3. Sound(c, clock, interrupted)
    BY <1>1, <2>2, CloseIfNecessary
  <2> HIDE DEF c
  <2>4. Sound(x, clock, interrupted)
    BY <1>1, <2>1, <2>3, NewPartSound
  <2>5. Sound(x, clock, intr)
    BY <2>4, Interrupted
  <2> HIDE DEF x, intr
  <2> QED
    BY <1>1, <2>1, <2>5, Ticked
<1>7. CASE DisableFile
  <2> DEFINE x == close_file(World, FALSE)
  <2>1. Becomes(x) /\ interrupted' = TRUE /\ outputOn' \in BOOLEAN /\ mode' = mode /\ clock' = clock
    BY <1>7 DEF DisableFile
  <2>2. Sound(x, clock, TRUE)
    BY <1>1, ClosedAnyTime
  <2> HIDE DEF x
  <2>3. Sound(x, clock', interrupted')
    BY <2>1, <2>2
  <2>4. Sound(World, clock, interrupted)'
    BY <2>1, <2>3, Primed
  <2> QED
    BY <1>1, <2>1, <2>4 DEF FInv
<1>8. CASE EnableFile \/ UNCHANGED fileVars
  <2>1. Becomes(World) /\ interrupted' = interrupted /\ outputOn' \in BOOLEAN /\ mode' = mode /\ clock' = clock
    BY <1>1, <1>8, WorldNow DEF EnableFile, fileVars, Becomes
  <2>2. Sound(World, clock', interrupted')
    BY <1>1, <2>1
  <2>3. Sound(World, clock, interrupted)'
    BY <2>1, <2>2, Primed
  <2> QED
    BY <1>1, <2>1, <2>3 DEF FInv
<1>9. CASE WhileOff
  <2>1. Tick /\ Becomes(World) /\ interrupted' = interrupted /\ outputOn' = outputOn
    BY <1>9, WorldNow DEF WhileOff, Becomes
  <2> QED
    BY <1>1, <2>1, Ticked
<1> QED
  BY <1>2, <1>3, <1>4, <1>5, <1>6, <1>7, <1>8, <1>9 DEF FileNext

-----------------------------------------------------------------------------

\* The inductive invariant, at every step of process_outputs().
THEOREM FilesInvariant == FileSafety => []FInv
<1> QED
  BY FInitial, FPreserved, PTL DEF FileSafety

\* Whatever the settings of a file output: no recorded batch is overwritten, a file is only deleted
\* with everything of a short transmission in it, and without split_on_transmission a file holds the
\* batches of one hour (close_if_necessary(), open_file() and close_file(), output.cpp).
THEOREM FilesStaySound == FileSafety => []FilesSound
<1>1. FInv => FilesSound
  <2> SUFFICES ASSUME FInv PROVE FilesSound
    OBVIOUS
  <2>1. mode \in FileModes /\ Sound(World, clock, interrupted)
    BY DEF FInv
  <2>2. DropsWholeTransmission
    BY <2>1, WorldNow DEF Sound, DropInv, WholeFile, DropsWholeTransmission
  <2>3. NothingOverwritten
    BY <2>1, WorldNow DEF Sound, LostInv, NothingOverwritten
  <2>4. HoursSeparate
    <3> SUFFICES ASSUME ~mode.split, NEW p \in DOMAIN disk, NEW b \in disk[p] PROVE b \div Hour = p.at
      BY DEF HoursSeparate
    <3>1. UnitOf(b) = p.at
      BY <2>1, WorldNow DEF Sound, HourInv
    <3>2. b \in Nat
      BY <2>1, WorldNow, WorldFields, DiskFacts DEF Sound
    <3> QED
      BY <2>1, <3>1, <3>2, AtFacts
  <2> QED
    BY <2>2, <2>3, <2>4 DEF FilesSound
<1> QED
  BY <1>1, FilesInvariant, PTL

\* The names of files, and the times of the open one in their order.
THEOREM FileTypeCorrect == FileSafety => []FileTypeOK
<1>1. FInv => FileTypeOK
  <2> SUFFICES ASSUME FInv PROVE FileTypeOK
    OBVIOUS
  <2>1. mode \in FileModes /\ outputOn \in BOOLEAN /\ Sound(World, clock, interrupted)
    BY DEF FInv
  <2>2. World \in Worlds /\ clock \in 0 .. LastTick /\ Times(World, clock)
    BY <2>1 DEF Sound
  <2>3. fdata.path \in Paths /\ DOMAIN disk \subseteq Paths /\ fdata.open_time \in Nat /\ fdata.last_write \in Nat
    BY <2>2, WorldNow, WorldFields, DiskFacts
  <2> QED
    BY <2>1, <2>2, <2>3, WorldNow, Numbers DEF FileTypeOK, Times
<1> QED
  BY <1>1, FilesInvariant, PTL

-----------------------------------------------------------------------------
(***************************************************************************)
(* Streams: the two threads that share one icecast connection without a    *)
(* lock, the titles that are delayed, coalesced and sent by a worker, and  *)
(* the ring of a scan's frequency tags with its overrun.                   *)
(***************************************************************************)

-----------------------------------------------------------------------------
(***************************************************************************)
(* Icecast                                                                 *)
(***************************************************************************)

\* Where the two threads are, after a step of one of them.
LEMMA Goes ==
  ASSUME IceTypeOK, NEW t \in Parties, NEW pc \in Places, Go(t, pc)
  PROVE  /\ at' \in [Parties -> [pc : Places, conn : 0 .. opened]]
         /\ at'[t] = [pc |-> pc, conn |-> 0] /\ \A u \in Parties \ {t} : at'[u] = at[u]
BY DEF IceTypeOK, Go, Null

LEMMA StreamStart == IceInit => IceTypeOK
<1> SUFFICES ASSUME IceInit PROVE IceTypeOK
  OBVIOUS
<1>1. shout \in 0 .. opened /\ opened \in Nat /\ unclosed = 1 .. opened /\ held = unclosed /\ freed = {}
  BY DEF IceInit, Null
<1>2. at \in [Parties -> [pc : Places, conn : 0 .. opened]]
  BY <1>1 DEF IceInit, Null, Places
<1> QED
  BY <1>1, <1>2 DEF IceInit, IceTypeOK

\* The types.
LEMMA StreamTypesKept == IceTypeOK /\ [IceNext]_iceVars => IceTypeOK'
<1> SUFFICES ASSUME IceTypeOK, [IceNext]_iceVars PROVE IceTypeOK'
  OBVIOUS
<1>types. /\ shout \in 0 .. opened /\ opened \in Nat /\ overlaps \in Nat
          /\ unclosed \subseteq 1 .. opened /\ freed \subseteq 1 .. opened /\ held \subseteq 1 .. opened
          /\ at \in [Parties -> [pc : Places, conn : 0 .. opened]]
          /\ streaming \in BOOLEAN /\ tornUse \in BOOLEAN /\ radio \in {"RUNNING", "FAILED", "DISABLED"}
  BY DEF IceTypeOK
<1>parties. "sender" \in Parties /\ "checker" \in Parties
  BY DEF Parties
<1>places. {"idle", "send", "look", "opening", "store", "close", "free", "null"} \subseteq Places
  BY DEF Places
<1>go. ASSUME NEW t \in Parties, NEW pc \in Places, Go(t, pc), opened' = opened
       PROVE  at' \in [Parties -> [pc : Places, conn : 0 .. opened']]
  BY <1>go, Goes
<1>null. 0 \in 0 .. opened
  BY <1>types
<1>1. ASSUME NEW t \in Parties, Connection(t) PROVE IceTypeOK'
  <2>1. CASE Accepted(t)
    <3>1. /\ opened' = opened + 1 /\ held' = {opened'} /\ unclosed' = unclosed \union {opened'}
          /\ at' = [at EXCEPT ![t] = [pc |-> "store", conn |-> opened']]
          /\ UNCHANGED <<shout, freed, streaming, radio, tornUse, overlaps>>
      BY <2>1 DEF Accepted
    <3>2. opened' \in Nat /\ opened' \in 0 .. opened' /\ opened' \in 1 .. opened' /\ \A k \in 0 .. opened : k \in 0 .. opened'
      BY <3>1, <1>types
    <3>3. \A k \in 1 .. opened : k \in 1 .. opened'
      BY <3>1, <1>types
    <3>4. at' \in [Parties -> [pc : Places, conn : 0 .. opened']]
      <4>1. at \in [Parties -> [pc : Places, conn : 0 .. opened']]
        BY <3>2, <1>types
      <4>2. [pc |-> "store", conn |-> opened'] \in [pc : Places, conn : 0 .. opened']
        BY <3>2, <1>places
      <4> QED
        BY <3>1, <4>1, <4>2
    <3> QED
      BY <3>1, <3>2, <3>3, <3>4, <1>types DEF IceTypeOK
  <2>2. CASE Refused(t)
    BY <2>2, <1>types, <1>places, <1>go DEF Refused, IceTypeOK
  <2>3. CASE Stores(t)
    <3>1. at[t].conn \in 0 .. opened /\ overlaps' \in Nat
      BY <2>3, <1>types DEF Stores
    <3> QED
      BY <2>3, <3>1, <1>types, <1>places, <1>go DEF Stores, IceTypeOK
  <2>4. CASE Closes(t)
    BY <2>4, <1>types, <1>places, <1>go DEF Closes, Touch, IceTypeOK
  <2>5. CASE Frees(t)
    <3>1. freed' \subseteq 1 .. opened
      BY <2>5, <1>types DEF Frees, Null
    <3> QED
      BY <2>5, <3>1, <1>types, <1>places, <1>go DEF Frees, Touch, IceTypeOK
  <2>6. CASE Forgets(t)
    BY <2>6, <1>types, <1>places, <1>go, <1>null DEF Forgets, Null, IceTypeOK
  <2> QED
    BY <1>1, <2>1, <2>2, <2>3, <2>4, <2>5, <2>6 DEF Connection
<1>2. CASE BeginSend
  BY <1>2, <1>types, <1>parties, <1>places, <1>go DEF BeginSend, IceTypeOK
<1>3. CASE SendSucceeds
  BY <1>3, <1>types, <1>parties, <1>places, <1>go DEF SendSucceeds, Touch, IceTypeOK
<1>4. CASE SendFails
  BY <1>4, <1>types, <1>parties, <1>places, <1>go DEF SendFails, Touch, IceTypeOK
<1>5. CASE Disable
  BY <1>5, <1>types, <1>parties, <1>places, <1>go DEF Disable, IceTypeOK
<1>6. CASE Enable
  BY <1>6, <1>types, <1>parties, <1>places, <1>go DEF Enable, IceTypeOK
<1>7. CASE CheckVisits
  BY <1>7, <1>types, <1>parties, <1>places, <1>go DEF CheckVisits, IceTypeOK
<1>8. CASE CheckLooks
  <2>1. \E pc \in Places : Go("checker", pc)
    BY <1>8, <1>places DEF CheckLooks, CheckReconnects, CheckDisconnects, CheckPasses
  <2> QED
    BY <1>8, <2>1, <1>types, <1>parties, <1>go DEF CheckLooks, IceTypeOK
<1>9. CASE ServerDropsIdle
  BY <1>9, <1>types DEF ServerDropsIdle, IceTypeOK
<1>10. CASE ServerDropsFed
  BY <1>10, <1>types DEF ServerDropsFed, IceTypeOK
<1>11. CASE RadioFails
  BY <1>11, <1>types DEF RadioFails, IceTypeOK
<1>12. CASE DemodFolds
  BY <1>12, <1>types DEF DemodFolds, IceTypeOK
<1>13. CASE UNCHANGED iceVars
  BY <1>13, <1>types DEF iceVars, IceTypeOK
<1> QED
  BY <1>1, <1>2, <1>3, <1>4, <1>5, <1>6, <1>7, <1>8, <1>9, <1>10, <1>11, <1>12, <1>13, <1>parties
  DEF IceNext, Sender, Checker

\* The handle in icecast->shout: only the output thread closes it, between shout_free() and the
\* assignment it may name one that the checker has just stored; anywhere else it names an open one,
\* and a thread that sends or closes still finds one there.
HandleInv ==
  /\ ~tornUse /\ unclosed \intersect freed = {}
  /\ at["checker"].pc \in {"idle", "look", "opening", "store"}
  /\ shout \in freed => At("sender", "null")
  /\ at["sender"].pc \in {"send", "close", "free", "null"} => shout # Null
  /\ at["sender"].pc \notin {"free", "null"} /\ shout # Null => shout \in unclosed

\* The sender is about to forget a handle that the checker has stored after shout_close().
Racing == at["sender"].pc \in {"free", "null"} /\ shout \in unclosed

\* A thread that has connected a handle will store it; if both are opening none is stored yet.
OpeningInv ==
  /\ At("sender", "store") => at["sender"].conn \in unclosed /\ at["sender"].conn # shout
  /\ At("checker", "store") => at["checker"].conn \in unclosed /\ at["checker"].conn # shout
  /\ At("sender", "store") /\ At("checker", "store") => at["sender"].conn # at["checker"].conn
  /\ Opening("sender") /\ Opening("checker") => shout = Null
  /\ Racing => ~Opening("checker")

\* A handle is at stake: icecast->shout is about to be overwritten or forgotten.
AtStake == Racing \/ ((Opening("sender") \/ Opening("checker")) /\ shout # Null)
Stake == IF AtStake THEN 1 ELSE 0
LossInv == Cardinality(Strays) + Stake <= overlaps

HandedOver == HandleInv /\ OpeningInv /\ LossInv
StreamInv == IceTypeOK /\ (radio = "RUNNING" => HandedOver)

\* A handle that is named will be closed or stored.
Named(x) ==
  \/ x = shout
  \/ At("sender", "store") /\ x = at["sender"].conn
  \/ At("checker", "store") /\ x = at["checker"].conn

LEMMA StraysAre ==
  \A x : (x \in Strays <=> x \in unclosed /\ ~Named(x)) /\ (x \in Strays' <=> x \in unclosed' /\ ~Named(x)')
<1>1. \A x : x \in Pending <=> \/ At("sender", "store") /\ x = at["sender"].conn
                               \/ At("checker", "store") /\ x = at["checker"].conn
  BY DEF Pending, Parties
<1>2. \A x : x \in Pending' <=> \/ At("sender", "store")' /\ x = at["sender"].conn'
                                \/ At("checker", "store")' /\ x = at["checker"].conn'
  BY DEF Pending, Parties, At
<1> QED
  BY <1>1, <1>2 DEF Strays, Named

LEMMA StraysFinite == IceTypeOK => IsFiniteSet(Strays) /\ Cardinality(Strays) \in Nat
<1> SUFFICES ASSUME IceTypeOK PROVE IsFiniteSet(Strays) /\ Cardinality(Strays) \in Nat
  OBVIOUS
<1>1. Strays \subseteq 1 .. opened /\ opened \in Int /\ 1 \in Int
  <2>1. Strays \subseteq unclosed
    BY DEF Strays
  <2>2. unclosed \subseteq 1 .. opened /\ opened \in Nat
    BY DEF IceTypeOK
  <2> QED
    BY <2>1, <2>2
<1>2. IsFiniteSet(1 .. opened)
  BY <1>1, FS_Interval
<1> QED
  BY <1>1, <1>2, FS_Subset, FS_CardinalityType

\* A step that loses no handle.
LEMMA NoneLost ==
  ASSUME IceTypeOK, IceTypeOK', LossInv, Strays' \subseteq Strays, overlaps' >= overlaps,
         AtStake' => AtStake \/ overlaps' >= overlaps + 1
  PROVE  LossInv'
<1>1. Cardinality(Strays') <= Cardinality(Strays) /\ Cardinality(Strays) \in Nat /\ Cardinality(Strays') \in Nat
  <2>1. IsFiniteSet(Strays) /\ Cardinality(Strays) \in Nat
    BY StraysFinite
  <2> QED
    BY <2>1, FS_Subset, FS_CardinalityType
<1>2. overlaps \in Nat /\ overlaps' \in Nat
  BY DEF IceTypeOK
<1> QED
  BY <1>1, <1>2 DEF LossInv, Stake

\* A step that loses the handle that was at stake.
LEMMA OneLost ==
  ASSUME IceTypeOK, IceTypeOK', LossInv, NEW x, Strays' \subseteq Strays \union {x}, overlaps' >= overlaps, AtStake, ~AtStake'
  PROVE  LossInv'
<1>1. IsFiniteSet(Strays) /\ Cardinality(Strays) \in Nat
  BY StraysFinite
<1>2. IsFiniteSet(Strays \union {x}) /\ Cardinality(Strays \union {x}) <= Cardinality(Strays) + 1
  <2>1. /\ IsFiniteSet(Strays \union {x})
        /\ Cardinality(Strays \union {x}) = IF x \in Strays THEN Cardinality(Strays) ELSE Cardinality(Strays) + 1
    BY <1>1, FS_AddElement
  <2> QED
    BY <1>1, <2>1
<1>3. Cardinality(Strays') <= Cardinality(Strays) + 1 /\ Cardinality(Strays') \in Nat
  <2>1. Cardinality(Strays') <= Cardinality(Strays \union {x}) /\ IsFiniteSet(Strays')
    BY <1>2, FS_Subset
  <2> QED
    BY <1>1, <1>2, <2>1, FS_CardinalityType
<1>4. overlaps \in Nat /\ overlaps' \in Nat
  BY DEF IceTypeOK
<1> QED
  BY <1>1, <1>3, <1>4 DEF LossInv, Stake

LEMMA HandleStart == IceInit => HandedOver
<1> SUFFICES ASSUME IceInit PROVE HandedOver
  OBVIOUS
<1>1. /\ at["sender"].pc = "idle" /\ at["checker"].pc = "idle" /\ overlaps = 0 /\ tornUse = FALSE
      /\ freed = {} /\ unclosed = 1 .. shout /\ shout \in {0, 1}
  BY DEF IceInit, Parties, Null
<1>2. HandleInv /\ OpeningInv /\ ~AtStake
  BY <1>1 DEF HandleInv, OpeningInv, AtStake, Racing, Opening, At, Null
<1>3. Strays = {}
  <2>1. \A x \in 1 .. shout : x = shout
    BY <1>1
  <2> QED
    BY <1>1, <2>1 DEF Strays
<1>4. Cardinality(Strays) = 0
  BY <1>3, FS_EmptySet
<1> QED
  BY <1>1, <1>2, <1>4 DEF HandedOver, LossInv, Stake

\* Whichever of the two threads moves next, and whatever the server does meanwhile.
LEMMA HandOverKept == StreamInv /\ IceTypeOK' /\ [IceNext]_iceVars /\ radio' = "RUNNING" => HandedOver'
<1> SUFFICES ASSUME StreamInv, IceTypeOK', [IceNext]_iceVars, radio' = "RUNNING" PROVE HandedOver'
  OBVIOUS
<1>0. radio = "RUNNING"
  <2>1. \A t \in Parties : Connection(t) => UNCHANGED radio
    BY DEF Connection, Accepted, Refused, Stores, Closes, Frees, Forgets
  <2> QED
    BY <2>1 DEF IceNext, Sender, Checker, iceVars, BeginSend, SendSucceeds, SendFails, Disable, Enable, CheckVisits,
                CheckLooks, ServerDropsIdle, ServerDropsFed, RadioFails, DemodFolds, Parties
<1>types. /\ IceTypeOK /\ "sender" \in Parties /\ "checker" \in Parties /\ "sender" # "checker"
          /\ shout \in 0 .. opened /\ opened \in Nat /\ overlaps \in Nat
          /\ unclosed \subseteq 1 .. opened /\ freed \subseteq 1 .. opened
          /\ at \in [Parties -> [pc : Places, conn : 0 .. opened]] /\ tornUse \in BOOLEAN
  BY DEF StreamInv, IceTypeOK, Parties
<1>inv. HandleInv /\ OpeningInv /\ LossInv
  BY <1>0 DEF StreamInv, HandedOver
<1>places. {"idle", "send", "look", "opening", "store", "close", "free", "null"} \subseteq Places
  BY DEF Places
\* Only the thread that moves changes its place.
<1>sender. ASSUME NEW pc \in Places, Go("sender", pc)
           PROVE  at'["sender"].pc = pc /\ at'["sender"].conn = 0 /\ at'["checker"] = at["checker"]
  <2>1. at'["sender"] = [pc |-> pc, conn |-> 0] /\ at'["checker"] = at["checker"]
    BY <1>sender, <1>types, Goes
  <2> QED
    BY <2>1
<1>checker. ASSUME NEW pc \in Places, Go("checker", pc)
            PROVE  at'["checker"].pc = pc /\ at'["checker"].conn = 0 /\ at'["sender"] = at["sender"]
  <2>1. at'["checker"] = [pc |-> pc, conn |-> 0] /\ at'["sender"] = at["sender"]
    BY <1>checker, <1>types, Goes
  <2> QED
    BY <2>1
\* A step that loses nothing and puts nothing new at stake.
<1>kept. ASSUME HandleInv', OpeningInv', Strays' \subseteq Strays, overlaps' = overlaps, AtStake' => AtStake
         PROVE  HandedOver'
  BY <1>kept, <1>inv, <1>types, NoneLost DEF HandedOver
\* A step that neither stores, closes nor frees a handle.
<1>moves. ASSUME NEW p \in Parties, NEW pc \in Places, Go(p, pc), UNCHANGED <<shout, unclosed, freed, tornUse, overlaps>>,
                 at[p].pc # "store", pc \in {"idle", "look", "opening", "send", "close"},
                 p = "checker" => pc \in {"idle", "look", "opening"},
                 p = "sender" => at[p].pc \notin {"free", "null"},
                 pc = "opening" => Opening(p) \/ shout = 0,
                 pc \in {"send", "close"} => shout # 0
          PROVE  HandedOver'
  <2>1. /\ at'[p].pc = pc /\ \A u \in Parties \ {p} : at'[u] = at[u]
    <3>1. at'[p] = [pc |-> pc, conn |-> 0] /\ \A u \in Parties \ {p} : at'[u] = at[u]
      BY <1>moves, <1>types, Goes
    <3> QED
      BY <3>1
  <2>2. HandleInv'
    BY <1>moves, <2>1, <1>inv, <1>types DEF HandleInv, At, Null, Parties
  <2>3. OpeningInv'
    BY <1>moves, <2>1, <1>inv, <1>types DEF OpeningInv, HandleInv, Racing, Opening, At, Null, Parties
  <2>4. Strays' \subseteq Strays
    <3>1. \A x : Named(x) => Named(x)'
      BY <1>moves, <2>1, <1>types DEF Named, At, Parties
    <3> QED
      BY <1>moves, <3>1, StraysAre
  <2>5. AtStake' => AtStake
    BY <1>moves, <2>1, <1>inv, <1>types DEF HandleInv, AtStake, Racing, Opening, At, Null, Parties
  <2> QED
    BY <1>moves, <2>2, <2>3, <2>4, <2>5, <1>kept

\* The connection, as the output thread opens and closes it.
<1>1. CASE Connection("sender")
  <2>1. CASE Accepted("sender")
    <3>1. /\ At("sender", "opening") /\ opened' = opened + 1 /\ unclosed' = unclosed \union {opened'}
          /\ at' = [at EXCEPT !["sender"] = [pc |-> "store", conn |-> opened']]
          /\ UNCHANGED <<shout, freed, tornUse, overlaps>>
      BY <2>1 DEF Accepted
    <3>2. at'["sender"].pc = "store" /\ at'["sender"].conn = opened + 1 /\ at'["checker"] = at["checker"]
      BY <3>1, <1>types
    <3>3. opened + 1 \notin 0 .. opened /\ at["checker"].conn \in 0 .. opened
      BY <1>types
    <3>4. /\ opened + 1 \notin freed /\ opened + 1 # shout /\ opened + 1 # at["checker"].conn
          /\ \A x : x \in unclosed' <=> x \in unclosed \/ x = opened + 1
      BY <3>1, <3>3, <1>types
    <3>5. HandleInv'
      BY <3>1, <3>2, <3>4, <1>inv DEF HandleInv, At
    <3>6. OpeningInv'
      BY <3>1, <3>2, <3>4, <1>inv DEF OpeningInv, Racing, Opening, At
    <3>7. Strays' \subseteq Strays
      <4>1. \A x : Named(x) => Named(x)'
        BY <3>1, <3>2 DEF Named, At
      <4>2. \A x : x = opened + 1 => Named(x)'
        BY <3>2 DEF Named, At
      <4> QED
        BY <3>4, <4>1, <4>2, StraysAre
    <3>8. AtStake' => AtStake
      BY <3>1, <3>2, <3>4 DEF AtStake, Racing, Opening, At
    <3> QED
      BY <3>1, <3>5, <3>6, <3>7, <3>8, <1>kept
  <2>2. CASE Refused("sender")
    BY <2>2, <1>moves, <1>types, <1>places DEF Refused, At
  <2>3. CASE Stores("sender")
    <3>1. /\ At("sender", "store") /\ shout' = at["sender"].conn /\ UNCHANGED <<unclosed, freed, tornUse>>
          /\ overlaps' = overlaps + (IF Opening("checker") THEN 1 ELSE 0)
          /\ at'["sender"].pc = "idle" /\ at'["checker"] = at["checker"]
      BY <2>3, <1>sender, <1>places, <1>types DEF Stores, Parties
    <3>2. shout' \in unclosed /\ shout' \notin freed /\ shout' # 0 /\ shout' # shout
      BY <3>1, <1>inv, <1>types DEF OpeningInv, HandleInv
    <3>3. Opening("sender") /\ (Opening("checker") => shout = 0) /\ (shout # 0 => AtStake)
      BY <3>1, <1>inv DEF OpeningInv, Opening, At, AtStake, Null
    <3>4. HandleInv'
      BY <3>1, <3>2, <1>inv DEF HandleInv, At, Null
    <3>5. OpeningInv'
      BY <3>1, <3>2, <3>3, <1>inv, <1>types DEF OpeningInv, HandleInv, Racing, Opening, At, Null
    <3>6. \A x : Named(x) => Named(x)' \/ x = shout
      BY <3>1 DEF Named, At
    <3>7. overlaps' >= overlaps /\ (Opening("checker") => overlaps' = overlaps + 1)
      BY <3>1, <1>types
    <3>8. Strays' \subseteq Strays \union {shout}
      BY <3>1, <3>6, StraysAre
    <3>9. AtStake' => Opening("checker") \/ Racing'
      BY <3>1 DEF AtStake, Opening, At
    <3>10. Racing' => at["sender"].pc \in {"free", "null"} /\ shout \notin unclosed /\ shout # 0
      BY <3>1, <3>3, <1>inv DEF Racing, OpeningInv, HandleInv, Null, At, Opening
    <3>11. CASE shout \in unclosed
      <4>1. AtStake /\ ~AtStake'
        BY <3>3, <3>9, <3>10, <3>11, <1>types
      <4> QED
        BY <3>4, <3>5, <3>7, <3>8, <4>1, <1>inv, <1>types, OneLost DEF HandedOver
    <3>12. CASE shout \notin unclosed
      <4>1. Strays' \subseteq Strays
        BY <3>1, <3>8, <3>12, StraysAre
      <4>2. AtStake' => AtStake \/ overlaps' >= overlaps + 1
        BY <3>3, <3>7, <3>9, <3>10, <1>types
      <4> QED
        BY <3>4, <3>5, <3>7, <4>1, <4>2, <1>inv, <1>types, NoneLost DEF HandedOver
    <3> QED
      BY <3>11, <3>12
  <2>4. CASE Closes("sender")
    <3>1. /\ At("sender", "close") /\ unclosed' = unclosed \ {shout} /\ UNCHANGED <<shout, freed, overlaps>>
          /\ tornUse' = (tornUse \/ shout \in freed)
          /\ at'["sender"].pc = "free" /\ at'["checker"] = at["checker"]
      BY <2>4, <1>sender, <1>places DEF Closes, Touch
    <3>2. HandleInv'
      BY <3>1, <1>inv DEF HandleInv, At
    <3>3. OpeningInv'
      BY <3>1, <1>inv DEF OpeningInv, Racing, Opening, At
    <3>4. Strays' \subseteq Strays
      <4>1. \A x : Named(x) => Named(x)'
        BY <3>1 DEF Named, At
      <4> QED
        BY <3>1, <4>1, StraysAre
    <3>5. AtStake' => AtStake
      BY <3>1 DEF AtStake, Racing, Opening, At
    <3> QED
      BY <3>1, <3>2, <3>3, <3>4, <3>5, <1>kept
  <2>5. CASE Frees("sender")
    <3>1. /\ At("sender", "free") /\ UNCHANGED <<shout, unclosed, overlaps>>
          /\ freed' = freed \union ({shout} \ (unclosed \union {0})) /\ tornUse' = (tornUse \/ shout \in freed)
          /\ at'["sender"].pc = "null" /\ at'["checker"] = at["checker"]
      BY <2>5, <1>sender, <1>places DEF Frees, Touch, Null
    <3>2. HandleInv'
      BY <3>1, <1>inv DEF HandleInv, At
    <3>3. OpeningInv'
      BY <3>1, <1>inv DEF OpeningInv, Racing, Opening, At
    <3>4. Strays' \subseteq Strays
      <4>1. \A x : Named(x) => Named(x)'
        BY <3>1 DEF Named, At
      <4> QED
        BY <3>1, <4>1, StraysAre
    <3>5. AtStake' => AtStake
      BY <3>1 DEF AtStake, Racing, Opening, At
    <3> QED
      BY <3>1, <3>2, <3>3, <3>4, <3>5, <1>kept
  <2>6. CASE Forgets("sender")
    <3>1. /\ At("sender", "null") /\ shout' = 0 /\ UNCHANGED <<unclosed, freed, tornUse, overlaps>>
          /\ at'["sender"].pc = "idle" /\ at'["checker"] = at["checker"]
      BY <2>6, <1>sender, <1>places DEF Forgets, Null
    <3>2. 0 \notin unclosed /\ 0 \notin freed
      BY <1>types
    <3>3. HandleInv'
      BY <3>1, <3>2, <1>inv DEF HandleInv, At, Null
    <3>4. OpeningInv'
      BY <3>1, <3>2, <1>inv DEF OpeningInv, Racing, Opening, At, Null
    <3>5. Strays' \subseteq Strays \union {shout}
      <4>1. \A x : Named(x) => Named(x)' \/ x = shout
        BY <3>1 DEF Named, At
      <4> QED
        BY <3>1, <4>1, StraysAre
    <3>6. ~AtStake'
      BY <3>1 DEF AtStake, Racing, Opening, At, Null
    <3>7. CASE shout \in unclosed
      <4>1. AtStake /\ overlaps' >= overlaps
        BY <3>1, <3>7, <1>types DEF AtStake, Racing, At
      <4> QED
        BY <3>3, <3>4, <3>5, <3>6, <4>1, <1>inv, <1>types, OneLost DEF HandedOver
    <3>8. CASE shout \notin unclosed
      <4>1. Strays' \subseteq Strays
        BY <3>1, <3>5, <3>8, StraysAre
      <4> QED
        BY <3>1, <3>3, <3>4, <3>6, <4>1, <1>kept
    <3> QED
      BY <3>7, <3>8
  <2> QED
    BY <1>1, <2>1, <2>2, <2>3, <2>4, <2>5, <2>6 DEF Connection
\* The connection, as the checker opens and closes it.
<1>2. CASE Connection("checker")
  <2>1. CASE Accepted("checker")
    <3>1. /\ At("checker", "opening") /\ opened' = opened + 1 /\ unclosed' = unclosed \union {opened'}
          /\ at' = [at EXCEPT !["checker"] = [pc |-> "store", conn |-> opened']]
          /\ UNCHANGED <<shout, freed, tornUse, overlaps>>
      BY <2>1 DEF Accepted
    <3>2. at'["checker"].pc = "store" /\ at'["checker"].conn = opened + 1 /\ at'["sender"] = at["sender"]
      BY <3>1, <1>types
    <3>3. opened + 1 \notin 0 .. opened /\ at["sender"].conn \in 0 .. opened
      BY <1>types
    <3>4. /\ opened + 1 \notin freed /\ opened + 1 # shout /\ opened + 1 # at["sender"].conn
          /\ \A x : x \in unclosed' <=> x \in unclosed \/ x = opened + 1
      BY <3>1, <3>3, <1>types
    <3>5. HandleInv'
      BY <3>1, <3>2, <3>4, <1>inv DEF HandleInv, At
    <3>6. OpeningInv'
      BY <3>1, <3>2, <3>4, <1>inv DEF OpeningInv, Racing, Opening, At
    <3>7. Strays' \subseteq Strays
      <4>1. \A x : Named(x) => Named(x)'
        BY <3>1, <3>2 DEF Named, At
      <4>2. \A x : x = opened + 1 => Named(x)'
        BY <3>2 DEF Named, At
      <4> QED
        BY <3>4, <4>1, <4>2, StraysAre
    <3>8. AtStake' => AtStake
      BY <3>1, <3>2, <3>4 DEF AtStake, Racing, Opening, At
    <3> QED
      BY <3>1, <3>5, <3>6, <3>7, <3>8, <1>kept
  <2>2. CASE Refused("checker")
    BY <2>2, <1>moves, <1>types, <1>places DEF Refused, At
  <2>3. CASE Stores("checker")
    <3>1. /\ At("checker", "store") /\ shout' = at["checker"].conn /\ UNCHANGED <<unclosed, freed, tornUse>>
          /\ overlaps' = overlaps + (IF Opening("sender") THEN 1 ELSE 0)
          /\ at'["checker"].pc = "idle" /\ at'["sender"] = at["sender"]
      BY <2>3, <1>checker, <1>places, <1>types DEF Stores, Parties
    <3>2. shout' \in unclosed /\ shout' \notin freed /\ shout' # 0 /\ shout' # shout
      BY <3>1, <1>inv, <1>types DEF OpeningInv, HandleInv
    <3>3. Opening("checker") /\ (Opening("sender") => shout = 0) /\ (shout # 0 => AtStake)
      BY <3>1, <1>inv DEF OpeningInv, Opening, At, AtStake, Null
    <3>4. HandleInv'
      BY <3>1, <3>2, <1>inv DEF HandleInv, At, Null
    <3>5. OpeningInv'
      BY <3>1, <3>2, <3>3, <1>inv, <1>types DEF OpeningInv, HandleInv, Racing, Opening, At, Null
    <3>6. \A x : Named(x) => Named(x)' \/ x = shout
      BY <3>1 DEF Named, At
    <3>7. overlaps' >= overlaps /\ (Opening("sender") => overlaps' = overlaps + 1)
      BY <3>1, <1>types
    <3>8. Strays' \subseteq Strays \union {shout}
      BY <3>1, <3>6, StraysAre
    <3>9. AtStake' => Opening("sender") \/ Racing'
      BY <3>1 DEF AtStake, Opening, At
    <3>10. Racing' => at["sender"].pc \in {"free", "null"} /\ shout \notin unclosed /\ shout # 0
      BY <3>1, <3>3, <1>inv DEF Racing, OpeningInv, HandleInv, Null, At, Opening
    <3>11. CASE shout \in unclosed
      <4>1. AtStake /\ ~AtStake'
        BY <3>3, <3>9, <3>10, <3>11, <1>types
      <4> QED
        BY <3>4, <3>5, <3>7, <3>8, <4>1, <1>inv, <1>types, OneLost DEF HandedOver
    <3>12. CASE shout \notin unclosed
      <4>1. Strays' \subseteq Strays
        BY <3>1, <3>8, <3>12, StraysAre
      <4>2. AtStake' => AtStake \/ overlaps' >= overlaps + 1
        BY <3>3, <3>7, <3>9, <3>10, <1>types
      <4> QED
        BY <3>4, <3>5, <3>7, <4>1, <4>2, <1>inv, <1>types, NoneLost DEF HandedOver
    <3> QED
      BY <3>11, <3>12
  <2>4. ~Closes("checker") /\ ~Frees("checker") /\ ~Forgets("checker")
    BY <1>inv DEF HandleInv, Closes, Frees, Forgets, At
  <2> QED
    BY <1>2, <2>1, <2>2, <2>3, <2>4 DEF Connection
<1>3. CASE BeginSend
  BY <1>3, <1>moves, <1>types, <1>places DEF BeginSend, At, Null
<1>4. CASE SendSucceeds
  <2>1. UNCHANGED tornUse
    BY <1>4, <1>inv, <1>types DEF SendSucceeds, Touch, HandleInv, At
  <2> QED
    BY <1>4, <2>1, <1>moves, <1>types, <1>places DEF SendSucceeds, At
<1>5. CASE SendFails
  <2>1. shout # 0 /\ UNCHANGED tornUse
    BY <1>5, <1>inv, <1>types DEF SendFails, Touch, HandleInv, At, Null
  <2> QED
    BY <1>5, <2>1, <1>moves, <1>types, <1>places DEF SendFails, At
<1>6. CASE Disable
  BY <1>6, <1>moves, <1>types, <1>places DEF Disable, At, Null
<1>7. CASE Enable
  BY <1>7, <1>moves, <1>types, <1>places DEF Enable, At, Null
<1>8. CASE CheckVisits
  BY <1>8, <1>moves, <1>types, <1>places DEF CheckVisits, At
<1>9. CASE CheckLooks
  BY <1>9, <1>0, <1>moves, <1>types, <1>places
     DEF CheckLooks, CheckReconnects, CheckDisconnects, CheckPasses, FindsNull, FindsFailure, At, Null
<1>10. ASSUME UNCHANGED <<shout, unclosed, freed, at, tornUse, overlaps>> PROVE HandedOver'
  BY <1>10, <1>inv DEF HandedOver, HandleInv, OpeningInv, LossInv, Racing, AtStake, Stake, Opening, At, Strays, Pending
<1>11. CASE ServerDropsIdle
  BY <1>10, <1>11 DEF ServerDropsIdle
<1>12. CASE ServerDropsFed
  BY <1>10, <1>12 DEF ServerDropsFed
<1>13. CASE RadioFails \/ DemodFolds
  BY <1>0, <1>13 DEF RadioFails, DemodFolds
<1>14. CASE UNCHANGED iceVars
  BY <1>10, <1>14 DEF iceVars
<1> QED
  BY <1>1, <1>2, <1>3, <1>4, <1>5, <1>6, <1>7, <1>8, <1>9, <1>11, <1>12, <1>13, <1>14 DEF IceNext, Sender, Checker

StreamSafety == IceInit /\ [][IceNext]_iceVars

LEMMA StreamInvariant == StreamSafety => []StreamInv
<1>1. StreamInv /\ [IceNext]_iceVars => StreamInv'
  BY StreamTypesKept, HandOverKept DEF StreamInv
<1>2. IceInit => StreamInv
  BY StreamStart, HandleStart DEF StreamInv
<1> QED
  BY <1>1, <1>2, PTL DEF StreamSafety

LEMMA StreamTyped == StreamInv => IceTypeOK
BY DEF StreamInv

LEMMA StreamSafe == StreamInv => StreamHandleSafe
<1> SUFFICES ASSUME StreamInv, radio = "RUNNING"
             PROVE  ~tornUse /\ Cardinality(Strays) <= overlaps
  BY DEF StreamHandleSafe
<1>1. ~tornUse /\ LossInv
  BY DEF StreamInv, HandedOver, HandleInv
<1>2. Cardinality(Strays) \in Nat /\ overlaps \in Nat
  BY StraysFinite DEF StreamInv, IceTypeOK
<1> QED
  BY <1>1, <1>2 DEF LossInv, Stake

\* While the receiver works no handle is used after shout_free(), although both threads replace
\* icecast->shout without a lock and the server may drop a connection long before the sender hears of
\* it; and a connected handle is lost unclosed at most once for each connection that a thread stored
\* while the other was opening one, for any number of toggles and losses.
THEOREM HandleStaysSafe == IceSpec => []StreamHandleSafe
BY StreamInvariant, StreamSafe, PTL DEF IceSpec, StreamSafety

\* Every variable of a stream has its type.
THEOREM StreamTypeCorrect == IceSpec => []IceTypeOK
BY StreamInvariant, StreamTyped, PTL DEF IceSpec, StreamSafety

-----------------------------------------------------------------------------
(***************************************************************************)
(* TagUpdates                                                              *)
(***************************************************************************)

TagTypes ==
  /\ wanted \in [Streams -> TagValues] /\ applied \in [Streams -> TagValues] /\ submitted \in [Streams -> TagValues]
  /\ waiting \in [Streams -> BOOLEAN] /\ queued \in [Streams -> BOOLEAN] /\ failedUpdate \in [Streams -> BOOLEAN]
  /\ deadline \in [Streams -> 0 .. TagDelay] /\ stale \in [Streams -> Nat] /\ title \in [Streams -> TagValues]
  /\ ready_ \in Seq(Streams) /\ tagMain \in {"run", "waits", "joined", "detached"}
  /\ sending = NoJob \/ (sending.target \in Streams /\ sending.value \in TagValues)

\* A title that waits has waited for as long as is no longer left of its delay; and the worker's
\* queue holds a stream once, exactly while it has a value to send.
InQueue(s, q) == \E i \in DOMAIN q : q[i] = s
Distinct(q) == \A i, j \in DOMAIN q : q[i] = q[j] => i = j
WaitInv == \A s \in Streams : stale[s] + TicksLeft(s) = TagDelay
QueueInv == Distinct(ready_) /\ \A s \in Streams : queued[s] <=> InQueue(s, ready_)

\* The value to send is always the one last applied, and so is the one being sent unless a newer
\* one is queued: only then may the title be another.
TitleInv ==
  /\ submitted = applied
  /\ \A s \in Streams : sending.target = s /\ ~queued[s] => sending.value = applied[s]
  /\ \A s \in Streams : title[s] = applied[s] \/ queued[s] \/ sending.target = s \/ failedUpdate[s]

TagInv == TagTypes /\ WaitInv /\ QueueInv /\ TitleInv

LEMMA TagConstants == TagDelay \in Nat /\ NoTitle \in TagValues /\ NoTitle \notin Streams /\ NoJob.target \notin Streams
  BY TagsAssumption DEF NoJob

LEMMA QueueAppended ==
  ASSUME NEW q \in Seq(Streams), Distinct(q), NEW s \in Streams, ~InQueue(s, q)
  PROVE  /\ Append(q, s) \in Seq(Streams) /\ Distinct(Append(q, s))
         /\ \A x : InQueue(x, Append(q, s)) <=> InQueue(x, q) \/ x = s
<1> DEFINE n == Len(q)
           p == Append(q, s)
<1>1. /\ n \in Nat /\ DOMAIN q = 1 .. n /\ p \in Seq(Streams) /\ DOMAIN p = 1 .. n + 1
      /\ \A i \in 1 .. n : p[i] = q[i]
      /\ p[n + 1] = s
  BY LenProperties, AppendProperties
<1>2. \A i \in 1 .. n + 1 : i \in 1 .. n \/ i = n + 1
  BY <1>1
<1>3. n + 1 \in 1 .. n + 1 /\ n + 1 \notin 1 .. n /\ \A i \in 1 .. n : i \in 1 .. n + 1
  BY <1>1
<1>4. \A i \in 1 .. n : q[i] # s
  BY <1>1 DEF InQueue
<1> HIDE DEF n, p
<1>5. Distinct(p)
  BY <1>1, <1>2, <1>4 DEF Distinct
<1>6. \A x : InQueue(x, p) <=> InQueue(x, q) \/ x = s
  BY <1>1, <1>2, <1>3 DEF InQueue
<1> QED
  BY <1>1, <1>5, <1>6 DEF p

LEMMA QueueTaken ==
  ASSUME NEW q \in Seq(Streams), Distinct(q), q # <<>>
  PROVE  /\ Tail(q) \in Seq(Streams) /\ Distinct(Tail(q)) /\ Head(q) \in Streams /\ InQueue(Head(q), q)
         /\ \A x : InQueue(x, Tail(q)) <=> InQueue(x, q) /\ x # Head(q)
<1> DEFINE n == Len(q)
           p == Tail(q)
           h == Head(q)
<1>1. /\ n \in Nat /\ n >= 1 /\ DOMAIN q = 1 .. n /\ p \in Seq(Streams) /\ DOMAIN p = 1 .. n - 1
      /\ \A i \in 1 .. n - 1 : p[i] = q[i + 1]
      /\ h = q[1] /\ h \in Streams
  BY HeadTailProperties, LenProperties, EmptySeq
<1>2. /\ 1 \in 1 .. n
      /\ \A i \in 1 .. n - 1 : i + 1 \in 1 .. n /\ i + 1 # 1
      /\ \A j \in 1 .. n : j # 1 => j - 1 \in 1 .. n - 1 /\ (j - 1) + 1 = j
      /\ \A i, j \in 1 .. n - 1 : i + 1 = j + 1 => i = j
  BY <1>1
<1> HIDE DEF n, p, h
<1>3. Distinct(p)
  <2> SUFFICES ASSUME NEW i \in 1 .. n - 1, NEW j \in 1 .. n - 1, p[i] = p[j] PROVE i = j
    BY <1>1 DEF Distinct
  <2>1. q[i + 1] = q[j + 1] /\ i + 1 \in DOMAIN q /\ j + 1 \in DOMAIN q
    BY <1>1, <1>2
  <2> QED
    BY <1>2, <2>1 DEF Distinct
<1>4. InQueue(h, q)
  BY <1>1, <1>2 DEF InQueue
<1>5. ASSUME NEW x, InQueue(x, p) PROVE InQueue(x, q) /\ x # h
  <2>1. PICK i \in 1 .. n - 1 : p[i] = x
    BY <1>1, <1>5 DEF InQueue
  <2>2. q[i + 1] = x /\ i + 1 \in DOMAIN q /\ i + 1 # 1 /\ 1 \in DOMAIN q
    BY <1>1, <1>2, <2>1
  <2> QED
    BY <1>1, <2>2 DEF InQueue, Distinct
<1>6. ASSUME NEW x, InQueue(x, q), x # h PROVE InQueue(x, p)
  <2>1. PICK j \in 1 .. n : q[j] = x
    BY <1>1, <1>6 DEF InQueue
  <2>2. j # 1
    BY <1>1, <1>6, <2>1
  <2>3. p[j - 1] = x /\ j - 1 \in DOMAIN p
    BY <1>1, <1>2, <2>1, <2>2
  <2> QED
    BY <2>3 DEF InQueue
<1> QED
  BY <1>1, <1>3, <1>4, <1>5, <1>6 DEF p, h

LEMMA TagStart == TagInit => TagInv
<1> SUFFICES ASSUME TagInit PROVE TagInv
  OBVIOUS
<1>1. TagTypes
  BY TagConstants, EmptySeq DEF TagInit, TagTypes
<1>2. WaitInv
  BY TagConstants DEF TagInit, WaitInv, TicksLeft
<1>3. QueueInv
  BY DEF TagInit, QueueInv, Distinct, InQueue
<1>4. TitleInv
  BY TagConstants DEF TagInit, TitleInv
<1> QED
  BY <1>1, <1>2, <1>3, <1>4 DEF TagInv

\* icecast_tx_tag_step(), on the output thread.
LEMMA TagStepKeeps == TagInv /\ (\E s \in Streams : TagStep(s)) => TagInv'
<1> SUFFICES ASSUME TagInv, NEW s \in Streams, TagStep(s) PROVE TagInv'
  OBVIOUS
<1>types. TagTypes /\ WaitInv /\ QueueInv /\ TitleInv
  BY DEF TagInv
<1>1. CASE TagApplied(s)
  <2>1. /\ waiting' = [waiting EXCEPT ![s] = FALSE] /\ stale' = [stale EXCEPT ![s] = 0]
        /\ UNCHANGED <<wanted, applied, deadline, submitted, queued, ready_, sending, title, failedUpdate, tagMain>>
    BY <1>1 DEF TagApplied
  <2>2. TagTypes'
    BY <1>types, <2>1 DEF TagTypes
  <2>3. WaitInv'
    BY <1>types, <2>1, TagConstants DEF TagTypes, WaitInv, TicksLeft
  <2>4. QueueInv' /\ TitleInv'
    BY <1>types, <2>1 DEF QueueInv, TitleInv
  <2> QED
    BY <2>2, <2>3, <2>4 DEF TagInv
<1>2. CASE TagWaits(s)
  <2>1. /\ waiting' = [waiting EXCEPT ![s] = TRUE] /\ deadline' = [deadline EXCEPT ![s] = TicksLeft(s) - 1]
        /\ stale' = [stale EXCEPT ![s] = stale[s] + 1] /\ TicksLeft(s) > 0
        /\ UNCHANGED <<wanted, applied, submitted, queued, ready_, sending, title, failedUpdate, tagMain>>
    BY <1>2 DEF TagWaits
  <2>2. TicksLeft(s) \in 0 .. TagDelay /\ TicksLeft(s) - 1 \in 0 .. TagDelay /\ stale[s] \in Nat /\ stale[s] + 1 \in Nat
    BY <1>types, <2>1, TagConstants DEF TagTypes, TicksLeft
  <2>3. TagTypes'
    BY <1>types, <2>1, <2>2 DEF TagTypes
  <2>4. WaitInv'
    <3>1. stale[s] + 1 + (TicksLeft(s) - 1) = TagDelay
      BY <1>types, <2>2, TagConstants DEF WaitInv
    <3>2. /\ stale'[s] = stale[s] + 1 /\ waiting'[s] = TRUE /\ deadline'[s] = TicksLeft(s) - 1
          /\ \A x \in Streams : x # s => stale'[x] = stale[x] /\ waiting'[x] = waiting[x] /\ deadline'[x] = deadline[x]
      BY <1>types, <2>1 DEF TagTypes
    <3>3. TicksLeft(s)' = TicksLeft(s) - 1 /\ \A x \in Streams : x # s => TicksLeft(x)' = TicksLeft(x)
      BY <3>2 DEF TicksLeft
    <3> QED
      BY <1>types, <3>1, <3>2, <3>3 DEF WaitInv
  <2>5. QueueInv' /\ TitleInv'
    BY <1>types, <2>1 DEF QueueInv, TitleInv
  <2> QED
    BY <2>3, <2>4, <2>5 DEF TagInv
<1>3. CASE TagDue(s)
  <2>1. /\ applied' = [applied EXCEPT ![s] = wanted[s]] /\ submitted' = [submitted EXCEPT ![s] = wanted[s]]
        /\ waiting' = [waiting EXCEPT ![s] = FALSE] /\ stale' = [stale EXCEPT ![s] = 0]
        /\ queued' = [queued EXCEPT ![s] = TRUE] /\ ready_' = IF queued[s] THEN ready_ ELSE Append(ready_, s)
        /\ UNCHANGED <<wanted, deadline, sending, title, failedUpdate, tagMain>>
    BY <1>3 DEF TagDue, Submit
  <2>2. /\ ready_' \in Seq(Streams) /\ Distinct(ready_')
        /\ \A x \in Streams : InQueue(x, ready_') <=> InQueue(x, ready_) \/ x = s
    <3>1. CASE queued[s]
      BY <1>types, <2>1, <3>1 DEF TagTypes, QueueInv
    <3>2. CASE ~queued[s]
      <4>1. ready_ \in Seq(Streams) /\ Distinct(ready_) /\ ~InQueue(s, ready_) /\ ready_' = Append(ready_, s)
        BY <1>types, <2>1, <3>2 DEF TagTypes, QueueInv
      <4> QED
        BY <4>1, QueueAppended
    <3> QED
      BY <3>1, <3>2
  <2>3. TagTypes'
    BY <1>types, <2>1, <2>2 DEF TagTypes
  <2>4. WaitInv'
    BY <1>types, <2>1, TagConstants DEF TagTypes, WaitInv, TicksLeft
  <2>5. QueueInv'
    BY <1>types, <2>1, <2>2 DEF TagTypes, QueueInv
  <2>6. TitleInv'
    BY <1>types, <2>1 DEF TagTypes, TitleInv
  <2> QED
    BY <2>3, <2>4, <2>5, <2>6 DEF TagInv
<1> QED
  BY <1>1, <1>2, <1>3 DEF TagStep

\* The worker takes a value, and its request works or fails.
LEMMA TagWorkerKeeps == TagInv /\ TagWorker => TagInv'
<1> SUFFICES ASSUME TagInv, TagWorker PROVE TagInv'
  OBVIOUS
<1>types. TagTypes /\ WaitInv /\ QueueInv /\ TitleInv
  BY DEF TagInv
<1>else. UNCHANGED <<wanted, applied, waiting, deadline, stale, submitted, tagMain>>
  BY DEF TagWorker, Take, UpdateSent, WorkerElse, stepVars
<1>wait. WaitInv'
  BY <1>types, <1>else DEF WaitInv, TicksLeft
<1>1. CASE Take
  <2> DEFINE h == Head(ready_)
             v == submitted[h]
  <2>1. /\ sending = NoJob /\ ready_ # <<>> /\ sending' = [target |-> h, value |-> v]
        /\ queued' = [queued EXCEPT ![h] = FALSE] /\ ready_' = Tail(ready_) /\ UNCHANGED <<title, failedUpdate>>
    BY <1>1 DEF Take
  <2>2. /\ ready_' \in Seq(Streams) /\ Distinct(ready_') /\ h \in Streams
        /\ \A x : InQueue(x, ready_') <=> InQueue(x, ready_) /\ x # h
    BY <1>types, <2>1, QueueTaken DEF TagTypes, QueueInv
  <2>3. sending'.target = h /\ sending'.value = v /\ v \in TagValues /\ v = applied[h] /\ sending.target \notin Streams
    BY <1>types, <2>1, <2>2, TagConstants DEF TagTypes, TitleInv
  <2> HIDE DEF h, v
  <2>4. TagTypes'
    BY <1>types, <1>else, <2>1, <2>2, <2>3 DEF TagTypes
  <2>5. QueueInv'
    BY <1>types, <2>1, <2>2 DEF TagTypes, QueueInv
  <2>6. TitleInv'
    BY <1>types, <1>else, <2>1, <2>2, <2>3 DEF TagTypes, TitleInv
  <2> QED
    BY <1>wait, <2>4, <2>5, <2>6 DEF TagInv
<1>2. CASE UpdateSent
  <2> DEFINE s == sending.target
  <2>1. s \in Streams /\ sending.value \in TagValues /\ sending' = NoJob /\ UNCHANGED <<queued, ready_>>
    BY <1>types, <1>2 DEF UpdateSent, TagTypes
  <2>2. \/ title' = [title EXCEPT ![s] = sending.value] /\ failedUpdate' = [failedUpdate EXCEPT ![s] = FALSE]
        \/ failedUpdate' = [failedUpdate EXCEPT ![s] = TRUE] /\ UNCHANGED title
    BY <1>2 DEF UpdateSent
  <2>3. ~queued[s] => sending.value = applied[s]
    BY <1>types, <2>1 DEF TitleInv
  <2>4. \A x \in Streams : sending.target = x => x = s
    OBVIOUS
  <2> HIDE DEF s
  <2>5. TagTypes'
    BY <1>types, <1>else, <2>1, <2>2 DEF TagTypes
  <2>6. QueueInv'
    BY <1>types, <2>1 DEF QueueInv
  <2>7. TitleInv'
    BY <1>types, <1>else, <2>1, <2>2, <2>3, <2>4, TagConstants DEF TagTypes, TitleInv
  <2> QED
    BY <1>wait, <2>5, <2>6, <2>7 DEF TagInv
<1> QED
  BY <1>1, <1>2 DEF TagWorker

TagSafety == TagInit /\ [][TagNext]_tagVars

LEMMA TagInvariant == TagSafety => []TagInv
<1>1. TagInv /\ [TagNext]_tagVars => TagInv'
  <2> SUFFICES ASSUME TagInv, [TagNext]_tagVars PROVE TagInv'
    OBVIOUS
  <2>1. ASSUME NEW s \in Streams, NEW v \in TagValues, TagChanges(s, v) PROVE TagInv'
    <3>1. /\ wanted' = [wanted EXCEPT ![s] = v]
          /\ UNCHANGED <<applied, waiting, deadline, stale, submitted, queued, ready_, sending, title, failedUpdate, tagMain>>
      BY <2>1 DEF TagChanges
    <3> QED
      BY <3>1 DEF TagInv, TagTypes, WaitInv, TicksLeft, QueueInv, TitleInv
  <2>2. CASE MetadataShutdown \/ WorkerLeft \/ UNCHANGED tagVars
    <3>1. /\ UNCHANGED <<stepVars, submitted, queued, ready_, sending, title, failedUpdate>>
          /\ tagMain' \in {tagMain, "waits", "joined", "detached"}
      BY <2>2 DEF MetadataShutdown, WorkerLeft, tagVars
    <3> QED
      BY <3>1 DEF TagInv, TagTypes, WaitInv, TicksLeft, QueueInv, TitleInv, stepVars
  <2> QED
    BY <2>1, <2>2, TagStepKeeps, TagWorkerKeeps DEF TagNext
<1> QED
  BY TagStart, <1>1, PTL DEF TagSafety

\* However the tag flaps, a title out of date is replaced within the metadata delay, and a stream
\* stands in the worker's queue at most once, exactly while it has a value to send.
THEOREM TagsStayPrompt == TagSpec => []TagsPrompt
<1>1. TagInv => TagsPrompt
  <2> SUFFICES ASSUME TagInv, NEW s \in Streams
               PROVE  /\ stale[s] <= TagDelay
                      /\ queued[s] <=> \E i \in DOMAIN ready_ : ready_[i] = s
                      /\ \A i, j \in DOMAIN ready_ : ready_[i] = s /\ ready_[j] = s => i = j
    BY DEF TagsPrompt
  <2>1. stale[s] <= TagDelay
    <3>1. stale[s] \in Nat /\ TicksLeft(s) \in Nat /\ stale[s] + TicksLeft(s) = TagDelay
      BY TagConstants DEF TagInv, TagTypes, WaitInv, TicksLeft
    <3> QED
      BY <3>1
  <2>2. queued[s] <=> \E i \in DOMAIN ready_ : ready_[i] = s
    BY DEF TagInv, QueueInv, InQueue
  <2>3. \A i, j \in DOMAIN ready_ : ready_[i] = s /\ ready_[j] = s => i = j
    BY DEF TagInv, QueueInv, Distinct
  <2> QED
    BY <2>1, <2>2, <2>3
<1> QED
  BY TagInvariant, <1>1, PTL DEF TagSpec, TagSafety

\* No title is lost to coalescing or overtaken by an older one: what the server shows is what was
\* last applied unless a newer title is queued or being sent, or the last request failed.
THEOREM TitlesNotOvertaken ==
  TagSpec => [](\A s \in Streams : title[s] = applied[s] \/ queued[s] \/ sending.target = s \/ failedUpdate[s])
<1>1. TagInv => \A s \in Streams : title[s] = applied[s] \/ queued[s] \/ sending.target = s \/ failedUpdate[s]
  BY DEF TagInv, TitleInv
<1> QED
  BY TagInvariant, <1>1, PTL DEF TagSpec, TagSafety

LEMMA TagTyped == TagInv => TagTypeOK
<1> SUFFICES ASSUME TagTypes PROVE TagTypeOK
  BY DEF TagInv
<1>1. \A i \in DOMAIN ready_ : ready_[i] \in Streams
  BY LenProperties, ElementOfSeq DEF TagTypes
<1> QED
  BY <1>1 DEF TagTypes, TagTypeOK

\* Every variable of the metadata updater has its type.
THEOREM TagTypeCorrect == TagSpec => []TagTypeOK
BY TagInvariant, TagTyped, PTL DEF TagSpec, TagSafety

-----------------------------------------------------------------------------
(***************************************************************************)
(* ScanTags                                                                *)
(***************************************************************************)

Tag == [n : 0 .. MaxTags, freq : Freq \union {-1}]
ScanTypes ==
  /\ squelchOff \in 0 .. OffLimit /\ scanIdx \in Freq /\ tunedIdx \in Freq /\ last_frequency \in Freq \union {-1}
  /\ tq_head \in Slots /\ tq_tail \in 0 .. TagQueueLen /\ tag_queue \in [Slots -> Tag]
  /\ tags \in 0 .. MaxTags /\ outTag \in Tag /\ metadata \in Tag /\ overran \in BOOLEAN

\* The number of the tag a slot was last written with: those up to tq_head in this lap of the head,
\* the others in the lap before.
WrittenAt(s) == IF s <= tq_head THEN tags - tq_head + s ELSE tags - tq_head + s - TagQueueLen
SlotsWritten == \A s \in Slots : WrittenAt(s) >= 1 => tag_queue[s].n = WrittenAt(s)

\* How far the tail is behind the head: with the tail one past the end of the queue and the head at
\* its start, a whole lap.  Everything older has been taken out or overwritten.
Behind ==
  IF tq_tail = TagQueueLen /\ tq_head = 0 THEN TagQueueLen
  ELSE IF tq_tail <= tq_head THEN tq_head - tq_tail ELSE tq_head - tq_tail + TagQueueLen
PassedTags == tags - Behind

\* The outputs never show a tag that is still in the queue; the one the output thread has read is
\* not behind the tail, so that the advance cannot bring an older one up.
OrderInv ==
  /\ metadata.n <= PassedTags
  /\ outTag # NoTag => Behind >= 1 /\ metadata.n < outTag.n /\ outTag.n <= PassedTags + 1
  /\ ~overran => tq_tail < TagQueueLen /\ metadata.n = PassedTags /\ (outTag # NoTag => outTag.n = PassedTags + 1)

TunedInv == ~retuneFailed => scanIdx = tunedIdx

ScanInv == ScanTypes /\ SlotsWritten /\ OrderInv /\ TunedInv

LEMMA ScanConstants ==
  /\ TagQueueLen \in Nat /\ TagQueueLen >= 2 /\ FreqCount \in Nat /\ FreqCount >= 2 /\ OffLimit \in Nat /\ MaxTags \in Nat
  /\ 0 \in Slots /\ 0 \in Freq /\ NoTag \in Tag /\ NoTag.n = 0 /\ \A s : s \in Slots <=> s \in Int /\ 0 <= s /\ s < TagQueueLen
  BY ScanAssumption DEF Slots, Freq, NoTag, Tag

LEMMA SlotWraps ==
  ASSUME NEW k \in Nat, k > 0, NEW x \in Nat, x <= k
  PROVE  (x + 1) % k = IF x + 1 < k THEN x + 1 ELSE IF x + 1 = k THEN 0 ELSE IF k = 1 THEN 0 ELSE 1
<1>1. CASE x + 1 < k
  BY <1>1
<1>2. CASE x + 1 = k
  BY <1>2
<1>3. CASE x + 1 > k
  BY <1>3
<1> QED
  BY <1>1, <1>2, <1>3

LEMMA ScanStart == ScanInit => ScanInv
<1> SUFFICES ASSUME ScanInit PROVE ScanInv
  OBVIOUS
<1>0. /\ axcindicate = FALSE /\ squelchOff = 0 /\ scanIdx = 0 /\ last_frequency = -1 /\ tunedIdx = 0
      /\ tq_head = 0 /\ tq_tail = 0 /\ tags = 0 /\ overran = FALSE /\ retuneFailed = FALSE
      /\ outTag = NoTag /\ metadata = NoTag /\ tag_queue = [s \in Slots |-> NoTag]
  BY DEF ScanInit
<1>1. ScanTypes
  <2>1. 0 \in 0 .. OffLimit /\ 0 \in 0 .. TagQueueLen /\ 0 \in 0 .. MaxTags /\ -1 \in Freq \union {-1}
    BY ScanConstants
  <2>2. [s \in Slots |-> NoTag] \in [Slots -> Tag]
    BY ScanConstants
  <2> QED
    BY <1>0, <2>1, <2>2, ScanConstants DEF ScanTypes
<1>2. SlotsWritten
  BY ScanConstants DEF ScanInit, SlotsWritten, WrittenAt
<1>3. OrderInv
  <2>0. tq_tail = 0 /\ tq_head = 0 /\ tags = 0 /\ TagQueueLen \in Nat /\ TagQueueLen >= 2
    BY <1>0, ScanConstants
  <2>b. tq_tail # TagQueueLen /\ tq_tail <= tq_head /\ tq_head - tq_tail = 0 /\ tags - 0 = 0
    BY <2>0
  <2>c. Behind = tq_head - tq_tail
    BY <2>b, Zenon DEF Behind
  <2>1. Behind = 0 /\ PassedTags = 0
    BY <2>b, <2>c, Zenon DEF PassedTags
  <2>2. metadata.n = 0 /\ outTag = NoTag /\ tq_tail < TagQueueLen
    BY <1>0, ScanConstants
  <2> QED
    BY <1>0, <2>1, <2>2 DEF OrderInv
<1>4. TunedInv
  BY <1>0 DEF TunedInv
<1> QED
  BY <1>1, <1>2, <1>3, <1>4 DEF ScanInv

\* The controller puts a tag; the one the output thread holds meanwhile is not overtaken.
LEMMA PutKeeps == ScanInv /\ SquelchOpened => ScanInv'
<1> SUFFICES ASSUME ScanInv, SquelchOpened PROVE ScanInv'
  OBVIOUS
<1>inv. ScanTypes /\ SlotsWritten /\ OrderInv /\ TunedInv
  BY DEF ScanInv
<1> DEFINE new == [n |-> tags + 1, freq |-> scanIdx]
<1>1. /\ tq_head' = (tq_head + 1) % TagQueueLen /\ tags' = tags + 1 /\ tags < MaxTags
      /\ tag_queue' = [tag_queue EXCEPT ![tq_head'] = new]
      /\ tq_tail' = IF tq_head' = tq_tail THEN tq_tail + 1 ELSE tq_tail
      /\ overran' = (overran \/ tq_head' = tq_tail)
      /\ last_frequency' = scanIdx /\ squelchOff' = 0 /\ UNCHANGED <<scanIdx, tunedIdx, outTag, metadata, retuneFailed>>
  BY DEF SquelchOpened, tag_queue_put, outVars
<1>2. /\ tq_head \in Nat /\ tq_head < TagQueueLen /\ tq_tail \in Nat /\ tq_tail <= TagQueueLen /\ tags \in Nat
      /\ scanIdx \in Freq /\ metadata.n \in Nat /\ outTag.n \in Nat
  BY <1>inv, ScanConstants DEF ScanTypes, Tag
<1>3. tq_head' = IF tq_head + 1 < TagQueueLen THEN tq_head + 1 ELSE 0
  BY <1>1, <1>2, SlotWraps, ScanConstants
<1>4. tq_head' \in Nat /\ tq_head' < TagQueueLen /\ tq_head' \in Slots /\ tq_tail' \in 0 .. TagQueueLen
  BY <1>1, <1>2, <1>3, ScanConstants
<1>5. new \in Tag /\ new.n = tags + 1
  BY <1>1, <1>2, ScanConstants DEF Tag
<1> HIDE DEF new
<1>6. ScanTypes'
  <2>1. tags' \in 0 .. MaxTags /\ 0 \in 0 .. OffLimit
    BY <1>1, <1>2, ScanConstants
  <2>2. tag_queue' \in [Slots -> Tag]
    BY <1>inv, <1>1, <1>4, <1>5 DEF ScanTypes
  <2> QED
    BY <1>inv, <1>1, <1>4, <2>1, <2>2 DEF ScanTypes
<1>7. SlotsWritten'
  <2> SUFFICES ASSUME NEW s \in Slots, WrittenAt(s)' >= 1 PROVE tag_queue'[s].n = WrittenAt(s)'
    BY DEF SlotsWritten
  <2>1. s \in Nat /\ s < TagQueueLen
    BY ScanConstants
  <2>2. CASE s = tq_head'
    <3>1. tag_queue'[s] = new /\ WrittenAt(s)' = tags + 1
      BY <1>inv, <1>1, <1>2, <1>4, <2>1, <2>2 DEF ScanTypes, WrittenAt
    <3> QED
      BY <1>5, <3>1
  <2>3. CASE s # tq_head'
    <3>1. tag_queue'[s] = tag_queue[s]
      BY <1>inv, <1>1, <2>3 DEF ScanTypes
    <3>2. WrittenAt(s)' = WrittenAt(s)
      BY <1>1, <1>2, <1>3, <2>1, <2>3, ScanConstants DEF WrittenAt
    <3> QED
      BY <1>inv, <3>1, <3>2 DEF SlotsWritten
  <2> QED
    BY <2>2, <2>3
<1>8. /\ Behind \in Int /\ PassedTags' \in Int /\ PassedTags \in Int /\ PassedTags' >= PassedTags /\ (Behind >= 1 => Behind' >= 1)
      /\ (tq_tail < TagQueueLen /\ tq_head' # tq_tail => PassedTags' = PassedTags /\ tq_tail' < TagQueueLen)
  BY <1>1, <1>2, <1>3, ScanConstants DEF Behind, PassedTags
<1>9. OrderInv'
  <2>1. metadata.n <= PassedTags'
    BY <1>inv, <1>2, <1>8 DEF OrderInv
  <2>2. ASSUME outTag # NoTag PROVE Behind' >= 1 /\ metadata.n < outTag.n /\ outTag.n <= PassedTags' + 1
    BY <1>inv, <1>2, <1>8, <2>2 DEF OrderInv
  <2>3. ASSUME ~overran' PROVE tq_tail' < TagQueueLen /\ metadata.n = PassedTags' /\ (outTag # NoTag => outTag.n = PassedTags' + 1)
    BY <1>inv, <1>1, <1>8, <2>3 DEF OrderInv
  <2> QED
    BY <1>1, <2>1, <2>2, <2>3 DEF OrderInv
<1>10. TunedInv'
  BY <1>inv, <1>1 DEF TunedInv
<1> QED
  BY <1>6, <1>7, <1>9, <1>10 DEF ScanInv

\* What the output thread reads is the oldest tag of the queue.
LEMMA OldestRead ==
  ASSUME ScanInv, tag_queue_get # NoTag
  PROVE  tag_queue_get \in Tag /\ Behind >= 1 /\ tag_queue_get.n = PassedTags + 1
<1> DEFINE s == (tq_tail + 1) % TagQueueLen
<1>1. ScanTypes /\ SlotsWritten /\ OrderInv
  BY DEF ScanInv
<1>2. tq_head # tq_tail /\ tag_queue_get = tag_queue[s]
  BY DEF tag_queue_get
<1>3. /\ tq_head \in Nat /\ tq_head < TagQueueLen /\ tq_tail \in Nat /\ tq_tail <= TagQueueLen /\ tags \in Nat
      /\ metadata.n \in Nat /\ metadata.n <= PassedTags
  BY <1>1, ScanConstants DEF ScanTypes, Tag, OrderInv
<1>4. s = IF tq_tail + 1 < TagQueueLen THEN tq_tail + 1 ELSE IF tq_tail + 1 = TagQueueLen THEN 0 ELSE 1
  BY <1>3, SlotWraps, ScanConstants
<1>5. s \in Slots /\ s \in Nat
  BY <1>3, <1>4, ScanConstants
<1> HIDE DEF s
<1>6. Behind >= 1 /\ WrittenAt(s) = PassedTags + 1 /\ PassedTags \in Int
  BY <1>2, <1>3, <1>4, ScanConstants DEF Behind, PassedTags, WrittenAt
<1>7. WrittenAt(s) >= 1
  BY <1>3, <1>6
<1>8. tag_queue[s].n = PassedTags + 1 /\ tag_queue[s] \in Tag
  BY <1>1, <1>5, <1>6, <1>7 DEF SlotsWritten, ScanTypes
<1> QED
  BY <1>2, <1>6, <1>8

LEMMA OutputReads == ScanInv /\ TagOutput => ScanInv'
<1> SUFFICES ASSUME ScanInv, TagOutput PROVE ScanInv'
  OBVIOUS
<1>inv. ScanTypes /\ SlotsWritten /\ OrderInv /\ TunedInv
  BY DEF ScanInv
<1>numbers. /\ tq_head \in Nat /\ tq_head < TagQueueLen /\ tq_tail \in Nat /\ tq_tail <= TagQueueLen /\ tags \in Nat
            /\ metadata.n \in Nat /\ outTag.n \in Nat
  BY <1>inv, ScanConstants DEF ScanTypes, Tag
<1>1. CASE ReadDueTag
  <2>1. /\ tag_queue_get # NoTag /\ outTag' = tag_queue_get
        /\ UNCHANGED <<squelchOff, scanIdx, last_frequency, tunedIdx, tq_head, tq_tail, tag_queue, tags, overran, metadata,
                       retuneFailed>>
    BY <1>1 DEF ReadDueTag, queueVars
  <2>2. outTag' \in Tag /\ Behind >= 1 /\ outTag'.n = PassedTags + 1
    BY <2>1, OldestRead
  <2>3. ScanTypes' /\ SlotsWritten' /\ TunedInv'
    BY <1>inv, <2>1, <2>2 DEF ScanTypes, SlotsWritten, WrittenAt, TunedInv
  <2>4. PassedTags' = PassedTags /\ Behind' = Behind /\ PassedTags \in Int
    BY <1>numbers, <2>1, ScanConstants DEF PassedTags, Behind
  <2>5. OrderInv'
    BY <1>inv, <1>numbers, <2>1, <2>2, <2>4 DEF OrderInv
  <2> QED
    BY <2>3, <2>5 DEF ScanInv
<1>2. CASE TakeDueTag
  <2>1. /\ outTag # NoTag /\ tq_tail' = (tq_tail + 1) % TagQueueLen /\ metadata' = outTag /\ outTag' = NoTag
        /\ UNCHANGED <<squelchOff, scanIdx, last_frequency, tunedIdx, tq_head, tag_queue, tags, overran, retuneFailed>>
    BY <1>2 DEF TakeDueTag, tag_queue_advance
  <2>2. tq_tail' = IF tq_tail + 1 < TagQueueLen THEN tq_tail + 1 ELSE IF tq_tail + 1 = TagQueueLen THEN 0 ELSE 1
    BY <1>numbers, <2>1, SlotWraps, ScanConstants
  <2>3. tq_tail' \in 0 .. TagQueueLen /\ tq_tail' < TagQueueLen
    BY <1>numbers, <2>2, ScanConstants
  <2>4. ScanTypes' /\ SlotsWritten' /\ TunedInv'
    BY <1>inv, <2>1, <2>3, ScanConstants DEF ScanTypes, SlotsWritten, WrittenAt, TunedInv
  <2>5. Behind >= 1 /\ outTag.n <= PassedTags + 1 /\ (~overran => outTag.n = PassedTags + 1)
    BY <1>inv, <2>1 DEF OrderInv
  <2>6. PassedTags' = PassedTags + 1 /\ PassedTags \in Int
    BY <1>numbers, <2>1, <2>2, <2>5, ScanConstants DEF PassedTags, Behind
  <2>7. OrderInv'
    BY <2>1, <2>3, <2>5, <2>6 DEF OrderInv
  <2> QED
    BY <2>4, <2>7 DEF ScanInv
<1> QED
  BY <1>1, <1>2 DEF TagOutput

ScanSafety == ScanInit /\ [][ScanNext]_scanVars

LEMMA ScanInvariant == ScanSafety => []ScanInv
<1>1. ScanInv /\ [ScanNext]_scanVars => ScanInv'
  <2> SUFFICES ASSUME ScanInv, [ScanNext]_scanVars PROVE ScanInv'
    OBVIOUS
  <2>inv. ScanTypes /\ SlotsWritten /\ OrderInv /\ TunedInv
    BY DEF ScanInv
  <2>queue. ASSUME UNCHANGED <<queueVars, outVars>> PROVE SlotsWritten' /\ OrderInv'
    BY <2>inv, <2>queue DEF queueVars, outVars, SlotsWritten, WrittenAt, OrderInv, Behind, PassedTags
  <2>1. CASE CountSquelchOff \/ SquelchStaysOpen \/ SignalChanges \/ UNCHANGED scanVars
    <3>1. /\ UNCHANGED <<scanIdx, last_frequency, tunedIdx, queueVars, outVars, retuneFailed>>
          /\ squelchOff' \in 0 .. OffLimit
      BY <2>inv, <2>1, ScanConstants
      DEF CountSquelchOff, SquelchStaysOpen, SignalChanges, scanVars, queueVars, outVars, ScanTypes
    <3> QED
      BY <2>inv, <2>queue, <3>1 DEF ScanInv, ScanTypes, TunedInv, queueVars, outVars
  <2>2. CASE Hop
    <3>1. /\ scanIdx' = (scanIdx + 1) % FreqCount
          /\ (tunedIdx' = scanIdx' /\ retuneFailed' = FALSE) \/ (retuneFailed' = TRUE /\ UNCHANGED tunedIdx)
          /\ UNCHANGED <<squelchOff, last_frequency, queueVars, outVars>>
      BY <2>2 DEF Hop
    <3>2. scanIdx' \in Freq
      <4>1. scanIdx \in Nat /\ FreqCount \in Nat /\ FreqCount > 0
        BY <2>inv, ScanConstants DEF ScanTypes, Freq
      <4> QED
        BY <3>1, <4>1 DEF Freq
    <3> QED
      BY <2>inv, <2>queue, <3>1, <3>2 DEF ScanInv, ScanTypes, TunedInv, queueVars, outVars
  <2> QED
    BY <2>1, <2>2, PutKeeps, OutputReads DEF ScanNext, Controller
<1> QED
  BY ScanStart, <1>1, PTL DEF ScanSafety

\* The outputs' metadata only moves on to a later tag, and to the very next one until the queue
\* overran: also when a put comes between tag_queue_get() and tag_queue_advance(), and when tq_tail
\* stands one past the end of the queue and the ring is lapped unnoticed.
THEOREM TagsInOrder ==
  ScanSpec => [][metadata' # metadata => metadata'.n > metadata.n /\ (~overran' => metadata'.n = metadata.n + 1)]_metadata
<1>1. ScanInv /\ [ScanNext]_scanVars =>
        [metadata' # metadata => metadata'.n > metadata.n /\ (~overran' => metadata'.n = metadata.n + 1)]_metadata
  <2> SUFFICES ASSUME ScanInv, [ScanNext]_scanVars, metadata' # metadata
               PROVE  metadata'.n > metadata.n /\ (~overran' => metadata'.n = metadata.n + 1)
    OBVIOUS
  <2>1. TakeDueTag
    BY DEF scanVars, ScanNext, Controller, CountSquelchOff, Hop, SquelchOpened, SquelchStaysOpen, SignalChanges, TagOutput,
           ReadDueTag, outVars
  <2>2. outTag # NoTag /\ metadata' = outTag /\ overran' = overran
    BY <2>1 DEF TakeDueTag, tag_queue_advance
  <2>3. metadata.n \in Nat /\ outTag.n \in Nat
    BY DEF ScanInv, ScanTypes, Tag
  <2> QED
    BY <2>2, <2>3 DEF ScanInv, OrderInv
<1> QED
  BY ScanInvariant, <1>1, PTL DEF ScanSpec, ScanSafety

\* A tag names the frequency the receiver is on, unless the hop to it failed.
THEOREM TagsNameTheFrequency == ScanSpec => [][SquelchOpened /\ ~retuneFailed => scanIdx = tunedIdx]_scanVars
<1>1. ScanInv /\ [ScanNext]_scanVars => [SquelchOpened /\ ~retuneFailed => scanIdx = tunedIdx]_scanVars
  BY DEF ScanInv, TunedInv
<1> QED
  BY ScanInvariant, <1>1, PTL DEF ScanSpec, ScanSafety

LEMMA ScanTyped == ScanInv => ScanTypeOK
BY DEF ScanInv, ScanTypes, ScanTypeOK, Tag

\* Every variable of the scan has its type: tq_tail is never more than one past the end.
THEOREM ScanTypeCorrect == ScanSpec => []ScanTypeOK
BY ScanInvariant, ScanTyped, PTL DEF ScanSpec, ScanSafety
=============================================================================
