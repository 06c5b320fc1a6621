---------------------------- MODULE InputBuffer ----------------------------
(***************************************************************************)
(* The sample ring of a device: circbuffer_append() (input-helpers.cpp)    *)
(* writes chunks, demodulate() (rtl_airband.cpp) reads windows of fft_size *)
(* samples that may run past buf_size into a copy of the ring's beginning. *)
(* A cell holds the position in the stream of the sample in it.            *)
(***************************************************************************)
EXTENDS Integers

CONSTANTS
  BufSize,     \* buf_size, a multiple of Step
  Step,        \* bps * FFT_BATCH
  Window,      \* 2 * bytes_per_sample * fft_size
  Chunks,      \* lengths the drivers append
  MaxWritten   \* bound: samples of a behaviour

ASSUME BufAssumption ==
  /\ Step \in Nat \ {0} /\ Window \in Nat \ {0} /\ BufSize \in Nat \ {0} /\ BufSize % Step = 0
  /\ Chunks \subseteq 1 .. BufSize /\ MaxWritten \in Nat

VARIABLES
  buffer, bufs, bufe, overflow_count,     \* input_t
  written, consumed,                      \* history: samples appended and read
  fft,                                    \* the demodulator is reading a window
  lapped, shortHead                       \* history: overwritten unread samples; see WindowIntact

bufVars == <<buffer, bufs, bufe, overflow_count, written, consumed, fft, lapped, shortHead>>

Ring == 0 .. BufSize - 1
TailCopy == BufSize .. BufSize + Window - 1

BufInit ==
  /\ buffer = [c \in Ring \union TailCopy |-> -1]
  /\ bufs = 0 /\ bufe = 0 /\ overflow_count = 0
  /\ written = 0 /\ consumed = 0 /\ fft = FALSE
  /\ lapped = FALSE /\ shortHead = FALSE

(* What a chunk of len leaves in the ring. *)
Appended(len) == [c \in Ring |-> LET off == (c - bufe) % BufSize IN IF off < len THEN written + off ELSE buffer[c]]
Wraps(len) == len > BufSize - bufe

\* Mutant: a chunk that starts the ring is not copied.
AtHeadOnWrap(len) == IF Wraps(len) THEN len - (BufSize - bufe) ELSE 0

(* How much of it lands at the beginning. *)
AtHead(len) == IF Wraps(len) THEN len - (BufSize - bufe) ELSE IF bufe = 0 THEN len ELSE 0

(* The beginning is copied behind the end when the chunk wraps or starts the ring, as far as this
   chunk goes. *)
CopiesTail(len, c) == c - BufSize < AtHead(len)

circbuffer_append(len) ==
  /\ written + len <= MaxWritten
  /\ buffer' = [c \in Ring \union TailCopy |->
       IF c \in Ring THEN Appended(len)[c]
       ELSE IF CopiesTail(len, c) THEN Appended(len)[c - BufSize] ELSE buffer[c]]
  /\ bufe' = (bufe + len) % BufSize
  /\ overflow_count' = IF bufe < bufs /\ bufe' >= bufs THEN overflow_count + 1 ELSE overflow_count
  /\ written' = written + len
  /\ lapped' = (lapped \/ written' - consumed > BufSize)
  /\ shortHead' = IF AtHead(len) > 0 THEN AtHead(len) < Window ELSE shortHead
  /\ UNCHANGED <<bufs, consumed, fft>>

Available == IF bufe >= bufs THEN bufe - bufs ELSE BufSize - bufs + bufe

(* Under buffer_lock; the window is read after the unlock. *)
EnoughSamples ==
  /\ ~fft /\ Available >= Step + Window
  /\ fft' = TRUE
  /\ UNCHANGED <<buffer, bufs, bufe, overflow_count, written, consumed, lapped, shortHead>>

AdvanceBufs ==
  /\ fft /\ fft' = FALSE
  /\ bufs' = (bufs + Step) % BufSize
  /\ consumed' = consumed + Step
  /\ UNCHANGED <<buffer, bufe, overflow_count, written, lapped, shortHead>>

BufNext == (\E len \in Chunks : circbuffer_append(len)) \/ EnoughSamples \/ AdvanceBufs

BufTypeOK ==
  /\ bufs \in Ring /\ bufe \in Ring /\ bufs % Step = 0
  /\ buffer \in [Ring \union TailCopy -> -1 .. MaxWritten - 1]
  /\ consumed <= written /\ overflow_count \in Nat /\ fft \in BOOLEAN

\* While the demodulator reads a window, appends and wrap-arounds included, it holds consecutive
\* samples of the stream from the read position on, also across the end of the ring
\* (input-helpers.cpp:31: "so that the signal windowing function could handle the whole FFT batch
\* without wrapping"): unless the ring was lapped, or the chunk that began the ring left less than
\* a window there, which the code does not copy on.
WindowIntact ==
  fft /\ ~lapped /\ ~shortHead => \A k \in 0 .. Window - 1 : buffer[bufs + k] = consumed + k
=============================================================================
