----------------------------- MODULE OutputFile -----------------------------
(***************************************************************************)
(* A file or rawfile output (output.cpp): files opened under a temporary   *)
(* name, split by transmission or by the hour, renamed or dropped when     *)
(* closed.  A batch is named by the tick it is written at, a file by the   *)
(* second or hour it was opened in and, for the parts of a transmission    *)
(* that was split, the second that began in.                               *)
(***************************************************************************)
EXTENDS Integers

CONSTANTS
  FileModes,             \* the settings of the output, see OutputFileModes in the MC module
  Second, Hour,          \* ticks in a second and in an hour
  split_min_file_time, split_max_file_time, split_max_idle_time,   \* in ticks
  LastTick               \* bound

ASSUME FileSettings ==
  /\ FileModes \subseteq [split : BOOLEAN, append : BOOLEAN, continuous : BOOLEAN, txName : BOOLEAN,
                          dropShorter : Nat, minRx : Nat]
  /\ Second \in Nat \ {0} /\ Hour \in Nat \ {0} /\ LastTick \in Nat
  /\ split_min_file_time \in Nat /\ split_max_file_time \in Nat /\ split_max_idle_time \in Nat

ASSUME FileTimesAssumption ==      \* valid_split_file_times()
  /\ split_min_file_time >= Second /\ split_max_file_time > split_min_file_time
  /\ split_max_idle_time > 0

VARIABLES
  mode,           \* [split, append, continuous, txName, dropShorter, minRx]
  clock,
  fdata,          \* the open file and what close_if_necessary() remembers of it
  disk,           \* closed files: batches under their names
  outputOn,       \* channel->enabled and output->enabled
  dropped, lost,  \* history: [file, transmission] of each deleted file, batches overwritten
  interrupted     \* history: a write failed or the channel was disabled

fileVars == <<mode, clock, fdata, disk, outputOn, dropped, lost, interrupted>>

Unit == IF mode.split THEN Second ELSE Hour
Path(tx, t) == [tx |-> tx, at |-> t \div Unit]
Paths == [tx : -1 .. LastTick, at : 0 .. LastTick]
Closed == [file |-> FALSE, path |-> Path(-1, 0), batches |-> {}, open_time |-> 0, last_write |-> 0,
           tx_start |-> 0, transmission |-> {}, active |-> FALSE]

FileInit ==
  /\ mode \in FileModes
  /\ clock = 0 /\ fdata = Closed
  /\ disk = [p \in {} |-> {}]
  /\ outputOn = TRUE /\ dropped = {} /\ lost = {} /\ interrupted = FALSE

(***************************************************************************)
(* The functions of output.cpp take and return s, the file system as this  *)
(* output sees it.                                                         *)
(***************************************************************************)
World == [f |-> fdata, disk |-> disk, dropped |-> dropped, lost |-> lost, maxTime |-> FALSE]
Under(path, files) == IF path \in DOMAIN files THEN files[path] ELSE {}
Put(files, path, b) == [p \in DOMAIN files \union {path} |-> IF p = path THEN b ELSE files[p]]
Without(files, path) == [p \in DOMAIN files \ {path} |-> files[p]]

(* close_file(): the temporary file is deleted, if the caller says so or it is shorter than
   min_rx_seconds, or renamed over its final name. *)
TooShort(f) == mode.split /\ f.last_write - f.open_time < mode.minRx
Shut(f) == [f EXCEPT !.file = FALSE, !.batches = {}]
close_file(s, drop) ==
  IF ~s.f.file THEN s
  ELSE IF drop \/ TooShort(s.f)
  THEN [s EXCEPT !.f = Shut(@),
                 !.dropped = @ \union {[file |-> s.f.batches, transmission |-> s.f.transmission]}]
  ELSE [s EXCEPT !.f = Shut(@), !.lost = @ \union Under(s.f.path, s.disk),
                 !.disk = Put(@, s.f.path, s.f.batches)]

Duration(f) == clock - f.open_time
Idle(f) == clock - f.last_write
OverMaxTime(f) == Duration(f) > split_max_file_time
OverIdle(f) == Duration(f) > split_min_file_time /\ Idle(f) > split_max_idle_time
FirstFile(f) == f.open_time = f.tx_start
OnlyMaxTime(f) == OverMaxTime(f) /\ ~OverIdle(f)

(* The first part of a transmission is renamed once it turns out to be split. *)
RenameFirst(s, reopening) ==
  IF FirstFile(s.f) /\ mode.txName /\ reopening
  THEN [s EXCEPT !.f = [s.f EXCEPT !.path = Path(s.f.tx_start \div Second, s.f.open_time)]] ELSE s

\* Mutant: a short last part is taken for a short transmission.
should_drop_last_part(f, continues) == ~continues /\ Duration(f) - Idle(f) < mode.dropShorter

should_drop_split_tx(f, continues) ==
  FirstFile(f) /\ ~continues /\ Duration(f) - Idle(f) < mode.dropShorter

close_if_necessary(s, reopening) ==
  IF ~s.f.file THEN s
  ELSE IF ~mode.split
  THEN IF s.f.open_time \div Hour # clock \div Hour THEN close_file(s, FALSE) ELSE s
  ELSE IF OnlyMaxTime(s.f)
  THEN [close_file(RenameFirst(s, reopening), should_drop_split_tx(s.f, reopening)) EXCEPT !.maxTime = TRUE]
  ELSE IF OverIdle(s.f) THEN close_file(s, should_drop_split_tx(s.f, FALSE))
  ELSE s

(* open_file(): a file of the same name is continued or truncated. *)
open_file(s, path) ==
  [s EXCEPT !.f = [s.f EXCEPT !.file = TRUE, !.path = path,
                              !.batches = IF mode.append THEN Under(path, s.disk) ELSE {}],
            !.disk = Without(@, path), !.lost = IF mode.append THEN @ ELSE @ \union Under(path, s.disk)]

NewPart(s) ==
  [s EXCEPT !.f = [s.f EXCEPT !.tx_start = IF s.maxTime THEN @ ELSE clock, !.open_time = clock,
                              !.last_write = clock, !.transmission = IF s.maxTime THEN @ ELSE {}]]
OpenNew(s) == LET part == NewPart(s) IN
  open_file(part, Path(IF mode.txName /\ s.maxTime THEN part.f.tx_start \div Second ELSE -1, clock))

output_file_ready(s) == LET c == close_if_necessary(s, TRUE) IN IF c.f.file THEN c ELSE OpenNew(c)

Written(s, hasSignal) ==
  [s EXCEPT !.f = [s.f EXCEPT !.batches = @ \union {clock}, !.transmission = @ \union {clock},
                              !.last_write = clock, !.active = hasSignal]]

Becomes(s) == fdata' = s.f /\ disk' = s.disk /\ dropped' = s.dropped /\ lost' = s.lost

(***************************************************************************)
(* process_outputs(): one batch a tick.  LAME may return no bytes; a write *)
(* may fail.                                                               *)
(***************************************************************************)
Tick == clock < LastTick /\ clock' = clock + 1 /\ UNCHANGED mode
Quiet(hasSignal) == ~mode.continuous /\ ~hasSignal /\ ~fdata.active

QuietBatch(hasSignal) ==
  /\ Tick /\ outputOn /\ Quiet(hasSignal)
  /\ Becomes(close_if_necessary(World, FALSE))
  /\ UNCHANGED <<outputOn, interrupted>>

WriteBatchTo(hasSignal) ==
  /\ Tick /\ outputOn /\ ~Quiet(hasSignal)
  /\ Becomes(Written(output_file_ready(World), hasSignal))
  /\ UNCHANGED <<outputOn, interrupted>>

NothingEncoded(hasSignal) ==
  /\ Tick /\ outputOn /\ ~Quiet(hasSignal)
  /\ Becomes(output_file_ready(World))
  /\ UNCHANGED <<outputOn, interrupted>>

WriteFails(hasSignal) ==
  /\ Tick /\ outputOn /\ ~Quiet(hasSignal) /\ ~interrupted
  /\ Becomes([close_file(output_file_ready(World), FALSE)
               EXCEPT !.f = [@ EXCEPT !.active = hasSignal, !.last_write = clock]])
  /\ outputOn' = FALSE /\ interrupted' = TRUE

(* The directory or the file cannot be created. *)
OpenFails(hasSignal) == LET c == close_if_necessary(World, TRUE) IN
  /\ Tick /\ outputOn /\ ~Quiet(hasSignal) /\ ~interrupted /\ ~c.f.file
  /\ Becomes(NewPart(c))
  /\ outputOn' = FALSE /\ interrupted' = TRUE

(* disable_channel_outputs() and reconnect_channel_outputs() *)
DisableFile ==
  /\ outputOn /\ ~interrupted
  /\ Becomes(close_file(World, FALSE))
  /\ outputOn' = FALSE /\ interrupted' = TRUE
  /\ UNCHANGED <<mode, clock>>

EnableFile ==
  /\ ~outputOn /\ outputOn' = TRUE
  /\ UNCHANGED <<mode, clock, fdata, disk, dropped, lost, interrupted>>

WhileOff ==
  /\ Tick /\ ~outputOn
  /\ UNCHANGED <<fdata, disk, outputOn, dropped, lost, interrupted>>

FileNext ==
  \/ \E hasSignal \in BOOLEAN :
       QuietBatch(hasSignal) \/ WriteBatchTo(hasSignal) \/ NothingEncoded(hasSignal)
       \/ WriteFails(hasSignal) \/ OpenFails(hasSignal)
  \/ DisableFile \/ EnableFile \/ WhileOff

FileTypeOK ==
  /\ mode \in FileModes /\ clock \in 0 .. LastTick /\ outputOn \in BOOLEAN
  /\ fdata.path \in Paths /\ DOMAIN disk \subseteq Paths
  /\ fdata.tx_start <= fdata.open_time /\ fdata.open_time <= clock

\* A file is deleted only if it holds everything of a transmission shorter than
\* split_tx_drop_shorter_than: no part of a transmission that was split
\* (helper_functions.cpp:173), min_rx_seconds aside.  After an interruption a file may be appended to within its second,
\* and is then deleted with what it held before.
DropsWholeTransmission ==
  ~interrupted /\ mode.minRx = 0 => \A d \in dropped :
    /\ d.file = d.transmission
    /\ \A a \in d.file, b \in d.file : b - a < mode.dropShorter

\* No recorded batch is overwritten: the names of consecutive files differ, whatever closes a
\* file and however soon the next is opened (helper_functions.cpp:153), except after an
\* interruption with append off.
NothingOverwritten == mode.append \/ ~interrupted => lost = {}

\* Without split_on_transmission a file holds one hour's batches, also across appends.
HoursSeparate == ~mode.split => \A p \in DOMAIN disk : \A b \in disk[p] : b \div Hour = p.at

FilesSound == DropsWholeTransmission /\ NothingOverwritten /\ HoursSeparate
=============================================================================
