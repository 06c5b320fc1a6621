------------------------------ MODULE Uploads ------------------------------
(***************************************************************************)
(* The rdio-scanner uploader (rdio_scanner.cpp): close_file() queues each  *)
(* finished transmission, one worker uploads them, with retries, and       *)
(* deletes the file afterwards if asked to.                                *)
(***************************************************************************)
EXTENDS Integers, Sequences, FiniteSets

CONSTANTS
  QueueDepth,       \* rdio_scanner_queue_depth
  MaxRetries,       \* max_retries
  MaxJobs           \* bound: transmissions finished

ASSUME UploadsAssumption == QueueDepth \in Nat \ {0} /\ MaxRetries \in Nat /\ MaxJobs \in Nat

VARIABLES
  job_queue,                     \* the transmissions waiting, numbered in the order they ended
  upload, attempt,               \* process_job(): its transmission, 0 if none, and its attempt
  uploadPc,                      \* "idle", "send", "backoff" or, once the thread returned, "done"
  shutdown_requested, deleteAfter,
  finished,                      \* transmissions finished so far
  received,                      \* what the server holds, however the request ended for the client
  uploaded, droppedJobs, failed,     \* what became of the others; the last two are also counted
  attempted, deleted,
  uploadMain                     \* main(): "run", "join", "exit"

upVars == <<job_queue, upload, attempt, uploadPc, shutdown_requested, deleteAfter, finished, received,
            uploaded, droppedJobs, failed, attempted, deleted, uploadMain>>

(* rdio_scanner_start() runs once, and starts no worker if no output of the configuration uploads:
   the first one to do so may be appended later. *)
UpInit ==
  /\ job_queue = <<>> /\ upload = 0 /\ attempt = 0
  /\ uploadPc \in {"idle", "done"}
  /\ shutdown_requested = FALSE /\ deleteAfter \in BOOLEAN
  /\ finished = 0 /\ received = {} /\ uploaded = {} /\ droppedJobs = {} /\ failed = {}
  /\ attempted = {} /\ deleted = {} /\ uploadMain = "run"

WorkerStarted == uploadPc # "done" \/ shutdown_requested

(***************************************************************************)
(* rdio_scanner_enqueue()                                                  *)
(***************************************************************************)
DropOldest == IF Len(job_queue) >= QueueDepth THEN Tail(job_queue) ELSE job_queue

rdio_scanner_enqueue ==
  /\ uploadMain = "run" /\ finished < MaxJobs
  /\ finished' = finished + 1
  /\ droppedJobs' = IF Len(job_queue) >= QueueDepth THEN droppedJobs \union {Head(job_queue)} ELSE droppedJobs
  /\ job_queue' = Append(DropOldest, finished')
  /\ UNCHANGED <<upload, attempt, uploadPc, shutdown_requested, deleteAfter, received, uploaded, failed,
                 attempted, deleted, uploadMain>>

(***************************************************************************)
(* worker_main(), process_job()                                            *)
(***************************************************************************)
WorkerOnly == <<shutdown_requested, deleteAfter, finished, droppedJobs, uploadMain>>

TakeJob ==
  /\ uploadPc = "idle" /\ job_queue # <<>>
  /\ upload' = Head(job_queue) /\ job_queue' = Tail(job_queue)
  /\ attempt' = 0 /\ uploadPc' = "send"
  /\ UNCHANGED <<WorkerOnly, received, uploaded, failed, attempted, deleted>>

\* Mutant: the worker leaves its queue behind.
WorkerReturnsAtOnce ==
  /\ uploadPc = "idle" /\ shutdown_requested
  /\ uploadPc' = "done"
  /\ UNCHANGED <<WorkerOnly, job_queue, upload, attempt, received, uploaded, failed, attempted, deleted>>

WorkerReturns ==
  /\ uploadPc = "idle" /\ job_queue = <<>> /\ shutdown_requested
  /\ uploadPc' = "done"
  /\ UNCHANGED <<WorkerOnly, job_queue, upload, attempt, received, uploaded, failed, attempted, deleted>>

JobEnds == upload' = 0 /\ attempt' = 0 /\ uploadPc' = "idle"

UploadWorks ==
  /\ uploadPc = "send"
  /\ received' = received \union {upload} /\ uploaded' = uploaded \union {upload}
  /\ attempted' = attempted \union {upload}
  /\ deleted' = IF deleteAfter THEN deleted \union {upload} ELSE deleted
  /\ JobEnds
  /\ UNCHANGED <<WorkerOnly, job_queue, failed>>

GivesUp == failed' = failed \union {upload} /\ JobEnds
\* Mutant: one attempt too many.
RetryLaterOnceMore == attempt <= MaxRetries /\ ~shutdown_requested

RetryLater == attempt < MaxRetries /\ ~shutdown_requested

(* The request is refused, times out or is aborted by a shutdown; the server may hold the
   transmission all the same. *)
UploadFails ==
  /\ uploadPc = "send"
  /\ received' \in {received, received \union {upload}}
  /\ attempted' = attempted \union {upload}
  /\ IF RetryLater THEN uploadPc' = "backoff" /\ UNCHANGED <<upload, attempt, failed>> ELSE GivesUp
  /\ UNCHANGED <<WorkerOnly, job_queue, uploaded, deleted>>

(* backoff_sleep() ends after `attempt' seconds or with the shutdown. *)
BackoffEnds ==
  /\ uploadPc = "backoff"
  /\ IF shutdown_requested
     THEN GivesUp
     ELSE uploadPc' = "send" /\ attempt' = attempt + 1 /\ UNCHANGED <<upload, failed>>
  /\ UNCHANGED <<WorkerOnly, job_queue, received, uploaded, attempted, deleted>>

UploadWorker == TakeJob \/ WorkerReturns \/ UploadWorks \/ UploadFails \/ BackoffEnds

(***************************************************************************)
(* rdio_scanner_shutdown(): main() calls it when the outputs are closed.   *)
(***************************************************************************)
RequestsShutdown ==
  /\ uploadMain = "run"
  /\ IF WorkerStarted
     THEN shutdown_requested' = TRUE /\ uploadMain' = "join"
     ELSE uploadMain' = "exit" /\ UNCHANGED shutdown_requested
  /\ UNCHANGED <<job_queue, upload, attempt, uploadPc, deleteAfter, finished, received, uploaded, droppedJobs, failed, attempted, deleted>>

JoinsWorker ==
  /\ uploadMain = "join" /\ uploadPc = "done" /\ uploadMain' = "exit"
  /\ UNCHANGED <<job_queue, upload, attempt, uploadPc, shutdown_requested, deleteAfter, finished, received, uploaded, droppedJobs, failed, attempted, deleted>>

UpNext == rdio_scanner_enqueue \/ UploadWorker \/ RequestsShutdown \/ JoinsWorker

(* A request ends within its timeouts. *)
UpSpec == UpInit /\ [][UpNext]_upVars /\ WF_upVars(UploadWorker) /\ WF_upVars(JoinsWorker)

Waiting == {job_queue[i] : i \in DOMAIN job_queue}
InWork == {upload} \ {0}

UpTypeOK ==
  /\ Waiting \subseteq 1 .. finished /\ upload \in 0 .. finished /\ attempt \in 0 .. MaxRetries
  /\ uploadPc \in {"idle", "send", "backoff", "done"} /\ uploadMain \in {"run", "join", "exit"}
  /\ shutdown_requested \in BOOLEAN /\ finished \in 0 .. MaxJobs

\* A finished transmission is in exactly one place - waiting, being uploaded, uploaded, dropped or
\* failed, so that nothing is missing from the two counters - they are uploaded in the order they
\* ended, a full queue loses only older ones than those it keeps, and no file is deleted that the
\* server does not hold.
JobsAccounted ==
  /\ Waiting \union InWork \union uploaded \union droppedJobs \union failed = 1 .. finished
  /\ Len(job_queue) + Cardinality(InWork) + Cardinality(uploaded) + Cardinality(droppedJobs) + Cardinality(failed) = finished
  /\ Len(job_queue) <= QueueDepth
  /\ \A i, j \in DOMAIN job_queue : i < j => job_queue[i] < job_queue[j]
  /\ \A w \in Waiting : \A s \in InWork \union uploaded \union droppedJobs \union failed : s < w
  /\ deleted \subseteq received

\* A shutdown ends, whatever the server does, and when it does every transmission that was not
\* dropped has been tried at least once (rdio_scanner.cpp:141) - if there is a worker.
UploadsDrain ==
  /\ [](uploadMain = "exit" /\ shutdown_requested => (1 .. finished) \ droppedJobs \subseteq attempted)
  /\ (shutdown_requested = TRUE) ~> (uploadMain = "exit")

UploadsSound == []JobsAccounted /\ UploadsDrain
=============================================================================
