----------------------------- MODULE TagUpdates -----------------------------
(***************************************************************************)
(* Titles of icecast streams: icecast_tx_tag_step() (helper_functions.cpp) *)
(* delays and coalesces the tag of the channel that is talking, one worker *)
(* sends what it submits (icecast_metadata.cpp).  A tick is one batch of   *)
(* the output thread for every stream.                                     *)
(***************************************************************************)
EXTENDS Integers, Sequences

CONSTANTS
  Streams, TagValues,
  NoTitle,           \* "", the tag of a silent channel
  TagDelay,          \* shout_metadata_delay, in ticks
  MaxTagChanges      \* bound: changes of the tag wanted

ASSUME TagsAssumption == TagDelay \in Nat /\ NoTitle \in TagValues \ Streams

VARIABLES
  wanted,                        \* compute_tx_tag_content(), mixer_select_active_tag_input()
  applied, waiting, deadline,    \* icecast_tx_tag_state: waiting is `pending', deadline in ticks from now
  submitted,                     \* IcecastMetaTarget::pending_value
  queued, ready_, stopping,      \* IcecastMetaQueue
  sending,                       \* the worker's job: none, or [target, value]
  title,                         \* what the server shows
  stale,                         \* history: ticks since wanted was last applied
  failedUpdate,                  \* history: the last update of the target failed
  tagChanges, tagMain            \* bound; main()'s wait for the worker

stepVars == <<wanted, applied, waiting, deadline, stale>>
tagVars == <<stepVars, submitted, queued, ready_, stopping, sending, title, failedUpdate, tagChanges, tagMain>>

NoJob == [target |-> NoTitle, value |-> NoTitle]

TagInit ==
  /\ wanted = [s \in Streams |-> NoTitle] /\ applied = [s \in Streams |-> NoTitle]
  /\ waiting = [s \in Streams |-> FALSE] /\ deadline = [s \in Streams |-> 0]
  /\ submitted = [s \in Streams |-> NoTitle] /\ queued = [s \in Streams |-> FALSE]
  /\ ready_ = <<>> /\ stopping = FALSE /\ sending = NoJob
  /\ title = [s \in Streams |-> NoTitle] /\ stale = [s \in Streams |-> 0]
  /\ failedUpdate = [s \in Streams |-> FALSE] /\ tagChanges = 0 /\ tagMain = "run"

TagChanges(s, v) ==
  /\ tagMain = "run" /\ tagChanges < MaxTagChanges /\ v # wanted[s]
  /\ tagChanges' = tagChanges + 1
  /\ wanted' = [wanted EXCEPT ![s] = v]
  /\ UNCHANGED <<applied, waiting, deadline, stale, submitted, queued, ready_, stopping, sending, title, failedUpdate, tagMain>>

(***************************************************************************)
(* icecast_tx_tag_step() and icecast_metadata_submit()                     *)
(***************************************************************************)
TicksLeft(s) == IF waiting[s] THEN deadline[s] ELSE TagDelay
\* Mutant: a value that waits is not replaced.
SubmitKeepsFirst(s, v) ==
  /\ submitted' = IF queued[s] THEN submitted ELSE [submitted EXCEPT ![s] = v]
  /\ queued' = [queued EXCEPT ![s] = TRUE]
  /\ ready_' = IF queued[s] THEN ready_ ELSE Append(ready_, s)

Submit(s, v) ==
  /\ submitted' = [submitted EXCEPT ![s] = v]
  /\ queued' = [queued EXCEPT ![s] = TRUE]
  /\ ready_' = IF queued[s] THEN ready_ ELSE Append(ready_, s)

TagApplied(s) ==
  /\ tagMain = "run" /\ wanted[s] = applied[s]
  /\ waiting[s] \/ stale[s] # 0
  /\ waiting' = [waiting EXCEPT ![s] = FALSE]
  /\ stale' = [stale EXCEPT ![s] = 0]
  /\ UNCHANGED <<wanted, applied, deadline, submitted, queued, ready_, stopping, sending, title, failedUpdate, tagChanges, tagMain>>

TagWaits(s) ==
  /\ tagMain = "run" /\ wanted[s] # applied[s] /\ TicksLeft(s) > 0
  /\ waiting' = [waiting EXCEPT ![s] = TRUE]
  /\ deadline' = [deadline EXCEPT ![s] = TicksLeft(s) - 1]
  /\ stale' = [stale EXCEPT ![s] = @ + 1]
  /\ UNCHANGED <<wanted, applied, submitted, queued, ready_, stopping, sending, title, failedUpdate, tagChanges, tagMain>>

TagDue(s) ==
  /\ tagMain = "run" /\ wanted[s] # applied[s] /\ TicksLeft(s) = 0
  /\ applied' = [applied EXCEPT ![s] = wanted[s]]
  /\ waiting' = [waiting EXCEPT ![s] = FALSE]
  /\ stale' = [stale EXCEPT ![s] = 0]
  /\ Submit(s, wanted[s])
  /\ UNCHANGED <<wanted, deadline, stopping, sending, title, failedUpdate, tagChanges, tagMain>>

TagStep(s) == TagApplied(s) \/ TagWaits(s) \/ TagDue(s)

(***************************************************************************)
(* The worker.                                                             *)
(***************************************************************************)
WorkerElse == <<stepVars, submitted, stopping, tagChanges, tagMain>>

Take ==
  /\ sending = NoJob /\ ~stopping /\ ready_ # <<>>
  /\ sending' = [target |-> Head(ready_), value |-> submitted[Head(ready_)]]
  /\ queued' = [queued EXCEPT ![Head(ready_)] = FALSE]
  /\ ready_' = Tail(ready_)
  /\ UNCHANGED <<WorkerElse, title, failedUpdate>>

(* The title is set; or the request fails and the value is dropped. *)
UpdateSent ==
  /\ sending # NoJob
  /\ \/ title' = [title EXCEPT ![sending.target] = sending.value] /\ failedUpdate' = [failedUpdate EXCEPT ![sending.target] = FALSE]
     \/ failedUpdate' = [failedUpdate EXCEPT ![sending.target] = TRUE] /\ UNCHANGED title
  /\ sending' = NoJob
  /\ UNCHANGED <<WorkerElse, queued, ready_>>

TagWorker == Take \/ UpdateSent

(* icecast_metadata_shutdown(): joins the worker, or leaves a stuck request behind after 2 s. *)
MetadataShutdown ==
  /\ tagMain = "run" /\ tagMain' = "waits" /\ stopping' = TRUE
  /\ UNCHANGED <<stepVars, submitted, queued, ready_, sending, title, failedUpdate, tagChanges>>

WorkerLeft ==
  /\ tagMain = "waits" /\ tagMain' = IF sending = NoJob THEN "joined" ELSE "detached"
  /\ UNCHANGED <<stepVars, submitted, queued, ready_, stopping, sending, title, failedUpdate, tagChanges>>

TagNext ==
  \/ \E s \in Streams : (\E v \in TagValues : TagChanges(s, v)) \/ TagStep(s)
  \/ TagWorker \/ MetadataShutdown \/ WorkerLeft

(* Batches keep coming, requests end. *)
TagSpec ==
  TagInit /\ [][TagNext]_tagVars /\ (\A s \in Streams : WF_tagVars(TagStep(s))) /\ WF_tagVars(TagWorker) /\ WF_tagVars(WorkerLeft)

TagTypeOK ==
  /\ wanted \in [Streams -> TagValues] /\ applied \in [Streams -> TagValues]
  /\ deadline \in [Streams -> 0 .. TagDelay] /\ submitted \in [Streams -> TagValues]
  /\ \A i \in DOMAIN ready_ : ready_[i] \in Streams
  /\ tagMain \in {"run", "waits", "joined", "detached"}

\* However the tag flaps, a title that is out of date is replaced within the metadata delay
\* (helper_functions.cpp:141: "worst-case tag-update latency is bounded to one delay_sec window"),
\* and a stream stands in the queue at most once, exactly while it has a value to send
\* (icecast_metadata.h:65).
TagsPrompt ==
  \A s \in Streams :
    /\ stale[s] <= TagDelay
    /\ queued[s] <=> \E i \in DOMAIN ready_ : ready_[i] = s
    /\ \A i, j \in DOMAIN ready_ : ready_[i] = s /\ ready_[j] = s => i = j

\* No title is lost to coalescing or overtaken by an older one: what is on the air is what was
\* last submitted unless a newer one is queued or being sent, its request failed, or the program
\* ends; and a tag that stays is shown in the end, unless its request fails.
TitleShown ==
  /\ [](\A s \in Streams : title[s] = applied[s] \/ queued[s] \/ sending.target = s \/ failedUpdate[s])
  /\ \A s \in Streams : \A v \in TagValues :
       <>[](wanted[s] = v) => <>(title[s] = v \/ failedUpdate[s] \/ stopping)

TagsSound == []TagsPrompt /\ TitleShown
=============================================================================
