------------------------------ MODULE Icecast ------------------------------
(***************************************************************************)
(* The connection of one icecast output (output.cpp, live_reconfig.cpp):   *)
(* the output thread ("sender") sends on it and, on the control socket's   *)
(* request, closes and reopens it; output_check_thread() ("checker")       *)
(* reopens it when it finds it lost.  Neither takes a lock, both read      *)
(* icecast->shout again at every call, and opening takes up to 30 seconds. *)
(* A connection has two ends: the handle, until shout_close(), and the     *)
(* source that the server holds, until it drops it.                        *)
(***************************************************************************)
EXTENDS Integers, FiniteSets

CONSTANTS MaxToggles, MaxLosses    \* bounds: enable and disable requests; lost connections and refusals

VARIABLES
  shout,                    \* icecast_data::shout: the number of a handle, 0: NULL
  opened,                   \* handles connected so far
  unclosed, freed,          \* of those: not closed yet; given to shout_free()
  held,                     \* the connection the server holds on this mount, if any
  streaming,                \* channel->enabled
  radio,                    \* dev->input->state
  at,                       \* where each thread is, and the handle it has connected and not yet stored
  tornUse,                  \* history: a freed handle was used
  overlaps,                 \* history: connections stored while the other thread was opening one
  toggles, losses

iceVars == <<shout, opened, unclosed, freed, held, streaming, radio, at, tornUse, overlaps, toggles, losses>>

Null == 0
Parties == {"sender", "checker"}    \* the threads
Places == {"idle", "send", "look", "opening", "store", "close", "free", "null"}

At(t, pc) == at[t].pc = pc
Opening(t) == at[t].pc \in {"opening", "store"}
Go(t, pc) == at' = [at EXCEPT ![t] = [pc |-> pc, conn |-> Null]]
Pending == {at[t].conn : t \in {u \in Parties : At(u, "store")}}
Touch(conn) == tornUse' = (tornUse \/ conn \in freed)    \* any shout_ call: NULL is refused, never freed

\* The connect at startup may have failed.
IceInit ==
  /\ shout \in {Null, 1} /\ opened = shout /\ unclosed = 1 .. shout /\ freed = {} /\ held = unclosed
  /\ streaming = TRUE /\ radio = "RUNNING"
  /\ at = [t \in Parties |-> [pc |-> "idle", conn |-> Null]]
  /\ tornUse = FALSE /\ overlaps = 0 /\ toggles = 0 /\ losses = 0

(***************************************************************************)
(* shout_setup(), on either thread                                         *)
(***************************************************************************)
(* shout_open() and the poll of shout_get_connected(): the server takes one source for a mount. *)
Accepted(t) ==
  /\ At(t, "opening") /\ held = {}
  /\ opened' = opened + 1 /\ held' = {opened'} /\ unclosed' = unclosed \union {opened'}
  /\ at' = [at EXCEPT ![t] = [pc |-> "store", conn |-> opened']]
  /\ UNCHANGED <<shout, freed, streaming, radio, tornUse, overlaps, toggles, losses>>

(* Refused, unreachable or not answered in 30 seconds: the new handle is closed and freed. *)
Refused(t) ==
  /\ At(t, "opening")
  /\ \/ held # {} /\ UNCHANGED losses
     \/ losses < MaxLosses /\ losses' = losses + 1
  /\ Go(t, "idle")
  /\ UNCHANGED <<shout, opened, unclosed, freed, held, streaming, radio, tornUse, overlaps, toggles>>

(* After SLEEP(100): icecast->shout = shouttemp, whatever it holds by now. *)
Stores(t) ==
  /\ At(t, "store")
  /\ shout' = at[t].conn
  /\ overlaps' = overlaps + (IF \E u \in Parties \ {t} : Opening(u) THEN 1 ELSE 0)
  /\ Go(t, "idle")
  /\ UNCHANGED <<opened, unclosed, freed, held, streaming, radio, tornUse, toggles, losses>>

(***************************************************************************)
(* shout_close(), shout_free(), icecast->shout = NULL, on either thread    *)
(***************************************************************************)
Closes(t) ==
  /\ At(t, "close")
  /\ Touch(shout) /\ unclosed' = unclosed \ {shout}
  /\ Go(t, "free")
  /\ UNCHANGED <<shout, opened, freed, held, streaming, radio, overlaps, toggles, losses>>

(* shout_free() refuses a handle that is connected. *)
Frees(t) ==
  /\ At(t, "free")
  /\ Touch(shout) /\ freed' = freed \union ({shout} \ (unclosed \union {Null}))
  /\ Go(t, "null")
  /\ UNCHANGED <<shout, opened, unclosed, held, streaming, radio, overlaps, toggles, losses>>

Forgets(t) ==
  /\ At(t, "null")
  /\ shout' = Null
  /\ Go(t, "idle")
  /\ UNCHANGED <<opened, unclosed, freed, held, streaming, radio, tornUse, overlaps, toggles, losses>>

Connection(t) == Accepted(t) \/ Refused(t) \/ Stores(t) \/ Closes(t) \/ Frees(t) \/ Forgets(t)

(***************************************************************************)
(* process_outputs()                                                       *)
(***************************************************************************)
BeginSend ==
  /\ At("sender", "idle") /\ streaming /\ shout # Null
  /\ Go("sender", "send")
  /\ UNCHANGED <<shout, opened, unclosed, freed, held, streaming, radio, tornUse, overlaps, toggles, losses>>

(* A nonblocking shout_send() also succeeds on a connection that the server has dropped. *)
SendSucceeds ==
  /\ At("sender", "send") /\ shout \in unclosed
  /\ Touch(shout)
  /\ Go("sender", "idle")
  /\ UNCHANGED <<shout, opened, unclosed, freed, held, streaming, radio, overlaps, toggles, losses>>

\* Mutant: the failure is not acted on.
SendFailsIgnored ==
  /\ At("sender", "send")
  /\ \/ shout \notin held /\ UNCHANGED losses
     \/ losses < MaxLosses /\ losses' = losses + 1
  /\ Touch(shout)
  /\ Go("sender", "idle")
  /\ UNCHANGED <<shout, opened, unclosed, freed, held, streaming, radio, overlaps, toggles>>

(* An error, or a backlog over MAX_SHOUT_QUEUELEN. *)
SendFails ==
  /\ At("sender", "send")
  /\ \/ shout \notin held /\ UNCHANGED losses
     \/ losses < MaxLosses /\ losses' = losses + 1
  /\ Touch(shout)
  /\ Go("sender", "close")
  /\ UNCHANGED <<shout, opened, unclosed, freed, held, streaming, radio, overlaps, toggles>>

(***************************************************************************)
(* channel_apply_disable(), channel_apply_enable(), on the output thread   *)
(***************************************************************************)
Disable ==
  /\ At("sender", "idle") /\ streaming /\ toggles < MaxToggles /\ toggles' = toggles + 1
  /\ streaming' = FALSE
  /\ Go("sender", IF shout = Null THEN "idle" ELSE "close")
  /\ UNCHANGED <<shout, opened, unclosed, freed, held, radio, tornUse, overlaps, losses>>

Enable ==
  /\ At("sender", "idle") /\ ~streaming /\ toggles < MaxToggles /\ toggles' = toggles + 1
  /\ streaming' = TRUE
  /\ Go("sender", IF shout = Null THEN "opening" ELSE "idle")
  /\ UNCHANGED <<shout, opened, unclosed, freed, held, radio, tornUse, overlaps, losses>>

Sender == BeginSend \/ SendSucceeds \/ SendFails \/ Connection("sender")

(***************************************************************************)
(* output_check_thread(): it has found the channel enabled, and reads the  *)
(* receiver's state and icecast->shout after that                          *)
(***************************************************************************)
CheckVisits ==
  /\ At("checker", "idle") /\ streaming
  /\ Go("checker", "look")
  /\ UNCHANGED <<shout, opened, unclosed, freed, held, streaming, radio, tornUse, overlaps, toggles, losses>>

FindsNull == radio = "RUNNING" /\ shout = Null
FindsFailure == radio = "FAILED" /\ shout # Null

CheckReconnects == FindsNull /\ Go("checker", "opening")
CheckDisconnects == FindsFailure /\ Go("checker", "close")
CheckPasses == ~FindsNull /\ ~FindsFailure /\ Go("checker", "idle")

CheckLooks ==
  /\ At("checker", "look")
  /\ CheckReconnects \/ CheckDisconnects \/ CheckPasses
  /\ UNCHANGED <<shout, opened, unclosed, freed, held, streaming, radio, tornUse, overlaps, toggles, losses>>

Checker == CheckVisits \/ CheckLooks \/ Connection("checker")

(***************************************************************************)
(* The server's side; the receiver fails, and the demodulator folds that   *)
(* into INPUT_DISABLED.                                                    *)
(***************************************************************************)
InUse == Pending \union (IF streaming THEN {shout} \intersect unclosed ELSE {})

(* The server drops a source that sends nothing. *)
ServerDropsIdle ==
  /\ held # {} /\ held \intersect InUse = {}
  /\ held' = {}
  /\ UNCHANGED <<shout, opened, unclosed, freed, streaming, radio, at, tornUse, overlaps, toggles, losses>>

(* The network or the server drops a source that is in use; the sender may not hear of it for long. *)
ServerDropsFed ==
  /\ held \intersect InUse # {} /\ losses < MaxLosses /\ losses' = losses + 1
  /\ held' = {}
  /\ UNCHANGED <<shout, opened, unclosed, freed, streaming, radio, at, tornUse, overlaps, toggles>>

RadioFails ==
  /\ radio = "RUNNING" /\ radio' = "FAILED"
  /\ UNCHANGED <<shout, opened, unclosed, freed, held, streaming, at, tornUse, overlaps, toggles, losses>>

DemodFolds ==
  /\ radio = "FAILED" /\ radio' = "DISABLED"
  /\ UNCHANGED <<shout, opened, unclosed, freed, held, streaming, at, tornUse, overlaps, toggles, losses>>

IceNext ==
  Sender \/ Disable \/ Enable \/ Checker \/ ServerDropsIdle \/ ServerDropsFed \/ RadioFails \/ DemodFolds

\* The sender hears of a connection that is gone if it goes on sending: a reset, or a backlog.
LossNoticed == SendFails /\ shout \notin held

IceSpec ==
  /\ IceInit /\ [][IceNext]_iceVars
  /\ WF_iceVars(Sender) /\ WF_iceVars(Checker) /\ WF_iceVars(ServerDropsIdle) /\ SF_iceVars(LossNoticed)

IceTypeOK ==
  /\ shout \in 0 .. opened /\ opened \in Nat /\ overlaps \in Nat
  /\ unclosed \subseteq 1 .. opened /\ freed \subseteq 1 .. opened /\ held \subseteq 1 .. opened
  /\ at \in [Parties -> [pc : Places, conn : 0 .. opened]]
  /\ streaming \in BOOLEAN /\ tornUse \in BOOLEAN /\ radio \in {"RUNNING", "FAILED", "DISABLED"}

\* Connected handles that nothing names any more: they are never closed.
Strays == unclosed \ ({shout} \union Pending)

\* While the receiver works, no handle is used after shout_free(), for all that both threads read
\* and replace icecast->shout without a lock; and a connected handle is lost unclosed only where a
\* thread stored its connection while the other was opening one too (a channel_enable during a
\* reconnect, or the reverse), at most one for each time that happened.  (output_check_thread()'s close for a
\* failed receiver has no such protection.)
StreamHandleSafe == radio = "RUNNING" => ~tornUse /\ Cardinality(Strays) <= overlaps

\* Whatever connections are lost or refused, noticed at once or late, and whatever a reconnect that
\* was under way during a channel_disable left behind: a channel that stays enabled with a working
\* receiver is streaming again in the end, on the connection the server holds.
StreamRecovers == <>[](streaming /\ radio = "RUNNING") => []<>(shout \in held /\ shout \in unclosed)

IcecastSound == []StreamHandleSafe /\ StreamRecovers
=============================================================================
