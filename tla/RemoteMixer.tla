---------------------------- MODULE RemoteMixer ----------------------------
(***************************************************************************)
(* A channel of one process feeding an input of a mixer in another         *)
(* (mixer_remote.cpp, mixer_remote_wire.cpp): datagrams numbered by the    *)
(* sender, no connection, either process may start, stop and restart.      *)
(***************************************************************************)
EXTENDS Integers, Sequences, FiniteSets

CONSTANTS
  SocketQueue,                    \* datagrams the kernel holds for a receiver
  MaxPackets, MaxRestarts         \* bounds: packets of one sender; processes restarted, channel toggled

ASSUME RemoteAssumption == SocketQueue \in Nat /\ MaxPackets \in Nat /\ MaxRestarts \in Nat

VARIABLES
  talking, send_socket,           \* channel->enabled; the socket is open
  seq, dropped_packet_count,      \* mixer_remote_send_data
  senderRun,                      \* which run of the sending process this is
  verdict,                        \* what the receiver makes of its packets: "ok" or the counter it counts them in
  listening, backlog,             \* the receiver's socket
  have_last_seq, last_seq, counts,\* mixer_remote_route_t and the listener's counters
  put,                            \* the last batch handed to mixer_put_samples()
  lastSeen, holes, jumpedBack,    \* history: what a perfect observer would have counted
  processed, lostOnWay, restarts

remoteVars == <<talking, send_socket, seq, dropped_packet_count, senderRun, verdict, listening, backlog, have_last_seq,
                last_seq, counts, put, lastSeen, holes, jumpedBack, processed, lostOnWay, restarts>>
sendVars == <<talking, send_socket, seq, dropped_packet_count, senderRun, verdict>>
routeVars == <<have_last_seq, last_seq, counts, put, lastSeen, holes, jumpedBack>>

Counters == {"rejected_uid", "malformed_header", "unknown_stream", "rate_mismatch", "sample_count_mismatch",
             "malformed_payload", "seq_gap", "seq_reorder_or_duplicate"}
Faults == Counters \ {"seq_gap", "seq_reorder_or_duplicate"}
Batch(run, n) == [run |-> run, n |-> n]
NoneSeen == Batch(0, 0)

FreshRoute ==
  /\ have_last_seq' = FALSE /\ last_seq' = 0 /\ counts' = [c \in Counters |-> 0]
  /\ put' = NoneSeen /\ lastSeen' = NoneSeen /\ holes' = 0 /\ jumpedBack' = 0

RemoteInit ==
  /\ talking = TRUE /\ send_socket = TRUE /\ seq = 0 /\ dropped_packet_count = 0 /\ senderRun = 1
  /\ verdict \in Faults \union {"ok"} /\ listening \in BOOLEAN /\ backlog = <<>>
  /\ have_last_seq = FALSE /\ last_seq = 0 /\ counts = [c \in Counters |-> 0]
  /\ put = NoneSeen /\ lastSeen = NoneSeen /\ holes = 0 /\ jumpedBack = 0 /\ processed = 0 /\ lostOnWay = 0 /\ restarts = 0

(***************************************************************************)
(* The sender.                                                             *)
(***************************************************************************)
\* Mutant: a send waits for room in the receiver's socket.
mixer_remote_send_blocks ==
  /\ talking /\ send_socket /\ seq < MaxPackets
  /\ listening /\ Len(backlog) < SocketQueue
  /\ seq' = seq + 1
  /\ backlog' = Append(backlog, Batch(senderRun, seq))
  /\ UNCHANGED <<talking, send_socket, dropped_packet_count, senderRun, verdict, listening, routeVars, processed, lostOnWay, restarts>>

mixer_remote_send ==
  /\ talking /\ send_socket /\ seq < MaxPackets
  /\ seq' = seq + 1
  /\ IF listening /\ Len(backlog) < SocketQueue
     THEN backlog' = Append(backlog, Batch(senderRun, seq)) /\ UNCHANGED dropped_packet_count
     ELSE dropped_packet_count' = dropped_packet_count + 1 /\ UNCHANGED backlog
  /\ UNCHANGED <<talking, send_socket, senderRun, verdict, listening, routeVars, processed, lostOnWay, restarts>>

Happens == restarts < MaxRestarts /\ restarts' = restarts + 1

(* disable_channel_outputs(), mixer_remote_send_shutdown() *)
DisableSender ==
  /\ Happens /\ talking /\ talking' = FALSE /\ send_socket' = FALSE
  /\ UNCHANGED <<seq, dropped_packet_count, senderRun, verdict, listening, backlog, routeVars, processed, lostOnWay>>

(* reconnect_channel_outputs() has no case for these outputs. *)
EnableSender ==
  /\ ~talking /\ talking' = TRUE
  /\ UNCHANGED <<send_socket, seq, dropped_packet_count, senderRun, verdict, listening, backlog, routeVars, processed, lostOnWay, restarts>>

(* mixer_remote_send_init() *)
RestartSender ==
  /\ Happens /\ talking' = TRUE /\ send_socket' = TRUE /\ seq' = 0 /\ dropped_packet_count' = 0
  /\ senderRun' = senderRun + 1 /\ processed' = 0 /\ lostOnWay' = 0
  /\ UNCHANGED <<verdict, listening, backlog, routeVars>>

(***************************************************************************)
(* The receiver: mixer_remote_dispatch_packet().                           *)
(***************************************************************************)
Counted(counter) == counts' = [counts EXCEPT ![counter] = @ + 1]
Mine(batch) == IF batch.run = senderRun THEN 1 ELSE 0

RejectsPacket ==
  /\ listening /\ backlog # <<>> /\ verdict # "ok"
  /\ Counted(verdict)
  /\ backlog' = Tail(backlog) /\ processed' = processed + Mine(Head(backlog))
  /\ UNCHANGED <<sendVars, listening, have_last_seq, last_seq, put, lastSeen, holes, jumpedBack, lostOnWay, restarts>>

(* mixer_remote_classify_seq() *)
ClassifySeq(new) ==
  IF ~have_last_seq THEN "first"
  ELSE IF new = last_seq + 1 THEN "in_order" ELSE IF new > last_seq + 1 THEN "seq_gap" ELSE "seq_reorder_or_duplicate"

Observed(batch) ==
  /\ lastSeen' = batch
  /\ holes' = IF lastSeen.run = batch.run /\ batch.n # lastSeen.n + 1 THEN holes + 1 ELSE holes
  /\ jumpedBack' = IF lastSeen # NoneSeen /\ lastSeen.run # batch.run THEN jumpedBack + 1 ELSE jumpedBack

AcceptsPacket ==
  /\ listening /\ backlog # <<>> /\ verdict = "ok"
  /\ LET batch == Head(backlog)
         class == ClassifySeq(batch.n)
     IN /\ IF class \in Counters THEN Counted(class) ELSE UNCHANGED counts
        /\ last_seq' = IF class = "seq_reorder_or_duplicate" THEN last_seq ELSE batch.n
        /\ have_last_seq' = TRUE
        /\ put' = batch /\ Observed(batch)
        /\ processed' = processed + Mine(batch)
  /\ backlog' = Tail(backlog)
  /\ UNCHANGED <<sendVars, listening, lostOnWay, restarts>>

(* mixer_remote_recv_shutdown(): what the socket held is gone with it. *)
StopReceiver ==
  /\ Happens /\ listening /\ listening' = FALSE
  /\ lostOnWay' = lostOnWay + Cardinality({i \in DOMAIN backlog : Mine(backlog[i]) = 1})
  /\ backlog' = <<>>
  /\ UNCHANGED <<sendVars, routeVars, processed>>

(* mixer_remote_recv_start() in a new process; the senders need not know. *)
StartReceiver ==
  /\ ~listening /\ listening' = TRUE
  /\ FreshRoute
  /\ UNCHANGED <<sendVars, backlog, processed, lostOnWay, restarts>>

RemoteReceiver == RejectsPacket \/ AcceptsPacket

RemoteNext ==
  mixer_remote_send \/ DisableSender \/ EnableSender \/ RestartSender \/ RemoteReceiver \/ StopReceiver \/ StartReceiver

RemoteSpec ==
  RemoteInit /\ [][RemoteNext]_remoteVars /\ WF_remoteVars(RemoteReceiver) /\ WF_remoteVars(mixer_remote_send)

RemoteTypeOK ==
  /\ seq \in 0 .. MaxPackets /\ dropped_packet_count \in 0 .. MaxPackets /\ Len(backlog) <= SocketQueue
  /\ last_seq \in 0 .. MaxPackets /\ \A c \in Counters : counts[c] \in Nat

\* The two processes' counters tell an operator where the packets are: every one was dropped by the
\* sender and counted there, waits, died with a receiver's socket, or was counted or put by a
\* receiver; and as long as the sender was not restarted the gaps a receiver counts are the gaps
\* there were, and nothing is taken for a duplicate.  (A restarted sender's packets are, until its
\* numbers pass those of its former life, and the gaps among them go unseen.)
CountersTell ==
  /\ seq = dropped_packet_count + processed + lostOnWay + Cardinality({i \in DOMAIN backlog : Mine(backlog[i]) = 1})
  /\ jumpedBack = 0 => counts["seq_gap"] = holes /\ counts["seq_reorder_or_duplicate"] = 0
  /\ counts["seq_gap"] <= holes + jumpedBack

\* A mixer input is never given a batch older than one it was given before, across restarts of
\* either side; and a packet the kernel took reaches the mixer unless a fault is counted or the
\* receiver stops; sending never depends on the receiver: a channel that was never disabled sends.
Older(a, b) == a.run < b.run \/ (a.run = b.run /\ a.n < b.n)
PutsInOrder == [][put' # put /\ put' # NoneSeen => Older(put, put')]_remoteVars
RemoteFlows ==
  /\ PutsInOrder
  /\ (backlog # <<>>) ~> (backlog = <<>> \/ ~listening)
  /\ (seq > 0) ~> (seq = MaxPackets \/ ~send_socket)

RemoteSound == []CountersTell /\ RemoteFlows
=============================================================================
