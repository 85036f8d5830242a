------------------------------- MODULE Inbox -------------------------------
(***************************************************************************)
(* The Inbox daemons (inbox/src): each stores the frames that arrive for   *)
(* its owner, acknowledges them to the sender's Outbox, keeps them until   *)
(* the client has taken them, and copies them to its sibling devices.      *)
(*                                                                         *)
(* All frames of one Inbox are handled by its AnonRouter push thread, one  *)
(* at a time, and the other threads only mark and delete rows, so that a   *)
(* handler is one step.  A crash within it equals the loss of its replies. *)
(*                                                                         *)
(* stored      table stored_messages, by inbox and frame                   *)
(* allowed     inboxes whose allowed_senders holds the sender              *)
(* creds       inboxes with dht_credentials                                *)
(* siblings    table sibling_inboxes, by inbox                             *)
(* retention   retention_days_, by inbox                                   *)
(* changes     how often the client has changed these settings             *)
(* taken       frames the client of an inbox has acknowledged (history)    *)
(* received    frames an inbox has ever stored (history)                   *)
(* polled      frames handed to an inbox in poll responses while their     *)
(*             sender was allowed (history)                                *)
(***************************************************************************)
EXTENDS Transport

CONSTANTS
  PassThroughTimeout,  \* config.hpp: passthrough_timeout_s
  Retentions,          \* retention periods the client may choose
  Known,               \* inboxes whose known_outboxes holds the sender's Outbox
  DefaultRetention,    \* store.hpp: initial retention_days_
  MaxChanges           \* bound: changes of the settings

ASSUME InboxAssumption ==
  /\ PassThroughTimeout \in Nat /\ Known \subseteq Inboxes
  /\ Retentions \subseteq Nat \ {0} /\ DefaultRetention \in Retentions /\ MaxChanges \in Nat

VARIABLES stored, allowed, creds, siblings, retention, changes,
          taken, received, polled

settings == <<allowed, creds, siblings, retention, changes>>
history  == <<taken, received, polled>>
inbox    == <<stored, settings, history>>

NoMessage == [state |-> "absent", replicated |-> FALSE, expires_at |-> 0]

(* A daemon starts with the settings its database holds: none of the       *)
(* devices is provisioned yet, or all are.                                 *)
InboxInit ==
  /\ stored    = [i \in Inboxes |-> [f \in Frames |-> NoMessage]]
  /\ allowed \in {{}, Inboxes} /\ creds \in {{}, Inboxes}
  /\ siblings \in {[i \in Inboxes |-> {}], [i \in Inboxes |-> Inboxes \ {i}]}
  /\ retention = [i \in Inboxes |-> DefaultRetention]
  /\ changes   = 0
  /\ taken     = [i \in Inboxes |-> {}]
  /\ received  = [i \in Inboxes |-> {}]
  /\ polled    = [i \in Inboxes |-> {}]

Holds(i, f) == stored[i][f].state # "absent"

is_allowed_sender(i) == i \in allowed

mark_delivered(i, f, expires) ==
  stored' = [stored EXCEPT ![i][f] =
               [@ EXCEPT !.state = "delivered", !.expires_at = expires]]

delete_message(i, f) == stored' = [stored EXCEPT ![i][f] = NoMessage]

-----------------------------------------------------------------------------
(* Frames from Outboxes and siblings *)

(* send_ack does nothing before the client has provisioned the daemon.     *)
send_ack(f, i) == IF i \in creds THEN {DeliveryAck(f, i)} ELSE {}

inbox_insert(i, f, replicated, expires) ==
  /\ stored' = [stored EXCEPT ![i][f] = [state |-> "undelivered",
                                         replicated |-> replicated,
                                         expires_at |-> expires]]
  /\ received' = [received EXCEPT ![i] = @ \cup {f}]

\* Mutant: every frame gets the pass-through timeout.
ExpiryOfAll(f) == now + PassThroughTimeout

ExpiryOf(f) == IF f \in PassThrough THEN now + PassThroughTimeout ELSE 0

\* Mutant: the acknowledgement is sent before the allowlist is asked.
process_delivery_frameAckFirst(i, f) ==
  /\ Receive(DeliveryFrame(f, i), send_ack(f, i))
  /\ IF i \in allowed /\ ~Holds(i, f)
       THEN inbox_insert(i, f, FALSE, ExpiryOf(f)) ELSE UNCHANGED <<stored, received>>
  /\ UNCHANGED <<now, settings, taken, polled>>

(* A frame from a sender that is not allowed is dropped, a repeated one    *)
(* acknowledged again.  The replication at the end of the handler sends    *)
(* nothing: it calls the AnonRouter from the thread that reads the         *)
(* AnonRouter's answers, so that its first call, channel.list, times out.  *)
process_delivery_frame(i, f) ==
  /\ \/ /\ ~is_allowed_sender(i)
        /\ Receive(DeliveryFrame(f, i), {})
        /\ UNCHANGED <<stored, received>>
     \/ /\ is_allowed_sender(i) /\ Holds(i, f)
        /\ Receive(DeliveryFrame(f, i), send_ack(f, i))
        /\ UNCHANGED <<stored, received>>
     \/ /\ is_allowed_sender(i) /\ ~Holds(i, f)
        /\ Receive(DeliveryFrame(f, i), send_ack(f, i))
        /\ inbox_insert(i, f, FALSE, ExpiryOf(f))
  /\ UNCHANGED <<now, settings, taken, polled>>

(* A copy from a sibling is kept without an expiry, and not copied again.  *)
handle_replication_frame(i, f) ==
  /\ Receive(ReplicationFrame(f, i), {})
  /\ IF Holds(i, f) THEN UNCHANGED <<stored, received>> ELSE inbox_insert(i, f, TRUE, 0)
  /\ UNCHANGED <<now, settings, taken, polled>>

(* process_delivery_frame returns on an outbox_poll_response.              *)
HandlePollResponse(i, fs) ==
  /\ Receive(PollResponse(fs, i), {})
  /\ polled' = [polled EXCEPT ![i] = IF i \in allowed THEN @ \cup fs ELSE @]
  /\ UNCHANGED <<now, stored, settings, taken, received>>

-----------------------------------------------------------------------------
(* Requests of the local client *)

ack(i, f) ==
  /\ Holds(i, f)
  /\ IF f \in PassThrough THEN delete_message(i, f)
     ELSE mark_delivered(i, f, now + retention[i])
  /\ taken' = [taken EXCEPT ![i] = @ \cup {f}]
  /\ UNCHANGED <<transport, settings, received, polled>>

Change == changes < MaxChanges /\ changes' = changes + 1

update_sender_allowlist(i) ==
  /\ Change
  /\ \E new \in {allowed \cup {i}, allowed \ {i}} : allowed' = new
  /\ UNCHANGED <<transport, stored, creds, siblings, retention, history>>

update_dht_delegation(i) ==
  /\ Change
  /\ creds' = creds \cup {i}
  /\ UNCHANGED <<transport, stored, allowed, siblings, retention, history>>

add_sibling(i, j) ==
  /\ Change
  /\ siblings' = [siblings EXCEPT ![i] = @ \cup {j}]
  /\ UNCHANGED <<transport, stored, allowed, creds, retention, history>>

remove_sibling(i, j) ==
  /\ Change
  /\ siblings' = [siblings EXCEPT ![i] = @ \ {j}]
  /\ UNCHANGED <<transport, stored, allowed, creds, retention, history>>

set_retention_days(i) ==
  /\ Change
  /\ \E d \in Retentions : retention' = [retention EXCEPT ![i] = d]
  /\ UNCHANGED <<transport, stored, allowed, creds, siblings, history>>

-----------------------------------------------------------------------------
(* The daemon's own threads *)

\* Mutant: an expiry of 0 is taken for a time.
delete_expiredZero(i, f) == stored[i][f].expires_at < now

delete_expired(i, f) == stored[i][f].expires_at > 0 /\ stored[i][f].expires_at < now

\* Mutant: copies are sent of rows that are copies themselves, and a row is
\* dropped once it has been copied.
inbox_maintenanceMove(i) ==
  LET kept == {f \in Frames : Holds(i, f) /\ ~delete_expired(i, f) /\ siblings[i] = {}}
      copies == {ReplicationFrame(f, j) :
                   f \in {g \in Frames : Holds(i, g)}, j \in siblings[i]}
  IN  /\ stored' = [stored EXCEPT ![i] =
                      [f \in Frames |-> IF f \in kept THEN stored[i][f] ELSE NoMessage]]
      /\ \E sent \in SUBSET copies : Send(sent)
      /\ UNCHANGED <<now, settings, history>>

(* The copies of a row that its siblings may get: any of the calls may     *)
(* fail, and what succeeded is noted in a table nobody reads.              *)
replicate_to_siblings(i, f) == {ReplicationFrame(f, j) : j \in siblings[i]}

(* Deletes what has expired, then sends every row that is not a copy to    *)
(* the siblings, again and again.                                          *)
inbox_maintenance(i) ==
  LET kept == {f \in Frames : Holds(i, f) /\ ~delete_expired(i, f)}
      copies == UNION {replicate_to_siblings(i, f) :
                         f \in {g \in kept : ~stored[i][g].replicated}}
  IN  /\ stored' = [stored EXCEPT ![i] =
                      [f \in Frames |-> IF f \in kept THEN stored[i][f] ELSE NoMessage]]
      /\ \E sent \in SUBSET copies : Send(sent)
      /\ UNCHANGED <<now, settings, history>>

(* The polls of the Outboxes it knows; an entry may have expired.          *)
poll_known_outboxes(i) == IF i \in creds \cap Known THEN {OutboxPoll(i)} ELSE {}

(* A new process forgets the retention period it was given, although it is *)
(* in the store, and polls.                                                *)
inbox_start(i) ==
  /\ retention' = [retention EXCEPT ![i] = DefaultRetention]
  /\ \E polls \in SUBSET poll_known_outboxes(i) : Send(polls)
  /\ UNCHANGED <<now, stored, allowed, creds, siblings, changes, history>>

InboxNext ==
  \/ \E i \in Inboxes, f \in Frames :
       process_delivery_frame(i, f) \/ handle_replication_frame(i, f) \/ ack(i, f)
  \/ \E i \in Inboxes, fs \in SUBSET Frames : HandlePollResponse(i, fs)
  \/ \E i \in Inboxes :
       \/ update_sender_allowlist(i) \/ update_dht_delegation(i)
       \/ set_retention_days(i)
       \/ inbox_maintenance(i) \/ inbox_start(i)
  \/ \E i \in Inboxes : \E j \in Inboxes \ {i} : add_sibling(i, j) \/ remove_sibling(i, j)
=============================================================================
