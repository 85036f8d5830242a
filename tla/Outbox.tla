------------------------------- MODULE Outbox -------------------------------
(***************************************************************************)
(* The Outbox daemon (outbox/src): the queue a client hands its delivery   *)
(* frames to and that retries until an Inbox acknowledges.                 *)
(*                                                                         *)
(* Threads: one IPC connection thread per request, the AnonRouter push     *)
(* thread, the retry loop and the maintenance loop.  They share the SQLite *)
(* store and take no lock, so that every statement is a step of its own:   *)
(* what a thread has read may be stale when it acts on it.                 *)
(*                                                                         *)
(* queue       table queued_messages, by row                               *)
(* recipients  table recipient_inboxes, by row                             *)
(* conn[f]     the connection thread that is queueing frame f              *)
(* burst       rows that startup_burst has still to send                   *)
(* due         rows that the retry loop has read as due and not handled    *)
(* up          the daemon is running                                       *)
(* crashes     how often it has been killed                                *)
(***************************************************************************)
EXTENDS Transport

CONSTANTS
  Broadcasts,    \* frames queued by enqueue_broadcast
  Direct,        \* marks the row of a frame queued by enqueue
  Ttl,           \* life of a row (7 days)
  RetryWindow,   \* config.hpp: retry_window_s
  MaxRetries,    \* config.hpp: max_retries
  MaxCrashes,    \* bound: daemon crashes
  LastEnqueue,   \* bound: the last instant at which a frame is queued
  MaxQueued      \* bound: frames that are queued in a behaviour

ASSUME OutboxAssumption ==
  /\ Broadcasts \subseteq Frames /\ Direct \notin Inboxes
  /\ Ttl \in Nat /\ RetryWindow \in Nat /\ MaxRetries \in Nat
  /\ MaxCrashes \in Nat /\ LastEnqueue \in Nat /\ MaxQueued \in Nat

VARIABLES queue, recipients, conn, burst, due, up, crashes

outbox == <<queue, recipients, conn, burst, due, up, crashes>>

(* enqueue keeps the frame's message_id; enqueue_broadcast appends the     *)
(* recipient, but the frame it sends still holds the bare message_id.      *)
Rows == {<<f, Direct>> : f \in Frames \ Broadcasts} \cup (Broadcasts \X Inboxes)

FrameOf(r) == r[1]

NoRow == [status |-> "absent", attempt_count |-> 0, next_attempt_at |-> 0,
          enqueued_at |-> 0, expires_at |-> 0]

Idle == [pc |-> "idle", row |-> Direct, add |-> {}, rest |-> {}, count |-> 0]

OutboxInit ==
  /\ queue      = [r \in Rows |-> NoRow]
  /\ recipients = [r \in Rows |-> {}]
  /\ conn       = [f \in Frames |-> Idle]
  /\ burst = {} /\ due = {} /\ up = TRUE /\ crashes = 0

-----------------------------------------------------------------------------
(* store.cpp *)

get_message(r) == queue[r]

get_recipient_inboxes(r) == recipients[r]

message_exists(r) == queue[r].status # "absent"

list_pending == {r \in Rows : queue[r].status = "pending"}

list_due == {r \in list_pending :
               queue[r].next_attempt_at > 0 /\ queue[r].next_attempt_at <= now}

\* Mutant: the life of the row is subtracted.
insert_messagePast(r) ==
  queue' = [queue EXCEPT ![r] = [status |-> "pending", attempt_count |-> 0,
                                 next_attempt_at |-> now, enqueued_at |-> now,
                                 expires_at |-> now - Ttl]]

insert_message(r) ==
  queue' = [queue EXCEPT ![r] = [status |-> "pending", attempt_count |-> 0,
                                 next_attempt_at |-> now, enqueued_at |-> now,
                                 expires_at |-> now + Ttl]]

set_status(r, st) == queue' = [queue EXCEPT ![r].status = st]

\* Mutant: the whole row is written back as it was read.
update_attemptWhole(r, count, next) ==
  queue' = [queue EXCEPT ![r].status = "pending", ![r].attempt_count = count,
                         ![r].next_attempt_at = next]

update_attempt(r, count, next) ==
  queue' = [queue EXCEPT ![r].attempt_count = count, ![r].next_attempt_at = next]

is_valid_recipient_inbox(r, i) == i \in recipients[r]

(* The row whose message_id is that of frame f.                            *)
RowsNamed(f) == {r \in Rows : r = <<f, Direct>>}

-----------------------------------------------------------------------------
\* Mutant: the frame goes to every known inbox.
AttemptAll(r, ok) ==
  /\ ok => recipients[r] # {}
  /\ \E sent \in SUBSET Inboxes : Send({DeliveryFrame(FrameOf(r), i) : i \in sent})

(* Delivery attempts.  attempt_delivery is tried on the recipients in turn *)
(* until one call does not throw.  A call that throws may have sent the    *)
(* frame (the answer timed out), and one that returns may not have (the    *)
(* channel is still opening): which inboxes are sent to is open.           *)
Attempt(r, ok) ==
  /\ ok => get_recipient_inboxes(r) # {}
  /\ \E sent \in SUBSET get_recipient_inboxes(r) :
       Send({DeliveryFrame(FrameOf(r), i) : i \in sent})

(* The delay doubles, four times at most.                                  *)
Delay(count) == IF count < 5 THEN <<1, 2, 4, 8>>[count] ELSE 16

(* immediate_attempt and retry_loop differ in what they hold against the   *)
(* retry window: the next attempt, or this one.  0 is the passive wait.    *)
NextAfterImmediate(r, count) ==
  IF \/ now - queue[r].enqueued_at + Delay(count) > RetryWindow
     \/ count >= MaxRetries
    THEN 0 ELSE now + Delay(count)

\* Mutant: one retry too many.
NextAfterRetryLate(r, count) ==
  IF now - queue[r].enqueued_at > RetryWindow \/ count > MaxRetries
    THEN 0 ELSE now + Delay(count)

NextAfterRetry(r, count) ==
  IF now - queue[r].enqueued_at > RetryWindow \/ count >= MaxRetries
    THEN 0 ELSE now + Delay(count)

-----------------------------------------------------------------------------
(* The connection thread: enqueue and enqueue_broadcast, immediate_attempt *)
(* included.                                                               *)

AfterRow(f) ==
  IF conn[f].rest = {} THEN Idle ELSE [Idle EXCEPT !.pc = "insert", !.rest = conn[f].rest]

AtRow(r, add, rest) ==
  [pc |-> IF add = {} THEN "read" ELSE "recipient",
   row |-> r, add |-> add, rest |-> rest, count |-> 0]

(* The bounds leave room for frame f.                                      *)
Room(f) ==
  /\ now <= LastEnqueue
  /\ Cardinality({g \in Frames \ {f} : \/ conn[g].pc # "idle"
                                       \/ \E r \in Rows : FrameOf(r) = g /\ message_exists(r)})
       < MaxQueued

(* A second enqueue of the same frame throws DUPLICATE_MESSAGE_ID.         *)
enqueue(f, inboxes) ==
  /\ up /\ Room(f)
  /\ f \notin Broadcasts /\ conn[f].pc = "idle"
  /\ ~message_exists(<<f, Direct>>)
  /\ insert_message(<<f, Direct>>)
  /\ conn' = [conn EXCEPT ![f] = AtRow(<<f, Direct>>, inboxes, {})]
  /\ UNCHANGED <<transport, recipients, burst, due, up, crashes>>

enqueue_broadcast(f, inboxes) ==
  /\ up /\ Room(f)
  /\ f \in Broadcasts /\ conn[f].pc = "idle"
  /\ inboxes # {} /\ \E i \in inboxes : ~message_exists(<<f, i>>)
  /\ conn' = [conn EXCEPT ![f] = [Idle EXCEPT !.pc = "insert", !.rest = inboxes]]
  /\ UNCHANGED <<transport, queue, recipients, burst, due, up, crashes>>

(* The next recipient of a broadcast; it may come without an inbox.        *)
BroadcastRow(f) ==
  /\ conn[f].pc = "insert" /\ now <= LastEnqueue
  /\ \E i \in conn[f].rest :
       LET rest == conn[f].rest \ {i}
       IN  IF message_exists(<<f, i>>)
             THEN /\ conn' = [conn EXCEPT ![f] =
                                IF rest = {} THEN Idle ELSE [conn[f] EXCEPT !.rest = rest]]
                  /\ UNCHANGED queue
             ELSE /\ insert_message(<<f, i>>)
                  /\ \E add \in {{i}, {}} :
                       conn' = [conn EXCEPT ![f] = AtRow(<<f, i>>, add, rest)]
  /\ UNCHANGED <<transport, recipients, burst, due, up, crashes>>

add_recipient_inbox(f) ==
  /\ conn[f].pc = "recipient"
  /\ \E i \in conn[f].add :
       LET add == conn[f].add \ {i}
       IN  /\ recipients' = [recipients EXCEPT ![conn[f].row] = @ \cup {i}]
           /\ conn' = [conn EXCEPT ![f] = AtRow(conn[f].row, add, conn[f].rest)]
  /\ UNCHANGED <<transport, queue, burst, due, up, crashes>>

(* immediate_attempt reads the row, and returns if it is pending no more.  *)
ReadRow(f) ==
  /\ conn[f].pc = "read"
  /\ LET row == get_message(conn[f].row)
     IN  conn' = [conn EXCEPT ![f] =
                    IF row.status = "pending"
                      THEN [conn[f] EXCEPT !.pc = "attempt", !.count = row.attempt_count]
                      ELSE AfterRow(f)]
  /\ UNCHANGED <<transport, queue, recipients, burst, due, up, crashes>>

(* Then it attempts and, if all recipients failed, schedules from the      *)
(* count it had read.  The replication to sibling outboxes that follows    *)
(* has no effect: on_frame has no branch for outbox_replication_frame.     *)
immediate_attempt(f) ==
  /\ conn[f].pc = "attempt"
  /\ LET r == conn[f].row
         count == conn[f].count + 1
     IN  \/ Attempt(r, TRUE) /\ UNCHANGED queue
         \/ Attempt(r, FALSE) /\ update_attempt(r, count, NextAfterImmediate(r, count))
  /\ conn' = [conn EXCEPT ![f] = AfterRow(f)]
  /\ UNCHANGED <<now, recipients, burst, due, up, crashes>>

\* Mutant: a row that does not exist is cancelled.
cancelAny(r) ==
  /\ up
  /\ set_status(r, "cancelled")
  /\ UNCHANGED <<transport, recipients, conn, burst, due, up, crashes>>

cancel(r) ==
  /\ up /\ message_exists(r)
  /\ set_status(r, "cancelled")
  /\ UNCHANGED <<transport, recipients, conn, burst, due, up, crashes>>

-----------------------------------------------------------------------------
(* The retry and maintenance loops, which start() begins after the burst *)

ListDue ==
  /\ up /\ burst = {} /\ due = {} /\ list_due # {}
  /\ due' = {[row |-> r, count |-> queue[r].attempt_count] : r \in list_due}
  /\ UNCHANGED <<transport, queue, recipients, conn, burst, up, crashes>>

(* A row that was sent stays due: it is sent again on every round until it *)
(* is acknowledged.                                                        *)
retry_loop(d) ==
  /\ d \in due
  /\ due' = due \ {d}
  /\ LET count == d.count + 1
     IN  \/ Attempt(d.row, TRUE) /\ UNCHANGED queue
         \/ Attempt(d.row, FALSE) /\ update_attempt(d.row, count, NextAfterRetry(d.row, count))
  /\ UNCHANGED <<now, recipients, conn, burst, up, crashes>>

\* Mutant: rows in the passive wait do not expire.
ExpiredScheduled(r) ==
  queue[r].next_attempt_at > 0 /\ queue[r].expires_at > 0 /\ queue[r].expires_at < now

Expired(r) == queue[r].expires_at > 0 /\ queue[r].expires_at < now

maintenance_loop ==
  /\ up /\ burst = {} /\ \E r \in list_pending : Expired(r)
  /\ queue' = [r \in Rows |-> IF r \in list_pending /\ Expired(r)
                                THEN [queue[r] EXCEPT !.status = "expired"] ELSE queue[r]]
  /\ UNCHANGED <<transport, recipients, conn, burst, due, up, crashes>>

-----------------------------------------------------------------------------
(* Frames from Inboxes *)

(* The acknowledged row takes status DELIVERED whatever it had before.     *)
handle_delivery_ack(f, i) ==
  /\ up /\ Receive(DeliveryAck(f, i), {})
  /\ queue' = [r \in Rows |-> IF r \in RowsNamed(f) /\ is_valid_recipient_inbox(r, i)
                                  /\ message_exists(r)
                                THEN [queue[r] EXCEPT !.status = "delivered"] ELSE queue[r]]
  /\ UNCHANGED <<now, recipients, conn, burst, due, up, crashes>>

handle_outbox_poll(i) ==
  /\ up
  /\ Receive(OutboxPoll(i),
       {PollResponse({FrameOf(r) : r \in {q \in list_pending : is_valid_recipient_inbox(q, i)}}, i)})
  /\ UNCHANGED <<now, outbox>>

(* The frames that on_frame acts on.                                       *)
on_frame ==
  \/ \E f \in Frames, i \in Inboxes : handle_delivery_ack(f, i)
  \/ \E i \in Inboxes : handle_outbox_poll(i)

-----------------------------------------------------------------------------
Crash ==
  /\ up /\ crashes < MaxCrashes
  /\ up' = FALSE /\ crashes' = crashes + 1
  /\ conn' = [f \in Frames |-> Idle] /\ burst' = {} /\ due' = {}
  /\ UNCHANGED <<transport, queue, recipients>>

(* start() and its startup_burst, which attempts every pending row once    *)
(* and records nothing.                                                    *)
outbox_start ==
  /\ ~up
  /\ up' = TRUE /\ burst' = list_pending
  /\ UNCHANGED <<transport, queue, recipients, conn, due, crashes>>

startup_burst(r) ==
  /\ r \in burst
  /\ burst' = burst \ {r}
  /\ \E ok \in BOOLEAN : Attempt(r, ok)
  /\ UNCHANGED <<now, queue, recipients, conn, due, up, crashes>>

OutboxNext ==
  \/ \E f \in Frames, inboxes \in SUBSET Inboxes :
       enqueue(f, inboxes) \/ enqueue_broadcast(f, inboxes)
  \/ \E f \in Frames :
       BroadcastRow(f) \/ add_recipient_inbox(f) \/ ReadRow(f) \/ immediate_attempt(f)
  \/ \E r \in Rows : cancel(r)
  \/ ListDue
  \/ \E d \in due : retry_loop(d)
  \/ maintenance_loop
  \/ on_frame
  \/ Crash \/ outbox_start
  \/ \E r \in burst : startup_burst(r)
=============================================================================
