--------------------------- MODULE DeliveryProofs ---------------------------
(***************************************************************************)
(* The inductive invariant of Delivery, for any number of frames, rows and *)
(* devices and every bound, its proof and what follows from it, and that   *)
(* Delivery implements Mailbox.                                            *)
(*                                                                         *)
(* The invariant says what a packet under way proves about its past        *)
(* (PacketInv): a delivery frame was addressed to its device, a copy comes *)
(* from another device that the frame was addressed to, and an             *)
(* acknowledgement from one that has stored it.  A stored frame that was   *)
(* not taken yet has no expiry, and what was received is in the store or   *)
(* taken (StoredInv).                                                      *)
(***************************************************************************)
EXTENDS Delivery, TLAPS

(* A row of frame f was addressed to device i.                             *)
Addressed(f, i) == \E r \in Rows : FrameOf(r) = f /\ i \in recipients[r]

(* A device other than i got f in its own right.                           *)
Elsewhere(f, i) == \E j \in Inboxes \ {i} : f \in received[j] /\ Addressed(f, j)

PacketInv(n) ==
  /\ n.type = "delivery_frame" => Addressed(n.id, n.inbox)
  /\ n.type = "inbox_replication_frame" => Elsewhere(n.id, n.inbox)
  /\ n.type = "delivery_ack" => n.id \in received[n.inbox]

NetInv == net \subseteq Packets /\ now \in Nat /\ \A n \in net : PacketInv(n)

OutboxTypes ==
  /\ queue \in [Rows -> RowTypes] /\ recipients \in [Rows -> SUBSET Inboxes]
  /\ conn \in [Frames -> ConnTypes]
  /\ burst \subseteq Rows /\ due \subseteq [row : Rows, count : Nat]
  /\ up \in BOOLEAN /\ crashes \in Nat

(* The connection thread c of frame f works on a row that it has inserted. *)
ConnInv(f, c) ==
  /\ c.pc \in {"recipient", "read", "attempt"} => c.row \in Rows /\ message_exists(c.row)
  /\ c.pc = "insert" \/ c.rest # {} => f \in Broadcasts

OutboxInv ==
  /\ OutboxTypes
  /\ \A f \in Frames : ConnInv(f, conn[f])
  /\ DeliveredWasReceived /\ ScheduledWithinRetries

InboxTypes ==
  /\ stored \in [Inboxes -> [Frames -> StoredTypes]]
  /\ allowed \subseteq Inboxes /\ creds \subseteq Inboxes
  /\ siblings \in [Inboxes -> SUBSET Inboxes] /\ retention \in [Inboxes -> Nat]
  /\ changes \in Nat
  /\ taken \in [Inboxes -> SUBSET Frames]
  /\ received \in [Inboxes -> SUBSET Frames] /\ polled \in [Inboxes -> SUBSET Frames]

(* The row m of frame f in device i's store.                               *)
StoredInv(i, f, m) ==
  /\ m.state # "absent" => f \in received[i]
  /\ m.state # "absent" /\ ~m.replicated => Addressed(f, i)
  /\ m.state # "absent" /\ m.replicated => Elsewhere(f, i)
  /\ f \notin PassThrough /\ f \in received[i] => m.state # "absent" \/ f \in taken[i]
  /\ f \notin PassThrough /\ m.state # "absent" /\ f \notin taken[i] => m.expires_at = 0

InboxInv ==
  /\ InboxTypes
  /\ \A i \in Inboxes :
       i \notin siblings[i] /\ \A f \in Frames : StoredInv(i, f, stored[i][f])

IInv == NetInv /\ OutboxInv /\ InboxInv

-----------------------------------------------------------------------------
(* What is addressed, received or taken stays so.                          *)
Kept ==
  /\ \A r \in Rows : recipients[r] \subseteq recipients'[r]
  /\ \A i \in Inboxes : received[i] \subseteq received'[i] /\ taken[i] \subseteq taken'[i]

LEMMA AddressedKept ==
  ASSUME Kept, NEW f, NEW i
  PROVE  (Addressed(f, i) => Addressed(f, i)') /\ (Elsewhere(f, i) => Elsewhere(f, i)')
BY Zenon DEF Kept, Addressed, Elsewhere

LEMMA PacketKept ==
  ASSUME Kept, NEW n \in Packets, PacketInv(n)
  PROVE  PacketInv(n)'
<1>1. n.type = "delivery_ack" => n.inbox \in Inboxes BY Zenon DEF Packets
<1> QED BY <1>1, AddressedKept, Zenon DEF PacketInv, Kept

(* A step that adds only packets that tell the truth.                      *)
LEMMA NetStep ==
  ASSUME NetInv, Kept, now' \in Nat, NEW new \in SUBSET Packets, net' \subseteq net \cup new,
         \A n \in new : PacketInv(n)'
  PROVE  NetInv'
BY PacketKept, Zenon DEF NetInv

LEMMA ReceiveStep ==
  ASSUME NEW n, NEW new, Receive(n, new)
  PROVE  n \in net /\ net' \subseteq net \cup new
BY Zenon DEF Receive

(* The Outbox's steps leave the Inboxes alone.                             *)
LEMMA InboxKept ==
  ASSUME InboxInv, UNCHANGED inbox, \A r \in Rows : recipients[r] \subseteq recipients'[r]
  PROVE  InboxInv' /\ Kept
<1>1. Kept BY Zenon DEF Kept, inbox, history
<1>2. InboxTypes' BY Zenon DEF InboxInv, InboxTypes, inbox, history, settings
<1>3. ASSUME NEW i \in Inboxes, NEW f \in Frames PROVE StoredInv(i, f, stored[i][f])'
  <2>1. StoredInv(i, f, stored[i][f]) BY Zenon DEF InboxInv
  <2>2. /\ (Addressed(f, i) => Addressed(f, i)') /\ (Elsewhere(f, i) => Elsewhere(f, i)')
    BY <1>1, AddressedKept, Zenon
  <2> QED BY <2>1, <2>2, Zenon DEF StoredInv, inbox, history
<1> QED BY <1>1, <1>2, <1>3, Zenon DEF InboxInv, inbox, settings

(* The Inboxes' steps leave the Outbox alone.                              *)
LEMMA OutboxKept ==
  ASSUME OutboxInv, UNCHANGED outbox, \A i \in Inboxes : received[i] \subseteq received'[i]
  PROVE  OutboxInv'
<1>1. OutboxTypes' BY Zenon DEF OutboxInv, OutboxTypes, outbox
<1>2. DeliveredWasReceived'
  BY Zenon DEF OutboxInv, OutboxTypes, DeliveredWasReceived, outbox
<1>3. ScheduledWithinRetries' BY Zenon DEF OutboxInv, ScheduledWithinRetries, outbox
<1>4. ASSUME NEW f \in Frames PROVE ConnInv(f, conn[f])'
  BY Zenon DEF OutboxInv, ConnInv, message_exists, outbox
<1> QED BY <1>1, <1>2, <1>3, <1>4, Zenon DEF OutboxInv

-----------------------------------------------------------------------------
(* Statements and helpers of the Outbox *)

LEMMA RowsOfFrames == \A r \in Rows : FrameOf(r) \in Frames
BY OutboxAssumption DEF Rows, FrameOf, OutboxAssumption

LEMMA AttemptStep ==
  ASSUME IInv, NEW r \in Rows, NEW ok, Attempt(r, ok), now' = now, Kept
  PROVE  NetInv'
<1>1. PICK sent \in SUBSET recipients[r] :
        net' = net \cup {DeliveryFrame(FrameOf(r), i) : i \in sent}
  BY Zenon DEF Attempt, Send, get_recipient_inboxes
<1> DEFINE new == {DeliveryFrame(FrameOf(r), i) : i \in sent}
<1>2. sent \subseteq Inboxes BY Zenon DEF IInv, OutboxInv, OutboxTypes
<1>3. new \in SUBSET Packets BY <1>2, RowsOfFrames DEF DeliveryFrame, Packets
<1>4. ASSUME NEW n \in new PROVE PacketInv(n)'
  <2>1. PICK i \in sent : n = DeliveryFrame(FrameOf(r), i) BY Zenon
  <2>2. n.type = "delivery_frame" /\ n.id = FrameOf(r) /\ n.inbox = i
    BY <2>1, Zenon DEF DeliveryFrame
  <2>3. Addressed(FrameOf(r), i) BY <2>1, Zenon DEF Addressed
  <2>4. Addressed(FrameOf(r), i)' BY <2>3, AddressedKept, Zenon
  <2> QED BY <2>2, <2>4, Zenon DEF PacketInv
<1>5. NetInv /\ now \in Nat BY Zenon DEF IInv, NetInv
<1> HIDE DEF new
<1> QED BY <1>1, <1>3, <1>4, <1>5, NetStep, Zenon DEF new

LEMMA NetUnchanged ==
  ASSUME NetInv, Kept, UNCHANGED transport
  PROVE  NetInv'
BY PacketKept, Zenon DEF NetInv, transport

(* Replacing a row, which must not make it DELIVERED.                      *)
LEMMA RowStep ==
  ASSUME OutboxInv, NEW r \in Rows, NEW row \in RowTypes, queue' = [queue EXCEPT ![r] = row],
         row.status = "delivered" => queue[r].status = "delivered",
         row.next_attempt_at > 0 => row.attempt_count = 0 \/ row.attempt_count < MaxRetries,
         \A q \in Rows : recipients[q] \subseteq recipients'[q],
         received' = received
  PROVE  queue' \in [Rows -> RowTypes] /\ DeliveredWasReceived' /\ ScheduledWithinRetries'
<1>1. queue \in [Rows -> RowTypes] BY Zenon DEF OutboxInv, OutboxTypes
<1>2. queue' \in [Rows -> RowTypes] BY <1>1, Zenon
<1>3. \A q \in Rows : queue'[q] = IF q = r THEN row ELSE queue[q] BY <1>1, Zenon
<1>4. DeliveredWasReceived' BY <1>3 DEF OutboxInv, DeliveredWasReceived
<1>5. ScheduledWithinRetries' BY <1>3, Zenon DEF OutboxInv, ScheduledWithinRetries
<1> QED BY <1>2, <1>4, <1>5, Zenon

(* update_attempt touches neither the status nor another row.              *)
LEMMA UpdateStep ==
  ASSUME OutboxInv, NEW r \in Rows, NEW count \in Nat, NEW next \in Nat,
         update_attempt(r, count, next), next > 0 => count < MaxRetries,
         UNCHANGED <<recipients, received>>
  PROVE  /\ queue' \in [Rows -> RowTypes] /\ DeliveredWasReceived' /\ ScheduledWithinRetries'
         /\ \A q \in Rows : queue'[q].status = queue[q].status
<1>1. queue \in [Rows -> RowTypes] BY Zenon DEF OutboxInv, OutboxTypes
<1> DEFINE row == [queue[r] EXCEPT !.attempt_count = count, !.next_attempt_at = next]
<1>2. /\ row \in RowTypes /\ row.status = queue[r].status
      /\ row.attempt_count = count /\ row.next_attempt_at = next
  BY <1>1, Zenon DEF RowTypes
<1>3. queue' = [queue EXCEPT ![r] = row] BY <1>1, Zenon DEF update_attempt, RowTypes
<1> HIDE DEF row
<1>4. \A q \in Rows : queue'[q].status = queue[q].status BY <1>1, <1>2, <1>3, Zenon
<1> QED BY <1>2, <1>3, <1>4, RowStep, Zenon

LEMMA NextAttempt ==
  ASSUME NetInv, OutboxInv, NEW r \in Rows, NEW count \in Nat \ {0}
  PROVE  /\ NextAfterImmediate(r, count) \in Nat
         /\ NextAfterImmediate(r, count) > 0 => count < MaxRetries
         /\ NextAfterRetry(r, count) \in Nat
         /\ NextAfterRetry(r, count) > 0 => count < MaxRetries
<1>1. Delay(count) \in Nat
  <2>1. CASE count < 5
    <3>1. count \in {1, 2, 3, 4} BY <2>1
    <3> QED BY <2>1, <3>1 DEF Delay
  <2>2. CASE ~(count < 5) BY <2>2, Zenon DEF Delay
  <2> QED BY <2>1, <2>2, Zenon
<1>2. now + Delay(count) \in Nat BY <1>1 DEF NetInv
<1> QED BY <1>2, OutboxAssumption DEF NextAfterImmediate, NextAfterRetry, OutboxAssumption

(* A step of the connection thread of frame g.                             *)
LEMMA ConnStep ==
  ASSUME OutboxInv, NEW g \in Frames, NEW c \in ConnTypes, conn' = [conn EXCEPT ![g] = c],
         ConnInv(g, c)', \A r \in Rows : message_exists(r) => message_exists(r)'
  PROVE  conn' \in [Frames -> ConnTypes] /\ \A f \in Frames : ConnInv(f, conn[f])'
<1>1. conn \in [Frames -> ConnTypes] BY Zenon DEF OutboxInv, OutboxTypes
<1>2. ASSUME NEW f \in Frames PROVE ConnInv(f, conn[f])'
  <2>1. CASE f = g
    <3>1. conn'[f] = c BY <1>1, <2>1, Zenon
    <3> QED BY <2>1, <3>1, Zenon DEF ConnInv, message_exists
  <2>2. CASE f # g
    <3>1. conn'[f] = conn[f] BY <1>1, <2>2, Zenon
    <3>2. ConnInv(f, conn[f]) BY Zenon DEF OutboxInv
    <3> QED BY <3>1, <3>2, Zenon DEF ConnInv
  <2> QED BY <2>1, <2>2, Zenon
<1> QED BY <1>1, <1>2, Zenon

(* The threads that a step leaves alone.                                   *)
LEMMA ConnsKept ==
  ASSUME OutboxInv, conn' = conn, \A r \in Rows : message_exists(r) => message_exists(r)'
  PROVE  \A f \in Frames : ConnInv(f, conn[f])'
BY Zenon DEF OutboxInv, ConnInv

LEMMA Resting == Idle \in ConnTypes /\ Idle.pc = "idle" /\ Idle.rest = {}
BY Zenon DEF Idle, ConnTypes

LEMMA NextRow ==
  ASSUME OutboxInv, NEW f \in Frames
  PROVE  AfterRow(f) \in ConnTypes /\ ConnInv(f, AfterRow(f))
<1>1. conn[f] \in ConnTypes /\ ConnInv(f, conn[f]) BY Zenon DEF OutboxInv, OutboxTypes
<1>2. CASE conn[f].rest = {} BY <1>2, Resting, Zenon DEF AfterRow, ConnInv
<1>3. CASE conn[f].rest # {}
  <2> DEFINE c == [Idle EXCEPT !.pc = "insert", !.rest = conn[f].rest]
  <2>1. conn[f].rest \in SUBSET Inboxes BY <1>1, Zenon DEF ConnTypes
  <2>2. c \in ConnTypes /\ c.pc = "insert" BY <2>1, Zenon DEF Idle, ConnTypes
  <2>3. AfterRow(f) = c BY <1>3, Zenon DEF AfterRow
  <2> HIDE DEF c
  <2> QED BY <1>1, <1>3, <2>2, <2>3, Zenon DEF ConnInv
<1> QED BY <1>2, <1>3, Zenon

LEMMA RowBegun ==
  ASSUME NEW r \in Rows, NEW add \in SUBSET Inboxes, NEW rest \in SUBSET Inboxes, NEW f,
         rest # {} => f \in Broadcasts
  PROVE  /\ AtRow(r, add, rest) \in ConnTypes
         /\ message_exists(r) => ConnInv(f, AtRow(r, add, rest))
<1>1. AtRow(r, add, rest) \in ConnTypes BY Zenon DEF AtRow, ConnTypes
<1>2. /\ AtRow(r, add, rest).pc \in {"read", "recipient"}
      /\ AtRow(r, add, rest).row = r /\ AtRow(r, add, rest).rest = rest
  BY Zenon DEF AtRow
<1> HIDE DEF AtRow
<1> QED BY <1>1, <1>2, Zenon DEF ConnInv

-----------------------------------------------------------------------------
(* The steps of the Outbox *)

(* A step that leaves recipients alone.                                    *)
LEMMA SameRecipients ==
  ASSUME IInv, UNCHANGED inbox, recipients' = recipients
  PROVE  Kept /\ InboxInv'
BY InboxKept, Zenon DEF IInv

LEMMA InsertStep ==
  ASSUME IInv, NEW r \in Rows, ~message_exists(r), insert_message(r),
         UNCHANGED <<recipients, inbox>>
  PROVE  /\ queue' \in [Rows -> RowTypes] /\ DeliveredWasReceived' /\ ScheduledWithinRetries'
         /\ message_exists(r)'
         /\ \A q \in Rows : message_exists(q) => message_exists(q)'
<1>1. queue \in [Rows -> RowTypes] BY Zenon DEF IInv, OutboxInv, OutboxTypes
<1> DEFINE row == [status |-> "pending", attempt_count |-> 0, next_attempt_at |-> now,
                   enqueued_at |-> now, expires_at |-> now + Ttl]
<1>2. now \in Nat /\ now + Ttl \in Nat
  BY OutboxAssumption DEF IInv, NetInv, OutboxAssumption
<1>3. row \in RowTypes /\ row.status = "pending" /\ row.attempt_count = 0
  BY <1>2, Zenon DEF RowTypes, Statuses
<1>4. queue' = [queue EXCEPT ![r] = row] BY Zenon DEF insert_message
<1> HIDE DEF row
<1>5. \A q \in Rows : queue'[q] = IF q = r THEN row ELSE queue[q] BY <1>1, <1>4, Zenon
<1>6. received' = received BY Zenon DEF inbox, history
<1>7. queue' \in [Rows -> RowTypes] /\ DeliveredWasReceived' /\ ScheduledWithinRetries'
  BY <1>3, <1>4, <1>6, RowStep, Zenon DEF IInv
<1> QED BY <1>3, <1>5, <1>7, Zenon DEF message_exists

LEMMA EnqueueStep ==
  ASSUME IInv, UNCHANGED inbox, NEW f \in Frames, NEW inboxes \in SUBSET Inboxes,
         enqueue(f, inboxes)
  PROVE  IInv'
<1> DEFINE r == <<f, Direct>>
<1>1. r \in Rows BY Zenon DEF enqueue, Rows
<1>2. Kept /\ InboxInv' BY SameRecipients, Zenon DEF enqueue
<1>3. NetInv' BY <1>2, NetUnchanged, Zenon DEF IInv, enqueue
<1> HIDE DEF r
<1>4. /\ queue' \in [Rows -> RowTypes] /\ DeliveredWasReceived' /\ ScheduledWithinRetries'
      /\ message_exists(r)' /\ \A q \in Rows : message_exists(q) => message_exists(q)'
  BY <1>1, InsertStep, Zenon DEF enqueue, r
<1> DEFINE c == AtRow(r, inboxes, {})
<1>5. c \in ConnTypes BY <1>1, RowBegun, Zenon
<1>6. c.row = r /\ c.rest = {} /\ c.pc \in {"read", "recipient"} BY Zenon DEF AtRow
<1>7. conn' = [conn EXCEPT ![f] = c] BY Zenon DEF enqueue, r
<1> HIDE DEF c
<1>8. ConnInv(f, c)' BY <1>1, <1>4, <1>6, Zenon DEF ConnInv, c, r
<1>9. conn' \in [Frames -> ConnTypes] /\ \A g \in Frames : ConnInv(g, conn[g])'
  BY <1>4, <1>5, <1>7, <1>8, ConnStep, Zenon DEF IInv
<1>10. OutboxTypes' BY <1>4, <1>9, Zenon DEF enqueue, IInv, OutboxInv, OutboxTypes
<1> QED BY <1>2, <1>3, <1>4, <1>9, <1>10, Zenon DEF IInv, OutboxInv

LEMMA BroadcastStep ==
  ASSUME IInv, UNCHANGED inbox, NEW f \in Frames, NEW inboxes \in SUBSET Inboxes,
         enqueue_broadcast(f, inboxes)
  PROVE  IInv'
<1>1. Kept /\ InboxInv' BY SameRecipients, Zenon DEF enqueue_broadcast
<1>2. NetInv' BY <1>1, NetUnchanged, Zenon DEF IInv, enqueue_broadcast
<1> DEFINE c == [Idle EXCEPT !.pc = "insert", !.rest = inboxes]
<1>3. c \in ConnTypes /\ c.pc = "insert" BY Zenon DEF Idle, ConnTypes
<1>4. conn' = [conn EXCEPT ![f] = c] BY Zenon DEF enqueue_broadcast
<1> HIDE DEF c
<1>5. \A q \in Rows : message_exists(q) => message_exists(q)'
  BY Zenon DEF enqueue_broadcast, message_exists
<1>6. ConnInv(f, c)' BY <1>3, Zenon DEF ConnInv, enqueue_broadcast
<1>7. conn' \in [Frames -> ConnTypes] /\ \A g \in Frames : ConnInv(g, conn[g])'
  BY <1>3, <1>4, <1>5, <1>6, ConnStep, Zenon DEF IInv
<1>8. OutboxTypes' BY <1>7, Zenon DEF enqueue_broadcast, IInv, OutboxInv, OutboxTypes
<1>9. DeliveredWasReceived' /\ ScheduledWithinRetries'
  BY Zenon DEF enqueue_broadcast, IInv, OutboxInv, DeliveredWasReceived, ScheduledWithinRetries,
         inbox, history
<1> QED BY <1>1, <1>2, <1>7, <1>8, <1>9, Zenon DEF IInv, OutboxInv

LEMMA BroadcastRowStep ==
  ASSUME IInv, UNCHANGED inbox, NEW f \in Frames, BroadcastRow(f)
  PROVE  IInv'
<1>1. Kept /\ InboxInv' BY SameRecipients, Zenon DEF BroadcastRow
<1>2. NetInv' BY <1>1, NetUnchanged, Zenon DEF IInv, BroadcastRow
<1> SUFFICES ASSUME NEW c \in ConnTypes, c = conn[f] PROVE IInv'
  BY Zenon DEF IInv, OutboxInv, OutboxTypes
<1>3. ConnInv(f, c) /\ c.pc = "insert" BY Zenon DEF IInv, OutboxInv, BroadcastRow
<1>4. PICK i \in c.rest :
        \/ /\ message_exists(<<f, i>>) /\ UNCHANGED queue
           /\ conn' = [conn EXCEPT ![f] = IF c.rest \ {i} = {} THEN Idle
                                          ELSE [c EXCEPT !.rest = c.rest \ {i}]]
        \/ /\ ~message_exists(<<f, i>>) /\ insert_message(<<f, i>>)
           /\ \E add \in {{i}, {}} :
                conn' = [conn EXCEPT ![f] = AtRow(<<f, i>>, add, c.rest \ {i})]
  BY Zenon DEF BroadcastRow
<1>5. /\ f \in Broadcasts /\ i \in Inboxes /\ c.rest \ {i} \in SUBSET Inboxes
      /\ <<f, i>> \in Rows
  BY <1>3, Zenon DEF ConnInv, ConnTypes, Rows
<1> DEFINE rest == c.rest \ {i}
<1>6. CASE /\ message_exists(<<f, i>>) /\ UNCHANGED queue
           /\ conn' = [conn EXCEPT ![f] = IF rest = {} THEN Idle
                                          ELSE [c EXCEPT !.rest = rest]]
  <2> DEFINE d == IF rest = {} THEN Idle ELSE [c EXCEPT !.rest = rest]
  <2> HIDE DEF rest
  <2>1. d \in ConnTypes /\ d.pc \in {"idle", "insert"}
    BY <1>3, <1>5, Resting, Zenon DEF ConnTypes, rest
  <2>2. conn' = [conn EXCEPT ![f] = d] BY <1>6, Zenon
  <2> HIDE DEF d
  <2>3. \A q \in Rows : message_exists(q) => message_exists(q)'
    BY <1>6, Zenon DEF message_exists
  <2>4. ConnInv(f, d)' BY <1>5, <2>1, Zenon DEF ConnInv, d
  <2>5. conn' \in [Frames -> ConnTypes] /\ \A g \in Frames : ConnInv(g, conn[g])'
    BY <2>1, <2>2, <2>3, <2>4, ConnStep, Zenon DEF IInv
  <2>6. OutboxTypes' BY <1>6, <2>5, Zenon DEF BroadcastRow, IInv, OutboxInv, OutboxTypes
  <2>7. DeliveredWasReceived' /\ ScheduledWithinRetries'
    BY <1>6, Zenon DEF BroadcastRow, IInv, OutboxInv, DeliveredWasReceived, ScheduledWithinRetries,
           inbox, history
  <2> QED BY <1>1, <1>2, <2>5, <2>6, <2>7, Zenon DEF IInv, OutboxInv
<1>7. ASSUME ~message_exists(<<f, i>>), insert_message(<<f, i>>), NEW add \in {{i}, {}},
             conn' = [conn EXCEPT ![f] = AtRow(<<f, i>>, add, rest)]
      PROVE  IInv'
  <2> DEFINE r == <<f, i>>
             d == AtRow(r, add, rest)
  <2>0. recipients' = recipients BY Zenon DEF BroadcastRow
  <2>1. /\ queue' \in [Rows -> RowTypes] /\ DeliveredWasReceived' /\ ScheduledWithinRetries'
        /\ message_exists(r)' /\ \A q \in Rows : message_exists(q) => message_exists(q)'
    BY <1>5, <1>7, <2>0, InsertStep, Zenon
  <2>2. d \in ConnTypes BY <1>5, <1>7, RowBegun, Zenon
  <2>3. d.row = r /\ d.pc \in {"read", "recipient"} BY Zenon DEF AtRow
  <2> HIDE DEF d, r
  <2>4. ConnInv(f, d)' BY <1>5, <2>1, <2>3, Zenon DEF ConnInv, d, r
  <2>5. conn' = [conn EXCEPT ![f] = d] BY <1>7, Zenon DEF d, r
  <2>6. conn' \in [Frames -> ConnTypes] /\ \A g \in Frames : ConnInv(g, conn[g])'
    BY <2>1, <2>2, <2>4, <2>5, ConnStep, Zenon DEF IInv
  <2>7. OutboxTypes' BY <2>1, <2>6, Zenon DEF BroadcastRow, IInv, OutboxInv, OutboxTypes
  <2> QED BY <1>1, <1>2, <2>1, <2>6, <2>7, Zenon DEF IInv, OutboxInv
<1> QED BY <1>4, <1>6, <1>7, Zenon

LEMMA RecipientStep ==
  ASSUME IInv, UNCHANGED inbox, NEW f \in Frames, add_recipient_inbox(f)
  PROVE  IInv'
<1> SUFFICES ASSUME NEW c \in ConnTypes, c = conn[f] PROVE IInv'
  BY Zenon DEF IInv, OutboxInv, OutboxTypes
<1>1. PICK i \in c.add :
        /\ recipients' = [recipients EXCEPT ![c.row] = @ \cup {i}]
        /\ conn' = [conn EXCEPT ![f] = AtRow(c.row, c.add \ {i}, c.rest)]
  BY Zenon DEF add_recipient_inbox
<1>2. ConnInv(f, c) /\ c.pc = "recipient"
  BY Zenon DEF IInv, OutboxInv, add_recipient_inbox
<1>3. /\ c.row \in Rows /\ message_exists(c.row) /\ (c.rest # {} => f \in Broadcasts)
      /\ i \in Inboxes /\ c.add \ {i} \in SUBSET Inboxes /\ c.rest \in SUBSET Inboxes
  BY <1>2, Zenon DEF ConnInv, ConnTypes
<1>4. recipients \in [Rows -> SUBSET Inboxes] BY Zenon DEF IInv, OutboxInv, OutboxTypes
<1>5. /\ recipients' \in [Rows -> SUBSET Inboxes]
      /\ \A q \in Rows : recipients[q] \subseteq recipients'[q]
  BY <1>1, <1>3, <1>4, Zenon
<1>6. Kept /\ InboxInv' BY <1>5, InboxKept, Zenon DEF IInv
<1>7. NetInv' BY <1>6, NetUnchanged, Zenon DEF IInv, add_recipient_inbox
<1> DEFINE d == AtRow(c.row, c.add \ {i}, c.rest)
<1>8. d \in ConnTypes /\ ConnInv(f, d) BY <1>3, RowBegun, Zenon
<1> HIDE DEF d
<1>9. queue' = queue /\ \A q \in Rows : message_exists(q) => message_exists(q)'
  BY Zenon DEF add_recipient_inbox, message_exists
<1>10. ConnInv(f, d)' BY <1>8, <1>9, Zenon DEF ConnInv, d, message_exists
<1>11. conn' \in [Frames -> ConnTypes] /\ \A g \in Frames : ConnInv(g, conn[g])'
  BY <1>1, <1>8, <1>9, <1>10, ConnStep, Zenon DEF IInv, d
<1>12. OutboxTypes'
  BY <1>5, <1>11, Zenon DEF add_recipient_inbox, IInv, OutboxInv, OutboxTypes
<1>13. received' = received BY Zenon DEF inbox, history
<1>14. DeliveredWasReceived'
  BY <1>5, <1>9, <1>13, Zenon DEF IInv, OutboxInv, DeliveredWasReceived
<1>15. ScheduledWithinRetries' BY <1>9, Zenon DEF IInv, OutboxInv, ScheduledWithinRetries
<1> QED BY <1>6, <1>7, <1>11, <1>12, <1>14, <1>15, Zenon DEF IInv, OutboxInv

LEMMA ReadRowStep ==
  ASSUME IInv, UNCHANGED inbox, NEW f \in Frames, ReadRow(f)
  PROVE  IInv'
<1> SUFFICES ASSUME NEW c \in ConnTypes, c = conn[f] PROVE IInv'
  BY Zenon DEF IInv, OutboxInv, OutboxTypes
<1>1. ConnInv(f, c) /\ c.pc = "read" /\ c.row \in Rows /\ queue \in [Rows -> RowTypes]
  BY Zenon DEF IInv, OutboxInv, OutboxTypes, ReadRow, ConnInv
<1> SUFFICES ASSUME NEW d \in ConnTypes, ConnInv(f, d), conn' = [conn EXCEPT ![f] = d]
             PROVE  IInv'
  <2>1. AfterRow(f) \in ConnTypes /\ ConnInv(f, AfterRow(f)) BY NextRow, Zenon DEF IInv
  <2> DEFINE e == [c EXCEPT !.pc = "attempt", !.count = queue[c.row].attempt_count]
  <2>2. queue[c.row].attempt_count \in Nat BY <1>1, Zenon DEF RowTypes
  <2>3. /\ e \in ConnTypes /\ e.pc = "attempt" /\ e.row = c.row /\ e.rest = c.rest
    BY <2>2, Zenon DEF ConnTypes
  <2>4. ConnInv(f, e) BY <1>1, <2>3, Zenon DEF ConnInv
  <2>5. conn' = [conn EXCEPT ![f] = e] \/ conn' = [conn EXCEPT ![f] = AfterRow(f)]
    BY Zenon DEF ReadRow, get_message
  <2> HIDE DEF e
  <2> QED BY <2>1, <2>3, <2>4, <2>5, Zenon
<1>2. Kept /\ InboxInv' BY SameRecipients, Zenon DEF ReadRow
<1>3. NetInv' BY <1>2, NetUnchanged, Zenon DEF IInv, ReadRow
<1>4. queue' = queue /\ \A q \in Rows : message_exists(q) => message_exists(q)'
  BY Zenon DEF ReadRow, message_exists
<1>5. ConnInv(f, d)' BY <1>4, Zenon DEF ConnInv, message_exists
<1>6. conn' \in [Frames -> ConnTypes] /\ \A g \in Frames : ConnInv(g, conn[g])'
  BY <1>4, <1>5, ConnStep, Zenon DEF IInv
<1>7. OutboxTypes' BY <1>6, Zenon DEF ReadRow, IInv, OutboxInv, OutboxTypes
<1>8. DeliveredWasReceived' /\ ScheduledWithinRetries'
  BY Zenon DEF ReadRow, IInv, OutboxInv, DeliveredWasReceived, ScheduledWithinRetries,
         inbox, history
<1> QED BY <1>2, <1>3, <1>6, <1>7, <1>8, Zenon DEF IInv, OutboxInv

(* An attempt for row r and what the thread writes after it, from a count  *)
(* that may be stale.                                                      *)
LEMMA AttemptAndUpdate ==
  ASSUME IInv, UNCHANGED <<recipients, inbox>>, NEW r \in Rows, NEW count \in Nat \ {0},
         NEW next \in Nat, next > 0 => count < MaxRetries,
         queue' = queue \/ update_attempt(r, count, next)
  PROVE  /\ queue' \in [Rows -> RowTypes] /\ DeliveredWasReceived' /\ ScheduledWithinRetries'
         /\ \A q \in Rows : message_exists(q) => message_exists(q)'
<1>1. received' = received BY Zenon DEF inbox, history
<1>2. CASE queue' = queue
  BY <1>1, <1>2, Zenon DEF IInv, OutboxInv, OutboxTypes, DeliveredWasReceived,
                    ScheduledWithinRetries, message_exists
<1>3. CASE update_attempt(r, count, next)
  BY <1>1, <1>3, UpdateStep, Zenon DEF IInv, message_exists
<1> QED BY <1>2, <1>3, Zenon

LEMMA ImmediateStep ==
  ASSUME IInv, UNCHANGED inbox, NEW f \in Frames, immediate_attempt(f)
  PROVE  IInv'
<1> SUFFICES ASSUME NEW c \in ConnTypes, c = conn[f] PROVE IInv'
  BY Zenon DEF IInv, OutboxInv, OutboxTypes
<1>1. ConnInv(f, c) /\ c.pc = "attempt" /\ c.row \in Rows
  BY Zenon DEF IInv, OutboxInv, immediate_attempt, ConnInv
<1>2. c.count + 1 \in Nat \ {0} BY DEF ConnTypes
<1>3. Kept /\ InboxInv' BY SameRecipients, Zenon DEF immediate_attempt
<1>4. NetInv' BY <1>1, <1>3, AttemptStep, Zenon DEF immediate_attempt
<1> DEFINE next == NextAfterImmediate(c.row, c.count + 1)
<1>5. next \in Nat /\ (next > 0 => c.count + 1 < MaxRetries)
  BY <1>1, <1>2, NextAttempt, Zenon DEF IInv
<1>6. queue' = queue \/ update_attempt(c.row, c.count + 1, next)
  BY Zenon DEF immediate_attempt
<1> HIDE DEF next
<1>7. /\ queue' \in [Rows -> RowTypes] /\ DeliveredWasReceived' /\ ScheduledWithinRetries'
      /\ \A q \in Rows : message_exists(q) => message_exists(q)'
  BY <1>1, <1>2, <1>5, <1>6, AttemptAndUpdate, Zenon DEF immediate_attempt
<1> SUFFICES ASSUME NEW d \in ConnTypes, ConnInv(f, d), conn' = [conn EXCEPT ![f] = d]
             PROVE  IInv'
  BY NextRow, Zenon DEF IInv, immediate_attempt
<1>8. ConnInv(f, d)' BY <1>7, Zenon DEF ConnInv
<1>9. conn' \in [Frames -> ConnTypes] /\ \A g \in Frames : ConnInv(g, conn[g])'
  BY <1>7, <1>8, ConnStep, Zenon DEF IInv
<1>10. OutboxTypes'
  BY <1>7, <1>9, Zenon DEF immediate_attempt, IInv, OutboxInv, OutboxTypes
<1> QED BY <1>3, <1>4, <1>7, <1>9, <1>10, Zenon DEF IInv, OutboxInv

LEMMA RetryStep ==
  ASSUME IInv, UNCHANGED inbox, NEW d \in due, retry_loop(d)
  PROVE  IInv'
<1>1. d.row \in Rows /\ d.count + 1 \in Nat \ {0} BY DEF IInv, OutboxInv, OutboxTypes
<1>2. Kept /\ InboxInv' BY SameRecipients, Zenon DEF retry_loop
<1>3. NetInv' BY <1>1, <1>2, AttemptStep, Zenon DEF retry_loop
<1> DEFINE next == NextAfterRetry(d.row, d.count + 1)
<1>4. next \in Nat /\ (next > 0 => d.count + 1 < MaxRetries)
  BY <1>1, NextAttempt, Zenon DEF IInv
<1>5. queue' = queue \/ update_attempt(d.row, d.count + 1, next) BY Zenon DEF retry_loop
<1> HIDE DEF next
<1>6. /\ queue' \in [Rows -> RowTypes] /\ DeliveredWasReceived' /\ ScheduledWithinRetries'
      /\ \A q \in Rows : message_exists(q) => message_exists(q)'
  BY <1>1, <1>4, <1>5, AttemptAndUpdate, Zenon DEF retry_loop
<1>7. \A g \in Frames : ConnInv(g, conn[g])'
  BY <1>6, ConnsKept, Zenon DEF IInv, retry_loop
<1>8. OutboxTypes' BY <1>6, Zenon DEF retry_loop, IInv, OutboxInv, OutboxTypes
<1> QED BY <1>2, <1>3, <1>6, <1>7, <1>8, Zenon DEF IInv, OutboxInv

-----------------------------------------------------------------------------
LEMMA CancelStep ==
  ASSUME IInv, UNCHANGED inbox, NEW r \in Rows, cancel(r)
  PROVE  IInv'
<1>1. queue \in [Rows -> RowTypes] BY Zenon DEF IInv, OutboxInv, OutboxTypes
<1> DEFINE row == [queue[r] EXCEPT !.status = "cancelled"]
<1>2. /\ row \in RowTypes /\ row.status = "cancelled"
      /\ row.attempt_count = queue[r].attempt_count
      /\ row.next_attempt_at = queue[r].next_attempt_at
  BY <1>1, Zenon DEF RowTypes, Statuses
<1>3. queue' = [queue EXCEPT ![r] = row] BY <1>1, Zenon DEF cancel, set_status, RowTypes
<1> HIDE DEF row
<1>4. Kept /\ InboxInv' BY SameRecipients, Zenon DEF cancel
<1>5. NetInv' BY <1>4, NetUnchanged, Zenon DEF IInv, cancel
<1>6. received' = received /\ recipients' = recipients BY Zenon DEF inbox, history, cancel
<1>7. row.next_attempt_at > 0 => row.attempt_count = 0 \/ row.attempt_count < MaxRetries
  BY <1>2, Zenon DEF IInv, OutboxInv, ScheduledWithinRetries
<1>8. queue' \in [Rows -> RowTypes] /\ DeliveredWasReceived' /\ ScheduledWithinRetries'
  BY <1>2, <1>3, <1>6, <1>7, RowStep, Zenon DEF IInv
<1>9. \A q \in Rows : message_exists(q) => message_exists(q)'
  BY <1>1, <1>2, <1>3, Zenon DEF message_exists
<1>10. \A g \in Frames : ConnInv(g, conn[g])' BY <1>9, ConnsKept, Zenon DEF IInv, cancel
<1>11. OutboxTypes' BY <1>8, Zenon DEF cancel, IInv, OutboxInv, OutboxTypes
<1> QED BY <1>4, <1>5, <1>8, <1>10, <1>11, Zenon DEF IInv, OutboxInv

(* A step that leaves the tables alone.                                    *)
LEMMA TablesKept ==
  ASSUME IInv, UNCHANGED <<queue, recipients, inbox>>, OutboxTypes',
         \A f \in Frames : ConnInv(f, conn[f])'
  PROVE  OutboxInv'
BY Zenon DEF IInv, OutboxInv, DeliveredWasReceived, ScheduledWithinRetries, inbox, history

LEMMA ListDueStep ==
  ASSUME IInv, UNCHANGED inbox, ListDue
  PROVE  IInv'
<1>1. Kept /\ InboxInv' BY SameRecipients, Zenon DEF ListDue
<1>2. NetInv' BY <1>1, NetUnchanged, Zenon DEF IInv, ListDue
<1>3. \A r \in Rows : queue[r].attempt_count \in Nat
  BY Zenon DEF IInv, OutboxInv, OutboxTypes, RowTypes
<1>4. due' \subseteq [row : Rows, count : Nat] BY <1>3 DEF ListDue, list_due, list_pending
<1>5. OutboxTypes' BY <1>4, Zenon DEF ListDue, IInv, OutboxInv, OutboxTypes
<1>6. \A g \in Frames : ConnInv(g, conn[g])'
  BY ConnsKept, Zenon DEF IInv, ListDue, message_exists
<1> QED BY <1>1, <1>2, <1>5, <1>6, TablesKept, Zenon DEF IInv, ListDue

LEMMA MaintenanceStep ==
  ASSUME IInv, UNCHANGED inbox, maintenance_loop
  PROVE  IInv'
<1>1. queue \in [Rows -> RowTypes] BY Zenon DEF IInv, OutboxInv, OutboxTypes
<1>2. Kept /\ InboxInv' BY SameRecipients, Zenon DEF maintenance_loop
<1>3. NetInv' BY <1>2, NetUnchanged, Zenon DEF IInv, maintenance_loop
<1>4. ASSUME NEW r \in Rows
      PROVE  /\ queue'[r] \in RowTypes
             /\ queue'[r].status \in {queue[r].status, "expired"}
             /\ queue'[r].attempt_count = queue[r].attempt_count
             /\ queue'[r].next_attempt_at = queue[r].next_attempt_at
  <2>1. queue'[r] \in {queue[r], [queue[r] EXCEPT !.status = "expired"]}
    BY Zenon DEF maintenance_loop
  <2> QED BY <1>1, <2>1, Zenon DEF RowTypes, Statuses
<1>5. queue' \in [Rows -> RowTypes]
  <2>1. queue' = [r \in Rows |-> queue'[r]] BY Zenon DEF maintenance_loop
  <2> QED BY <1>4, <2>1, Zenon
<1>6. received' = received /\ recipients' = recipients
  BY Zenon DEF inbox, history, maintenance_loop
<1>7. DeliveredWasReceived' BY <1>4, <1>6, Zenon DEF IInv, OutboxInv, DeliveredWasReceived
<1>8. ScheduledWithinRetries' BY <1>4, Zenon DEF IInv, OutboxInv, ScheduledWithinRetries
<1>9. \A q \in Rows : message_exists(q) => message_exists(q)'
  BY <1>4, Zenon DEF message_exists
<1>10. \A g \in Frames : ConnInv(g, conn[g])'
  BY <1>9, ConnsKept, Zenon DEF IInv, maintenance_loop
<1>11. OutboxTypes' BY <1>5, Zenon DEF maintenance_loop, IInv, OutboxInv, OutboxTypes
<1> QED BY <1>2, <1>3, <1>7, <1>8, <1>10, <1>11, Zenon DEF IInv, OutboxInv

(* The acknowledgement is of a frame that its device has stored, and the   *)
(* device is one of the row's.                                             *)
LEMMA AckStep ==
  ASSUME IInv, UNCHANGED inbox, NEW f \in Frames, NEW i \in Inboxes,
         handle_delivery_ack(f, i)
  PROVE  IInv'
<1>1. queue \in [Rows -> RowTypes] BY Zenon DEF IInv, OutboxInv, OutboxTypes
<1>2. Kept /\ InboxInv' BY SameRecipients, Zenon DEF handle_delivery_ack
<1>3. DeliveryAck(f, i) \in net /\ net' \subseteq net \cup {} /\ now' = now
  BY ReceiveStep, Zenon DEF handle_delivery_ack
<1>4. NetInv'
  <2>1. {} \in SUBSET Packets /\ \A n \in {} : PacketInv(n)' BY Zenon
  <2>2. NetInv /\ now' \in Nat BY <1>3, Zenon DEF IInv, NetInv
  <2> QED BY <1>2, <1>3, <2>1, <2>2, NetStep, Zenon
<1>5. f \in received[i]
  BY <1>3, Zenon DEF IInv, NetInv, PacketInv, DeliveryAck
<1>6. ASSUME NEW r \in Rows
      PROVE  /\ queue'[r] \in RowTypes
             /\ \/ queue'[r].status = queue[r].status
                \/ /\ queue'[r].status = "delivered" /\ FrameOf(r) = f /\ i \in recipients[r]
             /\ queue'[r].attempt_count = queue[r].attempt_count
             /\ queue'[r].next_attempt_at = queue[r].next_attempt_at
  <2>1. \/ queue'[r] = queue[r]
        \/ /\ queue'[r] = [queue[r] EXCEPT !.status = "delivered"]
           /\ r \in RowsNamed(f) /\ i \in recipients[r]
    BY Zenon DEF handle_delivery_ack, is_valid_recipient_inbox
  <2>2. r \in RowsNamed(f) => FrameOf(r) = f BY DEF RowsNamed, FrameOf
  <2> QED BY <1>1, <2>1, <2>2, Zenon DEF RowTypes, Statuses
<1>7. queue' \in [Rows -> RowTypes]
  <2>1. queue' = [r \in Rows |-> queue'[r]] BY Zenon DEF handle_delivery_ack
  <2> QED BY <1>6, <2>1, Zenon
<1>8. received' = received /\ recipients' = recipients
  BY Zenon DEF inbox, history, handle_delivery_ack
<1>9. DeliveredWasReceived' BY <1>5, <1>6, <1>8 DEF IInv, OutboxInv, DeliveredWasReceived
<1>10. ScheduledWithinRetries' BY <1>6, Zenon DEF IInv, OutboxInv, ScheduledWithinRetries
<1>11. \A q \in Rows : message_exists(q) => message_exists(q)'
  BY <1>6, Zenon DEF message_exists
<1>12. \A g \in Frames : ConnInv(g, conn[g])'
  BY <1>11, ConnsKept, Zenon DEF IInv, handle_delivery_ack
<1>13. OutboxTypes' BY <1>7, Zenon DEF handle_delivery_ack, IInv, OutboxInv, OutboxTypes
<1> QED BY <1>2, <1>4, <1>9, <1>10, <1>12, <1>13, Zenon DEF IInv, OutboxInv

LEMMA PollStep ==
  ASSUME IInv, UNCHANGED inbox, NEW i \in Inboxes, handle_outbox_poll(i)
  PROVE  IInv'
<1> DEFINE fs == {FrameOf(r) : r \in {q \in list_pending : is_valid_recipient_inbox(q, i)}}
           new == {PollResponse(fs, i)}
<1>1. fs \in SUBSET Frames BY RowsOfFrames, Zenon DEF list_pending
<1> HIDE DEF fs
<1>2. new \in SUBSET Packets BY <1>1 DEF Packets, PollResponse
<1>3. \A n \in new : PacketInv(n)' BY DEF PollResponse, PacketInv
<1> HIDE DEF new
<1>4. net' \subseteq net \cup new /\ now' = now
  BY ReceiveStep, Zenon DEF handle_outbox_poll, new, fs
<1>5. recipients' = recipients BY Zenon DEF handle_outbox_poll, outbox
<1>6. Kept /\ InboxInv' BY <1>5, SameRecipients, Zenon
<1>7. NetInv /\ now' \in Nat BY <1>4, Zenon DEF IInv, NetInv
<1>8. NetInv' BY <1>2, <1>3, <1>4, <1>6, <1>7, NetStep, Zenon
<1>9. OutboxInv' BY OutboxKept, Zenon DEF IInv, handle_outbox_poll, inbox, history
<1> QED BY <1>6, <1>8, <1>9, Zenon DEF IInv

LEMMA CrashStep ==
  ASSUME IInv, UNCHANGED inbox, Crash
  PROVE  IInv'
<1>1. Kept /\ InboxInv' BY SameRecipients, Zenon DEF Crash
<1>2. NetInv' BY <1>1, NetUnchanged, Zenon DEF IInv, Crash
<1>3. OutboxTypes'
  <2>1. conn' \in [Frames -> ConnTypes] BY Resting, Zenon DEF Crash
  <2>2. OutboxTypes BY Zenon DEF IInv, OutboxInv
  <2>3. crashes' \in Nat /\ burst' = {} /\ due' = {} BY <2>2 DEF Crash, OutboxTypes
  <2>4. up' \in BOOLEAN BY Zenon DEF Crash
  <2> QED BY <2>1, <2>2, <2>3, <2>4, Zenon DEF Crash, OutboxTypes
<1>4. ASSUME NEW f \in Frames PROVE ConnInv(f, conn[f])'
  <2>1. conn'[f] = Idle BY Zenon DEF Crash
  <2> QED BY <2>1, Resting, Zenon DEF ConnInv
<1> QED BY <1>1, <1>2, <1>3, <1>4, TablesKept, Zenon DEF IInv, Crash

LEMMA StartStep ==
  ASSUME IInv, UNCHANGED inbox, outbox_start
  PROVE  IInv'
<1>1. Kept /\ InboxInv' BY SameRecipients, Zenon DEF outbox_start
<1>2. NetInv' BY <1>1, NetUnchanged, Zenon DEF IInv, outbox_start
<1>3. OutboxTypes' BY Zenon DEF outbox_start, list_pending, IInv, OutboxInv, OutboxTypes
<1>4. \A g \in Frames : ConnInv(g, conn[g])'
  BY ConnsKept, Zenon DEF IInv, outbox_start, message_exists
<1> QED BY <1>1, <1>2, <1>3, <1>4, TablesKept, Zenon DEF IInv, outbox_start

LEMMA BurstStep ==
  ASSUME IInv, UNCHANGED inbox, NEW r \in burst, startup_burst(r)
  PROVE  IInv'
<1>1. Kept /\ InboxInv' BY SameRecipients, Zenon DEF startup_burst
<1>2. r \in Rows BY Zenon DEF IInv, OutboxInv, OutboxTypes
<1>3. NetInv' BY <1>1, <1>2, AttemptStep, Zenon DEF startup_burst
<1>4. OutboxTypes' BY Zenon DEF startup_burst, IInv, OutboxInv, OutboxTypes
<1>5. \A g \in Frames : ConnInv(g, conn[g])'
  BY ConnsKept, Zenon DEF IInv, startup_burst, message_exists
<1> QED BY <1>1, <1>3, <1>4, <1>5, TablesKept, Zenon DEF IInv, startup_burst
-----------------------------------------------------------------------------
(* The steps of the Inboxes *)

(* What one row of a store needs, when other rows are left alone.          *)
LEMMA OneMessage ==
  ASSUME InboxInv, Kept, UNCHANGED <<allowed, creds, siblings, retention, changes, polled>>,
         received' \in [Inboxes -> SUBSET Frames], taken' \in [Inboxes -> SUBSET Frames],
         NEW i \in Inboxes, NEW f \in Frames, NEW m \in StoredTypes,
         stored' = [stored EXCEPT ![i][f] = m], StoredInv(i, f, m)',
         \A j \in Inboxes, g \in Frames : j # i \/ g # f =>
           (g \in received'[j] => g \in received[j])
  PROVE  InboxInv'
<1>1. stored \in [Inboxes -> [Frames -> StoredTypes]] BY Zenon DEF InboxInv, InboxTypes
<1>2. stored' \in [Inboxes -> [Frames -> StoredTypes]] BY <1>1, Zenon
<1>3. InboxTypes' BY <1>2, Zenon DEF InboxInv, InboxTypes
<1>4. ASSUME NEW j \in Inboxes, NEW g \in Frames PROVE StoredInv(j, g, stored[j][g])'
  <2>1. CASE j = i /\ g = f
    <3>1. stored'[j][g] = m BY <1>1, <2>1, Zenon
    <3> QED BY <2>1, <3>1, Zenon DEF StoredInv, Addressed, Elsewhere
  <2>2. CASE j # i \/ g # f
    <3>1. stored'[j][g] = stored[j][g] BY <1>1, <2>2, Zenon
    <3>2. StoredInv(j, g, stored[j][g]) BY Zenon DEF InboxInv
    <3>3. /\ (Addressed(g, j) => Addressed(g, j)') /\ (Elsewhere(g, j) => Elsewhere(g, j)')
          /\ received[j] \subseteq received'[j] /\ taken[j] \subseteq taken'[j]
      BY AddressedKept, Zenon DEF Kept
    <3> QED BY <2>2, <3>1, <3>2, <3>3, Zenon DEF StoredInv
  <2> QED BY <2>1, <2>2, Zenon
<1> QED BY <1>3, <1>4, Zenon DEF InboxInv

(* inbox_insert, of a frame that was sent here or copied.                  *)
LEMMA StoreStep ==
  ASSUME IInv, UNCHANGED <<outbox, settings, taken, polled>>,
         NEW i \in Inboxes, NEW f \in Frames, NEW replicated \in BOOLEAN, NEW expires \in Nat,
         inbox_insert(i, f, replicated, expires),
         f \notin PassThrough => expires = 0,
         IF replicated THEN Elsewhere(f, i) ELSE Addressed(f, i)
  PROVE  Kept /\ InboxInv' /\ f \in received'[i]
<1>1. received \in [Inboxes -> SUBSET Frames] /\ taken \in [Inboxes -> SUBSET Frames]
  BY Zenon DEF IInv, InboxInv, InboxTypes
<1>2. received' = [received EXCEPT ![i] = @ \cup {f}] BY Zenon DEF inbox_insert
<1>3. /\ received' \in [Inboxes -> SUBSET Frames] /\ f \in received'[i]
      /\ \A j \in Inboxes : received[j] \subseteq received'[j]
      /\ \A j \in Inboxes, g \in Frames : j # i \/ g # f =>
           (g \in received'[j] => g \in received[j])
  BY <1>1, <1>2, Zenon
<1>4. Kept BY <1>3, Zenon DEF Kept, outbox
<1> DEFINE m == [state |-> "undelivered", replicated |-> replicated, expires_at |-> expires]
<1>5. /\ m \in StoredTypes /\ m.state = "undelivered" /\ m.replicated = replicated
      /\ m.expires_at = expires
  BY Zenon DEF StoredTypes
<1>6. stored' = [stored EXCEPT ![i][f] = m] BY Zenon DEF inbox_insert
<1> HIDE DEF m
<1>7. /\ (Addressed(f, i) => Addressed(f, i)') /\ (Elsewhere(f, i) => Elsewhere(f, i)')
  BY <1>4, AddressedKept, Zenon
<1>8. StoredInv(i, f, m)' BY <1>3, <1>5, <1>7, Zenon DEF StoredInv, m
<1>9. InboxInv'
  BY <1>1, <1>3, <1>4, <1>5, <1>6, <1>8, OneMessage, Zenon DEF IInv, settings
<1> QED BY <1>3, <1>4, <1>9, Zenon

(* A step that changes neither store nor history.                          *)
LEMMA StoresKept ==
  ASSUME IInv, UNCHANGED <<outbox, stored, taken, received>>, InboxTypes',
         \A i \in Inboxes : i \notin siblings'[i]
  PROVE  Kept /\ OutboxInv' /\ InboxInv'
<1>1. Kept BY Zenon DEF Kept, outbox
<1>2. OutboxInv' BY OutboxKept, Zenon DEF IInv
<1>3. ASSUME NEW i \in Inboxes, NEW f \in Frames PROVE StoredInv(i, f, stored[i][f])'
  <2>1. StoredInv(i, f, stored[i][f]) BY Zenon DEF IInv, InboxInv
  <2>2. /\ (Addressed(f, i) => Addressed(f, i)') /\ (Elsewhere(f, i) => Elsewhere(f, i)')
    BY <1>1, AddressedKept, Zenon
  <2> QED BY <2>1, <2>2, Zenon DEF StoredInv
<1> QED BY <1>1, <1>2, <1>3, Zenon DEF InboxInv

LEMMA SettingsStep ==
  ASSUME IInv, UNCHANGED <<transport, outbox, stored, taken, received>>, InboxTypes',
         \A i \in Inboxes : i \notin siblings'[i]
  PROVE  IInv'
BY StoresKept, NetUnchanged, Zenon DEF IInv

LEMMA NoSelf == ASSUME IInv PROVE InboxTypes /\ \A i \in Inboxes : i \notin siblings[i]
BY Zenon DEF IInv, InboxInv

LEMMA DeliveryFrameStep ==
  ASSUME IInv, UNCHANGED outbox, NEW i \in Inboxes, NEW f \in Frames,
         process_delivery_frame(i, f)
  PROVE  IInv'
<1>1. PICK new \in {{}, {DeliveryAck(f, i)}} :
        /\ Receive(DeliveryFrame(f, i), new)
        /\ \/ UNCHANGED <<stored, received>> /\ (new # {} => Holds(i, f))
           \/ inbox_insert(i, f, FALSE, ExpiryOf(f))
  BY Zenon DEF process_delivery_frame, send_ack
<1>2. DeliveryFrame(f, i) \in net /\ net' \subseteq net \cup new
  BY <1>1, ReceiveStep, Zenon
<1>3. Addressed(f, i) BY <1>2, Zenon DEF IInv, NetInv, PacketInv, DeliveryFrame
<1>4. new \in SUBSET Packets BY <1>1 DEF Packets, DeliveryAck
<1>5. NetInv /\ now' \in Nat /\ now \in Nat
  BY Zenon DEF IInv, NetInv, process_delivery_frame
<1>6. Kept /\ InboxInv' /\ OutboxInv' /\ (new # {} => f \in received'[i])
  <2>1. CASE UNCHANGED <<stored, received>> /\ (new # {} => Holds(i, f))
    <3>1. InboxTypes' /\ \A j \in Inboxes : j \notin siblings'[j]
      BY <2>1, NoSelf, Zenon DEF process_delivery_frame, settings, InboxTypes
    <3>2. Holds(i, f) => f \in received[i] BY Zenon DEF IInv, InboxInv, StoredInv, Holds
    <3> QED BY <2>1, <3>1, <3>2, StoresKept, Zenon DEF process_delivery_frame
  <2>2. CASE inbox_insert(i, f, FALSE, ExpiryOf(f))
    <3>1. ExpiryOf(f) \in Nat /\ (f \notin PassThrough => ExpiryOf(f) = 0)
      BY <1>5, InboxAssumption DEF ExpiryOf, InboxAssumption
    <3>2. Kept /\ InboxInv' /\ f \in received'[i]
      BY <1>3, <2>2, <3>1, StoreStep, Zenon DEF process_delivery_frame
    <3>3. OutboxInv' BY <3>2, OutboxKept, Zenon DEF IInv, Kept
    <3> QED BY <3>2, <3>3, Zenon
  <2> QED BY <1>1, <2>1, <2>2, Zenon
<1>7. \A n \in new : PacketInv(n)' BY <1>1, <1>6 DEF PacketInv, DeliveryAck
<1>8. NetInv' BY <1>2, <1>4, <1>5, <1>6, <1>7, NetStep, Zenon
<1> QED BY <1>6, <1>8, Zenon DEF IInv

LEMMA ReplicationStep ==
  ASSUME IInv, UNCHANGED outbox, NEW i \in Inboxes, NEW f \in Frames,
         handle_replication_frame(i, f)
  PROVE  IInv'
<1>1. ReplicationFrame(f, i) \in net /\ net' \subseteq net \cup {}
  BY ReceiveStep, Zenon DEF handle_replication_frame
<1>2. Elsewhere(f, i) BY <1>1, Zenon DEF IInv, NetInv, PacketInv, ReplicationFrame
<1>3. Kept /\ InboxInv' /\ OutboxInv'
  <2>1. CASE UNCHANGED <<stored, received>>
    <3>1. InboxTypes' /\ \A j \in Inboxes : j \notin siblings'[j]
      BY <2>1, NoSelf, Zenon DEF handle_replication_frame, settings, InboxTypes
    <3> QED BY <2>1, <3>1, StoresKept, Zenon DEF handle_replication_frame
  <2>2. CASE inbox_insert(i, f, TRUE, 0)
    <3>1. Kept /\ InboxInv'
      BY <1>2, <2>2, StoreStep, Zenon DEF handle_replication_frame
    <3>2. OutboxInv' BY <3>1, OutboxKept, Zenon DEF IInv, Kept
    <3> QED BY <3>1, <3>2, Zenon
  <2> QED BY <2>1, <2>2, Zenon DEF handle_replication_frame
<1>4. NetInv /\ now' \in Nat BY Zenon DEF IInv, NetInv, handle_replication_frame
<1>5. {} \in SUBSET Packets /\ \A n \in {} : PacketInv(n)' BY Zenon
<1>6. NetInv' BY <1>1, <1>3, <1>4, <1>5, NetStep, Zenon
<1> QED BY <1>3, <1>6, Zenon DEF IInv

LEMMA PollResponseStep ==
  ASSUME IInv, UNCHANGED outbox, NEW i \in Inboxes, NEW fs \in SUBSET Frames,
         HandlePollResponse(i, fs)
  PROVE  IInv'
<1>1. net' \subseteq net \cup {} BY ReceiveStep, Zenon DEF HandlePollResponse
<1>2. InboxTypes /\ \A j \in Inboxes : j \notin siblings[j] BY NoSelf, Zenon
<1>3. polled' \in [Inboxes -> SUBSET Frames]
  BY <1>2, Zenon DEF InboxTypes, HandlePollResponse
<1>4. InboxTypes' BY <1>2, <1>3, Zenon DEF InboxTypes, HandlePollResponse, settings
<1>5. Kept /\ InboxInv' /\ OutboxInv'
  BY <1>2, <1>4, StoresKept, Zenon DEF HandlePollResponse, settings
<1>6. NetInv /\ now' \in Nat BY Zenon DEF IInv, NetInv, HandlePollResponse
<1>7. {} \in SUBSET Packets /\ \A n \in {} : PacketInv(n)' BY Zenon
<1>8. NetInv' BY <1>1, <1>5, <1>6, <1>7, NetStep, Zenon
<1> QED BY <1>5, <1>8, Zenon DEF IInv

LEMMA TakeStep ==
  ASSUME IInv, UNCHANGED outbox, NEW i \in Inboxes, NEW f \in Frames, ack(i, f)
  PROVE  IInv'
<1>1. /\ received \in [Inboxes -> SUBSET Frames] /\ taken \in [Inboxes -> SUBSET Frames]
      /\ stored \in [Inboxes -> [Frames -> StoredTypes]] /\ retention[i] \in Nat
      /\ now + retention[i] \in Nat
  BY DEF IInv, NetInv, InboxInv, InboxTypes
<1>2. /\ taken' \in [Inboxes -> SUBSET Frames] /\ f \in taken'[i]
      /\ \A j \in Inboxes : taken[j] \subseteq taken'[j]
  BY <1>1, Zenon DEF ack
<1>3. Kept /\ received' = received BY <1>2, Zenon DEF Kept, outbox, ack
<1> SUFFICES ASSUME NEW old \in StoredTypes, old = stored[i][f],
                    NEW t \in Nat, t = now + retention[i]
             PROVE  IInv'
  BY <1>1, Zenon
<1> SUFFICES ASSUME NEW m \in StoredTypes, stored' = [stored EXCEPT ![i][f] = m],
                    f \in PassThrough => m.state = "absent",
                    f \notin PassThrough => /\ m.state = "delivered"
                                            /\ m.replicated = old.replicated
             PROVE  IInv'
  <2>1. CASE f \in PassThrough
    <3>1. NoMessage \in StoredTypes /\ NoMessage.state = "absent"
      BY Zenon DEF NoMessage, StoredTypes
    <3> QED BY <2>1, <3>1, Zenon DEF ack, delete_message
  <2>2. CASE f \notin PassThrough
    <3> DEFINE q == [old EXCEPT !.state = "delivered", !.expires_at = t]
    <3>1. q \in StoredTypes /\ q.state = "delivered" /\ q.replicated = old.replicated
      BY Zenon DEF StoredTypes
    <3>2. stored' = [stored EXCEPT ![i][f] = q]
      BY <1>1, <2>2 DEF ack, mark_delivered, StoredTypes
    <3> HIDE DEF q
    <3> QED BY <2>2, <3>1, <3>2, Zenon
  <2> QED BY <2>1, <2>2, Zenon
<1>4. StoredInv(i, f, m)'
  <2>1. StoredInv(i, f, old) /\ old.state # "absent"
    BY Zenon DEF IInv, InboxInv, ack, Holds
  <2>2. /\ (Addressed(f, i) => Addressed(f, i)') /\ (Elsewhere(f, i) => Elsewhere(f, i)')
    BY <1>3, AddressedKept, Zenon
  <2> QED BY <1>2, <1>3, <2>1, <2>2, Zenon DEF StoredInv
<1>5. InboxInv'
  <2>1. InboxInv /\ UNCHANGED <<allowed, creds, siblings, retention, changes, polled>>
    BY Zenon DEF IInv, ack, settings
  <2> QED BY <1>1, <1>2, <1>3, <1>4, <2>1, OneMessage, Zenon
<1>6. OutboxInv' BY <1>3, OutboxKept, Zenon DEF IInv
<1>7. NetInv' BY <1>3, NetUnchanged, Zenon DEF IInv, ack
<1> QED BY <1>5, <1>6, <1>7, Zenon DEF IInv

(* The requests that change a setting of device i.                         *)
LEMMA ChangeStep ==
  ASSUME IInv, UNCHANGED outbox, NEW i \in Inboxes,
         \/ update_sender_allowlist(i) \/ update_dht_delegation(i) \/ set_retention_days(i)
         \/ \E j \in Inboxes \ {i} : add_sibling(i, j) \/ remove_sibling(i, j)
  PROVE  IInv'
<1>1. InboxTypes /\ \A j \in Inboxes : j \notin siblings[j] BY NoSelf, Zenon
<1>2. /\ UNCHANGED <<transport, stored, taken, received, polled>> /\ changes' = changes + 1
  BY Zenon DEF update_sender_allowlist, update_dht_delegation, set_retention_days, add_sibling,
         remove_sibling, Change, history
<1>3. allowed' \subseteq Inboxes /\ creds' \subseteq Inboxes
  BY <1>1, Zenon DEF InboxTypes, update_sender_allowlist, update_dht_delegation,
              set_retention_days, add_sibling, remove_sibling
<1>4. retention' \in [Inboxes -> Nat]
  BY <1>1, InboxAssumption, Zenon DEF InboxTypes, update_sender_allowlist, update_dht_delegation,
       set_retention_days, add_sibling, remove_sibling, InboxAssumption
<1>5. /\ siblings' \in [Inboxes -> SUBSET Inboxes] /\ \A j \in Inboxes : j \notin siblings'[j]
  <2>1. siblings \in [Inboxes -> SUBSET Inboxes] BY <1>1, Zenon DEF InboxTypes
  <2>2. CASE siblings' = siblings BY <1>1, <2>1, <2>2, Zenon
  <2>3. ASSUME NEW j \in Inboxes \ {i}, add_sibling(i, j) \/ remove_sibling(i, j)
        PROVE  \E fs \in SUBSET (Inboxes \ {i}) : siblings' = [siblings EXCEPT ![i] = fs]
    <3>1. siblings[i] \in SUBSET (Inboxes \ {i}) BY <1>1, <2>1, Zenon
    <3> QED BY <2>1, <2>3, <3>1, Zenon DEF add_sibling, remove_sibling
  <2>4. ASSUME NEW fs \in SUBSET (Inboxes \ {i}), siblings' = [siblings EXCEPT ![i] = fs]
        PROVE  /\ siblings' \in [Inboxes -> SUBSET Inboxes]
               /\ \A j \in Inboxes : j \notin siblings'[j]
    BY <1>1, <2>1, <2>4, Zenon
  <2> QED BY <2>2, <2>3, <2>4, Zenon DEF update_sender_allowlist, update_dht_delegation,
                                  set_retention_days
<1>6. InboxTypes' BY <1>1, <1>2, <1>3, <1>4, <1>5 DEF InboxTypes
<1> QED BY <1>2, <1>5, <1>6, SettingsStep, Zenon

LEMMA InboxStartStep ==
  ASSUME IInv, UNCHANGED outbox, NEW i \in Inboxes, inbox_start(i)
  PROVE  IInv'
<1>1. InboxTypes /\ \A j \in Inboxes : j \notin siblings[j] BY NoSelf, Zenon
<1>2. PICK polls \in SUBSET {OutboxPoll(i)} : net' = net \cup polls
  BY Zenon DEF inbox_start, poll_known_outboxes, Send
<1>3. polls \in SUBSET Packets BY <1>2 DEF OutboxPoll, Packets
<1>4. \A n \in polls : PacketInv(n)' BY <1>2 DEF OutboxPoll, PacketInv
<1>5. retention' \in [Inboxes -> Nat]
  BY <1>1, InboxAssumption, Zenon DEF inbox_start, InboxTypes, InboxAssumption
<1>6. UNCHANGED <<now, stored, allowed, creds, siblings, changes, taken, received, polled>>
  BY Zenon DEF inbox_start, history
<1>7. InboxTypes' BY <1>1, <1>5, <1>6, Zenon DEF InboxTypes
<1>8. Kept /\ InboxInv' /\ OutboxInv' BY <1>1, <1>6, <1>7, StoresKept, Zenon
<1>9. NetInv /\ now' \in Nat BY <1>6, Zenon DEF IInv, NetInv
<1>10. NetInv' BY <1>2, <1>3, <1>4, <1>8, <1>9, NetStep, Zenon
<1> QED BY <1>8, <1>10, Zenon DEF IInv

(* The sweep keeps what has no expiry, and copies what was sent here.      *)
LEMMA SweepStep ==
  ASSUME IInv, UNCHANGED outbox, NEW i \in Inboxes, inbox_maintenance(i)
  PROVE  IInv'
<1>1. InboxTypes /\ \A j \in Inboxes : j \notin siblings[j] BY NoSelf, Zenon
<1>2. UNCHANGED <<now, allowed, creds, siblings, retention, changes, taken, received, polled>>
  BY Zenon DEF inbox_maintenance, history, settings
<1>3. Kept BY <1>2, Zenon DEF Kept, outbox
<1>4. ASSUME NEW j \in Inboxes, NEW f \in Frames
      PROVE  \/ stored'[j][f] = stored[j][f]
             \/ stored'[j][f] = NoMessage /\ (Holds(j, f) => stored[j][f].expires_at > 0)
  <2>1. stored'[j] = IF j = i
          THEN [g \in Frames |-> IF Holds(i, g) /\ ~delete_expired(i, g)
                                   THEN stored[i][g] ELSE NoMessage]
          ELSE stored[j]
    BY <1>1, Zenon DEF inbox_maintenance, InboxTypes
  <2> QED BY <2>1, Zenon DEF delete_expired
<1>5. NoMessage \in StoredTypes /\ NoMessage.state = "absent"
  BY Zenon DEF NoMessage, StoredTypes
<1>6. stored' \in [Inboxes -> [Frames -> StoredTypes]]
  <2> DEFINE g == [f \in Frames |-> IF Holds(i, f) /\ ~delete_expired(i, f)
                                      THEN stored[i][f] ELSE NoMessage]
  <2>1. g \in [Frames -> StoredTypes] BY <1>1, <1>5 DEF InboxTypes
  <2>2. stored' = [stored EXCEPT ![i] = g] BY Zenon DEF inbox_maintenance
  <2> HIDE DEF g
  <2> QED BY <1>1, <2>1, <2>2, Zenon DEF InboxTypes
<1>7. InboxTypes' BY <1>1, <1>2, <1>6, Zenon DEF InboxTypes
<1>8. ASSUME NEW j \in Inboxes, NEW f \in Frames PROVE StoredInv(j, f, stored[j][f])'
  <2>1. StoredInv(j, f, stored[j][f]) BY Zenon DEF IInv, InboxInv
  <2>2. /\ (Addressed(f, j) => Addressed(f, j)') /\ (Elsewhere(f, j) => Elsewhere(f, j)')
    BY <1>3, AddressedKept, Zenon
  <2>3. Holds(j, f) => stored[j][f].expires_at \in Nat BY <1>1 DEF InboxTypes, StoredTypes
  <2> QED BY <1>2, <1>4, <1>5, <2>1, <2>2, <2>3 DEF StoredInv, Holds
<1>9. InboxInv' BY <1>1, <1>2, <1>7, <1>8, Zenon DEF InboxInv
<1>10. OutboxInv' BY <1>2, OutboxKept, Zenon DEF IInv
<1>11. PICK sent : /\ net' = net \cup sent
                   /\ \A n \in sent : \E f \in Frames, j \in siblings[i] :
                        /\ n = ReplicationFrame(f, j)
                        /\ Holds(i, f) /\ ~stored[i][f].replicated
  BY DEF inbox_maintenance, replicate_to_siblings, Send
<1>12. siblings[i] \subseteq Inboxes \ {i} BY <1>1, Zenon DEF InboxTypes
<1>13. sent \in SUBSET Packets BY <1>11, <1>12 DEF ReplicationFrame, Packets
<1>14. ASSUME NEW n \in sent PROVE PacketInv(n)'
  <2>1. PICK f \in Frames, j \in siblings[i] :
          n = ReplicationFrame(f, j) /\ Holds(i, f) /\ ~stored[i][f].replicated
    BY <1>11, Zenon
  <2>2. j \in Inboxes /\ i \in Inboxes \ {j} BY <1>12, <2>1, Zenon
  <2>3. f \in received[i] /\ Addressed(f, i)
    BY <2>1, Zenon DEF IInv, InboxInv, StoredInv, Holds
  <2>4. Elsewhere(f, j) BY <2>2, <2>3, Zenon DEF Elsewhere
  <2>5. Elsewhere(f, j)' BY <1>3, <2>4, AddressedKept, Zenon
  <2> QED BY <2>1, <2>5, Zenon DEF PacketInv, ReplicationFrame
<1>15. NetInv /\ now' \in Nat BY <1>2, Zenon DEF IInv, NetInv
<1>16. NetInv' BY <1>3, <1>11, <1>13, <1>14, <1>15, NetStep, Zenon
<1> QED BY <1>9, <1>10, <1>16, Zenon DEF IInv
-----------------------------------------------------------------------------
(* The invariant *)

LEMMA InitInv == Init => IInv
<1> SUFFICES ASSUME Init PROVE IInv BY Zenon
<1>1. NetInv BY Zenon DEF Init, TransportInit, NetInv
<1>2. OutboxInv
  <2>1. NoRow \in RowTypes /\ NoRow.status = "absent" /\ NoRow.next_attempt_at = 0
    BY Zenon DEF NoRow, RowTypes, Statuses
  <2>2. /\ queue = [r \in Rows |-> NoRow] /\ recipients = [r \in Rows |-> {}]
        /\ conn = [f \in Frames |-> Idle] /\ burst = {} /\ due = {} /\ crashes = 0
    BY Zenon DEF Init, OutboxInit
  <2>3. up \in BOOLEAN BY Zenon DEF Init, OutboxInit
  <2>4. OutboxTypes BY <2>1, <2>2, <2>3, Resting, Zenon DEF OutboxTypes
  <2>5. \A f \in Frames : ConnInv(f, conn[f]) BY <2>2, Resting, Zenon DEF ConnInv
  <2> QED BY <2>1, <2>2, <2>4, <2>5
        DEF OutboxInv, DeliveredWasReceived, ScheduledWithinRetries
<1>3. InboxInv
  <2>1. NoMessage \in StoredTypes /\ NoMessage.state = "absent"
    BY Zenon DEF NoMessage, StoredTypes
  <2>2. /\ stored = [i \in Inboxes |-> [f \in Frames |-> NoMessage]]
        /\ received = [i \in Inboxes |-> {}]
    BY Zenon DEF Init, InboxInit
  <2>3. stored \in [Inboxes -> [Frames -> StoredTypes]] BY <2>1, <2>2, Zenon
  <2>4. retention \in [Inboxes -> Nat]
    BY InboxAssumption, Zenon DEF Init, InboxInit, InboxAssumption
  <2>5. /\ siblings \in [Inboxes -> SUBSET Inboxes] /\ \A i \in Inboxes : i \notin siblings[i]
    BY Zenon DEF Init, InboxInit
  <2>6. InboxTypes BY <2>3, <2>4, <2>5, Zenon DEF Init, InboxInit, InboxTypes
  <2>7. ASSUME NEW i \in Inboxes, NEW f \in Frames PROVE StoredInv(i, f, stored[i][f])
    BY <2>1, <2>2, Zenon DEF StoredInv
  <2> QED BY <2>5, <2>6, <2>7, Zenon DEF InboxInv
<1> QED BY <1>1, <1>2, <1>3, Zenon DEF IInv

LEMMA OutboxStepInv ==
  ASSUME IInv, OutboxNext, UNCHANGED inbox
  PROVE  IInv'
BY EnqueueStep, BroadcastStep, BroadcastRowStep, RecipientStep, ReadRowStep, ImmediateStep,
   CancelStep, ListDueStep, RetryStep, MaintenanceStep, AckStep, PollStep, CrashStep,
   StartStep, BurstStep, Zenon
   DEF OutboxNext, on_frame

LEMMA InboxStepInv ==
  ASSUME IInv, InboxNext, UNCHANGED outbox
  PROVE  IInv'
BY DeliveryFrameStep, ReplicationStep, TakeStep, PollResponseStep, ChangeStep, SweepStep,
   InboxStartStep, Zenon
   DEF InboxNext

LEMMA StepInv == IInv /\ [Next]_vars => IInv'
<1> SUFFICES ASSUME IInv, [Next]_vars PROVE IInv' BY Zenon
<1>1. CASE OutboxNext /\ UNCHANGED inbox BY <1>1, OutboxStepInv, Zenon
<1>2. CASE InboxNext /\ UNCHANGED outbox BY <1>2, InboxStepInv, Zenon
<1>3. CASE UNCHANGED <<outbox, inbox>> /\ net' \subseteq net /\ now' \in Nat
  <2>1. recipients' = recipients /\ received' = received /\ UNCHANGED inbox /\ UNCHANGED outbox
    BY <1>3, Zenon DEF inbox, history, outbox
  <2>2. Kept /\ InboxInv' BY <2>1, SameRecipients, Zenon
  <2>3. OutboxInv' BY <2>1, OutboxKept, Zenon DEF IInv
  <2>4. {} \in SUBSET Packets /\ (\A n \in {} : PacketInv(n)') /\ net' \subseteq net \cup {}
    BY <1>3, Zenon
  <2>5. NetInv' BY <1>3, <2>2, <2>4, NetStep, Zenon DEF IInv
  <2> QED BY <2>2, <2>3, <2>5, Zenon DEF IInv
<1>4. now \in Nat BY Zenon DEF IInv, NetInv
<1>5. ASSUME NEW n \in net, Lose(n), UNCHANGED <<outbox, inbox>> PROVE IInv'
  BY <1>3, <1>4, <1>5, Zenon DEF Lose
<1>6. CASE Tick /\ UNCHANGED <<outbox, inbox>> BY <1>3, <1>4, <1>6 DEF Tick
<1>7. CASE UNCHANGED vars BY <1>3, <1>4, <1>7, Zenon DEF vars, transport
<1> QED BY <1>1, <1>2, <1>5, <1>6, <1>7, Zenon DEF Next

LEMMA Invariance == Spec => []IInv
BY InitInv, StepInv, PTL DEF Spec
-----------------------------------------------------------------------------
(* Types: every variable of the two daemons and of the transport keeps its *)
(* type, whichever handlers and threads of Outbox and Inboxes interleave.  *)
THEOREM TypeCorrect == Spec => []TypeOK
<1>1. IInv => TypeOK
  BY Zenon DEF IInv, NetInv, OutboxInv, OutboxTypes, InboxInv, InboxTypes, TypeOK
<1> QED BY <1>1, Invariance, PTL

(* A row is DELIVERED only after one of its own recipients stored the      *)
(* frame: handle_delivery_ack checks the recipient, and an Inbox           *)
(* acknowledges only what is in its store.                                 *)
THEOREM AcknowledgedWasReceived == Spec => []DeliveredWasReceived
<1>1. IInv => DeliveredWasReceived BY Zenon DEF IInv, OutboxInv
<1> QED BY <1>1, Invariance, PTL

(* A frame of class "store" whose row reads DELIVERED is in the store of   *)
(* one of the row's inboxes or was taken by its client, through lost and   *)
(* repeated packets, crashes, stale reads and both expiry sweeps.          *)
THEOREM DeliveredIsNotLost == Spec => []NoLoss
<1>1. IInv => NoLoss
  <2> SUFFICES ASSUME IInv, NEW r \in Rows, queue[r].status = "delivered",
                      FrameOf(r) \notin PassThrough
               PROVE  \E i \in recipients[r] : Holds(i, FrameOf(r)) \/ FrameOf(r) \in taken[i]
    BY Zenon DEF NoLoss
  <2>1. PICK i \in recipients[r] : FrameOf(r) \in received[i]
    BY Zenon DEF IInv, OutboxInv, DeliveredWasReceived
  <2>2. i \in Inboxes /\ FrameOf(r) \in Frames
    BY RowsOfFrames, Zenon DEF IInv, OutboxInv, OutboxTypes
  <2>3. StoredInv(i, FrameOf(r), stored[i][FrameOf(r)]) BY <2>2, Zenon DEF IInv, InboxInv
  <2> QED BY <2>1, <2>3, Zenon DEF StoredInv, Holds
<1> QED BY <1>1, Invariance, PTL

(* What an Inbox holds was queued for it by enqueue or enqueue_broadcast,  *)
(* unless handle_replication_frame stored it.                              *)
THEOREM AddresseesOnly == Spec => []OnlyRecipientsReceive
<1>1. IInv => OnlyRecipientsReceive
  BY Zenon DEF IInv, InboxInv, StoredInv, Addressed, OnlyRecipientsReceive, Holds
<1> QED BY <1>1, Invariance, PTL

(* Every copy that handle_replication_frame stored stems from another      *)
(* device that the frame was addressed to and that stored it, since        *)
(* maintenance sends no row on that is a copy itself.                      *)
THEOREM CopiesAreOfOriginals == Spec => []CopiesHaveOrigin
<1>1. IInv => CopiesHaveOrigin
  BY Zenon DEF IInv, InboxInv, StoredInv, Elsewhere, Addressed, CopiesHaveOrigin, Holds
<1> QED BY <1>1, Invariance, PTL

(* A row that immediate_attempt or retry_loop schedules again has failed   *)
(* fewer than max_retries times, for every number of retries and although  *)
(* both count from what they had read before.                              *)
THEOREM RetriesAreBounded == Spec => []ScheduledWithinRetries
<1>1. IInv => ScheduledWithinRetries BY Zenon DEF IInv, OutboxInv
<1> QED BY <1>1, Invariance, PTL

-----------------------------------------------------------------------------
(***************************************************************************)
(* Delivery implements Mailbox: every step of a daemon, of the network or  *)
(* of the clock is a step of the mailbox or changes nothing in it.         *)
(***************************************************************************)

(* What the clients see, as the refinement mapping puts it.                *)
Status == [r \in Rows |-> queue[r].status]
Boxes  == [i \in Inboxes |-> {f \in Frames : Holds(i, f)}]

LEMMA Unseen ==
  ASSUME \A r \in Rows : queue'[r].status = queue[r].status,
         \A i \in Inboxes, f \in Frames : Holds(i, f)' <=> Holds(i, f),
         UNCHANGED <<recipients, received, taken>>
  PROVE  UNCHANGED Box!vars
<1>1. Status' = Status BY Zenon DEF Status
<1>2. Boxes' = Boxes BY Zenon DEF Boxes
<1> QED BY <1>1, <1>2, Zenon DEF Box!vars, Status, Boxes

LEMMA PostStep ==
  ASSUME IInv, NEW r \in Rows, ~message_exists(r), insert_message(r),
         UNCHANGED <<recipients, inbox>>
  PROVE  Box!Next
<1>1. queue \in [Rows -> RowTypes] BY Zenon DEF IInv, OutboxInv, OutboxTypes
<1>2. \A q \in Rows : queue'[q].status = IF q = r THEN "pending" ELSE queue[q].status
  BY <1>1, Zenon DEF insert_message
<1>3. Status' = [Status EXCEPT ![r] = "pending"] /\ Status[r] = "absent"
  BY <1>2, Zenon DEF Status, message_exists
<1>4. Boxes' = Boxes /\ UNCHANGED <<recipients, received, taken>>
  BY Zenon DEF Boxes, Holds, inbox, history
<1> QED BY <1>3, <1>4, Zenon DEF Box!Next, Box!Post, Status, Boxes
LEMMA SeenByInboxes ==
  ASSUME UNCHANGED inbox
  PROVE  /\ \A i \in Inboxes, f \in Frames : Holds(i, f)' <=> Holds(i, f)
         /\ UNCHANGED <<received, taken>> /\ Boxes' = Boxes
BY Zenon DEF Boxes, Holds, inbox, history

LEMMA SeenByOutbox ==
  ASSUME UNCHANGED outbox
  PROVE  /\ \A r \in Rows : queue'[r].status = queue[r].status
         /\ recipients' = recipients /\ Status' = Status
BY Zenon DEF Status, outbox

(* Scheduling shows in no status.                                          *)
LEMMA AttemptUnseen ==
  ASSUME IInv, NEW r \in Rows, NEW count, NEW next,
         queue' = queue \/ update_attempt(r, count, next)
  PROVE  \A q \in Rows : queue'[q].status = queue[q].status
BY DEF IInv, OutboxInv, OutboxTypes, RowTypes, update_attempt

LEMMA AddressStep ==
  ASSUME IInv, UNCHANGED inbox, NEW f \in Frames, add_recipient_inbox(f)
  PROVE  Box!Next
<1>1. PICK i \in conn[f].add :
        recipients' = [recipients EXCEPT ![conn[f].row] = @ \cup {i}]
  BY Zenon DEF add_recipient_inbox
<1>2. /\ conn[f] \in ConnTypes /\ ConnInv(f, conn[f]) /\ conn[f].pc = "recipient"
  BY Zenon DEF IInv, OutboxInv, OutboxTypes, add_recipient_inbox
<1>3. i \in Inboxes /\ conn[f].row \in Rows /\ message_exists(conn[f].row)
  BY <1>1, <1>2, Zenon DEF ConnTypes, ConnInv
<1>4. Status' = Status /\ Status[conn[f].row] # "absent"
  BY <1>3, Zenon DEF add_recipient_inbox, Status, message_exists
<1>5. Boxes' = Boxes /\ UNCHANGED <<received, taken>> BY SeenByInboxes, Zenon
<1>6. Box!Address(conn[f].row, i)
  BY <1>1, <1>4, <1>5, Zenon DEF Box!Address, Status, Boxes
<1> QED BY <1>3, <1>6, Zenon DEF Box!Next

LEMMA CancelShows ==
  ASSUME IInv, UNCHANGED inbox, NEW r \in Rows, cancel(r)
  PROVE  Box!Next
<1>1. queue \in [Rows -> RowTypes] BY Zenon DEF IInv, OutboxInv, OutboxTypes
<1>2. \A q \in Rows : queue'[q].status = IF q = r THEN "cancelled" ELSE queue[q].status
  BY <1>1, Zenon DEF cancel, set_status, RowTypes
<1>3. Status' = [Status EXCEPT ![r] = "cancelled"] /\ Status[r] # "absent"
  BY <1>2, Zenon DEF Status, cancel, message_exists
<1>4. Boxes' = Boxes /\ UNCHANGED <<recipients, received, taken>>
  BY SeenByInboxes, Zenon DEF cancel
<1> QED BY <1>3, <1>4, Zenon DEF Box!Next, Box!Cancel, Status, Boxes

LEMMA ExpiryShows ==
  ASSUME IInv, UNCHANGED inbox, maintenance_loop
  PROVE  Box!Next
<1>1. queue \in [Rows -> RowTypes] BY Zenon DEF IInv, OutboxInv, OutboxTypes
<1> SUFFICES ASSUME NEW rs \in SUBSET Rows, rs = {r \in list_pending : Expired(r)}
             PROVE  Box!Next
  BY Zenon DEF list_pending
<1>2. ASSUME NEW r \in Rows
      PROVE  queue'[r].status = IF r \in rs THEN "expired" ELSE queue[r].status
  <2>1. queue'[r] = IF r \in rs THEN [queue[r] EXCEPT !.status = "expired"] ELSE queue[r]
    BY Zenon DEF maintenance_loop
  <2> QED BY <1>1, <2>1, Zenon DEF RowTypes
<1>3. \A r \in rs : Status[r] = "pending" BY Zenon DEF list_pending, Status
<1>4. Status' = [r \in Rows |-> IF r \in rs THEN "expired" ELSE Status[r]]
  BY <1>2, Zenon DEF Status
<1>5. Boxes' = Boxes /\ UNCHANGED <<recipients, received, taken>>
  BY SeenByInboxes, Zenon DEF maintenance_loop
<1>6. Box!Expire(rs) BY <1>3, <1>4, <1>5, Zenon DEF Box!Expire, Status, Boxes
<1> QED BY <1>6, Zenon DEF Box!Next

(* An acknowledgement reports the row delivered, or names none.            *)
LEMMA AckShows ==
  ASSUME IInv, UNCHANGED inbox, NEW f \in Frames, NEW i \in Inboxes,
         handle_delivery_ack(f, i)
  PROVE  [Box!Next]_(Box!vars)
<1>1. queue \in [Rows -> RowTypes] BY Zenon DEF IInv, OutboxInv, OutboxTypes
<1> DEFINE r == <<f, Direct>>
           hit == r \in Rows /\ i \in recipients[r] /\ message_exists(r)
<1>2. ASSUME NEW q \in Rows
      PROVE  queue'[q].status = IF hit /\ q = r THEN "delivered" ELSE queue[q].status
  <2>1. queue'[q] = IF hit /\ q = r THEN [queue[q] EXCEPT !.status = "delivered"]
                    ELSE queue[q]
    BY Zenon DEF handle_delivery_ack, RowsNamed, is_valid_recipient_inbox
  <2> HIDE DEF hit, r
  <2> QED BY <1>1, <2>1, Zenon DEF RowTypes
<1>3. Boxes' = Boxes /\ UNCHANGED <<recipients, received, taken>>
  BY SeenByInboxes, Zenon DEF handle_delivery_ack
<1>4. f \in received[i] /\ FrameOf(r) = f
  BY ReceiveStep DEF handle_delivery_ack, IInv, NetInv, PacketInv, DeliveryAck, FrameOf
<1> HIDE DEF r
<1>5. CASE hit
  <2>1. Status' = [Status EXCEPT ![r] = "delivered"] /\ Status[r] # "absent" /\ r \in Rows
    BY <1>2, <1>5, Zenon DEF Status, message_exists
  <2>2. \E j \in recipients[r] : FrameOf(r) \in received[j] BY <1>4, <1>5, Zenon
  <2>3. Box!Deliver(r) BY <1>3, <2>1, <2>2, Zenon DEF Box!Deliver, Status, Boxes
  <2> QED BY <2>1, <2>3, Zenon DEF Box!Next
<1>6. CASE ~hit
  <2>1. \A q \in Rows : queue'[q].status = queue[q].status BY <1>2, <1>6, Zenon
  <2> QED BY <2>1, SeenByInboxes, Unseen, Zenon DEF handle_delivery_ack
<1> QED BY <1>5, <1>6, Zenon

(* The other steps of the Outbox show nothing, or a row that is posted.    *)
LEMMA OutboxShows ==
  ASSUME IInv, OutboxNext, UNCHANGED inbox
  PROVE  [Box!Next]_(Box!vars)
<1>1. ASSUME NEW f \in Frames, NEW inboxes \in SUBSET Inboxes, enqueue(f, inboxes)
      PROVE  Box!Next
  <2>1. <<f, Direct>> \in Rows BY <1>1, Zenon DEF enqueue, Rows
  <2> QED BY <1>1, <2>1, PostStep, Zenon DEF enqueue
<1>2. ASSUME NEW f \in Frames, BroadcastRow(f)
      PROVE  [Box!Next]_(Box!vars)
  <2>1. PICK i \in conn[f].rest :
          queue' = queue \/ (~message_exists(<<f, i>>) /\ insert_message(<<f, i>>))
    BY <1>2, Zenon DEF BroadcastRow
  <2>2. <<f, i>> \in Rows
    BY <2>1, Zenon DEF IInv, OutboxInv, OutboxTypes, ConnInv, ConnTypes, Rows
  <2>3. recipients' = recipients BY <1>2, Zenon DEF BroadcastRow
  <2>4. CASE queue' = queue BY <2>3, <2>4, SeenByInboxes, Unseen, Zenon
  <2> QED BY <2>1, <2>2, <2>3, <2>4, PostStep, Zenon
<1>3. ASSUME NEW f \in Frames, immediate_attempt(f)
      PROVE  UNCHANGED Box!vars
  <2>1. conn[f].row \in Rows
    BY <1>3, Zenon DEF IInv, OutboxInv, ConnInv, immediate_attempt
  <2>2. \A q \in Rows : queue'[q].status = queue[q].status
    BY <1>3, <2>1, AttemptUnseen, Zenon DEF immediate_attempt
  <2> QED BY <1>3, <2>2, SeenByInboxes, Unseen, Zenon DEF immediate_attempt
<1>4. ASSUME NEW d \in due, retry_loop(d)
      PROVE  UNCHANGED Box!vars
  <2>1. d.row \in Rows BY Zenon DEF IInv, OutboxInv, OutboxTypes
  <2>2. \A q \in Rows : queue'[q].status = queue[q].status
    BY <1>4, <2>1, AttemptUnseen, Zenon DEF retry_loop
  <2> QED BY <1>4, <2>2, SeenByInboxes, Unseen, Zenon DEF retry_loop
<1>5. ASSUME UNCHANGED <<queue, recipients>> PROVE UNCHANGED Box!vars
  BY <1>5, SeenByInboxes, Unseen, Zenon
<1>6. ASSUME NEW i \in Inboxes, handle_outbox_poll(i) PROVE UNCHANGED Box!vars
  BY <1>5, <1>6, Zenon DEF handle_outbox_poll, outbox
<1>7. ASSUME NEW r \in burst, startup_burst(r) PROVE UNCHANGED Box!vars
  BY <1>5, <1>7, Zenon DEF startup_burst
<1>8. ASSUME NEW f \in Frames, NEW inboxes \in SUBSET Inboxes,
             enqueue_broadcast(f, inboxes) \/ ReadRow(f)
      PROVE  UNCHANGED Box!vars
  BY <1>5, <1>8, Zenon DEF enqueue_broadcast, ReadRow
<1>9. CASE ListDue \/ Crash \/ outbox_start
  BY <1>5, <1>9, Zenon DEF ListDue, Crash, outbox_start
<1> QED
  BY <1>1, <1>2, <1>3, <1>4, <1>6, <1>7, <1>8, <1>9, AddressStep, CancelShows,
     ExpiryShows, AckShows, Zenon
     DEF OutboxNext, on_frame
LEMMA DepositStep ==
  ASSUME IInv, UNCHANGED outbox, taken' = taken, NEW i \in Inboxes, NEW f \in Frames,
         NEW replicated, NEW expires, inbox_insert(i, f, replicated, expires),
         Addressed(f, i) \/ Elsewhere(f, i)
  PROVE  Box!Next
<1>1. stored \in [Inboxes -> [Frames -> StoredTypes]]
  BY Zenon DEF IInv, InboxInv, InboxTypes
<1>2. ASSUME NEW j \in Inboxes, NEW g \in Frames
      PROVE  Holds(j, g)' <=> Holds(j, g) \/ (j = i /\ g = f)
  BY <1>1, Zenon DEF Holds, inbox_insert
<1>3. Boxes' = [Boxes EXCEPT ![i] = @ \cup {f}] BY <1>2, Zenon DEF Boxes
<1>4. received' = [received EXCEPT ![i] = @ \cup {f}] BY Zenon DEF inbox_insert
<1>5. Status' = Status /\ recipients' = recipients BY SeenByOutbox, Zenon
<1>6. \/ \E r \in Rows : FrameOf(r) = f /\ i \in recipients[r]
      \/ \E j \in Inboxes \ {i} : f \in received[j]
  BY Zenon DEF Addressed, Elsewhere
<1>7. Box!Deposit(i, f) BY <1>3, <1>4, <1>5, <1>6, Zenon DEF Box!Deposit, Status, Boxes
<1> QED BY <1>7, Zenon DEF Box!Next

LEMMA TakeShows ==
  ASSUME IInv, UNCHANGED outbox, NEW i \in Inboxes, NEW f \in Frames, ack(i, f)
  PROVE  Box!Next
<1>1. stored \in [Inboxes -> [Frames -> StoredTypes]]
  BY Zenon DEF IInv, InboxInv, InboxTypes
<1>2. ASSUME NEW j \in Inboxes, NEW g \in Frames
      PROVE  Holds(j, g)' <=> Holds(j, g) /\ ~(f \in PassThrough /\ j = i /\ g = f)
  <2>1. CASE f \in PassThrough
    BY <1>1, <2>1 DEF Holds, ack, delete_message, NoMessage
  <2>2. CASE f \notin PassThrough
    <3> DEFINE q == [stored[i][f] EXCEPT !.state = "delivered",
                                         !.expires_at = now + retention[i]]
    <3>1. stored[i][f] \in StoredTypes BY <1>1, Zenon
    <3>2. q.state = "delivered" BY <3>1, Zenon DEF StoredTypes
    <3>3. stored' = [stored EXCEPT ![i][f] = q] BY <2>2, Zenon DEF ack, mark_delivered
    <3> HIDE DEF q
    <3>4. \/ stored'[j][g] = stored[j][g]
          \/ j = i /\ g = f /\ stored'[j][g].state = "delivered"
      BY <1>1, <3>2, <3>3
    <3> QED BY <2>2, <3>4, Zenon DEF Holds, ack
  <2> QED BY <2>1, <2>2, Zenon
<1>3. Boxes' = [Boxes EXCEPT ![i] = IF f \in PassThrough THEN @ \ {f} ELSE @]
  <2>1. CASE f \in PassThrough BY <1>2, <2>1, Zenon DEF Boxes
  <2>2. CASE f \notin PassThrough
    <3>1. Boxes' = Boxes BY <1>2, <2>2, Zenon DEF Boxes
    <3>2. Boxes = [Boxes EXCEPT ![i] = Boxes[i]] BY Zenon DEF Boxes
    <3> QED BY <2>2, <3>1, <3>2, Zenon
  <2> QED BY <2>1, <2>2, Zenon
<1>4. f \in Boxes[i] BY Zenon DEF ack, Boxes
<1>5. taken' = [taken EXCEPT ![i] = @ \cup {f}] /\ received' = received BY Zenon DEF ack
<1>6. Status' = Status /\ recipients' = recipients BY SeenByOutbox, Zenon
<1>7. Box!Take(i, f) BY <1>3, <1>4, <1>5, <1>6, Zenon DEF Box!Take, Status, Boxes
<1> QED BY <1>7, Zenon DEF Box!Next

(* The sweep deletes what has an expiry, which is taken or pass-through.   *)
LEMMA DiscardStep ==
  ASSUME IInv, UNCHANGED outbox, NEW i \in Inboxes, inbox_maintenance(i)
  PROVE  Box!Next
<1>1. stored \in [Inboxes -> [Frames -> StoredTypes]]
  BY Zenon DEF IInv, InboxInv, InboxTypes
<1> DEFINE fs == {f \in Frames : Holds(i, f) /\ delete_expired(i, f)}
<1>2. ASSUME NEW j \in Inboxes, NEW g \in Frames
      PROVE  Holds(j, g)' <=> Holds(j, g) /\ ~(j = i /\ g \in fs)
  <2>1. stored'[j] = IF j = i
          THEN [f \in Frames |-> IF Holds(i, f) /\ ~delete_expired(i, f)
                                   THEN stored[i][f] ELSE NoMessage]
          ELSE stored[j]
    BY <1>1, Zenon DEF inbox_maintenance
  <2>2. NoMessage.state = "absent" BY Zenon DEF NoMessage
  <2> QED BY <2>1, <2>2, Zenon DEF Holds
<1>3. fs \in SUBSET Frames /\ fs \subseteq taken[i] \cup PassThrough
  BY <1>1 DEF IInv, InboxInv, StoredInv, Holds, delete_expired
<1> HIDE DEF fs
<1>4. Boxes' = [Boxes EXCEPT ![i] = @ \ fs] BY <1>2, Zenon DEF Boxes
<1>5. taken' = taken /\ received' = received BY Zenon DEF inbox_maintenance, history
<1>6. Status' = Status /\ recipients' = recipients BY SeenByOutbox, Zenon
<1>7. Box!Discard(i, fs) BY <1>3, <1>4, <1>5, <1>6, Zenon DEF Box!Discard, Status, Boxes
<1> QED BY <1>3, <1>7, Zenon DEF Box!Next

LEMMA InboxShows ==
  ASSUME IInv, InboxNext, UNCHANGED outbox
  PROVE  [Box!Next]_(Box!vars)
<1>1. ASSUME UNCHANGED <<stored, received, taken>> PROVE UNCHANGED Box!vars
  BY <1>1, SeenByOutbox, Unseen, Zenon DEF Holds
<1>2. ASSUME NEW i \in Inboxes, NEW f \in Frames, process_delivery_frame(i, f)
      PROVE  [Box!Next]_(Box!vars)
  <2>1. DeliveryFrame(f, i) \in net BY <1>2, ReceiveStep, Zenon DEF process_delivery_frame
  <2>2. Addressed(f, i) BY <2>1, Zenon DEF IInv, NetInv, PacketInv, DeliveryFrame
  <2> QED BY <1>1, <1>2, <2>2, DepositStep, Zenon DEF process_delivery_frame
<1>3. ASSUME NEW i \in Inboxes, NEW f \in Frames, handle_replication_frame(i, f)
      PROVE  [Box!Next]_(Box!vars)
  <2>1. ReplicationFrame(f, i) \in net
    BY <1>3, ReceiveStep, Zenon DEF handle_replication_frame
  <2>2. Elsewhere(f, i) BY <2>1, Zenon DEF IInv, NetInv, PacketInv, ReplicationFrame
  <2> QED BY <1>1, <1>3, <2>2, DepositStep, Zenon DEF handle_replication_frame
<1>4. ASSUME NEW i \in Inboxes,
             \/ update_sender_allowlist(i) \/ update_dht_delegation(i)
             \/ set_retention_days(i) \/ inbox_start(i)
      PROVE  UNCHANGED Box!vars
  BY <1>1, <1>4, Zenon DEF update_sender_allowlist, update_dht_delegation, set_retention_days,
       inbox_start, history
<1>5. ASSUME NEW i \in Inboxes, NEW j \in Inboxes, add_sibling(i, j) \/ remove_sibling(i, j)
      PROVE  UNCHANGED Box!vars
  BY <1>1, <1>5, Zenon DEF add_sibling, remove_sibling, history
<1>6. ASSUME NEW i \in Inboxes, NEW fs \in SUBSET Frames, HandlePollResponse(i, fs)
      PROVE  UNCHANGED Box!vars
  BY <1>1, <1>6, Zenon DEF HandlePollResponse
<1> QED BY <1>2, <1>3, <1>4, <1>5, <1>6, TakeShows, DiscardStep, Zenon DEF InboxNext

LEMMA StepShows == IInv /\ [Next]_vars => [Box!Next]_(Box!vars)
<1> SUFFICES ASSUME IInv, [Next]_vars PROVE [Box!Next]_(Box!vars) BY Zenon
<1>1. ASSUME UNCHANGED <<outbox, inbox>> PROVE UNCHANGED Box!vars
  BY <1>1, SeenByOutbox, SeenByInboxes, Unseen, Zenon
<1>2. UNCHANGED vars => UNCHANGED <<outbox, inbox>> BY Zenon DEF vars
<1> QED BY <1>1, <1>2, OutboxShows, InboxShows, Zenon DEF Next

LEMMA InitShows == Init => Box!Init
<1> SUFFICES ASSUME Init PROVE Box!Init BY Zenon
<1>1. Status = [r \in Rows |-> "absent"] BY Zenon DEF Init, OutboxInit, Status, NoRow
<1>2. Boxes = [i \in Inboxes |-> {}]
  BY Zenon DEF Init, InboxInit, Boxes, Holds, NoMessage
<1> QED BY <1>1, <1>2, Zenon DEF Box!Init, Init, OutboxInit, InboxInit, Status, Boxes
-----------------------------------------------------------------------------
(* Outbox, Inboxes and network together are a mailbox: threads, retries,   *)
(* repeated packets, sibling copies and crashes show in nothing that the   *)
(* two clients see but posting, taking, copies and reports.                *)
THEOREM DeliveryIsMailbox == Spec => ImplementsMailbox
BY InitShows, StepShows, Invariance, PTL DEF Spec, ImplementsMailbox, Box!Spec

(* A row that has left PENDING never becomes pending again, whatever       *)
(* immediate_attempt and retry_loop had read before it did: no step of a   *)
(* mailbox revives one.                                                    *)
THEOREM SettledForGood == Spec => NoRevival
<1> DEFINE Settles == \A r \in Rows : queue[r].status \notin {"absent", "pending"} =>
                                   queue'[r].status \notin {"absent", "pending"}
<1>1. ASSUME [Box!Next]_(Box!vars) PROVE Settles
  <2>1. \A r \in Rows : Status[r] = queue[r].status /\ Status'[r] = queue'[r].status
    BY Zenon DEF Status
  <2>2. \/ Status' = Status
        \/ \E r \in Rows : \/ Status[r] = "absent" /\ Status' = [Status EXCEPT ![r] = "pending"]
                           \/ Status' = [Status EXCEPT ![r] = "delivered"]
                           \/ Status' = [Status EXCEPT ![r] = "cancelled"]
        \/ \E rs : Status' = [r \in Rows |-> IF r \in rs THEN "expired" ELSE Status[r]]
    BY <1>1, Zenon DEF Status, Box!Next, Box!vars, Box!Post, Box!Address, Box!Deposit, Box!Take,
         Box!Discard, Box!Deliver, Box!Cancel, Box!Expire
  <2>3. Status = [r \in Rows |-> Status[r]] BY Zenon DEF Status
  <2> HIDE DEF Status
  <2> QED BY <2>1, <2>2, <2>3, Zenon
<1>2. IInv /\ [Next]_vars => [Settles]_vars BY <1>1, StepShows, Zenon
<1> QED BY <1>2, Invariance, PTL DEF Spec, NoRevival

(* A stored frame of class "store" leaves an Inbox only after its client   *)
(* has acknowledged it: delete_expired spares what has no expiry.          *)
THEOREM KeptForClient == Spec => KeptUntilTaken
<1> DEFINE Keeps == \A i \in Inboxes, f \in Frames \ PassThrough :
                      Holds(i, f) /\ f \notin taken[i] => Holds(i, f)'
<1>1. ASSUME [Box!Next]_(Box!vars) PROVE Keeps
  <2>1. \A i \in Inboxes, f \in Frames : /\ f \in Boxes[i] <=> Holds(i, f)
                                         /\ f \in Boxes'[i] <=> Holds(i, f)'
    BY Zenon DEF Boxes
  <2>2. \/ Boxes' = Boxes
        \/ \E i \in Inboxes, f \in Frames :
             \/ Boxes' = [Boxes EXCEPT ![i] = @ \cup {f}]
             \/ Boxes' = [Boxes EXCEPT ![i] = IF f \in PassThrough THEN @ \ {f} ELSE @]
        \/ \E i \in Inboxes, fs \in SUBSET Frames :
             /\ fs \subseteq taken[i] \cup PassThrough
             /\ Boxes' = [Boxes EXCEPT ![i] = @ \ fs]
    BY <1>1, Zenon DEF Boxes, Box!Next, Box!vars, Box!Post, Box!Address, Box!Deposit, Box!Take,
         Box!Discard, Box!Deliver, Box!Cancel, Box!Expire
  <2>3. Boxes = [i \in Inboxes |-> Boxes[i]] BY Zenon DEF Boxes
  <2> HIDE DEF Boxes
  <2> QED BY <2>1, <2>2, <2>3, Zenon
<1>2. IInv /\ [Next]_vars => [Keeps]_vars BY <1>1, StepShows, Zenon
<1> QED BY <1>2, Invariance, PTL DEF Spec, KeptUntilTaken
=============================================================================
