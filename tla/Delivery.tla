------------------------------ MODULE Delivery ------------------------------
(***************************************************************************)
(* Store and forward, end to end: one Outbox and the Inbox devices of its  *)
(* recipients over the AnonRouter.                                         *)
(***************************************************************************)
EXTENDS Outbox, Inbox

vars == <<transport, outbox, inbox>>

Init == TransportInit /\ OutboxInit /\ InboxInit

Next ==
  \/ OutboxNext /\ UNCHANGED inbox
  \/ InboxNext /\ UNCHANGED outbox
  \/ \E n \in net : Lose(n) /\ UNCHANGED <<outbox, inbox>>
  \/ Tick /\ UNCHANGED <<outbox, inbox>>

Spec == Init /\ [][Next]_vars

(* The maintenance thread of a running Outbox wakes up every minute, a     *)
(* daemon that died is started again, every call of its startup burst      *)
(* returns or times out, and time passes.                                  *)
Fairness ==
  /\ WF_vars(Tick /\ UNCHANGED <<outbox, inbox>>)
  /\ WF_vars(maintenance_loop /\ UNCHANGED inbox)
  /\ WF_vars(outbox_start /\ UNCHANGED inbox)
  /\ WF_vars((\E r \in burst : startup_burst(r)) /\ UNCHANGED inbox)

FairSpec == Spec /\ Fairness

-----------------------------------------------------------------------------
(* Types *)

Statuses == {"absent", "pending", "delivered", "expired", "cancelled"}
RowTypes == [status : Statuses, attempt_count : Nat, next_attempt_at : Nat,
             enqueued_at : Nat, expires_at : Nat]
ConnTypes == [pc : {"idle", "insert", "recipient", "read", "attempt"},
              row : Rows \cup {Direct}, add : SUBSET Inboxes, rest : SUBSET Inboxes,
              count : Nat]
StoredTypes == [state : {"absent", "undelivered", "delivered"}, replicated : BOOLEAN,
                expires_at : Nat]

(* Every variable of the two daemons and of the transport has its type.    *)
TypeOK ==
  /\ net \subseteq Packets /\ now \in Nat
  /\ queue \in [Rows -> RowTypes] /\ recipients \in [Rows -> SUBSET Inboxes]
  /\ conn \in [Frames -> ConnTypes]
  /\ burst \subseteq Rows /\ due \subseteq [row : Rows, count : Nat]
  /\ up \in BOOLEAN /\ crashes \in Nat
  /\ stored \in [Inboxes -> [Frames -> StoredTypes]]
  /\ allowed \subseteq Inboxes /\ creds \subseteq Inboxes
  /\ siblings \in [Inboxes -> SUBSET Inboxes] /\ retention \in [Inboxes -> Nat]
  /\ changes \in Nat
  /\ taken \in [Inboxes -> SUBSET Frames]
  /\ received \in [Inboxes -> SUBSET Frames] /\ polled \in [Inboxes -> SUBSET Frames]

-----------------------------------------------------------------------------
(* Safety *)

(* No loss: a frame of class "store" whose row reads DELIVERED is still in *)
(* the store of one of the row's inboxes or its client has taken it,       *)
(* through lost and repeated frames, crashes of the Outbox, stale reads of *)
(* the retry loop, cleared allowlists and both expiry sweeps.              *)
NoLoss ==
  \A r \in Rows :
    queue[r].status = "delivered" /\ FrameOf(r) \notin PassThrough =>
      \E i \in recipients[r] : Holds(i, FrameOf(r)) \/ FrameOf(r) \in taken[i]

(* An acknowledgement is never made up: a row is DELIVERED only after one  *)
(* of its own recipients stored the frame (the recipient check of          *)
(* handle_delivery_ack and the dedup that acknowledges again keep this).   *)
DeliveredWasReceived ==
  \A r \in Rows : queue[r].status = "delivered" =>
    \E i \in recipients[r] : FrameOf(r) \in received[i]

(* Frames reach only the devices they were addressed to: what an Inbox     *)
(* holds was queued for it, unless it is a sibling's copy.                 *)
OnlyRecipientsReceive ==
  \A i \in Inboxes, f \in Frames : Holds(i, f) /\ ~stored[i][f].replicated =>
    \E r \in Rows : FrameOf(r) = f /\ i \in recipients[r]

(* Every copy an Inbox holds stems from another device that the frame was  *)
(* addressed to and that stored it: the replicated flag keeps siblings     *)
(* from passing copies back and forth.                                     *)
CopiesHaveOrigin ==
  \A i \in Inboxes, f \in Frames : Holds(i, f) /\ stored[i][f].replicated =>
    \E j \in Inboxes \ {i} : /\ f \in received[j]
                             /\ \E r \in Rows : FrameOf(r) = f /\ j \in recipients[r]

(* Retries end: a row that is scheduled again has failed fewer than        *)
(* max_retries times, although the connection thread and the retry loop    *)
(* count from what each had read before.                                   *)
ScheduledWithinRetries ==
  \A r \in Rows : queue[r].next_attempt_at > 0 =>
    queue[r].attempt_count = 0 \/ queue[r].attempt_count < MaxRetries

(* A row that has left PENDING never becomes pending again, and no row is  *)
(* forgotten: threads that finish with what they read before the           *)
(* acknowledgement, the expiry or the cancellation do not undo it.         *)
NoRevival ==
  [][\A r \in Rows :
       queue[r].status \notin {"absent", "pending"} =>
         queue'[r].status \notin {"absent", "pending"}]_vars

(* A stored frame of class "store" leaves an Inbox only after its client   *)
(* has taken it: neither the expiry sweep nor a restart deletes it before. *)
KeptUntilTaken ==
  [][\A i \in Inboxes, f \in Frames \ PassThrough :
       Holds(i, f) /\ f \notin taken[i] => Holds(i, f)']_vars

(* Outbox, Inboxes and network together are a mailbox: threads, retries,   *)
(* repeated frames, sibling copies and crashes show in nothing that the    *)
(* two clients see but posting, taking, copies and reports.                *)
Box == INSTANCE Mailbox WITH
         status  <- [r \in Rows |-> queue[r].status],
         address <- recipients,
         box     <- [i \in Inboxes |-> {f \in Frames : Holds(i, f)}],
         got     <- received

ImplementsMailbox == Box!Spec

-----------------------------------------------------------------------------
(* Liveness *)

(* Every queued row is settled: it is delivered, cancelled or expired in   *)
(* the end, also in the passive wait and after a crash between its         *)
(* insertion and that of its recipients.                                   *)
Settled ==
  \A r \in Rows : queue[r].status = "pending" ~> queue[r].status # "pending"

-----------------------------------------------------------------------------
(* Claims of the source's comments *)

(* inbox.cpp: "Poll known outboxes for messages waiting since last         *)
(* session."  What an allowed sender's Outbox answered is in the store or  *)
(* has been taken.                                                         *)
PollFetchesMessages ==
  \A i \in Inboxes : \A f \in polled[i] : Holds(i, f) \/ f \in taken[i]

(* inbox.cpp: "Replicate to siblings (skip for pass_through)."             *)
PassThroughNotReplicated ==
  \A i \in Inboxes, f \in PassThrough : ~(Holds(i, f) /\ stored[i][f].replicated)
=============================================================================
