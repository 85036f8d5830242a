----------------------------- MODULE Transport -----------------------------
(***************************************************************************)
(* What the Outbox and Inbox daemons see of the AnonRouter: frames under   *)
(* way between them and the wall clock.  A frame may be lost, repeated or  *)
(* overtaken; frame.send answers ok = false, which no caller looks at,     *)
(* when the channel is not open yet.                                       *)
(*                                                                         *)
(* A frame's identity stands for its message_id.  The frame holds the      *)
(* sender_id (one sender per Outbox here) and the persistence class.       *)
(*                                                                         *)
(* net   frames under way                                                  *)
(* now   the clock; one unit is the 60 s of the code's first retry delay   *)
(***************************************************************************)
EXTENDS Naturals, FiniteSets

CONSTANTS
  Frames,       \* delivery frames the client builds
  PassThrough,  \* those with persistence "pass_through"
  Inboxes,      \* inbox devices of the recipients
  MaxTime,      \* bound: the last instant of the model
  MaxNet        \* bound: frames under way at once

ASSUME FrameAssumption == PassThrough \subseteq Frames
ASSUME TransportBounds == MaxTime \in Nat \ {0} /\ MaxNet \in Nat

VARIABLES net, now

transport == <<net, now>>

DeliveryFrame(f, i)    == [type |-> "delivery_frame", id |-> f, inbox |-> i]
ReplicationFrame(f, i) == [type |-> "inbox_replication_frame", id |-> f, inbox |-> i]
DeliveryAck(f, i)      == [type |-> "delivery_ack", id |-> f, inbox |-> i]
OutboxPoll(i)          == [type |-> "outbox_poll", inbox |-> i]
PollResponse(fs, i)    == [type |-> "outbox_poll_response", ids |-> fs, inbox |-> i]

Packets ==
  [type : {"delivery_frame", "inbox_replication_frame", "delivery_ack"},
   id : Frames, inbox : Inboxes]
    \cup [type : {"outbox_poll"}, inbox : Inboxes]
    \cup [type : {"outbox_poll_response"}, ids : SUBSET Frames, inbox : Inboxes]

TransportInit == net = {} /\ now = 1

Send(fs) == net' = net \cup fs /\ Cardinality(net') <= MaxNet

(* The handler of packet n sends replies; n itself is used up or, when the *)
(* path repeats it, still to come once more.                               *)
Receive(n, replies) ==
  /\ n \in net
  /\ \E rest \in {net, net \ {n}} : net' = rest \cup replies
  /\ Cardinality(net') <= MaxNet

Lose(n) == n \in net /\ net' = net \ {n} /\ UNCHANGED now

Tick == now < MaxTime /\ now' = now + 1 /\ UNCHANGED net
=============================================================================
