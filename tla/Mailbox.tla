------------------------------ MODULE Mailbox ------------------------------
(***************************************************************************)
(* What store and forward promises to the clients at its two ends, without *)
(* a network, threads, retries or crashes.  A client posts a row and       *)
(* addresses it to devices.  A frame is deposited in a device's box once   *)
(* it was addressed to it, or as a copy of one that another device got; a  *)
(* client takes it from there.  Only a row whose frame was deposited at    *)
(* one of its addresses is reported as delivered, and a frame that is to   *)
(* be kept is not discarded before it was taken.                           *)
(***************************************************************************)
CONSTANTS Frames, PassThrough, Inboxes, Rows, FrameOf(_)

VARIABLES status,    \* by row
          address,   \* by row, the devices it is for
          box,       \* by device, the frames in it
          got,       \* by device, the frames it ever had
          taken      \* by device, the frames its client has taken

vars == <<status, address, box, got, taken>>

Init ==
  /\ status  = [r \in Rows |-> "absent"]
  /\ address = [r \in Rows |-> {}]
  /\ box   = [i \in Inboxes |-> {}]
  /\ got   = [i \in Inboxes |-> {}]
  /\ taken = [i \in Inboxes |-> {}]

Post(r) ==
  /\ status[r] = "absent"
  /\ status' = [status EXCEPT ![r] = "pending"]
  /\ UNCHANGED <<address, box, got, taken>>

Address(r, i) ==
  /\ status[r] # "absent"
  /\ address' = [address EXCEPT ![r] = @ \union {i}]
  /\ UNCHANGED <<status, box, got, taken>>

Deposit(i, f) ==
  /\ \/ \E r \in Rows : FrameOf(r) = f /\ i \in address[r]
     \/ \E j \in Inboxes \ {i} : f \in got[j]
  /\ box' = [box EXCEPT ![i] = @ \union {f}]
  /\ got' = [got EXCEPT ![i] = @ \union {f}]
  /\ UNCHANGED <<status, address, taken>>

Take(i, f) ==
  /\ f \in box[i]
  /\ taken' = [taken EXCEPT ![i] = @ \union {f}]
  /\ box' = [box EXCEPT ![i] = IF f \in PassThrough THEN @ \ {f} ELSE @]
  /\ UNCHANGED <<status, address, got>>

Discard(i, fs) ==
  /\ fs \subseteq taken[i] \union PassThrough
  /\ box' = [box EXCEPT ![i] = @ \ fs]
  /\ UNCHANGED <<status, address, got, taken>>

(* The report counts even for a row that was given up before.              *)
Deliver(r) ==
  /\ status[r] # "absent"
  /\ \E i \in address[r] : FrameOf(r) \in got[i]
  /\ status' = [status EXCEPT ![r] = "delivered"]
  /\ UNCHANGED <<address, box, got, taken>>

Cancel(r) ==
  /\ status[r] # "absent"
  /\ status' = [status EXCEPT ![r] = "cancelled"]
  /\ UNCHANGED <<address, box, got, taken>>

Expire(rs) ==
  /\ \A r \in rs : status[r] = "pending"
  /\ status' = [r \in Rows |-> IF r \in rs THEN "expired" ELSE status[r]]
  /\ UNCHANGED <<address, box, got, taken>>

Next ==
  \/ \E r \in Rows : \/ Post(r) \/ Deliver(r) \/ Cancel(r)
                     \/ \E i \in Inboxes : Address(r, i)
  \/ \E rs \in SUBSET Rows : Expire(rs)
  \/ \E i \in Inboxes, f \in Frames : Deposit(i, f) \/ Take(i, f)
  \/ \E i \in Inboxes, fs \in SUBSET Frames : Discard(i, fs)

Spec == Init /\ [][Next]_vars
=============================================================================
