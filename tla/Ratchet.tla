------------------------------ MODULE Ratchet ------------------------------
(***************************************************************************)
(* The double ratchet of common/src/ratchet/ratchet.cpp as operators on    *)
(* the State record of ratchet.hpp.                                        *)
(*                                                                         *)
(* Keys are symbolic.  A KEM key pair and the randomness of one            *)
(* encapsulation are identifiers; the shared secret is the pair of the two *)
(* so that decapsulating with another private key yields another secret    *)
(* (ML-KEM's implicit rejection) and never an error.  A root key is the    *)
(* sequence of the secrets hashed into it, a chain key the root it starts  *)
(* from, its label and the number of steps taken, and a message key is the *)
(* chain key it is derived from.  AES-GCM decrypts exactly when the keys   *)
(* are equal.                                                              *)
(***************************************************************************)
EXTENDS Naturals, FiniteSets, Sequences

CONSTANTS
  MAX_SKIPPED_KEYS,  \* ratchet.hpp: capacity of the skipped-key cache
  NoCt               \* a header without kem_ct

ASSUME MaxSkippedAssumption == MAX_SKIPPED_KEYS \in Nat

Encapsulate(pub, rand)  == [ct |-> rand, ss |-> <<pub, rand>>]
Decapsulate(priv, ct)   == <<priv, ct>>
RatchetStep(root, ss)   == Append(root, ss)
ChainKey(root, label)   == [root |-> root, label |-> label, pos |-> 0]
ChainStep(chain, n)     == [chain EXCEPT !.pos = @ + n]

-----------------------------------------------------------------------------
(* Initialisation *)

FreshState(root, sendLabel, recvLabel, need, kem, peer) ==
  [root_key        |-> root,
   send_chain_key  |-> ChainKey(root, sendLabel),
   recv_chain_key  |-> ChainKey(root, recvLabel),
   send_epoch      |-> 0,
   recv_epoch      |-> 0,
   send_msg_num    |-> 0,
   recv_msg_num    |-> 0,
   prev_send_count |-> 0,
   need_kem_step   |-> need,
   my_ratchet_kem  |-> kem,
   peer_ratchet_pub |-> peer,
   skipped_keys    |-> {}]

init_as_sender(prekey, rand, kem) ==
  FreshState(<<Encapsulate(prekey, rand).ss>>,
             "send_chain", "recv_chain", FALSE, kem, prekey)

init_as_receiver(prekey, ct, kem, senderPub) ==
  FreshState(<<Decapsulate(prekey, ct)>>,
             "recv_chain", "send_chain", TRUE, kem, senderPub)

-----------------------------------------------------------------------------
(* Sending: the state encrypt() continues from after its KEM step, if one  *)
(* is due, the message it builds, and the state it leaves.                 *)

\* Mutant: the KEM step leaves need_kem_step set.
KemStepSendStillOwed(s, kem, rand) ==
  LET root == RatchetStep(s.root_key, Encapsulate(s.peer_ratchet_pub, rand).ss)
  IN  [s EXCEPT !.prev_send_count = s.send_msg_num,
                !.send_msg_num    = 0,
                !.send_epoch      = @ + 1,
                !.send_chain_key  = ChainKey(root, "send_chain"),
                !.root_key        = root,
                !.my_ratchet_kem  = kem]

KemStepSend(s, kem, rand) ==
  LET root == RatchetStep(s.root_key, Encapsulate(s.peer_ratchet_pub, rand).ss)
  IN  [s EXCEPT !.prev_send_count = s.send_msg_num,
                !.send_msg_num    = 0,
                !.send_epoch      = @ + 1,
                !.send_chain_key  = ChainKey(root, "send_chain"),
                !.root_key        = root,
                !.my_ratchet_kem  = kem,
                !.need_kem_step   = FALSE]

ReadyToSend(s, kem, rand) ==
  IF s.need_kem_step THEN KemStepSend(s, kem, rand) ELSE s

\* Mutant: the header carries the shared secret in place of the ciphertext.
encrypt_messageSwapped(s, from, kem, rand) ==
  LET r == ReadyToSend(s, kem, rand)
  IN  [from       |-> from,
       epoch      |-> r.send_epoch,
       msg_num    |-> r.send_msg_num,
       prev_count |-> r.prev_send_count,
       pub        |-> r.my_ratchet_kem,
       kem_ct     |-> IF s.need_kem_step
                        THEN Encapsulate(s.peer_ratchet_pub, rand).ss ELSE NoCt,
       key        |-> r.send_chain_key]

encrypt_message(s, from, kem, rand) ==
  LET r == ReadyToSend(s, kem, rand)
  IN  [from       |-> from,
       epoch      |-> r.send_epoch,
       msg_num    |-> r.send_msg_num,
       prev_count |-> r.prev_send_count,
       pub        |-> r.my_ratchet_kem,
       kem_ct     |-> IF s.need_kem_step
                        THEN Encapsulate(s.peer_ratchet_pub, rand).ct ELSE NoCt,
       key        |-> r.send_chain_key]

encrypt_state(s, kem, rand) ==
  LET r == ReadyToSend(s, kem, rand)
  IN  [r EXCEPT !.send_chain_key = ChainStep(@, 1),
                !.send_msg_num   = @ + 1]

-----------------------------------------------------------------------------
(* Receiving *)

(* skipped_keys, a map in the code, is a set of entries of distinct slots; *)
(* a slot is the pair that skip_key packs into a uint64.                   *)
Slot(m) == <<m.epoch, m.msg_num>>

SkippedAt(s, m) == {k \in s.skipped_keys : k.slot = Slot(m)}

HasSkipped(s, m) == SkippedAt(s, m) # {}

\* Mutant: a skipped key stays in the cache after use.
EraseSkippedNot(s, m) == s

EraseSkipped(s, m) == [s EXCEPT !.skipped_keys = @ \ SkippedAt(s, m)]

(* The loop of advance_recv_chain runs Steps times; it ends by throwing    *)
(* when the cache is full before target is reached.                        *)
Gap(s, target)  == IF target > s.recv_msg_num THEN target - s.recv_msg_num ELSE 0
Room(s)         == MAX_SKIPPED_KEYS - Cardinality(s.skipped_keys)
\* Mutant: the capacity check is off by one.
OverflowsLate(s, target) == Gap(s, target) > Room(s) + 1
Overflows(s, target) == Gap(s, target) > Room(s)
Steps(s, target) == IF Overflows(s, target) THEN Room(s) ELSE Gap(s, target)

\* Mutant: the chain is stepped before the key is stored.
SkippedRunLate(s, epoch, n) ==
  {[slot |-> <<epoch, s.recv_msg_num + i>>, key |-> ChainStep(s.recv_chain_key, i + 1)] :
     i \in 0 .. n - 1}

SkippedRun(s, epoch, n) ==
  {[slot |-> <<epoch, s.recv_msg_num + i>>, key |-> ChainStep(s.recv_chain_key, i)] :
     i \in 0 .. n - 1}

advance_recv_chain(s, epoch, target) ==
  LET n == Steps(s, target)
  IN  [s EXCEPT !.recv_msg_num   = @ + n,
                !.recv_chain_key = ChainStep(@, n),
                !.skipped_keys   = @ \cup SkippedRun(s, epoch, n)]

\* Mutant: the sender's new ratchet key is not remembered.
KemStepRecvStalePeer(s, m) ==
  LET root == RatchetStep(s.root_key, Decapsulate(s.my_ratchet_kem, m.kem_ct))
  IN  [s EXCEPT !.recv_chain_key   = ChainKey(root, "send_chain"),
                !.root_key         = root,
                !.recv_epoch       = m.epoch,
                !.recv_msg_num     = 0,
                !.need_kem_step    = TRUE]

(* apply_kem_step_recv after its drain loop.                               *)
KemStepRecv(s, m) ==
  LET root == RatchetStep(s.root_key, Decapsulate(s.my_ratchet_kem, m.kem_ct))
  IN  [s EXCEPT !.recv_chain_key   = ChainKey(root, "send_chain"),
                !.root_key         = root,
                !.recv_epoch       = m.epoch,
                !.recv_msg_num     = 0,
                !.peer_ratchet_pub = m.pub,
                !.need_kem_step    = TRUE]

\* Mutant: the rest of the old epoch is not saved.
DrainedNot(s, m) == s

Drained(s, m) == advance_recv_chain(s, s.recv_epoch, m.prev_count)

(* The state in which decrypt() looks for m in the current chain.          *)
AtEpoch(s, m) ==
  IF m.epoch > s.recv_epoch THEN KemStepRecv(Drained(s, m), m) ELSE s

AtMessage(s, m) == advance_recv_chain(AtEpoch(s, m), m.epoch, m.msg_num)

ConsumeChainKey(s) ==
  [s EXCEPT !.recv_chain_key = ChainStep(@, 1), !.recv_msg_num = @ + 1]

(* The ways through decrypt(), in the order of the code.                   *)
TakesSkipped(s, m)   == HasSkipped(s, m)
LacksKemCt(s, m)     == ~HasSkipped(s, m) /\ m.epoch > s.recv_epoch /\ m.kem_ct = NoCt
DrainOverflows(s, m) == /\ ~HasSkipped(s, m) /\ m.epoch > s.recv_epoch
                        /\ m.kem_ct # NoCt /\ Overflows(s, m.prev_count)
FromPastEpoch(s, m)  == ~HasSkipped(s, m) /\ m.epoch < s.recv_epoch
ReachesChain(s, m)   == /\ ~HasSkipped(s, m) /\ m.epoch >= s.recv_epoch
                        /\ ~LacksKemCt(s, m) /\ ~DrainOverflows(s, m)
GapOverflows(s, m)   == ReachesChain(s, m) /\ Overflows(AtEpoch(s, m), m.msg_num)
TakesChain(s, m)     == ReachesChain(s, m) /\ ~Overflows(AtEpoch(s, m), m.msg_num)

(* decrypt() returns the plaintext instead of throwing.                    *)
Decrypts(s, m) ==
  \/ \E k \in SkippedAt(s, m) : k.key = m.key
  \/ TakesChain(s, m) /\ AtMessage(s, m).recv_chain_key = m.key

-----------------------------------------------------------------------------
(* serialize() allocates a definite CBOR map of 12 entries and adds 13;    *)
(* libcbor refuses the 13th, skipped_keys, and the return value is         *)
(* ignored.  deserialize() finds no skipped_keys entry and leaves the      *)
(* cache empty.                                                            *)
StateFields ==
  <<"root_key", "send_chain_key", "recv_chain_key", "send_epoch", "recv_epoch",
    "send_msg_num", "recv_msg_num", "prev_send_count", "need_kem_step",
    "my_ratchet_pub", "my_ratchet_priv", "peer_ratchet_pub", "skipped_keys">>

MapCapacity == 12

Encoded == {StateFields[i] : i \in 1 .. MapCapacity}

Reloaded(s) ==
  [s EXCEPT !.skipped_keys = IF "skipped_keys" \in Encoded THEN @ ELSE {}]
=============================================================================
