-------------------------- MODULE RatchetManager --------------------------
(***************************************************************************)
(* One conversation between two clients: each client's RatchetManager      *)
(* (client/src/ratchet_manager.cpp) with the state it caches and the copy  *)
(* it last stored in the keystore, and the messages under way between      *)
(* them.  A message under way is the ratchet::Message that encrypt()       *)
(* returns and decrypt() takes; the envelope that client.cpp wraps around  *)
(* it is not part of this module.  The path between the clients may lose,  *)
(* reorder and repeat messages.                                            *)
(*                                                                         *)
(* cache[p]    RatchetManager::cache_ of client p for the conversation     *)
(* db[p]       the ratchet_state blob in p's keystore                      *)
(* rnd[p]      number of key pairs p has generated (a source of fresh      *)
(*             identifiers, not state of the program)                      *)
(* net         messages under way                                          *)
(* accepted[p] messages p has decrypted (history)                          *)
(* dups, restarts   how often the path has repeated a message and a client *)
(*             has been restarted                                          *)
(***************************************************************************)
EXTENDS Ratchet

CONSTANTS
  Alice, Bob,    \* the initiator and the responder of the conversation
  MaxEpoch,      \* bound: KEM steps per sender
  MaxMsgs,       \* bound: messages per sender and epoch
  MaxDups,       \* bound: repeated deliveries
  MaxRestarts    \* bound: client restarts

ASSUME PartyAssumption == Alice # Bob
ASSUME BoundAssumption == {MaxEpoch, MaxMsgs, MaxDups, MaxRestarts} \subseteq Nat

VARIABLES cache, db, rnd, net, accepted, dups, restarts

vars == <<cache, db, rnd, net, accepted, dups, restarts>>

Party   == {Alice, Bob}
Peer(p) == CHOOSE q \in Party : q # p

Kem(p, n) == <<p, n>>

-----------------------------------------------------------------------------
(* Bob publishes prekey Kem(Bob, 0); Alice encapsulates to it.  The        *)
(* contact request hands Bob the ciphertext and Alice's ratchet key.       *)
InitialStates ==
  [p \in Party |->
     IF p = Alice
       THEN init_as_sender(Kem(Bob, 0), Kem(Alice, 0), Kem(Alice, 1))
       ELSE init_as_receiver(Kem(Bob, 0), Kem(Alice, 0), Kem(Bob, 1), Kem(Alice, 1))]

Init ==
  /\ cache    = InitialStates
  /\ db       = [p \in Party |-> Reloaded(InitialStates[p])]
  /\ rnd      = [p \in Party |-> 2]
  /\ net      = {}
  /\ accepted = [p \in Party |-> {}]
  /\ dups     = 0
  /\ restarts = 0

(* persist(): the serialised state replaces the stored one.                *)
Persist(p, s) == db' = [db EXCEPT ![p] = Reloaded(s)]

encrypt(p) ==
  LET s    == cache[p]
      kem  == Kem(p, rnd[p])
      sent == encrypt_state(s, kem, kem)
  IN  /\ sent.send_epoch <= MaxEpoch /\ sent.send_msg_num <= MaxMsgs
      /\ cache' = [cache EXCEPT ![p] = sent]
      /\ Persist(p, sent)
      /\ rnd' = [rnd EXCEPT ![p] = IF s.need_kem_step THEN @ + 1 ELSE @]
      /\ net' = net \cup {encrypt_message(s, p, kem, kem)}
      /\ UNCHANGED <<accepted, dups, restarts>>

(* A delivery takes m off the path, or leaves a second copy on it.         *)
Arrives(p, m) ==
  /\ m \in net /\ m.from # p
  /\ \/ net' = net \ {m} /\ UNCHANGED dups
     \/ dups < MaxDups /\ dups' = dups + 1 /\ UNCHANGED net
  /\ UNCHANGED <<rnd, restarts>>

(* decrypt() returned: the state is persisted.                             *)
Accept(p, m, s) ==
  /\ cache'    = [cache EXCEPT ![p] = s]
  /\ Persist(p, s)
  /\ accepted' = [accepted EXCEPT ![p] = @ \cup {m}]

(* decrypt() threw: the cached state keeps what was changed before the     *)
(* throw and nothing is persisted.                                         *)
Reject(p, s) ==
  /\ cache' = [cache EXCEPT ![p] = s]
  /\ UNCHANGED <<db, accepted>>

DecryptSkipped(p, m) ==
  /\ Arrives(p, m)
  /\ TakesSkipped(cache[p], m)
  /\ IF Decrypts(cache[p], m)
       THEN Accept(p, m, EraseSkipped(cache[p], m))
       ELSE Reject(p, EraseSkipped(cache[p], m))

DecryptNext(p, m) ==
  /\ Arrives(p, m)
  /\ TakesChain(cache[p], m)
  /\ LET s == ConsumeChainKey(AtMessage(cache[p], m))
     IN  IF Decrypts(cache[p], m) THEN Accept(p, m, s) ELSE Reject(p, s)

RejectUnreadable(p, m) ==
  /\ Arrives(p, m)
  /\ LacksKemCt(cache[p], m) \/ FromPastEpoch(cache[p], m)
  /\ Reject(p, cache[p])

RejectOverflow(p, m) ==
  /\ Arrives(p, m)
  /\ \/ DrainOverflows(cache[p], m) /\ Reject(p, Drained(cache[p], m))
     \/ GapOverflows(cache[p], m) /\ Reject(p, AtMessage(cache[p], m))

Lose(m) ==
  /\ m \in net
  /\ net' = net \ {m}
  /\ UNCHANGED <<cache, db, rnd, accepted, dups, restarts>>

(* Client::stop() saves the keystore; a new process loads the state from   *)
(* it on first use.                                                        *)
Restart(p) ==
  /\ restarts < MaxRestarts
  /\ restarts' = restarts + 1
  /\ cache' = [cache EXCEPT ![p] = db[p]]
  /\ UNCHANGED <<db, rnd, net, accepted, dups>>

Next ==
  \/ \E p \in Party : encrypt(p) \/ Restart(p)
  \/ \E p \in Party, m \in net :
       \/ DecryptSkipped(p, m)
       \/ DecryptNext(p, m)
       \/ RejectUnreadable(p, m)
       \/ RejectOverflow(p, m)
  \/ \E m \in net : Lose(m)

Spec == Init /\ [][Next]_vars
-----------------------------------------------------------------------------
(* Types *)

KemId    == Party \X Nat
Secret   == KemId \X KemId
Chain    == [root : Seq(Secret), label : {"send_chain", "recv_chain"}, pos : Nat]
Skipped  == [slot : Nat \X Nat, key : Chain]
States   ==
  [root_key : Seq(Secret), send_chain_key : Chain, recv_chain_key : Chain,
   send_epoch : Nat, recv_epoch : Nat, send_msg_num : Nat, recv_msg_num : Nat,
   prev_send_count : Nat, need_kem_step : BOOLEAN, my_ratchet_kem : KemId,
   peer_ratchet_pub : KemId, skipped_keys : SUBSET Skipped]
Messages ==
  [from : Party, epoch : Nat, msg_num : Nat, prev_count : Nat, pub : KemId,
   kem_ct : KemId \cup {NoCt}, key : Chain]

(* Every variable has its type: the two ratchet states, the stored copies, *)
(* and the messages that encrypt() puts on the path.                       *)
TypeOK ==
  /\ cache \in [Party -> States] /\ db \in [Party -> States]
  /\ rnd \in [Party -> Nat]
  /\ net \subseteq Messages
  /\ accepted \in [Party -> SUBSET Messages]
  /\ dups \in 0 .. MaxDups /\ restarts \in 0 .. MaxRestarts

(* Safety *)

(* The skipped-key cache never exceeds MAX_SKIPPED_KEYS, over any sequence *)
(* of gaps, epoch drains, repeated deliveries, failed decryptions and      *)
(* restarts (advance_recv_chain checks before each insertion, also when it *)
(* is called twice by one decrypt).                                        *)
SkippedWithinCapacity ==
  \A p \in Party : Cardinality(cache[p].skipped_keys) <= MAX_SKIPPED_KEYS

(* No replay: a message that decrypt() has returned once is never          *)
(* decrypted again, whatever is delivered, rejected or restarted in        *)
(* between, although a failed decrypt() leaves its partial changes in the  *)
(* cached state and not in the stored one.                                 *)
NoReplay ==
  \A p \in Party : \A m \in accepted[p] :
    ~Decrypts(cache[p], m) /\ ~Decrypts(db[p], m)

(* KEM steps alternate: at most one client owes a KEM step, each direction *)
(* is at most one epoch ahead of what the other side has seen, and two     *)
(* clients at the same epoch of a direction hold the same chain, so that   *)
(* encrypt() and apply_kem_step_recv() have hashed the same secrets.       *)
KemStepsAlternate ==
  /\ ~(cache[Alice].need_kem_step /\ cache[Bob].need_kem_step)
  /\ \A p \in Party :
       LET s == cache[p]
           r == cache[Peer(p)]
       IN  /\ s.send_epoch \in {r.recv_epoch, r.recv_epoch + 1}
           /\ s.send_epoch = r.recv_epoch =>
                /\ s.send_chain_key.root  = r.recv_chain_key.root
                /\ s.send_chain_key.label = r.recv_chain_key.label

(* Every key in the skipped-key cache that a message under way could       *)
(* select is the key that message was encrypted with: repeats and rejected *)
(* messages never poison the cache.                                        *)
SkippedKeysGenuine ==
  \A p \in Party : \A m \in net :
    m.from # p => \A k \in SkippedAt(cache[p], m) : k.key = m.key

(* On a path that only loses and reorders, and while the cache has room,   *)
(* no message under way is forgotten: its key is still reachable, unless   *)
(* it opens no epoch itself and the message that carries its epoch's       *)
(* kem_ct has not been decrypted (prev_count makes apply_kem_step_recv     *)
(* save the rest of the epoch it leaves).                                  *)
NothingForgotten ==
  \A p \in Party : \A m \in net :
    m.from # p => Decrypts(cache[p], m) \/ LacksKemCt(cache[p], m)

(* Claims of the source's comments *)

(* ratchet.hpp: the symmetric ratchet enables "out-of-order delivery of up *)
(* to MAX_SKIPPED_KEYS skipped messages".  With room in the cache and      *)
(* nothing repeated, any message under way can be decrypted next.          *)
OutOfOrderDelivery ==
  \A p \in Party : \A m \in net : m.from # p => Decrypts(cache[p], m)

(* ratchet.cpp: "We encode skipped_keys as an array of [packed_uint64,     *)
(* key32_bstr] pairs".  With room in the cache and nothing repeated, what  *)
(* persist() stored reads back as the state it was given.                  *)
StoredStateComplete ==
  \A p \in Party : db[p] = cache[p]
=============================================================================
