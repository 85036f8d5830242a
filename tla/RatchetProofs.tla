--------------------------- MODULE RatchetProofs ----------------------------
(***************************************************************************)
(* Proofs about RatchetManager, for every capacity and every bound: first  *)
(* what one client's states keep, then how the two clients agree, then     *)
(* that nothing under way is forgotten.                                    *)
(*                                                                         *)
(* NoReplay is not inductive: it needs that the chain positions agree with *)
(* the counters (LocalInv) and that an accepted message lies behind the    *)
(* receive position with its slot gone from the cache (Passed).  Both are  *)
(* properties of a single State, so they are carried for the cached and    *)
(* for the stored state of each client.                                    *)
(***************************************************************************)
EXTENDS RatchetManager, FiniteSetTheorems, TLAPS

LocalInv(s) ==
  /\ s.send_chain_key.pos = s.send_msg_num
  /\ s.recv_chain_key.pos = s.recv_msg_num
  /\ IsFiniteSet(s.skipped_keys)
  /\ Cardinality(s.skipped_keys) <= MAX_SKIPPED_KEYS
  /\ \A k \in s.skipped_keys :
       /\ k.slot[1] <= s.recv_epoch
       /\ k.slot[1] = s.recv_epoch => k.slot[2] < s.recv_msg_num

Passed(s, m) ==
  /\ \/ m.epoch < s.recv_epoch
     \/ m.epoch = s.recv_epoch /\ m.msg_num < s.recv_msg_num
  /\ \A k \in s.skipped_keys : k.slot # Slot(m)

(* What every message carries: the position of its key is its number.      *)
Numbered(m) == m.key.pos = m.msg_num

IInv ==
  /\ TypeOK
  /\ \A m \in net : Numbered(m)
  /\ \A p \in Party :
       /\ LocalInv(cache[p]) /\ LocalInv(db[p])
       /\ \A m \in accepted[p] :
            Numbered(m) /\ Passed(cache[p], m) /\ Passed(db[p], m)

-----------------------------------------------------------------------------
(* chain_step moves the position of a chain and nothing else.              *)
LEMMA ChainStepFacts ==
  ASSUME NEW c \in Chain, NEW n \in Nat
  PROVE  ChainStep(c, n) \in Chain /\ ChainStep(c, n).pos = c.pos + n
BY DEF Chain, ChainStep

(* A run of n skipped keys is a finite set of at most n entries, each in   *)
(* the given epoch and at or after the receive position                    *)
(* (advance_recv_chain's loop body).                                       *)
LEMMA RunFacts ==
  ASSUME NEW s \in States, NEW e \in Nat, NEW n \in Nat
  PROVE  /\ SkippedRun(s, e, n) \subseteq Skipped
         /\ IsFiniteSet(SkippedRun(s, e, n))
         /\ Cardinality(SkippedRun(s, e, n)) \in Nat
         /\ Cardinality(SkippedRun(s, e, n)) <= n
         /\ \A k \in SkippedRun(s, e, n) :
              /\ k.slot[1] = e
              /\ k.slot[2] >= s.recv_msg_num
              /\ k.slot[2] < s.recv_msg_num + n
<1> DEFINE Entry(i) == [slot |-> <<e, s.recv_msg_num + i>>,
                        key  |-> ChainStep(s.recv_chain_key, i)]
           f == [i \in 0 .. n - 1 |-> Entry(i)]
<1>1. SkippedRun(s, e, n) = {Entry(i) : i \in 0 .. n - 1}
  BY Zenon DEF SkippedRun
<1>2. \A i \in 0 .. n - 1 :
        /\ Entry(i) \in Skipped
        /\ Entry(i).slot[1] = e
        /\ Entry(i).slot[2] = s.recv_msg_num + i
  <2> SUFFICES ASSUME NEW i \in 0 .. n - 1
               PROVE  /\ Entry(i) \in Skipped
                      /\ Entry(i).slot[1] = e
                      /\ Entry(i).slot[2] = s.recv_msg_num + i
    BY Zenon
  <2>1. s.recv_chain_key \in Chain /\ s.recv_msg_num \in Nat
    BY Zenon DEF States
  <2>2. ChainStep(s.recv_chain_key, i) \in Chain
    BY <2>1, ChainStepFacts
  <2>3. <<e, s.recv_msg_num + i>> \in Nat \X Nat
    BY <2>1
  <2> QED
    BY <2>2, <2>3, Zenon DEF Skipped
<1>3. f \in Surjection(0 .. n - 1, SkippedRun(s, e, n))
  BY <1>1, Zenon DEF Surjection
<1>4. /\ IsFiniteSet(0 .. n - 1)
      /\ Cardinality(0 .. n - 1) = n
  <2>1. 0 \in Int /\ n - 1 \in Int
    OBVIOUS
  <2>2. /\ IsFiniteSet(0 .. n - 1)
        /\ Cardinality(0 .. n - 1) = IF 0 > n - 1 THEN 0 ELSE (n - 1) - 0 + 1
    BY <2>1, FS_Interval, Zenon
  <2> QED
    BY <2>2
<1>5. /\ IsFiniteSet(SkippedRun(s, e, n))
      /\ Cardinality(SkippedRun(s, e, n)) <= n
  BY <1>3, <1>4, FS_Surjection
<1>6. Cardinality(SkippedRun(s, e, n)) \in Nat
  BY <1>5, FS_CardinalityType, Zenon
<1>7. s.recv_msg_num \in Nat
  BY Zenon DEF States
<1>8. ASSUME NEW k \in SkippedRun(s, e, n)
      PROVE  /\ k \in Skipped
             /\ k.slot[1] = e
             /\ k.slot[2] >= s.recv_msg_num
             /\ k.slot[2] < s.recv_msg_num + n
  <2>1. PICK i \in 0 .. n - 1 : k = Entry(i)
    BY <1>1, Zenon
  <2> HIDE DEF Entry
  <2> QED
    BY <2>1, <1>2, <1>7
<1> QED
  BY <1>5, <1>6, <1>8, Zenon

(* The loop of advance_recv_chain runs a natural number of times, within   *)
(* the room left in the cache.                                             *)
LEMMA StepsFacts ==
  ASSUME NEW s \in States, LocalInv(s), NEW t \in Nat
  PROVE  /\ Steps(s, t) \in Nat
         /\ Steps(s, t) <= Room(s)
         /\ Room(s) \in Nat
         /\ Cardinality(s.skipped_keys) \in Nat
         /\ ~Overflows(s, t) =>
              /\ s.recv_msg_num + Steps(s, t) >= t
              /\ t <= s.recv_msg_num => Steps(s, t) = 0
              /\ t > s.recv_msg_num => s.recv_msg_num + Steps(s, t) = t
<1>1. Cardinality(s.skipped_keys) \in Nat
  BY FS_CardinalityType, Zenon DEF LocalInv
<1>2. s.recv_msg_num \in Nat
  BY Zenon DEF States
<1>3. Cardinality(s.skipped_keys) <= MAX_SKIPPED_KEYS
  BY Zenon DEF LocalInv
<1> QED
  BY <1>1, <1>2, <1>3, MaxSkippedAssumption DEF Steps, Overflows, Gap, Room

(* What advance_recv_chain leaves alone.                                   *)
LEMMA AdvanceFrame ==
  ASSUME NEW s \in States, NEW e, NEW t
  PROVE  LET r == advance_recv_chain(s, e, t)
         IN  /\ r.root_key = s.root_key
             /\ r.send_chain_key = s.send_chain_key
             /\ r.send_epoch = s.send_epoch
             /\ r.recv_epoch = s.recv_epoch
             /\ r.send_msg_num = s.send_msg_num
             /\ r.prev_send_count = s.prev_send_count
             /\ r.need_kem_step = s.need_kem_step
             /\ r.my_ratchet_kem = s.my_ratchet_kem
             /\ r.peer_ratchet_pub = s.peer_ratchet_pub
             /\ r.recv_msg_num = s.recv_msg_num + Steps(s, t)
             /\ r.recv_chain_key = ChainStep(s.recv_chain_key, Steps(s, t))
             /\ r.skipped_keys = s.skipped_keys \cup SkippedRun(s, e, Steps(s, t))
BY Zenon DEF States, advance_recv_chain

(* advance_recv_chain within the current epoch keeps the type, keeps the   *)
(* local invariant (capacity included), passes no message by twice, and    *)
(* stops at its target unless it throws.                                   *)
LEMMA AdvanceFacts ==
  ASSUME NEW s \in States, LocalInv(s), NEW t \in Nat
  PROVE  LET r == advance_recv_chain(s, s.recv_epoch, t)
         IN  /\ r \in States
             /\ LocalInv(r)
             /\ \A m \in Messages : Passed(s, m) => Passed(r, m)
             /\ \A k \in r.skipped_keys :
                  \/ k \in s.skipped_keys
                  \/ /\ k.slot[1] = s.recv_epoch
                     /\ k.slot[2] \in s.recv_msg_num .. r.recv_msg_num - 1
<1> DEFINE n == Steps(s, t)
           r == advance_recv_chain(s, s.recv_epoch, t)
           run == SkippedRun(s, s.recv_epoch, n)
<1>1. /\ n \in Nat
      /\ n <= Room(s)
      /\ Cardinality(s.skipped_keys) \in Nat
  BY StepsFacts, Zenon
<1>2. /\ s.recv_epoch \in Nat /\ s.recv_msg_num \in Nat
      /\ s.recv_chain_key \in Chain /\ s.skipped_keys \in SUBSET Skipped
  BY Zenon DEF States
<1>3. /\ run \subseteq Skipped
      /\ IsFiniteSet(run)
      /\ Cardinality(run) \in Nat
      /\ Cardinality(run) <= n
      /\ \A k \in run : /\ k.slot[1] = s.recv_epoch
                        /\ k.slot[2] >= s.recv_msg_num
                        /\ k.slot[2] < s.recv_msg_num + n
  BY <1>1, <1>2, RunFacts, Zenon
<1>4. /\ r.recv_msg_num = s.recv_msg_num + n
      /\ r.recv_chain_key = ChainStep(s.recv_chain_key, n)
      /\ r.skipped_keys = s.skipped_keys \cup run
      /\ r.recv_epoch = s.recv_epoch
      /\ r.send_chain_key = s.send_chain_key
      /\ r.send_msg_num = s.send_msg_num
  BY AdvanceFrame
<1>5. ChainStep(s.recv_chain_key, n) \in Chain
      /\ ChainStep(s.recv_chain_key, n).pos = s.recv_chain_key.pos + n
  BY <1>1, <1>2, ChainStepFacts, Zenon
<1>6. r \in States
  <2> HIDE DEF n, run
  <2>1. s.recv_msg_num + n \in Nat /\ s.skipped_keys \cup run \in SUBSET Skipped
    BY <1>1, <1>2, <1>3
  <2>2. r = [s EXCEPT !.recv_msg_num   = s.recv_msg_num + n,
                      !.recv_chain_key = ChainStep(s.recv_chain_key, n),
                      !.skipped_keys   = s.skipped_keys \cup run]
    BY Zenon DEF advance_recv_chain, n, run
  <2> HIDE DEF r
  <2> QED
    BY <2>1, <2>2, <1>5, Zenon DEF States
<1>7. LocalInv(r)
  <2>1. /\ IsFiniteSet(s.skipped_keys \cup run)
        /\ Cardinality(s.skipped_keys \cup run) <= MAX_SKIPPED_KEYS
    <3>1. IsFiniteSet(s.skipped_keys)
      BY Zenon DEF LocalInv
    <3>2. /\ IsFiniteSet(s.skipped_keys \cup run)
          /\ Cardinality(s.skipped_keys \cup run)
               = Cardinality(s.skipped_keys) + Cardinality(run)
                   - Cardinality(s.skipped_keys \cap run)
      BY <3>1, <1>3, FS_Union, Zenon
    <3>3. Cardinality(s.skipped_keys \cap run) \in Nat
      BY <3>1, FS_Subset, FS_CardinalityType, Zenon
    <3> HIDE DEF n, run
    <3> QED
      BY <3>2, <3>3, <1>1, <1>3, MaxSkippedAssumption DEF Room
  <2>2. \A k \in r.skipped_keys :
          /\ k.slot[1] <= r.recv_epoch
          /\ k.slot[1] = r.recv_epoch => k.slot[2] < r.recv_msg_num
    <3> HIDE DEF n, run, r
    <3> SUFFICES ASSUME NEW k \in r.skipped_keys
                 PROVE  /\ k.slot[1] <= r.recv_epoch
                        /\ k.slot[1] = r.recv_epoch => k.slot[2] < r.recv_msg_num
      BY Zenon
    <3>1. CASE k \in run
      BY <3>1, <1>1, <1>2, <1>3, <1>4
    <3>2. CASE k \in s.skipped_keys
      <4>1. k.slot \in Nat \X Nat
        BY <3>2, <1>2, Zenon DEF Skipped
      <4> QED
        BY <3>2, <4>1, <1>1, <1>2, <1>4 DEF LocalInv
    <3> QED
      BY <3>1, <3>2, <1>4, Zenon
  <2>3. /\ s.send_chain_key.pos = s.send_msg_num
        /\ s.recv_chain_key.pos = s.recv_msg_num
    BY Zenon DEF LocalInv
  <2> HIDE DEF n, run, r
  <2> QED
    BY <2>1, <2>2, <2>3, <1>4, <1>5, Zenon DEF LocalInv
<1>8. ASSUME NEW m \in Messages, Passed(s, m)
      PROVE  Passed(r, m)
  <2> HIDE DEF n, run, r
  <2>1. m.epoch \in Nat /\ m.msg_num \in Nat
    BY Zenon DEF Messages
  <2>2. \A k \in run : k.slot # Slot(m)
    BY <2>1, <1>1, <1>2, <1>3, <1>8 DEF Passed, Slot
  <2> QED
    BY <2>1, <2>2, <1>1, <1>2, <1>4, <1>8 DEF Passed
<1>9. \A k \in r.skipped_keys :
        \/ k \in s.skipped_keys
        \/ /\ k.slot[1] = s.recv_epoch
           /\ k.slot[2] \in s.recv_msg_num .. r.recv_msg_num - 1
  <2> HIDE DEF n, run, r
  <2>1. \A k \in run : k.slot[2] \in Nat
    BY <1>3, Zenon DEF Skipped
  <2> QED
    BY <2>1, <1>1, <1>2, <1>3, <1>4
<1> QED
  BY <1>6, <1>7, <1>8, <1>9, Zenon

(* The KEM step of a receiver, after the drain of the old epoch, keeps the *)
(* type and the local invariant and moves every older message behind it    *)
(* (apply_kem_step_recv).                                                  *)
LEMMA KemStepFacts ==
  ASSUME NEW s \in States, LocalInv(s),
         NEW m \in Messages, m.epoch > s.recv_epoch, m.kem_ct # NoCt
  PROVE  LET r == KemStepRecv(s, m)
         IN  /\ r \in States
             /\ LocalInv(r)
             /\ r.recv_epoch = m.epoch
             /\ r.recv_msg_num = 0
             /\ r.skipped_keys = s.skipped_keys
             /\ \A x \in Messages : Passed(s, x) => Passed(r, x)
<1> DEFINE root == RatchetStep(s.root_key, Decapsulate(s.my_ratchet_kem, m.kem_ct))
           r == KemStepRecv(s, m)
<1>1. /\ m.epoch \in Nat /\ m.pub \in KemId /\ m.kem_ct \in KemId
      /\ s.recv_epoch \in Nat /\ s.my_ratchet_kem \in KemId
      /\ s.root_key \in Seq(Secret) /\ s.skipped_keys \subseteq Skipped
  BY Zenon DEF Messages, States
<1>2. root \in Seq(Secret)
  BY <1>1 DEF RatchetStep, Decapsulate, Secret
<1>3. /\ ChainKey(root, "send_chain") \in Chain
      /\ ChainKey(root, "send_chain").pos = 0
  <2> HIDE DEF root
  <2> QED
    BY <1>2, Zenon DEF ChainKey, Chain
<1>4. r = [s EXCEPT !.recv_chain_key   = ChainKey(root, "send_chain"),
                    !.root_key         = root,
                    !.recv_epoch       = m.epoch,
                    !.recv_msg_num     = 0,
                    !.peer_ratchet_pub = m.pub,
                    !.need_kem_step    = TRUE]
  BY Zenon DEF KemStepRecv
<1> HIDE DEF r, root
<1>5. /\ r \in States
      /\ r.recv_epoch = m.epoch /\ r.recv_msg_num = 0
      /\ r.recv_chain_key.pos = 0
      /\ r.send_chain_key = s.send_chain_key /\ r.send_msg_num = s.send_msg_num
      /\ r.skipped_keys = s.skipped_keys
  BY <1>1, <1>2, <1>3, <1>4, Zenon DEF States
<1>6. \A k \in s.skipped_keys : k.slot[1] \in Nat /\ k.slot[1] < m.epoch
  <2>1. \A k \in s.skipped_keys : k.slot \in Nat \X Nat /\ k.slot[1] <= s.recv_epoch
    BY <1>1, Zenon DEF LocalInv, Skipped
  <2> QED
    BY <2>1, <1>1
<1>7. LocalInv(r)
  BY <1>1, <1>5, <1>6 DEF LocalInv
<1>8. ASSUME NEW x \in Messages, Passed(s, x)
      PROVE  Passed(r, x)
  <2>1. x.epoch \in Nat
    BY Zenon DEF Messages
  <2> QED
    BY <2>1, <1>1, <1>5, <1>8 DEF Passed
<1> QED
  BY <1>5, <1>7, <1>8, Zenon DEF r

(* Reaching the epoch of m: type, local invariant, older messages stay     *)
(* behind, and the slot of m is still free.                                *)
LEMMA AtEpochFacts ==
  ASSUME NEW s \in States, LocalInv(s), NEW m \in Messages, ReachesChain(s, m)
  PROVE  LET r == AtEpoch(s, m)
         IN  /\ r \in States
             /\ LocalInv(r)
             /\ r.recv_epoch = m.epoch
             /\ SkippedAt(r, m) = {}
             /\ \A x \in Messages : Passed(s, x) => Passed(r, x)
<1>1. /\ m.epoch \in Nat /\ m.msg_num \in Nat /\ m.prev_count \in Nat
      /\ s.recv_epoch \in Nat /\ s.recv_msg_num \in Nat
  BY Zenon DEF Messages, States
<1>2. SkippedAt(s, m) = {} /\ m.epoch >= s.recv_epoch
  BY Zenon DEF ReachesChain, HasSkipped
<1>3. CASE ~(m.epoch > s.recv_epoch)
  <2>1. AtEpoch(s, m) = s
    BY <1>3, Zenon DEF AtEpoch
  <2> QED
    BY <2>1, <1>1, <1>2, <1>3
<1>4. CASE m.epoch > s.recv_epoch
  <2> DEFINE d == Drained(s, m)
  <2>1. m.kem_ct # NoCt
    BY <1>4, Zenon DEF ReachesChain, LacksKemCt
  <2>2. /\ d \in States /\ LocalInv(d)
        /\ \A x \in Messages : Passed(s, x) => Passed(d, x)
        /\ \A k \in d.skipped_keys :
             \/ k \in s.skipped_keys
             \/ k.slot[1] = s.recv_epoch
    BY <1>1, AdvanceFacts, Zenon DEF Drained
  <2>3. d.recv_epoch = s.recv_epoch
    BY AdvanceFrame DEF Drained
  <2> HIDE DEF d
  <2>4. LET r == KemStepRecv(d, m)
        IN  /\ r \in States
            /\ LocalInv(r)
            /\ r.recv_epoch = m.epoch
            /\ r.skipped_keys = d.skipped_keys
            /\ \A x \in Messages : Passed(d, x) => Passed(r, x)
    BY <1>4, <2>1, <2>2, <2>3, KemStepFacts, Zenon
  <2>5. \A k \in d.skipped_keys : k.slot # Slot(m)
    BY <1>1, <1>2, <1>4, <2>2 DEF SkippedAt, Slot
  <2>6. AtEpoch(s, m) = KemStepRecv(d, m)
    BY <1>4, Zenon DEF AtEpoch, d
  <2> QED
    BY <2>2, <2>4, <2>5, <2>6, Zenon DEF SkippedAt
<1> QED
  BY <1>3, <1>4, Zenon

(* Decrypting with the chain key: the state after decrypt() is well typed, *)
(* keeps the local invariant, and has passed m for good.                   *)
LEMMA ChainFacts ==
  ASSUME NEW s \in States, LocalInv(s), NEW m \in Messages, ReachesChain(s, m)
  PROVE  LET a == AtMessage(s, m)
             r == ConsumeChainKey(a)
         IN  /\ a \in States /\ LocalInv(a)
             /\ \A x \in Messages : Passed(s, x) => Passed(a, x)
             /\ TakesChain(s, m) =>
                  /\ r \in States /\ LocalInv(r)
                  /\ \A x \in Messages : Passed(s, x) => Passed(r, x)
                  /\ Passed(r, m)
<1> DEFINE e == AtEpoch(s, m)
           a == AtMessage(s, m)
           r == ConsumeChainKey(a)
<1>1. m.epoch \in Nat /\ m.msg_num \in Nat
  BY Zenon DEF Messages
<1>2. /\ e \in States /\ LocalInv(e) /\ e.recv_epoch = m.epoch
      /\ SkippedAt(e, m) = {}
      /\ \A x \in Messages : Passed(s, x) => Passed(e, x)
  BY AtEpochFacts, Zenon
<1>3. a = advance_recv_chain(e, e.recv_epoch, m.msg_num)
  BY <1>2, Zenon DEF AtMessage
<1> HIDE DEF e
<1>4. /\ a \in States /\ LocalInv(a)
      /\ \A x \in Messages : Passed(e, x) => Passed(a, x)
      /\ \A k \in a.skipped_keys :
           \/ k \in e.skipped_keys
           \/ k.slot[2] \in e.recv_msg_num .. a.recv_msg_num - 1
  BY <1>1, <1>2, <1>3, AdvanceFacts, Zenon
<1>5. /\ a.recv_epoch = e.recv_epoch
      /\ a.recv_msg_num = e.recv_msg_num + Steps(e, m.msg_num)
  BY <1>2, <1>3, AdvanceFrame
<1> HIDE DEF a
<1>6. ASSUME TakesChain(s, m)
      PROVE  /\ r \in States /\ LocalInv(r)
             /\ \A x \in Messages : Passed(s, x) => Passed(r, x)
             /\ Passed(r, m)
  <2>1. /\ a.recv_msg_num \in Nat /\ a.recv_chain_key \in Chain /\ a.recv_epoch \in Nat
        /\ e.recv_msg_num \in Nat /\ a.skipped_keys \subseteq Skipped
    BY <1>2, <1>4, Zenon DEF States
  <2>2. ~Overflows(e, m.msg_num)
    BY <1>6, Zenon DEF TakesChain, e
  <2>3. /\ Steps(e, m.msg_num) \in Nat
        /\ a.recv_msg_num >= m.msg_num
        /\ m.msg_num <= e.recv_msg_num => a.recv_msg_num = e.recv_msg_num
        /\ m.msg_num > e.recv_msg_num => a.recv_msg_num = m.msg_num
    BY <1>1, <1>2, <1>5, <2>1, <2>2, StepsFacts
  <2>4. /\ ChainStep(a.recv_chain_key, 1) \in Chain
        /\ ChainStep(a.recv_chain_key, 1).pos = a.recv_chain_key.pos + 1
    BY <2>1, ChainStepFacts, Zenon
  <2>5. r = [a EXCEPT !.recv_chain_key = ChainStep(a.recv_chain_key, 1),
                      !.recv_msg_num   = a.recv_msg_num + 1]
    BY Zenon DEF ConsumeChainKey
  <2> HIDE DEF r
  <2>6. /\ r \in States
        /\ r.recv_epoch = a.recv_epoch
        /\ r.recv_msg_num = a.recv_msg_num + 1
        /\ r.recv_chain_key.pos = a.recv_chain_key.pos + 1
        /\ r.send_chain_key = a.send_chain_key /\ r.send_msg_num = a.send_msg_num
        /\ r.skipped_keys = a.skipped_keys
    <3> DEFINE c == ChainStep(a.recv_chain_key, 1)
               n == a.recv_msg_num + 1
    <3>1. c \in Chain /\ n \in Nat
      BY <2>1, <2>4
    <3>2. r = [a EXCEPT !.recv_chain_key = c, !.recv_msg_num = n]
      BY <2>5, Zenon
    <3>3. c.pos = a.recv_chain_key.pos + 1
      BY <2>4, Zenon
    <3> HIDE DEF c, n
    <3>4. /\ r \in States
          /\ r.recv_epoch = a.recv_epoch
          /\ r.recv_msg_num = n
          /\ r.recv_chain_key = c
          /\ r.send_chain_key = a.send_chain_key /\ r.send_msg_num = a.send_msg_num
          /\ r.skipped_keys = a.skipped_keys
      BY <1>4, <3>1, <3>2, Zenon DEF States
    <3> QED
      BY <3>3, <3>4, Zenon DEF n
  <2>7. LocalInv(r)
    <3>1. \A k \in a.skipped_keys :
            /\ k.slot \in Nat \X Nat
            /\ k.slot[1] <= a.recv_epoch
            /\ k.slot[1] = a.recv_epoch => k.slot[2] < a.recv_msg_num
      BY <1>4, <2>1, Zenon DEF LocalInv, Skipped
    <3>2. \A k \in r.skipped_keys :
            /\ k.slot[1] <= r.recv_epoch
            /\ k.slot[1] = r.recv_epoch => k.slot[2] < r.recv_msg_num
      BY <3>1, <2>1, <2>6
    <3> QED
      BY <1>4, <2>6, <3>2, Zenon DEF LocalInv
  <2>8. ASSUME NEW x \in Messages, Passed(s, x)
        PROVE  Passed(r, x)
    <3>1. Passed(a, x) /\ x.epoch \in Nat /\ x.msg_num \in Nat
      BY <1>2, <1>4, <2>8, Zenon DEF Messages
    <3> QED
      BY <3>1, <2>1, <2>6 DEF Passed
  <2>9. Passed(r, m)
    <3>1. \A k \in e.skipped_keys : k.slot # Slot(m)
      BY <1>2, Zenon DEF SkippedAt
    <3>2. \A k \in a.skipped_keys : k.slot[2] \in e.recv_msg_num .. a.recv_msg_num - 1
                                      => k.slot # Slot(m)
      BY <1>1, <2>1, <2>3 DEF Slot
    <3>3. \A k \in a.skipped_keys : k.slot # Slot(m)
      BY <3>1, <3>2, <1>4, Zenon
    <3> QED
      BY <3>3, <1>1, <1>2, <1>5, <2>1, <2>3, <2>6 DEF Passed
  <2> QED
    BY <2>6, <2>7, <2>8, <2>9, Zenon
<1> QED
  BY <1>2, <1>4, <1>6, Zenon DEF a

(* Taking a message key out of the cache passes the message for good.      *)
LEMMA EraseFacts ==
  ASSUME NEW s \in States, LocalInv(s), NEW m \in Messages, HasSkipped(s, m)
  PROVE  LET r == EraseSkipped(s, m)
         IN  /\ r \in States
             /\ LocalInv(r)
             /\ \A x \in Messages : Passed(s, x) => Passed(r, x)
             /\ Passed(r, m)
<1> DEFINE rest == s.skipped_keys \ SkippedAt(s, m)
           r == EraseSkipped(s, m)
<1>1. /\ s.skipped_keys \subseteq Skipped /\ rest \subseteq s.skipped_keys
      /\ s.recv_epoch \in Nat /\ s.recv_msg_num \in Nat
      /\ m.epoch \in Nat /\ m.msg_num \in Nat
  BY Zenon DEF States, Messages
<1>2. IsFiniteSet(rest) /\ Cardinality(rest) <= MAX_SKIPPED_KEYS
  <2>1. IsFiniteSet(s.skipped_keys) /\ Cardinality(s.skipped_keys) <= MAX_SKIPPED_KEYS
    BY Zenon DEF LocalInv
  <2>2. IsFiniteSet(rest) /\ Cardinality(rest) <= Cardinality(s.skipped_keys)
    BY <1>1, <2>1, FS_Subset, Zenon
  <2>3. Cardinality(rest) \in Nat /\ Cardinality(s.skipped_keys) \in Nat
    BY <2>1, <2>2, FS_CardinalityType, Zenon
  <2> HIDE DEF rest
  <2> QED
    BY <2>1, <2>2, <2>3, MaxSkippedAssumption
<1>3. \A k \in rest : k.slot # Slot(m)
  BY Zenon DEF SkippedAt
<1>4. r = [s EXCEPT !.skipped_keys = rest]
  BY Zenon DEF EraseSkipped
<1>5. PICK j \in s.skipped_keys : j.slot = Slot(m)
  BY Zenon DEF HasSkipped, SkippedAt
<1>6. \/ m.epoch < s.recv_epoch
      \/ m.epoch = s.recv_epoch /\ m.msg_num < s.recv_msg_num
  BY <1>1, <1>5 DEF LocalInv, Slot
<1> HIDE DEF r, rest
<1>7. /\ r \in States
      /\ r.recv_epoch = s.recv_epoch /\ r.recv_msg_num = s.recv_msg_num
      /\ r.recv_chain_key = s.recv_chain_key /\ r.skipped_keys = rest
      /\ r.send_chain_key = s.send_chain_key /\ r.send_msg_num = s.send_msg_num
  BY <1>1, <1>4, Zenon DEF States
<1> QED
  BY <1>1, <1>2, <1>3, <1>6, <1>7, Zenon DEF LocalInv, Passed, r

(* Reloading a stored state keeps the type, the local invariant and what   *)
(* has been passed, whether or not the skipped keys survive serialize().   *)
LEMMA ReloadFacts ==
  ASSUME NEW s \in States, LocalInv(s)
  PROVE  /\ Reloaded(s) \in States
         /\ LocalInv(Reloaded(s))
         /\ \A x \in Messages : Passed(s, x) => Passed(Reloaded(s), x)
<1>1. CASE "skipped_keys" \in Encoded
  <2>1. Reloaded(s) = s
    BY <1>1, Zenon DEF Reloaded, States
  <2> QED
    BY <2>1, Zenon
<1>2. CASE "skipped_keys" \notin Encoded
  <2> DEFINE r == Reloaded(s)
  <2>1. r = [s EXCEPT !.skipped_keys = {}]
    BY <1>2, Zenon DEF Reloaded
  <2> HIDE DEF r
  <2>2. /\ r \in States
        /\ r.recv_epoch = s.recv_epoch /\ r.recv_msg_num = s.recv_msg_num
        /\ r.recv_chain_key = s.recv_chain_key /\ r.skipped_keys = {}
        /\ r.send_chain_key = s.send_chain_key /\ r.send_msg_num = s.send_msg_num
    BY <2>1, Zenon DEF States
  <2>3. LocalInv(r)
    BY <2>2, FS_EmptySet, MaxSkippedAssumption DEF LocalInv
  <2> QED
    BY <2>2, <2>3, Zenon DEF r, Passed
<1> QED
  BY <1>1, <1>2, Zenon

(* Sending touches neither the receive side nor the cache, and the message *)
(* it builds carries the key at its own number (encrypt).                  *)
LEMMA EncryptFacts ==
  ASSUME NEW s \in States, LocalInv(s), NEW p \in Party, NEW kem \in KemId
  PROVE  LET r == encrypt_state(s, kem, kem)
             m == encrypt_message(s, p, kem, kem)
         IN  /\ r \in States
             /\ LocalInv(r)
             /\ \A x \in Messages : Passed(s, x) => Passed(r, x)
             /\ m \in Messages
             /\ Numbered(m)
<1> DEFINE q == ReadyToSend(s, kem, kem)
           r == encrypt_state(s, kem, kem)
           m == encrypt_message(s, p, kem, kem)
<1>1. /\ q \in States
      /\ q.send_chain_key.pos = q.send_msg_num
      /\ q.recv_epoch = s.recv_epoch /\ q.recv_msg_num = s.recv_msg_num
      /\ q.recv_chain_key = s.recv_chain_key /\ q.skipped_keys = s.skipped_keys
  <2>1. CASE ~s.need_kem_step
    <3>1. q = s
      BY <2>1, Zenon DEF ReadyToSend
    <3> QED
      BY <3>1, Zenon DEF LocalInv
  <2>2. CASE s.need_kem_step
    <3> DEFINE root == RatchetStep(s.root_key,
                                   Encapsulate(s.peer_ratchet_pub, kem).ss)
               c == ChainKey(root, "send_chain")
               n == s.send_epoch + 1
    <3>1. /\ s.send_msg_num \in Nat /\ s.send_epoch \in Nat
          /\ s.root_key \in Seq(Secret) /\ s.peer_ratchet_pub \in KemId
      BY Zenon DEF States
    <3>2. root \in Seq(Secret) /\ n \in Nat
      BY <3>1 DEF RatchetStep, Encapsulate, Secret
    <3>3. q = [s EXCEPT !.prev_send_count = s.send_msg_num,
                        !.send_msg_num    = 0,
                        !.send_epoch      = n,
                        !.send_chain_key  = c,
                        !.root_key        = root,
                        !.my_ratchet_kem  = kem,
                        !.need_kem_step   = FALSE]
      BY <2>2, Zenon DEF ReadyToSend, KemStepSend
    <3>4. c \in Chain /\ c.pos = 0
      <4> HIDE DEF root
      <4> QED
        BY <3>2, Zenon DEF ChainKey, Chain
    <3> HIDE DEF q, root, c, n
    <3> QED
      BY <3>1, <3>2, <3>3, <3>4, Zenon DEF States
  <2> QED
    BY <2>1, <2>2, Zenon
<1>2. r = [q EXCEPT !.send_chain_key = ChainStep(q.send_chain_key, 1),
                    !.send_msg_num   = q.send_msg_num + 1]
  BY Zenon DEF encrypt_state
<1>3. /\ m.key = q.send_chain_key /\ m.msg_num = q.send_msg_num
      /\ m \in Messages
  <2> DEFINE ct == IF s.need_kem_step
                     THEN Encapsulate(s.peer_ratchet_pub, kem).ct ELSE NoCt
  <2>1. ct \in KemId \cup {NoCt}
    BY Zenon DEF Encapsulate
  <2>2. m = [from |-> p, epoch |-> q.send_epoch, msg_num |-> q.send_msg_num,
             prev_count |-> q.prev_send_count, pub |-> q.my_ratchet_kem,
             kem_ct |-> ct, key |-> q.send_chain_key]
    BY Zenon DEF encrypt_message
  <2> HIDE DEF q, m, ct
  <2> QED
    BY <1>1, <2>1, <2>2, Zenon DEF Messages, States
<1> HIDE DEF q, m, r
<1>4. /\ r \in States
      /\ r.recv_epoch = s.recv_epoch /\ r.recv_msg_num = s.recv_msg_num
      /\ r.recv_chain_key = s.recv_chain_key /\ r.skipped_keys = s.skipped_keys
      /\ r.send_chain_key.pos = r.send_msg_num
  <2> DEFINE c == ChainStep(q.send_chain_key, 1)
             n == q.send_msg_num + 1
  <2>1. q.send_chain_key \in Chain /\ q.send_msg_num \in Nat
    BY <1>1, Zenon DEF States
  <2>2. c \in Chain /\ n \in Nat /\ c.pos = n
    <3>1. c \in Chain /\ c.pos = q.send_chain_key.pos + 1
      BY <2>1, ChainStepFacts, Zenon
    <3>2. q.send_chain_key.pos = q.send_msg_num
      BY <1>1, Zenon
    <3> HIDE DEF c
    <3> QED
      BY <2>1, <3>1, <3>2
  <2>3. r = [q EXCEPT !.send_chain_key = c, !.send_msg_num = n]
    BY <1>2, Zenon
  <2> HIDE DEF c, n
  <2> QED
    BY <1>1, <2>2, <2>3, Zenon DEF States
<1>5. LocalInv(r)
  BY <1>4, Zenon DEF LocalInv
<1>6. \A x \in Messages : Passed(s, x) => Passed(r, x)
  BY <1>4, Zenon DEF Passed
<1>7. Numbered(m)
  BY <1>1, <1>3, Zenon DEF Numbered
<1> QED
  BY <1>3, <1>4, <1>5, <1>6, <1>7, Zenon DEF r, m

(* A passed message cannot be decrypted: its slot is not cached, and the   *)
(* chain key decrypt() would use is at a later position.                   *)
LEMMA PassedNotDecrypted ==
  ASSUME NEW s \in States, LocalInv(s), NEW m \in Messages, Numbered(m), Passed(s, m)
  PROVE  ~Decrypts(s, m)
<1>1. SkippedAt(s, m) = {}
  BY Zenon DEF Passed, SkippedAt
<1>2. /\ m.epoch \in Nat /\ m.msg_num \in Nat /\ s.recv_epoch \in Nat
      /\ s.recv_msg_num \in Nat /\ s.recv_chain_key \in Chain
  BY Zenon DEF Messages, States
<1>3. ASSUME TakesChain(s, m), AtMessage(s, m).recv_chain_key = m.key
      PROVE  FALSE
  <2>1. m.epoch >= s.recv_epoch
    BY <1>3, Zenon DEF TakesChain, ReachesChain
  <2>2. m.epoch = s.recv_epoch /\ m.msg_num < s.recv_msg_num
    BY <1>2, <2>1 DEF Passed
  <2>3. AtEpoch(s, m) = s
    BY <1>2, <2>2 DEF AtEpoch
  <2>4. Steps(s, m.msg_num) = 0
    BY <1>2, <1>3, <2>2, <2>3, StepsFacts DEF TakesChain
  <2>5. AtMessage(s, m).recv_chain_key = ChainStep(s.recv_chain_key, 0)
    BY <2>3, <2>4, AdvanceFrame DEF AtMessage
  <2>6. ChainStep(s.recv_chain_key, 0).pos = s.recv_chain_key.pos + 0
    BY <1>2, ChainStepFacts, Zenon
  <2>7. s.recv_chain_key.pos = s.recv_msg_num
    BY Zenon DEF LocalInv
  <2> QED
    BY <1>2, <1>3, <2>2, <2>5, <2>6, <2>7 DEF Numbered
<1> QED
  BY <1>1, <1>3, Zenon DEF Decrypts
-----------------------------------------------------------------------------
(* The states that init_as_sender and init_as_receiver build, with nothing *)
(* sent yet, satisfy the inductive invariant.                              *)
LEMMA InitEstablishes == Init => IInv
<1> SUFFICES ASSUME Init PROVE IInv
  BY Zenon
<1>1. ASSUME NEW p \in Party
      PROVE  InitialStates[p] \in States /\ LocalInv(InitialStates[p])
  <2> DEFINE ss == <<Kem(Bob, 0), Kem(Alice, 0)>>
  <2>1. /\ Kem(Bob, 0) \in KemId /\ Kem(Bob, 1) \in KemId
        /\ Kem(Alice, 0) \in KemId /\ Kem(Alice, 1) \in KemId
    BY Zenon DEF Kem, KemId, Party
  <2>2. <<ss>> \in Seq(Secret)
    BY <2>1 DEF Secret
  <2> HIDE DEF ss
  <2>3. ASSUME NEW x \in {"send_chain", "recv_chain"}
        PROVE  ChainKey(<<ss>>, x) \in Chain /\ ChainKey(<<ss>>, x).pos = 0
    BY <2>2, Zenon DEF ChainKey, Chain
  <2>4. ASSUME NEW x \in {"send_chain", "recv_chain"},
               NEW y \in {"send_chain", "recv_chain"},
               NEW need \in BOOLEAN, NEW kem \in KemId, NEW peer \in KemId
        PROVE  LET f == FreshState(<<ss>>, x, y, need, kem, peer)
               IN  f \in States /\ LocalInv(f)
    <3> DEFINE f == FreshState(<<ss>>, x, y, need, kem, peer)
    <3>1. ChainKey(<<ss>>, x) \in Chain /\ ChainKey(<<ss>>, y) \in Chain
          /\ ChainKey(<<ss>>, x).pos = 0 /\ ChainKey(<<ss>>, y).pos = 0
      BY <2>3, Zenon
    <3>2. f \in States
      BY <2>2, <3>1, Zenon DEF FreshState, States
    <3>3. LocalInv(f)
      BY <3>1, FS_EmptySet, MaxSkippedAssumption DEF FreshState, LocalInv
    <3> QED
      BY <3>2, <3>3, Zenon
  <2>5. CASE p = Alice
    <3>1. InitialStates[p] = FreshState(<<ss>>, "send_chain", "recv_chain", FALSE,
                                        Kem(Alice, 1), Kem(Bob, 0))
      BY <2>5, Zenon DEF InitialStates, init_as_sender, Encapsulate, ss
    <3> QED
      BY <3>1, <2>1, <2>4, Zenon
  <2>6. CASE p # Alice
    <3>1. InitialStates[p] = FreshState(<<ss>>, "recv_chain", "send_chain", TRUE,
                                        Kem(Bob, 1), Kem(Alice, 1))
      BY <2>6, Zenon DEF InitialStates, init_as_receiver, Decapsulate, ss
    <3> QED
      BY <3>1, <2>1, <2>4, Zenon
  <2> QED
    BY <2>5, <2>6, Zenon
<1>2. InitialStates = [p \in Party |-> InitialStates[p]]
  BY Zenon DEF InitialStates
<1>3. \A p \in Party : Reloaded(InitialStates[p]) \in States
                         /\ LocalInv(Reloaded(InitialStates[p]))
  BY <1>1, ReloadFacts, Zenon
<1>4. TypeOK
  BY <1>1, <1>2, <1>3, BoundAssumption DEF Init, TypeOK
<1> QED
  BY <1>1, <1>3, <1>4, Zenon DEF Init, IInv

(* Every step of the two managers and of the path between them, encrypt(), *)
(* each way through decrypt(), a loss and a restart, preserves the         *)
(* inductive invariant.                                                    *)
LEMMA NextPreserves == IInv /\ [Next]_vars => IInv'
<1> SUFFICES ASSUME IInv, [Next]_vars PROVE IInv'
  BY Zenon
<1> USE DEF IInv
<1>1. /\ TypeOK
      /\ \A p \in Party : /\ cache[p] \in States /\ LocalInv(cache[p])
                          /\ db[p] \in States /\ LocalInv(db[p])
                          /\ accepted[p] \subseteq Messages
      /\ net \subseteq Messages
  BY Zenon DEF TypeOK
<1>2. ASSUME NEW p \in Party, encrypt(p)
      PROVE  IInv'
  <2> DEFINE kem == Kem(p, rnd[p])
             r == encrypt_state(cache[p], kem, kem)
             m == encrypt_message(cache[p], p, kem, kem)
  <2>1. kem \in KemId
    BY <1>1, Zenon DEF TypeOK, Kem, KemId
  <2>2. /\ r \in States /\ LocalInv(r)
        /\ \A x \in Messages : Passed(cache[p], x) => Passed(r, x)
        /\ m \in Messages /\ Numbered(m)
    BY <1>1, <2>1, EncryptFacts, Zenon
  <2>3. /\ Reloaded(r) \in States /\ LocalInv(Reloaded(r))
        /\ \A x \in Messages : Passed(r, x) => Passed(Reloaded(r), x)
    BY <2>2, ReloadFacts, Zenon
  <2>4. /\ cache' = [cache EXCEPT ![p] = r]
        /\ db' = [db EXCEPT ![p] = Reloaded(r)]
        /\ rnd' = [rnd EXCEPT ![p] = IF cache[p].need_kem_step THEN @ + 1 ELSE @]
        /\ net' = net \cup {m}
        /\ UNCHANGED <<accepted, dups, restarts>>
    BY <1>2, Zenon DEF encrypt, Persist
  <2> HIDE DEF kem, r, m
  <2>5. TypeOK'
    BY <1>1, <2>2, <2>3, <2>4 DEF TypeOK
  <2> QED
    BY <1>1, <2>2, <2>3, <2>4, <2>5, Zenon DEF TypeOK
<1>3. ASSUME NEW p \in Party, Restart(p)
      PROVE  IInv'
  <2>1. /\ cache' = [cache EXCEPT ![p] = db[p]]
        /\ restarts < MaxRestarts /\ restarts' = restarts + 1
        /\ UNCHANGED <<db, rnd, net, accepted, dups>>
    BY <1>3, Zenon DEF Restart
  <2>2. TypeOK'
    BY <1>1, <2>1, BoundAssumption DEF TypeOK
  <2> QED
    BY <1>1, <2>1, <2>2, Zenon DEF TypeOK
<1>4. ASSUME NEW p \in Party, NEW m \in net, Arrives(p, m), NEW s \in States,
             LocalInv(s), \A x \in Messages : Passed(cache[p], x) => Passed(s, x),
             Reject(p, s)
      PROVE  IInv'
  <2>1. /\ cache' = [cache EXCEPT ![p] = s] /\ UNCHANGED <<db, accepted, rnd, restarts>>
        /\ net' \subseteq net /\ dups' \in 0 .. MaxDups
    BY <1>1, <1>4, BoundAssumption DEF Reject, Arrives, TypeOK
  <2>2. TypeOK'
    BY <1>1, <1>4, <2>1, Zenon DEF TypeOK
  <2> QED
    BY <1>1, <1>4, <2>1, <2>2, Zenon DEF TypeOK
<1>5. ASSUME NEW p \in Party, NEW m \in net, Arrives(p, m), NEW s \in States,
             LocalInv(s), \A x \in Messages : Passed(cache[p], x) => Passed(s, x),
             Passed(s, m), Accept(p, m, s)
      PROVE  IInv'
  <2>1. /\ Reloaded(s) \in States /\ LocalInv(Reloaded(s))
        /\ \A x \in Messages : Passed(s, x) => Passed(Reloaded(s), x)
    BY <1>5, ReloadFacts, Zenon
  <2>2. /\ cache' = [cache EXCEPT ![p] = s] /\ db' = [db EXCEPT ![p] = Reloaded(s)]
        /\ accepted' = [accepted EXCEPT ![p] = @ \cup {m}]
        /\ UNCHANGED <<rnd, restarts>>
        /\ net' \subseteq net /\ dups' \in 0 .. MaxDups
    BY <1>1, <1>5, BoundAssumption DEF Accept, Persist, Arrives, TypeOK
  <2>3. m \in Messages /\ Numbered(m)
    BY <1>1, Zenon
  <2>4. TypeOK'
    BY <1>1, <1>5, <2>1, <2>2, <2>3, Zenon DEF TypeOK
  <2>5. ASSUME NEW q \in Party
        PROVE  /\ LocalInv(cache'[q]) /\ LocalInv(db'[q])
               /\ \A x \in accepted'[q] :
                    Numbered(x) /\ Passed(cache'[q], x) /\ Passed(db'[q], x)
    <3>1. CASE q = p
      BY <3>1, <1>1, <1>5, <2>1, <2>2, <2>3, Zenon DEF TypeOK
    <3>2. CASE q # p
      BY <3>2, <1>1, <2>2, Zenon DEF TypeOK
    <3> QED
      BY <3>1, <3>2, Zenon
  <2> QED
    BY <2>2, <2>4, <2>5, Zenon
<1>6. ASSUME NEW p \in Party, NEW m \in net, DecryptSkipped(p, m)
      PROVE  IInv'
  <2> DEFINE r == EraseSkipped(cache[p], m)
  <2>1. /\ r \in States /\ LocalInv(r) /\ Passed(r, m)
        /\ \A x \in Messages : Passed(cache[p], x) => Passed(r, x)
    BY <1>1, <1>6, EraseFacts, Zenon DEF DecryptSkipped, TakesSkipped
  <2>2. Arrives(p, m) /\ (Accept(p, m, r) \/ Reject(p, r))
    BY <1>6, Zenon DEF DecryptSkipped
  <2> HIDE DEF r, IInv
  <2> QED
    BY <2>1, <2>2, <1>4, <1>5, Zenon
<1>7. ASSUME NEW p \in Party, NEW m \in net, DecryptNext(p, m)
      PROVE  IInv'
  <2> DEFINE r == ConsumeChainKey(AtMessage(cache[p], m))
  <2>1. TakesChain(cache[p], m) /\ ReachesChain(cache[p], m)
    BY <1>7, Zenon DEF DecryptNext, TakesChain
  <2>2. /\ r \in States /\ LocalInv(r) /\ Passed(r, m)
        /\ \A x \in Messages : Passed(cache[p], x) => Passed(r, x)
    BY <1>1, <2>1, ChainFacts, Zenon
  <2>3. Arrives(p, m) /\ (Accept(p, m, r) \/ Reject(p, r))
    BY <1>7, Zenon DEF DecryptNext
  <2> HIDE DEF r, IInv
  <2> QED
    BY <2>2, <2>3, <1>4, <1>5, Zenon
<1>8. ASSUME NEW p \in Party, NEW m \in net, RejectUnreadable(p, m)
      PROVE  IInv'
  <2>1. Arrives(p, m) /\ Reject(p, cache[p])
    BY <1>8, Zenon DEF RejectUnreadable
  <2> HIDE DEF IInv
  <2> QED
    BY <2>1, <1>1, <1>4, Zenon
<1>9. ASSUME NEW p \in Party, NEW m \in net, RejectOverflow(p, m)
      PROVE  IInv'
  <2>1. CASE DrainOverflows(cache[p], m) /\ Reject(p, Drained(cache[p], m))
    <3> DEFINE d == Drained(cache[p], m)
    <3>1. m.prev_count \in Nat
      BY <1>1, Zenon DEF Messages
    <3>2. /\ d \in States /\ LocalInv(d)
          /\ \A x \in Messages : Passed(cache[p], x) => Passed(d, x)
      BY <1>1, <3>1, AdvanceFacts, Zenon DEF Drained
    <3>3. Arrives(p, m) /\ Reject(p, d)
      BY <1>9, <2>1, Zenon DEF RejectOverflow
    <3> HIDE DEF d, IInv
    <3> QED
      BY <3>2, <3>3, <1>4, Zenon
  <2>2. CASE GapOverflows(cache[p], m) /\ Reject(p, AtMessage(cache[p], m))
    <3> DEFINE a == AtMessage(cache[p], m)
    <3>1. /\ a \in States /\ LocalInv(a)
          /\ \A x \in Messages : Passed(cache[p], x) => Passed(a, x)
      BY <1>1, <2>2, ChainFacts, Zenon DEF GapOverflows
    <3>2. Arrives(p, m) /\ Reject(p, a)
      BY <1>9, <2>2, Zenon DEF RejectOverflow
    <3> HIDE DEF a, IInv
    <3> QED
      BY <3>1, <3>2, <1>4, Zenon
  <2> HIDE DEF IInv
  <2> QED
    BY <2>1, <2>2, <1>9, Zenon DEF RejectOverflow
<1>10. ASSUME NEW m \in net, Lose(m)
       PROVE  IInv'
  BY <1>1, <1>10, Zenon DEF Lose, TypeOK
<1>11. CASE UNCHANGED vars
  BY <1>11, Zenon DEF vars, TypeOK
<1> HIDE DEF IInv
<1> QED
  BY <1>2, <1>3, <1>6, <1>7, <1>8, <1>9, <1>10, <1>11, Zenon DEF Next

(* The type invariant holds in every reachable state.                      *)
THEOREM TypeCorrect == Spec => []TypeOK
<1>1. IInv => TypeOK
  BY Zenon DEF IInv
<1> QED
  BY <1>1, InitEstablishes, NextPreserves, PTL DEF Spec

(* The skipped-key cache never exceeds MAX_SKIPPED_KEYS: the check inside  *)
(* advance_recv_chain's loop is enough for any number of messages, gaps,   *)
(* epochs, repeats, failed decryptions and restarts.                       *)
THEOREM CapacityRespected == Spec => []SkippedWithinCapacity
<1>1. IInv => SkippedWithinCapacity
  BY Zenon DEF IInv, LocalInv, SkippedWithinCapacity
<1> QED
  BY <1>1, InitEstablishes, NextPreserves, PTL DEF Spec

(* No message that decrypt() has returned is ever decrypted again, in the  *)
(* cached or in the stored state.                                          *)
THEOREM ReplaySafe == Spec => []NoReplay
<1>1. IInv => NoReplay
  <2> SUFFICES ASSUME IInv, NEW p \in Party, NEW m \in accepted[p]
               PROVE  ~Decrypts(cache[p], m) /\ ~Decrypts(db[p], m)
    BY Zenon DEF NoReplay
  <2>1. /\ m \in Messages /\ cache[p] \in States /\ db[p] \in States
        /\ LocalInv(cache[p]) /\ LocalInv(db[p])
        /\ Numbered(m) /\ Passed(cache[p], m) /\ Passed(db[p], m)
    BY Zenon DEF IInv, TypeOK
  <2> QED
    BY <2>1, PassedNotDecrypted, Zenon
<1> QED
  BY <1>1, InitEstablishes, NextPreserves, PTL DEF Spec

-----------------------------------------------------------------------------
(***************************************************************************)
(* The two clients agree.                                                  *)
(*                                                                         *)
(* Either one client owes a KEM step, and both hold the same root (Owes),  *)
(* or one has taken its step and the other has not seen it yet: its root   *)
(* is one secret longer (Ahead).  Rejected messages change only the cached *)
(* state, and a restart falls back to the stored one, so this is said of   *)
(* every copy of the one client's state and every copy of the other's.     *)
(***************************************************************************)

SameChain(c, d) == c.root = d.root /\ c.label = d.label

(* s owes a KEM step, which r waits for.                                   *)
Owes(s, r) ==
  /\ s.need_kem_step /\ ~r.need_kem_step
  /\ s.root_key = r.root_key /\ s.peer_ratchet_pub = r.my_ratchet_kem
  /\ s.send_epoch = r.recv_epoch /\ r.send_epoch = s.recv_epoch
  /\ SameChain(s.send_chain_key, r.recv_chain_key)
  /\ SameChain(r.send_chain_key, s.recv_chain_key)

(* s has taken a KEM step that r has not received.                         *)
Ahead(s, r) ==
  /\ ~s.need_kem_step /\ ~r.need_kem_step
  /\ \E ct \in KemId :
       s.root_key = RatchetStep(r.root_key, Decapsulate(r.my_ratchet_kem, ct))
  /\ s.send_epoch = r.recv_epoch + 1 /\ r.send_epoch = s.recv_epoch
  /\ SameChain(s.send_chain_key, ChainKey(s.root_key, "send_chain"))
  /\ SameChain(r.send_chain_key, s.recv_chain_key)

Synced(s, r) == Owes(s, r) \/ Owes(r, s) \/ Ahead(s, r) \/ Ahead(r, s)

(* What a message m proves about the client s that sent it.                *)
SentBy(s, m) ==
  /\ m.epoch <= s.send_epoch
  /\ m.epoch = s.send_epoch =>
       /\ SameChain(m.key, s.send_chain_key) /\ m.pub = s.my_ratchet_kem
       /\ m.msg_num < s.send_msg_num
       /\ m.kem_ct # NoCt => m.key.root[Len(m.key.root)][2] = m.kem_ct

(* The receiver r has the key of m wherever it has one for it.             *)
Readable(r, m) ==
  /\ m.epoch = r.recv_epoch => SameChain(m.key, r.recv_chain_key)
  /\ \A k \in SkippedAt(r, m) : k.key = m.key

(* r has skipped only messages that s has sent.                            *)
SlotsSent(s, r) ==
  \A k \in r.skipped_keys : k.slot[1] = s.send_epoch => k.slot[2] < s.send_msg_num

(* A state s of client p, a state r of its peer and the messages ms.       *)
Agree(s, r, p, ms) ==
  /\ Synced(s, r) /\ SlotsSent(s, r) /\ SlotsSent(r, s)
  /\ \A m \in ms : IF m.from = p THEN SentBy(s, m) /\ Readable(r, m)
                                 ELSE SentBy(r, m) /\ Readable(s, m)

Copies(p) == {cache[p], db[p]}

AgreeInv ==
  \A p \in Party : \A s \in Copies(p), r \in Copies(Peer(p)) : Agree(s, r, p, net)

-----------------------------------------------------------------------------
(* What the receive side of a step leaves alone.                           *)
SendSide(s, t) ==
  /\ t.send_chain_key = s.send_chain_key /\ t.send_epoch = s.send_epoch
  /\ t.send_msg_num = s.send_msg_num /\ t.my_ratchet_kem = s.my_ratchet_kem

(* Fields that advance_recv_chain may change are not those that two states *)
(* are synchronised by.                                                    *)
SyncSide(s, t) ==
  /\ SendSide(s, t) /\ t.root_key = s.root_key /\ t.recv_epoch = s.recv_epoch
  /\ t.need_kem_step = s.need_kem_step /\ t.peer_ratchet_pub = s.peer_ratchet_pub
  /\ SameChain(t.recv_chain_key, s.recv_chain_key)

LEMMA SyncedKept ==
  ASSUME NEW s, NEW t, NEW r, Synced(s, r), SyncSide(s, t)
  PROVE  Synced(t, r)
<1>1. CASE Owes(s, r) BY <1>1, Zenon DEF Synced, Owes, SyncSide, SendSide, SameChain
<1>2. CASE Owes(r, s) BY <1>2, Zenon DEF Synced, Owes, SyncSide, SendSide, SameChain
<1>3. CASE Ahead(s, r)
  BY <1>3, Zenon DEF Synced, Ahead, SyncSide, SendSide, SameChain, ChainKey
<1>4. CASE Ahead(r, s)
  BY <1>4, Zenon DEF Synced, Ahead, SyncSide, SendSide, SameChain, ChainKey
<1> QED BY <1>1, <1>2, <1>3, <1>4, Zenon DEF Synced

(* A step of the receive side of client p within its epoch.                *)
LEMMA ReceiveSide ==
  ASSUME NEW s, NEW t, NEW r, NEW p, NEW ms, Agree(s, r, p, ms), SyncSide(s, t),
         SlotsSent(r, t),
         \A m \in ms : m.from # p /\ Readable(s, m) => Readable(t, m)
  PROVE  Agree(t, r, p, ms)
<1>1. Synced(t, r) BY SyncedKept, Zenon DEF Agree
<1>2. SlotsSent(t, r) BY Zenon DEF Agree, SlotsSent, SyncSide, SendSide
<1>3. \A m \in ms : m.from = p => SentBy(t, m)
  BY Zenon DEF Agree, SentBy, SyncSide, SendSide
<1> QED BY <1>1, <1>2, <1>3, Zenon DEF Agree

(* The keys that advance_recv_chain saves are those of the current chain   *)
(* at their own numbers.                                                   *)
LEMMA RunKeys ==
  ASSUME NEW s \in States, LocalInv(s), NEW e \in Nat, NEW n \in Nat,
         NEW k \in SkippedRun(s, e, n)
  PROVE  /\ k.key \in Chain /\ SameChain(k.key, s.recv_chain_key)
         /\ k.key.pos = k.slot[2] /\ k.slot[1] = e
         /\ s.recv_msg_num <= k.slot[2] /\ k.slot[2] < s.recv_msg_num + n
         /\ k.slot[2] \in Nat
<1>1. PICK i \in 0 .. n - 1 : k = [slot |-> <<e, s.recv_msg_num + i>>,
                                   key |-> ChainStep(s.recv_chain_key, i)]
  BY Zenon DEF SkippedRun
<1>2. s.recv_chain_key \in Chain /\ s.recv_msg_num \in Nat BY Zenon DEF States
<1>3. s.recv_chain_key.pos = s.recv_msg_num BY Zenon DEF LocalInv
<1>4. ChainStep(s.recv_chain_key, i) \in Chain
      /\ ChainStep(s.recv_chain_key, i).pos = s.recv_msg_num + i
      /\ SameChain(ChainStep(s.recv_chain_key, i), s.recv_chain_key)
  BY <1>2, <1>3 DEF Chain, ChainStep, SameChain
<1>5. k.slot = <<e, s.recv_msg_num + i>> /\ k.key = ChainStep(s.recv_chain_key, i)
  BY <1>1, Zenon
<1> QED BY <1>2, <1>4, <1>5

(* Two keys of one chain at one position are equal.                        *)
LEMMA SameKey ==
  ASSUME NEW c \in Chain, NEW d \in Chain, SameChain(c, d), c.pos = d.pos
  PROVE  c = d
BY DEF Chain, SameChain

(* advance_recv_chain in its epoch, up to a message that has been sent.    *)
LEMMA AdvanceAgrees ==
  ASSUME NEW s \in States, LocalInv(s), NEW r \in States, NEW n \in Nat,
         NEW p, NEW ms \in SUBSET Messages, \A m \in ms : Numbered(m),
         Agree(s, r, p, ms), s.recv_epoch = r.send_epoch => n <= r.send_msg_num
  PROVE  Agree(advance_recv_chain(s, s.recv_epoch, n), r, p, ms)
<1> DEFINE t == advance_recv_chain(s, s.recv_epoch, n)
           i == Steps(s, n)
<1>1. s.recv_epoch \in Nat /\ s.recv_msg_num \in Nat /\ s.recv_chain_key \in Chain
      /\ r.send_msg_num \in Nat
  BY Zenon DEF States
<1>2. i \in Nat BY StepsFacts, Zenon
<1>3. i # 0 => s.recv_msg_num + i <= n
  BY <1>1, StepsFacts DEF Steps, Gap, Overflows
<1>4. /\ SendSide(s, t) /\ t.root_key = s.root_key /\ t.recv_epoch = s.recv_epoch
      /\ t.need_kem_step = s.need_kem_step /\ t.peer_ratchet_pub = s.peer_ratchet_pub
      /\ t.recv_chain_key = ChainStep(s.recv_chain_key, i)
      /\ t.skipped_keys = s.skipped_keys \cup SkippedRun(s, s.recv_epoch, i)
  BY AdvanceFrame DEF SendSide
<1> HIDE DEF t, i
<1>5. SameChain(ChainStep(s.recv_chain_key, i), s.recv_chain_key)
  BY <1>1, <1>2 DEF Chain, ChainStep, SameChain
<1>6. SyncSide(s, t) BY <1>4, <1>5, Zenon DEF SyncSide
<1>7. ASSUME NEW k \in SkippedRun(s, s.recv_epoch, i)
      PROVE  /\ k.key \in Chain /\ SameChain(k.key, s.recv_chain_key)
             /\ k.key.pos = k.slot[2] /\ k.slot[1] = s.recv_epoch
             /\ s.recv_msg_num <= k.slot[2] /\ k.slot[2] < s.recv_msg_num + i
             /\ k.slot[2] \in Nat
  BY <1>1, <1>2, RunKeys, Zenon
<1>8. SlotsSent(r, t)
  <2> SUFFICES ASSUME NEW k \in SkippedRun(s, s.recv_epoch, i), k.slot[1] = r.send_epoch
               PROVE  k.slot[2] < r.send_msg_num
    BY <1>4, Zenon DEF SlotsSent, Agree
  <2>1. n <= r.send_msg_num BY <1>7, Zenon
  <2>2. i # 0 BY <1>1, <1>7, <1>2
  <2> QED BY <1>1, <1>2, <1>3, <1>7, <2>1, <2>2
<1>9. ASSUME NEW m \in ms, Readable(s, m) PROVE Readable(t, m)
  <2>1. m.epoch = t.recv_epoch => SameChain(m.key, t.recv_chain_key)
    BY <1>4, <1>5, <1>9, Zenon DEF Readable, SameChain
  <2>2. ASSUME NEW k \in SkippedAt(t, m) PROVE k.key = m.key
    <3>1. k.slot = Slot(m) /\ k \in t.skipped_keys BY Zenon DEF SkippedAt
    <3>2. CASE k \in s.skipped_keys BY <1>9, <3>1, <3>2, Zenon DEF Readable, SkippedAt
    <3>3. CASE k \in SkippedRun(s, s.recv_epoch, i)
      <4>1. m.epoch = s.recv_epoch /\ k.key.pos = m.msg_num BY <1>7, <3>1, <3>3 DEF Slot
      <4>2. m.key \in Chain /\ m.key.pos = m.msg_num BY Zenon DEF Messages, Numbered
      <4>3. SameChain(k.key, m.key) BY <1>7, <1>9, <3>3, <4>1, Zenon DEF Readable, SameChain
      <4> QED BY <1>7, <3>3, <4>1, <4>2, <4>3, SameKey, Zenon
    <3> QED BY <1>4, <3>1, <3>2, <3>3, Zenon
  <2> QED BY <2>1, <2>2, Zenon DEF Readable
<1>10. Agree(t, r, p, ms) BY <1>6, <1>8, <1>9, ReceiveSide, Zenon
<1> QED BY <1>10, Zenon DEF t

(* The receiver is one epoch behind the sender of a message of a later     *)
(* epoch, and only the sender has taken its step.                          *)
LEMMA SenderAhead ==
  ASSUME NEW s \in States, NEW r \in States, NEW m \in Messages, Synced(s, r),
         SentBy(r, m), m.epoch > s.recv_epoch
  PROVE  Ahead(r, s) /\ m.epoch = r.send_epoch
<1>1. r.send_epoch \in Nat /\ s.recv_epoch \in Nat /\ m.epoch \in Nat
  BY Zenon DEF States, Messages
<1>2. m.epoch <= r.send_epoch BY Zenon DEF SentBy
<1>3. Owes(s, r) \/ Owes(r, s) \/ Ahead(s, r) => r.send_epoch = s.recv_epoch
  BY Zenon DEF Owes, Ahead
<1>4. Ahead(r, s) BY <1>1, <1>2, <1>3 DEF Synced
<1>5. r.send_epoch = s.recv_epoch + 1 BY <1>4, Zenon DEF Ahead
<1> QED BY <1>1, <1>2, <1>4, <1>5

(* Both ends hash the same secret: the KEM step of the receiver.           *)
LEMMA KemStepAgrees ==
  ASSUME NEW s \in States, NEW r \in States, NEW p, NEW ms \in SUBSET Messages,
         Agree(s, r, p, ms), NEW m \in Messages, SentBy(r, m),
         m.epoch > s.recv_epoch, m.kem_ct # NoCt
  PROVE  Agree(KemStepRecv(s, m), r, p, ms)
<1> DEFINE root == RatchetStep(s.root_key, Decapsulate(s.my_ratchet_kem, m.kem_ct))
           t == KemStepRecv(s, m)
<1>1. Ahead(r, s) /\ m.epoch = r.send_epoch BY SenderAhead, Zenon DEF Agree
<1>2. PICK ct \in KemId :
        r.root_key = RatchetStep(s.root_key, Decapsulate(s.my_ratchet_kem, ct))
  BY <1>1, Zenon DEF Ahead
<1>3. s.root_key \in Seq(Secret) /\ s.my_ratchet_kem \in KemId BY Zenon DEF States
<1>4. r.root_key[Len(r.root_key)][2] = ct
  BY <1>2, <1>3 DEF RatchetStep, Decapsulate
<1>5. m.key.root = r.root_key
  BY <1>1, Zenon DEF SentBy, Ahead, SameChain, ChainKey
<1>6. m.kem_ct = ct BY <1>1, <1>4, <1>5, Zenon DEF SentBy
<1>7. root = r.root_key BY <1>2, <1>6, Zenon
<1>8. /\ SendSide(s, t) /\ t.root_key = root /\ t.recv_epoch = m.epoch
      /\ t.recv_chain_key = ChainKey(root, "send_chain") /\ t.need_kem_step
      /\ t.peer_ratchet_pub = m.pub /\ t.skipped_keys = s.skipped_keys
  BY Zenon DEF KemStepRecv, States, SendSide
<1> HIDE DEF t, root
<1>9. m.pub = r.my_ratchet_kem BY <1>1, Zenon DEF SentBy
<1>10. Owes(t, r)
  BY <1>1, <1>7, <1>8, <1>9, Zenon DEF Owes, Ahead, SendSide, SameChain
<1>11. SlotsSent(t, r) /\ SlotsSent(r, t)
  BY <1>8, Zenon DEF Agree, SlotsSent, SendSide
<1>12. ASSUME NEW x \in ms, x.from = p PROVE SentBy(t, x) /\ Readable(r, x)
  BY <1>8, <1>12, Zenon DEF Agree, SentBy, SendSide
<1>13. ASSUME NEW x \in ms, x.from # p PROVE SentBy(r, x) /\ Readable(t, x)
  <2>1. SentBy(r, x) /\ Readable(s, x) BY <1>13, Zenon DEF Agree
  <2>2. x.epoch = t.recv_epoch => SameChain(x.key, t.recv_chain_key)
    BY <1>1, <1>7, <1>8, <2>1, Zenon DEF SentBy, Ahead, SameChain
  <2>3. SkippedAt(t, x) = SkippedAt(s, x) BY <1>8, Zenon DEF SkippedAt
  <2> QED BY <2>1, <2>2, <2>3, Zenon DEF Readable
<1>14. Agree(t, r, p, ms) BY <1>10, <1>11, <1>12, <1>13, Zenon DEF Agree, Synced
<1> QED BY <1>14, Zenon DEF t

(* The drain of an epoch that its sender has left.                         *)
LEMMA DrainAgrees ==
  ASSUME NEW s \in States, LocalInv(s), NEW r \in States, NEW p,
         NEW ms \in SUBSET Messages, \A x \in ms : Numbered(x), Agree(s, r, p, ms),
         NEW m \in Messages, SentBy(r, m), m.epoch > s.recv_epoch
  PROVE  Agree(Drained(s, m), r, p, ms)
<1>1. r.send_epoch \in Nat /\ s.recv_epoch \in Nat /\ m.epoch \in Nat
      /\ m.prev_count \in Nat
  BY Zenon DEF States, Messages
<1>2. m.epoch = r.send_epoch BY SenderAhead, Zenon DEF Agree
<1>3. s.recv_epoch # r.send_epoch BY <1>1, <1>2
<1> QED BY <1>1, <1>3, AdvanceAgrees, Zenon DEF Drained

LEMMA AtEpochAgrees ==
  ASSUME NEW s \in States, LocalInv(s), NEW r \in States, NEW p,
         NEW ms \in SUBSET Messages, \A x \in ms : Numbered(x), Agree(s, r, p, ms),
         NEW m \in ms, m.from # p, ReachesChain(s, m)
  PROVE  Agree(AtEpoch(s, m), r, p, ms)
<1>1. SentBy(r, m) BY Zenon DEF Agree
<1>2. CASE m.epoch > s.recv_epoch
  <2> DEFINE d == Drained(s, m)
  <2>1. s.recv_epoch \in Nat /\ m.prev_count \in Nat BY Zenon DEF States, Messages
  <2>2. d \in States /\ d.recv_epoch = s.recv_epoch
    BY <2>1, AdvanceFacts, AdvanceFrame DEF Drained
  <2>3. m.kem_ct # NoCt BY <1>2, Zenon DEF ReachesChain, LacksKemCt
  <2>4. Agree(d, r, p, ms) BY <1>1, <1>2, DrainAgrees, Zenon
  <2> HIDE DEF d
  <2>5. Agree(KemStepRecv(d, m), r, p, ms)
    BY <1>1, <1>2, <2>2, <2>3, <2>4, KemStepAgrees, Zenon
  <2> QED BY <1>2, <2>5, Zenon DEF AtEpoch, d
<1>3. CASE ~(m.epoch > s.recv_epoch) BY <1>3, Zenon DEF AtEpoch
<1> QED BY <1>2, <1>3, Zenon

LEMMA AtMessageAgrees ==
  ASSUME NEW s \in States, LocalInv(s), NEW r \in States, NEW p,
         NEW ms \in SUBSET Messages, \A x \in ms : Numbered(x), Agree(s, r, p, ms),
         NEW m \in ms, m.from # p, ReachesChain(s, m)
  PROVE  Agree(AtMessage(s, m), r, p, ms)
<1> DEFINE a == AtEpoch(s, m)
<1>1. a \in States /\ LocalInv(a) /\ a.recv_epoch = m.epoch BY AtEpochFacts, Zenon
<1>2. Agree(a, r, p, ms) BY AtEpochAgrees, Zenon
<1>3. m.msg_num \in Nat /\ r.send_msg_num \in Nat BY Zenon DEF Messages, States
<1>4. m.epoch = r.send_epoch => m.msg_num < r.send_msg_num BY Zenon DEF Agree, SentBy
<1> HIDE DEF a
<1>5. a.recv_epoch = r.send_epoch => m.msg_num <= r.send_msg_num BY <1>1, <1>3, <1>4
<1>6. Agree(advance_recv_chain(a, a.recv_epoch, m.msg_num), r, p, ms)
  BY <1>1, <1>2, <1>3, <1>5, AdvanceAgrees, Zenon
<1> QED BY <1>1, <1>6, Zenon DEF AtMessage, a

LEMMA ConsumeAgrees ==
  ASSUME NEW s \in States, NEW r, NEW p, NEW ms, Agree(s, r, p, ms)
  PROVE  Agree(ConsumeChainKey(s), r, p, ms)
<1> DEFINE t == ConsumeChainKey(s)
<1>1. /\ SendSide(s, t) /\ t.root_key = s.root_key /\ t.recv_epoch = s.recv_epoch
      /\ t.need_kem_step = s.need_kem_step /\ t.peer_ratchet_pub = s.peer_ratchet_pub
      /\ t.recv_chain_key = ChainStep(s.recv_chain_key, 1)
      /\ t.skipped_keys = s.skipped_keys
  BY Zenon DEF ConsumeChainKey, States, SendSide
<1>2. SameChain(t.recv_chain_key, s.recv_chain_key)
  BY <1>1, Zenon DEF States, Chain, ChainStep, SameChain
<1> HIDE DEF t
<1>3. SyncSide(s, t) /\ SlotsSent(r, t) BY <1>1, <1>2, Zenon DEF SyncSide, SlotsSent, Agree
<1>4. \A m \in ms : Readable(s, m) => Readable(t, m)
  BY <1>1, <1>2, Zenon DEF Readable, SkippedAt, SameChain
<1>5. Agree(t, r, p, ms) BY <1>3, <1>4, ReceiveSide, Zenon
<1> QED BY <1>5, Zenon DEF t

(* A state with fewer skipped keys: after EraseSkipped, or reloaded.       *)
LEMMA FewerSkipped ==
  ASSUME NEW s \in States, NEW ks \in SUBSET s.skipped_keys, NEW r, NEW p, NEW ms,
         Agree(s, r, p, ms)
  PROVE  Agree([s EXCEPT !.skipped_keys = ks], r, p, ms)
<1> DEFINE t == [s EXCEPT !.skipped_keys = ks]
<1>1. /\ SyncSide(s, t) /\ t.recv_chain_key = s.recv_chain_key
      /\ t.recv_epoch = s.recv_epoch /\ t.skipped_keys = ks
  BY Zenon DEF States, SyncSide, SendSide, SameChain
<1> HIDE DEF t
<1>2. SlotsSent(r, t) BY <1>1, Zenon DEF SlotsSent, Agree
<1>3. \A m \in ms : Readable(s, m) => Readable(t, m)
  BY <1>1, Zenon DEF Readable, SkippedAt
<1>4. Agree(t, r, p, ms) BY <1>1, <1>2, <1>3, ReceiveSide, Zenon
<1> QED BY <1>4, Zenon DEF t

LEMMA ReloadAgrees ==
  ASSUME NEW s \in States, NEW r, NEW p, NEW ms, Agree(s, r, p, ms)
  PROVE  Agree(Reloaded(s), r, p, ms)
<1> DEFINE ks == IF "skipped_keys" \in Encoded THEN s.skipped_keys ELSE {}
<1>1. Reloaded(s) = [s EXCEPT !.skipped_keys = ks] BY Zenon DEF Reloaded
<1>2. ks \in SUBSET s.skipped_keys BY Zenon
<1> HIDE DEF ks
<1>3. Agree([s EXCEPT !.skipped_keys = ks], r, p, ms) BY <1>2, FewerSkipped
<1> QED BY <1>1, <1>3

(* Fields that encrypt() changes after its KEM step.                       *)
LEMMA EncryptFrame ==
  ASSUME NEW s \in States, NEW kem \in KemId, NEW p
  PROVE  LET e == encrypt_state(s, kem, kem)
             m == encrypt_message(s, p, kem, kem)
         IN  /\ e.recv_epoch = s.recv_epoch /\ e.recv_chain_key = s.recv_chain_key
             /\ e.skipped_keys = s.skipped_keys /\ e.peer_ratchet_pub = s.peer_ratchet_pub
             /\ ~e.need_kem_step
             /\ m.from = p /\ m.epoch = e.send_epoch /\ m.pub = e.my_ratchet_kem
             /\ SameChain(m.key, e.send_chain_key)
             /\ e.send_msg_num = m.msg_num + 1
             /\ ~s.need_kem_step =>
                  /\ e.send_epoch = s.send_epoch /\ m.msg_num = s.send_msg_num
                  /\ SameChain(e.send_chain_key, s.send_chain_key)
                  /\ e.root_key = s.root_key /\ e.my_ratchet_kem = s.my_ratchet_kem
                  /\ m.kem_ct = NoCt
             /\ s.need_kem_step =>
                  /\ e.send_epoch = s.send_epoch + 1
                  /\ e.root_key = RatchetStep(s.root_key, Decapsulate(s.peer_ratchet_pub, kem))
                  /\ SameChain(e.send_chain_key, ChainKey(e.root_key, "send_chain"))
                  /\ m.kem_ct = kem
<1>1. CASE s.need_kem_step
  <2> DEFINE ss == Decapsulate(s.peer_ratchet_pub, kem)
             root == RatchetStep(s.root_key, ss)
             c == ChainKey(root, "send_chain")
             n == s.send_epoch + 1
             q == KemStepSend(s, kem, kem)
             d == ChainStep(c, 1)
  <2>1. /\ s.send_epoch \in Nat /\ s.root_key \in Seq(Secret)
        /\ s.peer_ratchet_pub \in KemId
    BY Zenon DEF States
  <2>2. root \in Seq(Secret) /\ n \in Nat BY <2>1 DEF RatchetStep, Decapsulate, Secret
  <2>3. q = [s EXCEPT !.prev_send_count = s.send_msg_num, !.send_msg_num = 0,
                      !.send_epoch = n, !.send_chain_key = c, !.root_key = root,
                      !.my_ratchet_kem = kem, !.need_kem_step = FALSE]
    BY Zenon DEF KemStepSend, Encapsulate, Decapsulate
  <2>4. c \in Chain /\ SameChain(d, c)
    <3> HIDE DEF root
    <3> QED BY <2>2, Zenon DEF ChainKey, Chain, ChainStep, SameChain
  <2>5. encrypt_state(s, kem, kem) = [q EXCEPT !.send_chain_key = ChainStep(q.send_chain_key, 1),
                                               !.send_msg_num = q.send_msg_num + 1]
    BY <1>1, Zenon DEF encrypt_state, ReadyToSend
  <2>6. encrypt_message(s, p, kem, kem) =
          [from |-> p, epoch |-> q.send_epoch, msg_num |-> q.send_msg_num,
           prev_count |-> q.prev_send_count, pub |-> q.my_ratchet_kem,
           kem_ct |-> kem, key |-> q.send_chain_key]
    BY <1>1, Zenon DEF encrypt_message, ReadyToSend, Encapsulate
  <2> HIDE DEF q, c, n, root
  <2>7. /\ q \in States /\ q.send_msg_num = 0 /\ q.send_epoch = n /\ q.send_chain_key = c
        /\ q.root_key = root /\ q.my_ratchet_kem = kem /\ ~q.need_kem_step
        /\ q.recv_epoch = s.recv_epoch /\ q.recv_chain_key = s.recv_chain_key
        /\ q.skipped_keys = s.skipped_keys /\ q.peer_ratchet_pub = s.peer_ratchet_pub
    BY <2>2, <2>3, <2>4, Zenon DEF States
  <2>8. SameChain(d, ChainKey(root, "send_chain")) BY <2>4, Zenon DEF c
  <2>9. SameChain(c, d) BY <2>4, Zenon DEF SameChain
  <2> HIDE DEF d
  <2>10. encrypt_state(s, kem, kem) = [q EXCEPT !.send_chain_key = d, !.send_msg_num = 0 + 1]
    BY <2>5, <2>7, Zenon DEF d
  <2> DEFINE e == encrypt_state(s, kem, kem)
             m == encrypt_message(s, p, kem, kem)
  <2>11. /\ m.from = p /\ m.epoch = n /\ m.pub = kem /\ m.key = c /\ m.msg_num = 0
         /\ m.kem_ct = kem
    BY <2>6, <2>7
  <2>12. /\ e.recv_epoch = s.recv_epoch /\ e.recv_chain_key = s.recv_chain_key
         /\ e.skipped_keys = s.skipped_keys /\ e.peer_ratchet_pub = s.peer_ratchet_pub
         /\ ~e.need_kem_step /\ e.send_epoch = n /\ e.my_ratchet_kem = kem
         /\ e.send_chain_key = d /\ e.send_msg_num = 0 + 1 /\ e.root_key = root
    BY <2>7, <2>10, Zenon DEF States
  <2> HIDE DEF e, m
  <2>13. SameChain(m.key, e.send_chain_key)
         /\ SameChain(e.send_chain_key, ChainKey(e.root_key, "send_chain"))
    BY <2>8, <2>9, <2>11, <2>12, Zenon
  <2> QED BY <1>1, <2>11, <2>12, <2>13, Zenon DEF n, root, ss, e, m
<1>2. CASE ~s.need_kem_step
  BY <1>2, Zenon DEF encrypt_state, encrypt_message, ReadyToSend, States, Chain,
       ChainStep, SameChain
<1> QED BY <1>1, <1>2, Zenon

(* Sending keeps the two in step: encrypt() with or without a KEM step.    *)
LEMMA EncryptAgrees ==
  ASSUME NEW s \in States, LocalInv(s), NEW r \in States, LocalInv(r),
         NEW p \in Party, NEW kem \in KemId, NEW ms \in SUBSET Messages, Agree(s, r, p, ms)
  PROVE  Agree(encrypt_state(s, kem, kem), r, p, ms \cup {encrypt_message(s, p, kem, kem)})
<1> SUFFICES ASSUME NEW e \in States, e = encrypt_state(s, kem, kem),
                    NEW m \in Messages, m = encrypt_message(s, p, kem, kem)
             PROVE  Agree(e, r, p, ms \cup {m})
  BY EncryptFacts
<1>1. /\ e.recv_epoch = s.recv_epoch /\ e.recv_chain_key = s.recv_chain_key
      /\ e.skipped_keys = s.skipped_keys /\ e.peer_ratchet_pub = s.peer_ratchet_pub
      /\ ~e.need_kem_step
      /\ m.from = p /\ m.epoch = e.send_epoch /\ m.pub = e.my_ratchet_kem
      /\ SameChain(m.key, e.send_chain_key) /\ e.send_msg_num = m.msg_num + 1
  BY EncryptFrame
<1>2. ~s.need_kem_step =>
        /\ e.send_epoch = s.send_epoch /\ m.msg_num = s.send_msg_num
        /\ SameChain(e.send_chain_key, s.send_chain_key)
        /\ e.root_key = s.root_key /\ e.my_ratchet_kem = s.my_ratchet_kem
        /\ m.kem_ct = NoCt
  BY EncryptFrame
<1>3. s.need_kem_step =>
        /\ e.send_epoch = s.send_epoch + 1
        /\ e.root_key = RatchetStep(s.root_key, Decapsulate(s.peer_ratchet_pub, kem))
        /\ SameChain(e.send_chain_key, ChainKey(e.root_key, "send_chain"))
        /\ m.kem_ct = kem
  BY EncryptFrame
<1>4. /\ s.send_epoch \in Nat /\ e.send_epoch \in Nat /\ r.recv_epoch \in Nat
      /\ s.send_msg_num \in Nat /\ m.msg_num \in Nat /\ e.send_msg_num \in Nat
      /\ s.root_key \in Seq(Secret)
  BY Zenon DEF States, Messages
<1>5. Synced(e, r)
  <2>1. CASE s.need_kem_step
    <3>1. Owes(s, r) BY <2>1, Zenon DEF Agree, Synced, Owes, Ahead
    <3> QED BY <1>1, <1>3, <2>1, <3>1, Zenon DEF Synced, Owes, Ahead
  <2>2. CASE ~s.need_kem_step
    <3>1. CASE Owes(r, s) BY <1>1, <1>2, <2>2, <3>1, Zenon DEF Synced, Owes, SameChain
    <3>2. CASE Ahead(s, r)
      BY <1>1, <1>2, <2>2, <3>2, Zenon DEF Synced, Ahead, SameChain, ChainKey
    <3>3. CASE Ahead(r, s)
      BY <1>1, <1>2, <2>2, <3>3, Zenon DEF Synced, Ahead, SameChain, ChainKey
    <3> QED BY <2>2, <3>1, <3>2, <3>3, Zenon DEF Agree, Synced, Owes
  <2> QED BY <2>1, <2>2, Zenon
<1>6. \A k \in r.skipped_keys : k.slot[1] = e.send_epoch =>
        k.slot[2] < m.msg_num
  <2> SUFFICES ASSUME NEW k \in r.skipped_keys, k.slot[1] = e.send_epoch
               PROVE  k.slot[2] < m.msg_num
    BY Zenon
  <2>1. CASE s.need_kem_step
    <3>1. s.send_epoch = r.recv_epoch BY <2>1, Zenon DEF Agree, Synced, Owes, Ahead
    <3>2. k.slot[1] <= r.recv_epoch BY Zenon DEF LocalInv
    <3> QED BY <1>3, <1>4, <2>1, <3>1, <3>2
  <2>2. CASE ~s.need_kem_step BY <1>2, <2>2, Zenon DEF Agree, SlotsSent
  <2> QED BY <2>1, <2>2, Zenon
<1>7. SlotsSent(e, r)
  <2> SUFFICES ASSUME NEW k \in r.skipped_keys, k.slot[1] = e.send_epoch
               PROVE  k.slot[2] < e.send_msg_num
    BY Zenon DEF SlotsSent
  <2>1. k.slot[2] \in Nat BY Zenon DEF States, Skipped
  <2> QED BY <1>1, <1>4, <1>6, <2>1
<1>8. SlotsSent(r, e) BY <1>1, Zenon DEF Agree, SlotsSent
<1>9. SentBy(e, m)
  <2>1. m.kem_ct # NoCt => m.key.root[Len(m.key.root)][2] = m.kem_ct
    <3> SUFFICES ASSUME s.need_kem_step PROVE m.key.root[Len(m.key.root)][2] = m.kem_ct
      BY <1>2, Zenon
    <3>1. m.key.root = e.root_key BY <1>1, <1>3, Zenon DEF SameChain, ChainKey
    <3>2. e.root_key[Len(e.root_key)][2] = kem BY <1>3, <1>4 DEF RatchetStep, Decapsulate
    <3> QED BY <1>3, <3>1, <3>2, Zenon
  <2> QED BY <1>1, <1>4, <2>1 DEF SentBy
<1>10. Readable(r, m)
  <2>1. m.epoch = r.recv_epoch => SameChain(m.key, r.recv_chain_key)
    <3>1. CASE s.need_kem_step
      <4>1. s.send_epoch = r.recv_epoch BY <3>1, Zenon DEF Agree, Synced, Owes, Ahead
      <4> QED BY <1>1, <1>3, <1>4, <3>1, <4>1
    <3>2. CASE ~s.need_kem_step
      <4>1. s.send_epoch = r.recv_epoch => SameChain(s.send_chain_key, r.recv_chain_key)
        <5>1. Ahead(s, r) => s.send_epoch # r.recv_epoch BY <1>4 DEF Ahead
        <5> QED BY <5>1, Zenon DEF Agree, Synced, Owes, Ahead
      <4> QED BY <1>1, <1>2, <3>2, <4>1, Zenon DEF SameChain
    <3> QED BY <3>1, <3>2, Zenon
  <2>2. SkippedAt(r, m) = {}
    <3> SUFFICES ASSUME NEW k \in r.skipped_keys, k.slot = Slot(m) PROVE FALSE
      BY Zenon DEF SkippedAt
    <3>1. k.slot[1] = e.send_epoch /\ k.slot[2] = m.msg_num BY <1>1 DEF Slot
    <3> QED BY <1>4, <1>6, <3>1
  <2> QED BY <2>1, <2>2, Zenon DEF Readable
<1>11. ASSUME NEW x \in ms, x.from = p PROVE SentBy(e, x)
  <2>1. SentBy(s, x) /\ x.epoch \in Nat /\ x.msg_num \in Nat
    BY <1>11, Zenon DEF Agree, Messages
  <2>2. CASE s.need_kem_step BY <1>3, <1>4, <2>1, <2>2 DEF SentBy
  <2>3. CASE ~s.need_kem_step
    BY <1>1, <1>2, <1>4, <2>1, <2>3 DEF SentBy, SameChain
  <2> QED BY <2>2, <2>3, Zenon
<1>12. ASSUME NEW x \in ms, x.from # p PROVE Readable(e, x)
  BY <1>1, <1>12, Zenon DEF Agree, Readable, SkippedAt
<1> QED
  BY <1>1, <1>5, <1>7, <1>8, <1>9, <1>10, <1>11, <1>12, Zenon DEF Agree

-----------------------------------------------------------------------------
LEMMA PeerFacts ==
  ASSUME NEW p \in Party
  PROVE  /\ Peer(p) \in Party /\ Peer(p) # p /\ Peer(Peer(p)) = p
         /\ \A q \in Party : q # p <=> q = Peer(p)
BY PartyAssumption DEF Party, Peer

LEMMA AgreeSymmetric ==
  ASSUME NEW p \in Party, NEW s, NEW r, NEW ms \in SUBSET Messages, Agree(s, r, p, ms)
  PROVE  Agree(r, s, Peer(p), ms)
<1>1. \A m \in ms : m.from \in Party BY Zenon DEF Messages
<1>2. Synced(r, s) BY Zenon DEF Agree, Synced
<1> QED BY <1>1, <1>2, PeerFacts, Zenon DEF Agree

LEMMA AgreeFewer ==
  ASSUME NEW s, NEW r, NEW p, NEW ms, NEW ns \in SUBSET ms, Agree(s, r, p, ms)
  PROVE  Agree(s, r, p, ns)
BY Zenon DEF Agree

(* A step of client p that leaves it with the cached state c and the       *)
(* stored state d.                                                         *)
LEMMA PartyStep ==
  ASSUME TypeOK, TypeOK', NEW p \in Party, NEW c, NEW d,
         cache' = [cache EXCEPT ![p] = c], db' = [db EXCEPT ![p] = d],
         \A r \in Copies(Peer(p)) : Agree(c, r, p, net') /\ Agree(d, r, p, net')
  PROVE  AgreeInv'
<1> DEFINE q == Peer(p)
<1>1. q \in Party /\ q # p /\ Peer(q) = p /\ \A x \in Party : x = p \/ x = q
  BY PeerFacts, Zenon
<1>2. cache'[p] = c /\ db'[p] = d /\ cache'[q] = cache[q] /\ db'[q] = db[q]
  BY <1>1, Zenon DEF TypeOK
<1>3. net' \in SUBSET Messages BY Zenon DEF TypeOK
<1> HIDE DEF q
<1>4. \A t \in {cache'[p], db'[p]}, r \in {cache'[q], db'[q]} : Agree(t, r, p, net')
  BY <1>2, Zenon DEF Copies, q
<1>5. \A t \in {cache'[p], db'[p]}, r \in {cache'[q], db'[q]} : Agree(r, t, q, net')
  BY <1>3, <1>4, AgreeSymmetric, Zenon DEF q
<1>6. ASSUME NEW x \in Party, NEW s \in {cache'[x], db'[x]},
             NEW r \in {cache'[Peer(x)], db'[Peer(x)]}
      PROVE  Agree(s, r, x, net')
  <2>1. CASE x = p BY <1>4, <1>6, <2>1, Zenon DEF q
  <2>2. CASE x = q BY <1>1, <1>5, <1>6, <2>2, Zenon
  <2> QED BY <1>1, <2>1, <2>2, Zenon
<1> QED BY <1>6, Zenon DEF AgreeInv, Copies

LEMMA CopyFacts ==
  ASSUME IInv, AgreeInv, NEW p \in Party
  PROVE  /\ \A s \in Copies(p) : s \in States /\ LocalInv(s)
         /\ \A r \in Copies(Peer(p)) : r \in States /\ LocalInv(r)
         /\ \A s \in Copies(p), r \in Copies(Peer(p)) : Agree(s, r, p, net)
         /\ net \in SUBSET Messages /\ \A m \in net : Numbered(m)
<1>1. Peer(p) \in Party BY PeerFacts, Zenon
<1>2. \A x \in Party : \A s \in Copies(x) : s \in States /\ LocalInv(s)
  BY Zenon DEF IInv, TypeOK, Copies
<1> QED BY <1>1, <1>2, Zenon DEF IInv, TypeOK, AgreeInv

LEMMA EncryptStep ==
  ASSUME IInv, AgreeInv, TypeOK', NEW p \in Party, encrypt(p)
  PROVE  AgreeInv'
<1> DEFINE s == cache[p]
           kem == Kem(p, rnd[p])
<1>1. kem \in KemId BY Zenon DEF IInv, TypeOK, Kem, KemId
<1> HIDE DEF kem
<1> SUFFICES ASSUME NEW e, e = encrypt_state(s, kem, kem),
                    NEW m, m = encrypt_message(s, p, kem, kem)
             PROVE  AgreeInv'
  OBVIOUS
<1>2. cache' = [cache EXCEPT ![p] = e] /\ db' = [db EXCEPT ![p] = Reloaded(e)]
      /\ net' = net \cup {m}
  BY Zenon DEF encrypt, Persist, kem
<1>3. s \in Copies(p) /\ s \in States /\ LocalInv(s) BY CopyFacts, Zenon DEF Copies
<1>4. e \in States BY <1>1, <1>3, EncryptFacts
<1> HIDE DEF s
<1>5. ASSUME NEW r \in Copies(Peer(p))
      PROVE  Agree(e, r, p, net') /\ Agree(Reloaded(e), r, p, net')
  <2>1. r \in States /\ LocalInv(r) /\ Agree(s, r, p, net) /\ net \in SUBSET Messages
    BY <1>3, CopyFacts, Zenon
  <2>2. Agree(e, r, p, net') BY <1>1, <1>2, <1>3, <2>1, EncryptAgrees
  <2> QED BY <1>4, <2>2, ReloadAgrees, Zenon
<1> QED BY <1>2, <1>5, PartyStep, Zenon DEF IInv

(* decrypt() ends with the cached state c, returning or throwing.          *)
LEMMA DecryptStep ==
  ASSUME IInv, AgreeInv, TypeOK', NEW p \in Party, NEW m, Arrives(p, m),
         NEW c \in States, Accept(p, m, c) \/ Reject(p, c),
         \A r \in Copies(Peer(p)) : Agree(c, r, p, net)
  PROVE  AgreeInv'
<1> SUFFICES ASSUME NEW d, d = db[p] PROVE AgreeInv'
  BY Zenon
<1>1. TypeOK /\ net' \in SUBSET net BY Zenon DEF IInv, Arrives
<1>2. ASSUME NEW r \in Copies(Peer(p))
      PROVE  /\ Agree(c, r, p, net') /\ Agree(Reloaded(c), r, p, net')
             /\ Agree(d, r, p, net')
  <2>1. Agree(d, r, p, net) BY CopyFacts, Zenon DEF Copies
  <2>2. Agree(Reloaded(c), r, p, net) BY ReloadAgrees, Zenon
  <2> QED BY <1>1, <2>1, <2>2, AgreeFewer, Zenon
<1>3. CASE Accept(p, m, c)
  <2>1. cache' = [cache EXCEPT ![p] = c] /\ db' = [db EXCEPT ![p] = Reloaded(c)]
    BY <1>3, Zenon DEF Accept, Persist
  <2> QED BY <1>1, <1>2, <2>1, PartyStep, Zenon
<1>4. CASE Reject(p, c)
  <2>1. cache' = [cache EXCEPT ![p] = c] /\ db' = [db EXCEPT ![p] = d]
    BY <1>4, Zenon DEF Reject, IInv, TypeOK
  <2> QED BY <1>1, <1>2, <2>1, PartyStep, Zenon
<1> QED BY <1>3, <1>4, Zenon

LEMMA InitAgrees == Init => AgreeInv
<1> SUFFICES ASSUME Init PROVE AgreeInv OBVIOUS
<1> DEFINE a == InitialStates[Alice]
           b == InitialStates[Bob]
<1>1. IInv BY InitEstablishes, Zenon
<1>2. a = init_as_sender(Kem(Bob, 0), Kem(Alice, 0), Kem(Alice, 1))
      /\ b = init_as_receiver(Kem(Bob, 0), Kem(Alice, 0), Kem(Bob, 1), Kem(Alice, 1))
  BY PartyAssumption, Zenon DEF InitialStates, Party
<1>3. a \in States /\ b \in States BY <1>1, Zenon DEF IInv, TypeOK, Init, Party
<1>4. Owes(b, a) /\ a.skipped_keys = {} /\ b.skipped_keys = {}
  BY <1>2 DEF Owes, init_as_sender, init_as_receiver, FreshState, ChainKey, SameChain,
       Encapsulate, Decapsulate
<1> HIDE DEF a, b
<1>5. Agree(b, a, Bob, {}) BY <1>4, Zenon DEF Agree, Synced, SlotsSent
<1>6. Agree(Reloaded(b), a, Bob, {}) BY <1>3, <1>5, ReloadAgrees, Zenon
<1>7. Bob \in Party /\ Alice \in Party /\ Peer(Bob) = Alice /\ Peer(Alice) = Bob
      /\ {} \in SUBSET Messages
  BY PeerFacts, PartyAssumption, Zenon DEF Party
<1>8. Agree(a, b, Alice, {}) /\ Agree(a, Reloaded(b), Alice, {})
  BY <1>5, <1>6, <1>7, AgreeSymmetric, Zenon
<1>9. Agree(Reloaded(a), b, Alice, {}) /\ Agree(Reloaded(a), Reloaded(b), Alice, {})
  BY <1>3, <1>8, ReloadAgrees, Zenon
<1>10. \A s \in {a, Reloaded(a)}, r \in {b, Reloaded(b)} :
         Agree(s, r, Alice, {}) /\ Agree(r, s, Bob, {})
  BY <1>7, <1>8, <1>9, AgreeSymmetric, Zenon
<1>11. net = {} /\ Copies(Alice) = {a, Reloaded(a)} /\ Copies(Bob) = {b, Reloaded(b)}
  BY <1>7, Zenon DEF Init, Copies, a, b
<1> QED BY <1>7, <1>10, <1>11, Zenon DEF AgreeInv, Party

LEMMA NextAgrees ==
  ASSUME IInv, AgreeInv, TypeOK', Next
  PROVE  AgreeInv'
<1>1. ASSUME NEW p \in Party, encrypt(p) PROVE AgreeInv'
  BY <1>1, EncryptStep, Zenon
<1>2. ASSUME NEW p \in Party, Restart(p) PROVE AgreeInv'
  <2> SUFFICES ASSUME NEW d, d = db[p] PROVE AgreeInv'
    BY Zenon
  <2>1. cache' = [cache EXCEPT ![p] = d] /\ db' = [db EXCEPT ![p] = d] /\ net' = net
    BY <1>2, Zenon DEF Restart, IInv, TypeOK
  <2>2. \A r \in Copies(Peer(p)) : Agree(d, r, p, net')
    BY <2>1, CopyFacts, Zenon DEF Copies
  <2> QED BY <2>1, <2>2, PartyStep, Zenon DEF IInv
<1>3. ASSUME NEW m \in net, Lose(m) PROVE AgreeInv'
  <2>1. cache' = cache /\ db' = db /\ net' \in SUBSET net BY <1>3, Zenon DEF Lose
  <2> QED BY <2>1, AgreeFewer, Zenon DEF AgreeInv, Copies
<1>4. ASSUME NEW p \in Party, NEW m \in net,
             \/ DecryptSkipped(p, m) \/ DecryptNext(p, m)
             \/ RejectUnreadable(p, m) \/ RejectOverflow(p, m)
      PROVE  AgreeInv'
  <2> SUFFICES ASSUME NEW s, s = cache[p] PROVE AgreeInv'
    BY Zenon
  <2>1. Arrives(p, m)
    BY <1>4, Zenon DEF DecryptSkipped, DecryptNext, RejectUnreadable, RejectOverflow
  <2>2. s \in States /\ LocalInv(s) BY CopyFacts, Zenon DEF Copies
  <2>3. ASSUME NEW r \in Copies(Peer(p))
        PROVE  r \in States /\ Agree(s, r, p, net) /\ SentBy(r, m)
    <3>1. r \in States /\ Agree(s, r, p, net) BY CopyFacts, Zenon DEF Copies
    <3> QED BY <2>1, <3>1, Zenon DEF Arrives, Agree
  <2>4. net \in SUBSET Messages /\ (\A x \in net : Numbered(x)) /\ m.from # p
        /\ m \in Messages
    BY <2>1, CopyFacts, Zenon DEF Arrives
  <2>5. CASE DecryptSkipped(p, m)
    <3> DEFINE c == EraseSkipped(s, m)
    <3>1. c \in States BY <2>2, <2>4, <2>5, EraseFacts DEF DecryptSkipped, TakesSkipped
    <3>2. Accept(p, m, c) \/ Reject(p, c) BY <2>5, Zenon DEF DecryptSkipped
    <3>3. c = [s EXCEPT !.skipped_keys = s.skipped_keys \ SkippedAt(s, m)]
      BY Zenon DEF EraseSkipped
    <3> HIDE DEF c
    <3>4. \A r \in Copies(Peer(p)) : Agree(c, r, p, net)
      <4> SUFFICES ASSUME NEW r \in Copies(Peer(p)) PROVE Agree(c, r, p, net)
        BY Zenon
      <4>1. Agree(s, r, p, net) BY <2>3, Zenon
      <4>2. s.skipped_keys \ SkippedAt(s, m) \in SUBSET s.skipped_keys BY Zenon
      <4> QED BY <2>2, <3>3, <4>1, <4>2, FewerSkipped
    <3> QED BY <2>1, <3>1, <3>2, <3>4, DecryptStep, Zenon
  <2>6. CASE DecryptNext(p, m)
    <3> DEFINE a == AtMessage(s, m)
               c == ConsumeChainKey(a)
    <3>1. ReachesChain(s, m) /\ TakesChain(s, m)
      BY <2>6, Zenon DEF DecryptNext, TakesChain
    <3>2. a \in States /\ c \in States BY <2>2, <2>4, <3>1, ChainFacts
    <3>3. Accept(p, m, c) \/ Reject(p, c) BY <2>6, Zenon DEF DecryptNext
    <3> HIDE DEF a
    <3>4. \A r \in Copies(Peer(p)) : Agree(a, r, p, net)
      BY <2>2, <2>3, <2>4, <3>1, AtMessageAgrees, Zenon DEF a
    <3>5. \A r \in Copies(Peer(p)) : Agree(c, r, p, net)
      BY <3>2, <3>4, ConsumeAgrees, Zenon
    <3> HIDE DEF c
    <3> QED BY <2>1, <3>2, <3>3, <3>5, DecryptStep, Zenon
  <2>7. CASE RejectUnreadable(p, m)
    <3>1. Reject(p, s) BY <2>7, Zenon DEF RejectUnreadable
    <3> QED BY <2>1, <2>2, <2>3, <3>1, DecryptStep, Zenon
  <2>8. CASE RejectOverflow(p, m)
    <3>1. CASE DrainOverflows(s, m) /\ Reject(p, Drained(s, m))
      <4> DEFINE c == Drained(s, m)
      <4>1. m.epoch > s.recv_epoch /\ m.prev_count \in Nat
        BY <2>4, <3>1, Zenon DEF DrainOverflows, Messages
      <4>2. c \in States BY <2>2, <4>1, AdvanceFacts DEF Drained
      <4>3. \A r \in Copies(Peer(p)) : Agree(c, r, p, net)
        BY <2>2, <2>3, <2>4, <4>1, DrainAgrees, Zenon
      <4> HIDE DEF c
      <4>4. Reject(p, c) BY <3>1, Zenon DEF c
      <4> QED BY <2>1, <4>2, <4>3, <4>4, DecryptStep, Zenon
    <3>2. CASE GapOverflows(s, m) /\ Reject(p, AtMessage(s, m))
      <4> DEFINE c == AtMessage(s, m)
      <4>1. ReachesChain(s, m) BY <3>2, Zenon DEF GapOverflows
      <4>2. c \in States BY <2>2, <2>4, <4>1, ChainFacts
      <4>3. \A r \in Copies(Peer(p)) : Agree(c, r, p, net)
        BY <2>2, <2>3, <2>4, <4>1, AtMessageAgrees, Zenon
      <4> HIDE DEF c
      <4>4. Reject(p, c) BY <3>2, Zenon DEF c
      <4> QED BY <2>1, <4>2, <4>3, <4>4, DecryptStep, Zenon
    <3> QED BY <2>8, <3>1, <3>2, Zenon DEF RejectOverflow
  <2> QED BY <1>4, <2>5, <2>6, <2>7, <2>8, Zenon
<1> QED BY <1>1, <1>2, <1>3, <1>4, Zenon DEF Next

LEMMA Agreement == Spec => [](IInv /\ AgreeInv)
<1>1. Init => IInv /\ AgreeInv BY InitEstablishes, InitAgrees, Zenon
<1>2. (IInv /\ AgreeInv) /\ [Next]_vars => (IInv /\ AgreeInv)'
  <2> SUFFICES ASSUME IInv, AgreeInv, [Next]_vars PROVE (IInv /\ AgreeInv)'
    OBVIOUS
  <2>1. IInv' BY NextPreserves, Zenon
  <2>2. CASE Next BY <2>1, <2>2, NextAgrees, Zenon DEF IInv
  <2>3. CASE UNCHANGED vars BY <2>1, <2>3, Zenon DEF vars, AgreeInv, Copies
  <2> QED BY <2>1, <2>2, <2>3, Zenon
<1> QED BY <1>1, <1>2, PTL DEF Spec

(* The two clients stay in step: at most one owes a KEM step, and at one   *)
(* epoch of a direction they hold one chain, whatever the path loses,      *)
(* repeats or reorders, whatever decrypt() rejects half way, and after any *)
(* restart (encrypt, apply_kem_step_recv).                                 *)
THEOREM ClientsAgree == Spec => []KemStepsAlternate
<1>1. IInv /\ AgreeInv => KemStepsAlternate
  <2> SUFFICES ASSUME IInv, AgreeInv PROVE KemStepsAlternate
    OBVIOUS
  <2>1. ASSUME NEW p \in Party
        PROVE  /\ Synced(cache[p], cache[Peer(p)])
               /\ cache[p] \in States /\ cache[Peer(p)] \in States
    BY CopyFacts, Zenon DEF Copies, Agree
  <2>2. ASSUME NEW s \in States, NEW r \in States, Synced(s, r)
        PROVE  /\ ~(s.need_kem_step /\ r.need_kem_step)
               /\ s.send_epoch \in {r.recv_epoch, r.recv_epoch + 1}
               /\ s.send_epoch = r.recv_epoch =>
                    SameChain(s.send_chain_key, r.recv_chain_key)
    <3>1. r.recv_epoch \in Nat BY Zenon DEF States
    <3>2. Ahead(s, r) => s.send_epoch # r.recv_epoch BY <3>1 DEF Ahead
    <3> QED BY <2>2, <3>2, Zenon DEF Synced, Owes, Ahead
  <2>3. Alice \in Party /\ Peer(Alice) = Bob BY PeerFacts, PartyAssumption, Zenon DEF Party
  <2>4. ~(cache[Alice].need_kem_step /\ cache[Bob].need_kem_step)
    BY <2>1, <2>2, <2>3, Zenon
  <2> QED BY <2>1, <2>2, <2>4, Zenon DEF KemStepsAlternate, SameChain
<1> QED BY <1>1, Agreement, PTL

(* A cached key that a message under way selects is that message's key:    *)
(* no repeat and no rejected message leaves a wrong one                    *)
(* (advance_recv_chain).                                                   *)
THEOREM CacheIsGenuine == Spec => []SkippedKeysGenuine
<1>1. IInv /\ AgreeInv => SkippedKeysGenuine
  <2> SUFFICES ASSUME IInv, AgreeInv, NEW p \in Party, NEW m \in net, m.from # p,
                      NEW k \in SkippedAt(cache[p], m)
               PROVE  k.key = m.key
    BY Zenon DEF SkippedKeysGenuine
  <2>1. Agree(cache[p], cache[Peer(p)], p, net) BY CopyFacts, Zenon DEF Copies
  <2> QED BY <2>1, Zenon DEF Agree, Readable
<1> QED BY <1>1, Agreement, PTL

-----------------------------------------------------------------------------
(***************************************************************************)
(* Nothing is forgotten.                                                   *)
(*                                                                         *)
(* CompleteInv adds to the agreement of the two clients what the receiver  *)
(* still holds: a message under way that lies behind the receive position  *)
(* has its key in the cache.  It is kept because prev_count is the number  *)
(* of messages of the epoch before (Bounded), so that apply_kem_step_recv  *)
(* stops neither short of a message under way nor past one still to be     *)
(* sent, and because no two messages share a slot (Distinct).              *)
(***************************************************************************)

(* m lies behind the receive position of s.                                *)
Past(s, m) ==
  m.epoch < s.recv_epoch \/ (m.epoch = s.recv_epoch /\ m.msg_num < s.recv_msg_num)

(* The counters of s stay within the bounds, and its cache holds no more   *)
(* keys than there were messages before its receive position.              *)
Within(s) ==
  /\ s.send_msg_num <= MaxMsgs /\ s.prev_send_count <= MaxMsgs
  /\ s.recv_epoch <= MaxEpoch /\ s.recv_msg_num <= MaxMsgs
  /\ Cardinality(s.skipped_keys) <= s.recv_epoch * MaxMsgs + s.recv_msg_num

(* What a message m under way tells of the client s that sent it: its      *)
(* prev_count is the length of the epoch before, and an epoch that s has   *)
(* left ended after m.                                                     *)
Bounded(s, m) ==
  /\ m.epoch <= MaxEpoch /\ m.msg_num < MaxMsgs /\ m.prev_count <= MaxMsgs
  /\ m.epoch = s.send_epoch => m.prev_count = s.prev_send_count
  /\ m.epoch + 1 = s.send_epoch => m.msg_num < s.prev_send_count

(* A message behind the receive position of r has its key in the cache.    *)
Kept(r, m) == Past(r, m) => HasSkipped(r, m)

(* The receiver r is not ahead of the sender s.                            *)
Behind(r, s) == s.send_epoch = r.recv_epoch => r.recv_msg_num <= s.send_msg_num

(* All of this of a client p in state s, its peer in state r and the       *)
(* messages ms.                                                            *)
Complete(s, r, p, ms) ==
  Behind(r, s) /\ \A m \in ms : m.from = p => Bounded(s, m) /\ Kept(r, m)

(* No two messages of one sender have the same epoch and number.           *)
Distinct(ms) == \A m, x \in ms : m.from = x.from /\ Slot(m) = Slot(x) => m = x

CompleteInv ==
  /\ Distinct(net)
  /\ \A p \in Party : Within(cache[p]) /\ Complete(cache[p], cache[Peer(p)], p, net)

(* The path only loses and reorders, no client restarts, and the cache     *)
(* could hold every message of one direction.                              *)
Roomy ==
  MaxDups = 0 /\ MaxRestarts = 0 /\ MAX_SKIPPED_KEYS >= (MaxEpoch + 1) * MaxMsgs

(* What the bound on the cache needs of multiplication.                    *)
LEMMA Products ==
  ASSUME NEW e \in Nat, NEW E \in Nat, e <= E, NEW M \in Nat
  PROVE  /\ e * M \in Nat /\ (e + 1) * M = e * M + M
         /\ e * M + M <= (E + 1) * M
<1>1. \A a, b, c \in Nat : (a + b) * c = a * c + b * c BY SMT
<1>2. \A a, b \in Nat : a * b \in Nat BY SMT
<1> DEFINE d == E - e
<1>3. d \in Nat /\ E + 1 = (e + 1) + d /\ e + 1 \in Nat BY SMT
<1> HIDE DEF d
<1>4. (E + 1) * M = (e + 1) * M + d * M BY <1>1, <1>3
<1>5. (e + 1) * M = e * M + M BY SMT
<1>6. d * M \in Nat /\ e * M \in Nat /\ (e + 1) * M \in Nat BY <1>2, <1>3
<1> QED BY <1>4, <1>5, <1>6, SMT

(* While the cache has room for all, advance_recv_chain never throws.      *)
LEMMA NoOverflow ==
  ASSUME Roomy, NEW s \in States, LocalInv(s), Within(s), NEW t \in Nat, t <= MaxMsgs
  PROVE  ~Overflows(s, t)
<1>1. /\ Cardinality(s.skipped_keys) \in Nat /\ s.recv_msg_num \in Nat
      /\ s.recv_epoch \in Nat /\ MaxMsgs \in Nat /\ MaxEpoch \in Nat
  BY FS_CardinalityType, BoundAssumption DEF LocalInv, States
<1> DEFINE c == Cardinality(s.skipped_keys)
           z == s.recv_epoch * MaxMsgs
<1>2. /\ z \in Nat /\ z + MaxMsgs <= (MaxEpoch + 1) * MaxMsgs /\ s.recv_epoch <= MaxEpoch
  BY <1>1, Products DEF Within
<1>3. c <= z + s.recv_msg_num /\ c <= MAX_SKIPPED_KEYS BY Zenon DEF Within, LocalInv
<1>4. (MaxEpoch + 1) * MaxMsgs <= MAX_SKIPPED_KEYS BY MaxSkippedAssumption DEF Roomy
<1> HIDE DEF c, z
<1>5. c \in Nat BY <1>1, Zenon DEF c
<1>6. z + MaxMsgs <= MAX_SKIPPED_KEYS
  <2> DEFINE y == (MaxEpoch + 1) * MaxMsgs
  <2>1. y \in Nat BY <1>1
  <2>2. z + MaxMsgs <= y /\ y <= MAX_SKIPPED_KEYS BY <1>2, <1>4, Zenon
  <2> HIDE DEF y
  <2> QED BY <1>1, <1>2, <2>1, <2>2, MaxSkippedAssumption
<1>7. Gap(s, t) <= MAX_SKIPPED_KEYS - c
  BY <1>1, <1>2, <1>3, <1>5, <1>6, MaxSkippedAssumption DEF Gap
<1>8. Gap(s, t) \in Int BY <1>1 DEF Gap
<1> QED BY <1>5, <1>7, <1>8, MaxSkippedAssumption DEF Overflows, Room, c

(* advance_recv_chain stores the key of every message it passes by.        *)
LEMMA AdvanceCompletes ==
  ASSUME NEW s \in States, LocalInv(s), Within(s), NEW t \in Nat, t <= MaxMsgs,
         ~Overflows(s, t), NEW a, a = advance_recv_chain(s, s.recv_epoch, t)
  PROVE  /\ Within(a) /\ a.recv_epoch = s.recv_epoch
         /\ a.recv_msg_num = IF t > s.recv_msg_num THEN t ELSE s.recv_msg_num
         /\ \A m \in Messages : Kept(s, m) => Kept(a, m)
<1> DEFINE n == Steps(s, t)
           run == SkippedRun(s, s.recv_epoch, n)
<1>1. /\ s.recv_msg_num \in Nat /\ s.recv_epoch \in Nat /\ MaxMsgs \in Nat
      /\ MaxEpoch \in Nat
  BY BoundAssumption DEF States
<1>2. /\ n \in Nat /\ Cardinality(s.skipped_keys) \in Nat
      /\ t <= s.recv_msg_num => n = 0
      /\ t > s.recv_msg_num => s.recv_msg_num + n = t
  BY StepsFacts
<1>3. /\ a.recv_epoch = s.recv_epoch /\ a.send_msg_num = s.send_msg_num
      /\ a.prev_send_count = s.prev_send_count
      /\ a.recv_msg_num = s.recv_msg_num + n
      /\ a.skipped_keys = s.skipped_keys \cup run
  BY AdvanceFrame
<1>4. IsFiniteSet(run) /\ Cardinality(run) \in Nat /\ Cardinality(run) <= n
  BY <1>1, <1>2, RunFacts, Zenon
<1>5. Cardinality(a.skipped_keys) <= Cardinality(s.skipped_keys) + n
  <2>1. IsFiniteSet(s.skipped_keys) BY Zenon DEF LocalInv
  <2>2. Cardinality(s.skipped_keys \cup run)
          = Cardinality(s.skipped_keys) + Cardinality(run)
              - Cardinality(s.skipped_keys \cap run)
    BY <2>1, <1>4, FS_Union, Zenon
  <2>3. Cardinality(s.skipped_keys \cap run) \in Nat
    BY <2>1, FS_Subset, FS_CardinalityType, Zenon
  <2> HIDE DEF n, run
  <2> QED BY <1>2, <1>3, <1>4, <2>2, <2>3
<1>6. Cardinality(a.skipped_keys) \in Nat
  <2>1. LocalInv(a) BY AdvanceFacts
  <2> QED BY <2>1, FS_CardinalityType, Zenon DEF LocalInv
<1>7. Within(a)
  <2> DEFINE z == s.recv_epoch * MaxMsgs
  <2>1. z \in Nat BY <1>1
  <2>2. Cardinality(s.skipped_keys) <= z + s.recv_msg_num /\ s.recv_msg_num <= MaxMsgs
    BY Zenon DEF Within
  <2> HIDE DEF z, n, run
  <2>3. Cardinality(a.skipped_keys) <= z + a.recv_msg_num /\ a.recv_msg_num <= MaxMsgs
    BY <1>1, <1>2, <1>3, <1>5, <1>6, <2>1, <2>2
  <2> QED BY <1>3, <2>3, Zenon DEF Within, z
<1>8. ASSUME NEW m \in Messages, Kept(s, m), Past(a, m) PROVE HasSkipped(a, m)
  <2>1. m.epoch \in Nat /\ m.msg_num \in Nat BY Zenon DEF Messages
  <2>2. CASE Past(s, m)
    BY <1>3, <1>8, <2>2, Zenon DEF Kept, HasSkipped, SkippedAt
  <2>3. CASE ~Past(s, m)
    <3>1. m.epoch = s.recv_epoch /\ m.msg_num >= s.recv_msg_num
          /\ m.msg_num < s.recv_msg_num + n
      BY <1>1, <1>2, <1>3, <1>8, <2>1, <2>3 DEF Past
    <3> DEFINE i == m.msg_num - s.recv_msg_num
               k == [slot |-> <<s.recv_epoch, s.recv_msg_num + i>>,
                     key |-> ChainStep(s.recv_chain_key, i)]
    <3>2. i \in 0 .. n - 1 /\ s.recv_msg_num + i = m.msg_num BY <1>1, <1>2, <2>1, <3>1
    <3> HIDE DEF i
    <3>3. k \in run BY <3>2, Zenon DEF SkippedRun
    <3>4. k.slot = Slot(m) BY <3>1, <3>2, Zenon DEF Slot
    <3> HIDE DEF k
    <3> QED BY <1>3, <3>3, <3>4, Zenon DEF HasSkipped, SkippedAt
  <2> QED BY <2>2, <2>3, Zenon
<1>9. a.recv_msg_num = IF t > s.recv_msg_num THEN t ELSE s.recv_msg_num
  BY <1>1, <1>2, <1>3
<1> QED BY <1>3, <1>7, <1>8, <1>9, Zenon DEF Kept

(* A state s of client p that may yet decrypt what its peer, in state r,   *)
(* has sent and the path still carries (ms).                               *)
Follows(s, r, p, ms) ==
  /\ s \in States /\ LocalInv(s) /\ r \in States
  /\ ms \in SUBSET Messages /\ \A x \in ms : Numbered(x)
  /\ Agree(s, r, p, ms) /\ Within(s) /\ Complete(r, s, Peer(p), ms)

(* What is known of a message under way to p.                              *)
LEMMA Incoming ==
  ASSUME NEW p \in Party, NEW s, NEW r, NEW ms, Follows(s, r, p, ms),
         NEW m \in ms, m.from # p
  PROVE  /\ m \in Messages /\ m.from = Peer(p) /\ Numbered(m)
         /\ m.epoch \in Nat /\ m.msg_num \in Nat /\ m.prev_count \in Nat
         /\ SentBy(r, m) /\ Readable(s, m) /\ Bounded(r, m) /\ Kept(s, m)
         /\ s.recv_epoch \in Nat /\ s.recv_msg_num \in Nat
         /\ MaxMsgs \in Nat /\ MaxEpoch \in Nat
<1>1. m \in Messages /\ s \in States /\ Numbered(m) BY Zenon DEF Follows
<1>2. m.from \in Party /\ m.epoch \in Nat /\ m.msg_num \in Nat /\ m.prev_count \in Nat
  BY <1>1, Zenon DEF Messages
<1>3. m.from = Peer(p) BY <1>2, PeerFacts, Zenon
<1>4. SentBy(r, m) /\ Readable(s, m) /\ Bounded(r, m) /\ Kept(s, m)
  BY <1>3, Zenon DEF Follows, Agree, Complete
<1>5. MaxMsgs \in Nat /\ MaxEpoch \in Nat BY BoundAssumption, Zenon
<1>6. s.recv_epoch \in Nat /\ s.recv_msg_num \in Nat BY <1>1, Zenon DEF States
<1> QED BY <1>1, <1>2, <1>3, <1>4, <1>5, <1>6, Zenon

(* apply_kem_step_recv drains exactly what the peer has sent in the epoch  *)
(* it leaves: prev_count is that number, so no message of it is lost.      *)
LEMMA KemStepCompletes ==
  ASSUME Roomy, NEW p \in Party, NEW s, NEW r, NEW ms, Follows(s, r, p, ms),
         NEW m \in ms, m.from # p, m.epoch > s.recv_epoch
  PROVE  /\ ~Overflows(s, m.prev_count)
         /\ m.kem_ct # NoCt => LET a == KemStepRecv(Drained(s, m), m)
                               IN  Within(a) /\ Complete(r, a, Peer(p), ms)
<1>1. /\ m \in Messages /\ m.epoch \in Nat /\ m.prev_count \in Nat /\ SentBy(r, m)
      /\ Bounded(r, m) /\ s.recv_epoch \in Nat /\ MaxMsgs \in Nat /\ MaxEpoch \in Nat
  BY Incoming, Zenon
<1>2. s \in States /\ LocalInv(s) /\ r \in States /\ Within(s) BY Zenon DEF Follows
<1>3. Synced(s, r) BY Zenon DEF Follows, Agree
<1>4. Ahead(r, s) /\ m.epoch = r.send_epoch BY <1>1, <1>2, <1>3, SenderAhead, Zenon
<1>5. m.epoch = s.recv_epoch + 1 /\ m.prev_count = r.prev_send_count
      /\ m.prev_count <= MaxMsgs /\ m.epoch <= MaxEpoch
  BY <1>1, <1>4, Zenon DEF Ahead, Bounded
<1>6. ~Overflows(s, m.prev_count) BY <1>1, <1>2, <1>5, NoOverflow, Zenon
<1>7. ASSUME m.kem_ct # NoCt, NEW d, d = Drained(s, m), NEW a, a = KemStepRecv(d, m)
      PROVE  Within(a) /\ Complete(r, a, Peer(p), ms)
  <2>1. /\ Within(d) /\ d.recv_epoch = s.recv_epoch
        /\ d.recv_msg_num = IF m.prev_count > s.recv_msg_num THEN m.prev_count
                                                             ELSE s.recv_msg_num
        /\ \A x \in Messages : Kept(s, x) => Kept(d, x)
    <3>1. d = advance_recv_chain(s, s.recv_epoch, m.prev_count)
      BY <1>7, Zenon DEF Drained
    <3>2. m.prev_count <= MaxMsgs /\ m.prev_count \in Nat BY <1>1, <1>5, Zenon
    <3> QED BY <1>2, <1>6, <3>1, <3>2, AdvanceCompletes
  <2>2. d \in States /\ LocalInv(d) BY <1>1, <1>2, <1>7, AdvanceFacts DEF Drained
  <2>3. a.recv_epoch = m.epoch /\ a.recv_msg_num = 0 /\ a.skipped_keys = d.skipped_keys
        /\ a.send_msg_num = d.send_msg_num /\ a.prev_send_count = d.prev_send_count
    BY <1>7, <2>2, Zenon DEF KemStepRecv, States
  <2>4. d.recv_msg_num \in Nat /\ s.recv_msg_num \in Nat /\ r.prev_send_count \in Nat
        /\ r.send_msg_num \in Nat
    BY <1>2, <2>2, Zenon DEF States
  <2>5. Within(a)
    <3> DEFINE z == s.recv_epoch * MaxMsgs
               k == Cardinality(d.skipped_keys)
    <3>1. z \in Nat BY <1>1
    <3>2. k \in Nat BY <2>2, FS_CardinalityType, Zenon DEF LocalInv
    <3>3. k <= z + d.recv_msg_num /\ d.recv_msg_num <= MaxMsgs BY <2>1, Zenon DEF Within
    <3>4. m.epoch * MaxMsgs = z + MaxMsgs BY <1>1, <1>5, Products, 0 <= 0
    <3> HIDE DEF z, k
    <3>5. k <= m.epoch * MaxMsgs + 0 /\ 0 <= MaxMsgs
      BY <1>1, <2>4, <3>1, <3>2, <3>3, <3>4
    <3> QED BY <1>5, <2>1, <2>3, <3>5, Zenon DEF Within, k
  <2>6. Behind(a, r) BY <2>3, <2>4 DEF Behind
  <2>7. ASSUME NEW x \in ms, x.from = Peer(p) PROVE Bounded(r, x) /\ Kept(a, x)
    <3>1. /\ x \in Messages /\ x.epoch \in Nat /\ x.msg_num \in Nat /\ Bounded(r, x)
          /\ Kept(s, x)
      BY <2>7, Incoming, PeerFacts, Zenon
    <3>2. Kept(d, x) BY <2>1, <3>1, Zenon
    <3>3. ASSUME Past(a, x) PROVE Past(d, x)
      <4>1. x.epoch <= s.recv_epoch BY <1>1, <1>5, <2>3, <3>1, <3>3 DEF Past
      <4>2. CASE x.epoch < s.recv_epoch BY <2>1, <4>2, Zenon DEF Past
      <4>3. CASE x.epoch = s.recv_epoch
        <5>1. x.msg_num < m.prev_count BY <1>4, <1>5, <3>1, <4>3, Zenon DEF Bounded
        <5>2. x.msg_num < d.recv_msg_num BY <1>1, <2>1, <2>4, <3>1, <5>1
        <5> QED BY <2>1, <4>3, <5>2, Zenon DEF Past
      <4> QED BY <1>1, <3>1, <4>1, <4>2, <4>3
    <3> QED BY <2>3, <3>1, <3>2, <3>3, Zenon DEF Kept, HasSkipped, SkippedAt
  <2> QED BY <2>5, <2>6, <2>7, Zenon DEF Complete
<1> QED BY <1>6, <1>7, Zenon

(* decrypt() reaches the position of a message it has no skipped key for.  *)
LEMMA AtMessageCompletes ==
  ASSUME Roomy, NEW p \in Party, NEW s, NEW r, NEW ms, Follows(s, r, p, ms),
         NEW m \in ms, m.from # p, ReachesChain(s, m), NEW a, a = AtMessage(s, m)
  PROVE  /\ TakesChain(s, m)
         /\ Within(a) /\ Complete(r, a, Peer(p), ms)
         /\ a.recv_epoch = m.epoch /\ a.recv_msg_num = m.msg_num
<1> SUFFICES ASSUME NEW b, b = AtEpoch(s, m)
             PROVE  /\ ~Overflows(b, m.msg_num)
                    /\ Within(a) /\ Complete(r, a, Peer(p), ms)
                    /\ a.recv_epoch = m.epoch /\ a.recv_msg_num = m.msg_num
  BY Zenon DEF TakesChain
<1>1. /\ m \in Messages /\ m.epoch \in Nat /\ m.msg_num \in Nat /\ SentBy(r, m)
      /\ Bounded(r, m) /\ m.from = Peer(p) /\ s.recv_epoch \in Nat /\ MaxMsgs \in Nat
  BY Incoming, Zenon
<1>2. s \in States /\ LocalInv(s) /\ r \in States /\ Within(s)
      /\ Complete(r, s, Peer(p), ms)
  BY Zenon DEF Follows
<1>3. b \in States /\ LocalInv(b) /\ b.recv_epoch = m.epoch /\ SkippedAt(b, m) = {}
  BY <1>1, <1>2, AtEpochFacts
<1>4. Within(b) /\ Complete(r, b, Peer(p), ms)
  <2>1. CASE m.epoch > s.recv_epoch
    <3>1. m.kem_ct # NoCt BY <2>1, Zenon DEF ReachesChain, LacksKemCt
    <3>2. b = KemStepRecv(Drained(s, m), m) BY <2>1, Zenon DEF AtEpoch
    <3> QED BY <2>1, <3>1, <3>2, KemStepCompletes, Zenon
  <2>2. CASE ~(m.epoch > s.recv_epoch) BY <1>2, <2>2, Zenon DEF AtEpoch
  <2> QED BY <2>1, <2>2, Zenon
<1>5. m.msg_num < MaxMsgs /\ m.msg_num <= MaxMsgs BY <1>1 DEF Bounded
<1>6. ~Overflows(b, m.msg_num) BY <1>1, <1>3, <1>4, <1>5, NoOverflow, Zenon
<1>7. /\ Within(a) /\ a.recv_epoch = m.epoch
      /\ a.recv_msg_num = IF m.msg_num > b.recv_msg_num THEN m.msg_num
                                                        ELSE b.recv_msg_num
      /\ \A x \in Messages : Kept(b, x) => Kept(a, x)
  <2>1. a = advance_recv_chain(b, b.recv_epoch, m.msg_num)
    BY <1>3, Zenon DEF AtMessage
  <2> QED BY <1>1, <1>3, <1>4, <1>5, <1>6, <2>1, AdvanceCompletes
<1>8. Kept(b, m) BY <1>1, <1>4, Zenon DEF Complete
<1>9. b.recv_msg_num \in Nat /\ r.send_msg_num \in Nat BY <1>2, <1>3, Zenon DEF States
<1>10. ~(m.msg_num < b.recv_msg_num) BY <1>3, <1>8, Zenon DEF Kept, Past, HasSkipped
<1>11. a.recv_msg_num = m.msg_num BY <1>1, <1>7, <1>9, <1>10
<1>12. Behind(a, r)
  <2>1. r.send_epoch = m.epoch => m.msg_num < r.send_msg_num BY <1>1, Zenon DEF SentBy
  <2> QED BY <1>1, <1>7, <1>9, <1>11, <2>1 DEF Behind
<1>13. Complete(r, a, Peer(p), ms)
  <2>1. \A x \in ms : x \in Messages BY Zenon DEF Follows
  <2> QED BY <1>4, <1>7, <1>12, <2>1, Zenon DEF Complete
<1> QED BY <1>6, <1>7, <1>11, <1>13, Zenon

(* Taking the chain key of m, or its skipped key, forgets m and no other   *)
(* message.                                                                *)
LEMMA ConsumeCompletes ==
  ASSUME NEW a \in States, LocalInv(a), Within(a), NEW r \in States, NEW q,
         NEW ms \in SUBSET Messages, Complete(r, a, q, ms), Distinct(ms),
         NEW m \in ms, m.from = q, a.recv_epoch = m.epoch, a.recv_msg_num = m.msg_num,
         SentBy(r, m), NEW c, c = ConsumeChainKey(a)
  PROVE  Within(c) /\ Complete(r, c, q, ms \ {m})
<1>1. /\ c.recv_epoch = a.recv_epoch /\ c.recv_msg_num = a.recv_msg_num + 1
      /\ c.skipped_keys = a.skipped_keys
      /\ c.send_msg_num = a.send_msg_num /\ c.prev_send_count = a.prev_send_count
  BY Zenon DEF ConsumeChainKey, States
<1>2. m.epoch \in Nat /\ m.msg_num \in Nat /\ r.send_msg_num \in Nat
  BY Zenon DEF Messages, States
<1>3. Bounded(r, m) /\ MaxMsgs \in Nat BY BoundAssumption, Zenon DEF Complete
<1>4. Within(c)
  <2> DEFINE z == a.recv_epoch * MaxMsgs
             k == Cardinality(a.skipped_keys)
  <2>1. z \in Nat BY <1>2, <1>3
  <2>2. k \in Nat BY FS_CardinalityType, Zenon DEF LocalInv
  <2>3. k <= z + a.recv_msg_num BY Zenon DEF Within
  <2>4. m.msg_num < MaxMsgs BY <1>3, Zenon DEF Bounded
  <2> HIDE DEF z, k
  <2>5. k <= z + (a.recv_msg_num + 1) /\ a.recv_msg_num + 1 <= MaxMsgs
    BY <1>2, <1>3, <2>1, <2>2, <2>3, <2>4
  <2> QED BY <1>1, <2>5, Zenon DEF Within, z, k
<1>5. Behind(c, r)
  <2>1. r.send_epoch = m.epoch => m.msg_num < r.send_msg_num BY Zenon DEF SentBy
  <2> QED BY <1>1, <1>2, <2>1 DEF Behind
<1>6. ASSUME NEW x \in ms \ {m}, x.from = q PROVE Bounded(r, x) /\ Kept(c, x)
  <2>1. x \in ms /\ Bounded(r, x) /\ Kept(a, x) BY <1>6, Zenon DEF Complete
  <2>2. x.epoch \in Nat /\ x.msg_num \in Nat BY <2>1, Zenon DEF Messages
  <2>3. Slot(x) # Slot(m) BY <1>6, Zenon DEF Distinct
  <2>4. ASSUME Past(c, x) PROVE Past(a, x)
    <3>1. ~(x.epoch = m.epoch /\ x.msg_num = m.msg_num) BY <2>3, Zenon DEF Slot
    <3> QED BY <1>1, <1>2, <2>2, <2>4, <3>1 DEF Past
  <2> QED BY <1>1, <2>1, <2>4, Zenon DEF Kept, HasSkipped, SkippedAt
<1> QED BY <1>4, <1>5, <1>6, Zenon DEF Complete

LEMMA EraseCompletes ==
  ASSUME NEW s \in States, LocalInv(s), Within(s), NEW r, NEW q,
         NEW ms, Complete(r, s, q, ms), Distinct(ms),
         NEW m \in ms, m.from = q, NEW c, c = EraseSkipped(s, m)
  PROVE  Within(c) /\ Complete(r, c, q, ms \ {m})
<1>1. /\ c.recv_epoch = s.recv_epoch /\ c.recv_msg_num = s.recv_msg_num
      /\ c.skipped_keys = s.skipped_keys \ SkippedAt(s, m)
      /\ c.send_msg_num = s.send_msg_num /\ c.prev_send_count = s.prev_send_count
  BY Zenon DEF EraseSkipped, States
<1>2. Within(c)
  <2> DEFINE z == s.recv_epoch * MaxMsgs + s.recv_msg_num
             k == Cardinality(s.skipped_keys)
             j == Cardinality(c.skipped_keys)
  <2>1. z \in Nat BY BoundAssumption DEF States
  <2>2. IsFiniteSet(s.skipped_keys) /\ c.skipped_keys \subseteq s.skipped_keys
    BY <1>1, Zenon DEF LocalInv
  <2>3. k \in Nat /\ j \in Nat /\ j <= k BY <2>2, FS_Subset, FS_CardinalityType, Zenon
  <2>4. k <= z BY Zenon DEF Within
  <2> HIDE DEF z, k, j
  <2>5. j <= z BY <2>1, <2>3, <2>4
  <2> QED BY <1>1, <2>5, Zenon DEF Within, z, j
<1>3. Behind(c, r) BY <1>1, Zenon DEF Complete, Behind
<1>4. ASSUME NEW x \in ms \ {m}, x.from = q PROVE Bounded(r, x) /\ Kept(c, x)
  <2>1. x \in ms /\ Bounded(r, x) /\ Kept(s, x) BY <1>4, Zenon DEF Complete
  <2>2. Slot(x) # Slot(m) BY <1>4, Zenon DEF Distinct
  <2>3. SkippedAt(s, x) \subseteq SkippedAt(c, x) BY <1>1, <2>2, Zenon DEF SkippedAt
  <2> QED BY <1>1, <2>1, <2>3, Zenon DEF Kept, Past, HasSkipped
<1> QED BY <1>2, <1>3, <1>4, Zenon DEF Complete

(* The counters that encrypt() sets beside those of EncryptFrame.          *)
LEMMA EncryptCounters ==
  ASSUME NEW s \in States, NEW kem, NEW p
  PROVE  LET e == encrypt_state(s, kem, kem)
             m == encrypt_message(s, p, kem, kem)
         IN  /\ e.recv_msg_num = s.recv_msg_num /\ m.prev_count = e.prev_send_count
             /\ ~s.need_kem_step => e.prev_send_count = s.prev_send_count
             /\ s.need_kem_step => e.prev_send_count = s.send_msg_num
<1>1. CASE s.need_kem_step
  <2> DEFINE q == KemStepSend(s, kem, kem)
  <2>1. /\ q.recv_msg_num = s.recv_msg_num /\ q.prev_send_count = s.send_msg_num
    BY Zenon DEF KemStepSend, States
  <2>2. encrypt_state(s, kem, kem) = [q EXCEPT !.send_chain_key = ChainStep(@, 1),
                                               !.send_msg_num = @ + 1]
    BY <1>1, Zenon DEF encrypt_state, ReadyToSend
  <2>3. encrypt_message(s, p, kem, kem).prev_count = q.prev_send_count
    BY <1>1, Zenon DEF encrypt_message, ReadyToSend
  <2> HIDE DEF q
  <2> QED BY <1>1, <2>1, <2>2, <2>3
<1>2. CASE ~s.need_kem_step
  BY <1>2, Zenon DEF encrypt_state, encrypt_message, ReadyToSend, States
<1> QED BY <1>1, <1>2, Zenon

(* encrypt() sends a message that no receiver has passed by, under a       *)
(* number of its own, and its KEM step records the length of the epoch it  *)
(* ends.                                                                   *)
LEMMA EncryptCompletes ==
  ASSUME NEW s \in States, Within(s), NEW r \in States, NEW p \in Party,
         NEW ms \in SUBSET Messages, Agree(s, r, p, ms), Complete(s, r, p, ms),
         Distinct(ms), NEW kem \in KemId, NEW e \in States, e = encrypt_state(s, kem, kem),
         NEW m \in Messages, m = encrypt_message(s, p, kem, kem),
         e.send_epoch <= MaxEpoch, e.send_msg_num <= MaxMsgs
  PROVE  /\ Within(e) /\ Distinct(ms \cup {m}) /\ Complete(e, r, p, ms \cup {m})
         /\ e.recv_epoch = s.recv_epoch /\ e.recv_msg_num = s.recv_msg_num
         /\ e.skipped_keys = s.skipped_keys /\ m.from = p
<1>1. /\ e.recv_epoch = s.recv_epoch /\ e.skipped_keys = s.skipped_keys
      /\ m.from = p /\ m.epoch = e.send_epoch /\ e.send_msg_num = m.msg_num + 1
  BY EncryptFrame
<1>2. ~s.need_kem_step => e.send_epoch = s.send_epoch /\ m.msg_num = s.send_msg_num
  BY EncryptFrame
<1>3. s.need_kem_step => e.send_epoch = s.send_epoch + 1
  BY EncryptFrame
<1>4. /\ e.recv_msg_num = s.recv_msg_num /\ m.prev_count = e.prev_send_count
      /\ ~s.need_kem_step => e.prev_send_count = s.prev_send_count
      /\ s.need_kem_step => e.prev_send_count = s.send_msg_num
  BY EncryptCounters
<1>5. /\ s.send_epoch \in Nat /\ s.send_msg_num \in Nat /\ m.msg_num \in Nat
      /\ r.recv_epoch \in Nat /\ r.recv_msg_num \in Nat
      /\ MaxMsgs \in Nat /\ MaxEpoch \in Nat
  BY BoundAssumption, Zenon DEF States, Messages
<1>6. Within(e) BY <1>1, <1>4, Zenon DEF Within
<1>7. s.need_kem_step => s.send_epoch = r.recv_epoch
  BY Zenon DEF Agree, Synced, Owes, Ahead
<1>8. s.send_epoch = r.recv_epoch \/ s.send_epoch = r.recv_epoch + 1
  BY Zenon DEF Agree, Synced, Owes, Ahead
<1>9. Behind(r, s) BY Zenon DEF Complete
<1>10. Behind(r, e)
  <2>1. CASE s.need_kem_step BY <1>3, <1>5, <1>7, <2>1 DEF Behind
  <2>2. CASE ~s.need_kem_step BY <1>1, <1>2, <1>5, <1>9, <2>2 DEF Behind
  <2> QED BY <2>1, <2>2, Zenon
<1>11. ~Past(r, m)
  <2>1. CASE s.need_kem_step BY <1>1, <1>3, <1>5, <1>7, <2>1 DEF Past
  <2>2. CASE ~s.need_kem_step BY <1>1, <1>2, <1>5, <1>8, <1>9, <2>2 DEF Past, Behind
  <2> QED BY <2>1, <2>2, Zenon
<1>12. Bounded(e, m)
  <2>1. e.prev_send_count <= MaxMsgs BY <1>6, Zenon DEF Within
  <2>2. m.msg_num < MaxMsgs BY <1>1, <1>5
  <2>3. m.epoch + 1 # e.send_epoch
    <3>1. m.epoch \in Nat BY Zenon DEF Messages
    <3> QED BY <1>1, <3>1
  <2> QED BY <1>1, <1>4, <2>1, <2>2, <2>3, Zenon DEF Bounded
<1>13. ASSUME NEW x \in ms, x.from = p
       PROVE  Bounded(e, x) /\ Kept(r, x) /\ Slot(x) # Slot(m)
  <2>1. Bounded(s, x) /\ Kept(r, x) /\ SentBy(s, x)
    BY <1>13, Zenon DEF Complete, Agree
  <2>2. x.epoch \in Nat /\ x.msg_num \in Nat BY Zenon DEF Messages
  <2>3. x.epoch <= s.send_epoch /\ (x.epoch = s.send_epoch => x.msg_num < s.send_msg_num)
    BY <2>1, Zenon DEF SentBy
  <2>4. ~(x.epoch = m.epoch /\ x.msg_num = m.msg_num)
    BY <1>1, <1>2, <1>3, <1>5, <2>2, <2>3
  <2>5. CASE s.need_kem_step
    <3>1. x.epoch # e.send_epoch /\ (x.epoch + 1 = e.send_epoch => x.epoch = s.send_epoch)
      BY <1>3, <1>5, <2>2, <2>3, <2>5
    <3>2. x.epoch + 1 = e.send_epoch => x.msg_num < e.prev_send_count
      BY <1>4, <2>3, <2>5, <3>1, Zenon
    <3> QED BY <2>1, <2>4, <3>1, <3>2, Zenon DEF Bounded, Slot
  <2>6. CASE ~s.need_kem_step BY <1>2, <1>4, <2>1, <2>4, <2>6, Zenon DEF Bounded, Slot
  <2> QED BY <2>5, <2>6, Zenon
<1>14. Distinct(ms \cup {m}) BY <1>1, <1>13, Zenon DEF Distinct
<1>15. Complete(e, r, p, ms \cup {m}) BY <1>10, <1>11, <1>12, <1>13, Zenon DEF Complete, Kept
<1> QED BY <1>1, <1>4, <1>6, <1>14, <1>15, Zenon

(* A step of client p that leaves it in the state c.                       *)
LEMMA PartyCompletes ==
  ASSUME TypeOK, CompleteInv, NEW p \in Party, NEW c, cache' = [cache EXCEPT ![p] = c],
         Distinct(net'), Within(c),
         Complete(c, cache[Peer(p)], p, net'), Complete(cache[Peer(p)], c, Peer(p), net')
  PROVE  CompleteInv'
<1>1. cache'[p] = c /\ cache'[Peer(p)] = cache[Peer(p)]
  BY PeerFacts, Zenon DEF TypeOK
<1>2. Within(cache[Peer(p)]) BY PeerFacts, Zenon DEF CompleteInv
<1>3. ASSUME NEW q \in Party
      PROVE  Within(cache'[q]) /\ Complete(cache'[q], cache'[Peer(q)], q, net')
  <2>1. q = p \/ (q = Peer(p) /\ Peer(q) = p) BY PeerFacts, Zenon
  <2> QED BY <1>1, <1>2, <2>1, Zenon
<1> QED BY <1>3, Zenon DEF CompleteInv

(* Losing messages keeps the rest.                                         *)
LEMMA CompleteFewer ==
  ASSUME NEW s, NEW r, NEW p, NEW ms, NEW ns \in SUBSET ms
  PROVE  /\ Complete(s, r, p, ms) => Complete(s, r, p, ns)
         /\ Distinct(ms) => Distinct(ns)
BY Zenon DEF Complete, Distinct

(* The first states, and every step.                                       *)
LEMMA InitCompletes == Init => CompleteInv
<1> SUFFICES ASSUME Init PROVE CompleteInv OBVIOUS
<1>1. ASSUME NEW p \in Party
      PROVE  /\ cache[p].send_msg_num = 0 /\ cache[p].prev_send_count = 0
             /\ cache[p].recv_epoch = 0 /\ cache[p].recv_msg_num = 0
             /\ cache[p].skipped_keys = {}
  BY Zenon DEF Init, InitialStates, init_as_sender, init_as_receiver, FreshState
<1>2. MaxMsgs \in Nat /\ MaxEpoch \in Nat BY BoundAssumption, Zenon
<1>3. Cardinality({}) = 0 BY FS_EmptySet, Zenon
<1>4. 0 <= MaxMsgs /\ 0 <= MaxEpoch /\ 0 <= 0 * MaxMsgs + 0 /\ 0 <= 0 BY <1>2
<1>5. \A p \in Party : Within(cache[p]) BY <1>1, <1>3, <1>4, Zenon DEF Within
<1>6. net = {} BY Zenon DEF Init
<1>7. \A p \in Party : Behind(cache[Peer(p)], cache[p])
  BY <1>1, <1>4, PeerFacts, Zenon DEF Behind
<1> QED BY <1>5, <1>6, <1>7, Zenon DEF CompleteInv, Complete, Distinct

(* The invariants, said of one client and its peer.                        *)
LEMMA PairFacts ==
  ASSUME IInv, AgreeInv, CompleteInv, NEW p \in Party
  PROVE  /\ Follows(cache[p], cache[Peer(p)], p, net) /\ Distinct(net)
         /\ Complete(cache[p], cache[Peer(p)], p, net)
<1>1. cache[p] \in States /\ LocalInv(cache[p]) /\ cache[Peer(p)] \in States
      /\ Agree(cache[p], cache[Peer(p)], p, net)
      /\ net \in SUBSET Messages /\ \A m \in net : Numbered(m)
  BY CopyFacts, Zenon DEF Copies
<1>2. /\ Within(cache[p]) /\ Complete(cache[p], cache[Peer(p)], p, net) /\ Distinct(net)
      /\ Complete(cache[Peer(p)], cache[p], Peer(p), net)
  BY PeerFacts, Zenon DEF CompleteInv
<1> QED BY <1>1, <1>2, Zenon DEF Follows

(* A delivery of m to p that leaves it in the state c.                     *)
LEMMA ReceiptCompletes ==
  ASSUME IInv, AgreeInv, CompleteInv, NEW p \in Party, NEW m, net' = net \ {m},
         NEW c, cache' = [cache EXCEPT ![p] = c],
         c.send_epoch = cache[p].send_epoch, c.send_msg_num = cache[p].send_msg_num,
         c.prev_send_count = cache[p].prev_send_count,
         Within(c), Complete(cache[Peer(p)], c, Peer(p), net \ {m})
  PROVE  CompleteInv'
<1>1. Distinct(net) /\ Complete(cache[p], cache[Peer(p)], p, net) BY PairFacts, Zenon
<1>2. Complete(c, cache[Peer(p)], p, net) BY <1>1, Zenon DEF Complete, Behind, Bounded
<1>3. Distinct(net') /\ Complete(c, cache[Peer(p)], p, net') BY <1>1, <1>2, CompleteFewer, Zenon
<1> QED BY <1>3, PartyCompletes, Zenon DEF IInv

(* Receiving leaves the counters of the sending side alone.                *)
LEMMA ChainFrame ==
  ASSUME NEW s \in States, LocalInv(s), NEW m \in Messages, ReachesChain(s, m),
         NEW c, c = ConsumeChainKey(AtMessage(s, m))
  PROVE  /\ c.send_epoch = s.send_epoch /\ c.send_msg_num = s.send_msg_num
         /\ c.prev_send_count = s.prev_send_count
<1> DEFINE b == AtEpoch(s, m)
           a == AtMessage(s, m)
           d == Drained(s, m)
<1>1. m.prev_count \in Nat BY Zenon DEF Messages
<1>2. d \in States BY <1>1, AdvanceFacts DEF Drained
<1>3. /\ d.send_epoch = s.send_epoch /\ d.send_msg_num = s.send_msg_num
      /\ d.prev_send_count = s.prev_send_count
  BY AdvanceFrame DEF Drained
<1>4. b = KemStepRecv(d, m) \/ b = s BY Zenon DEF AtEpoch
<1> HIDE DEF d
<1>5. /\ b.send_epoch = s.send_epoch /\ b.send_msg_num = s.send_msg_num
      /\ b.prev_send_count = s.prev_send_count
  <2> HIDE DEF b
  <2>1. CASE b = KemStepRecv(d, m) BY <1>2, <1>3, <2>1, Zenon DEF KemStepRecv, States
  <2> QED BY <1>4, <2>1, Zenon
<1>6. b \in States BY AtEpochFacts
<1>7. /\ a.send_epoch = b.send_epoch /\ a.send_msg_num = b.send_msg_num
      /\ a.prev_send_count = b.prev_send_count
  BY <1>6, AdvanceFrame DEF AtMessage
<1>8. a \in States BY ChainFacts
<1> HIDE DEF a, b
<1>9. c = ConsumeChainKey(a) BY Zenon DEF a
<1>10. /\ c.send_epoch = a.send_epoch /\ c.send_msg_num = a.send_msg_num
       /\ c.prev_send_count = a.prev_send_count
  BY <1>8, <1>9, Zenon DEF ConsumeChainKey, States
<1> QED BY <1>5, <1>7, <1>10, Zenon

LEMMA NextCompletes ==
  ASSUME Roomy, IInv, AgreeInv, CompleteInv, IInv', Next
  PROVE  CompleteInv'
<1>1. ASSUME NEW p \in Party, encrypt(p) PROVE CompleteInv'
  <2> DEFINE kem == Kem(p, rnd[p])
  <2> SUFFICES ASSUME NEW s, s = cache[p], NEW r, r = cache[Peer(p)],
                      NEW e, e = encrypt_state(s, kem, kem),
                      NEW m, m = encrypt_message(s, p, kem, kem)
               PROVE  CompleteInv'
    BY Zenon
  <2>1. /\ e.send_epoch <= MaxEpoch /\ e.send_msg_num <= MaxMsgs
        /\ cache' = [cache EXCEPT ![p] = e] /\ net' = net \cup {m}
    BY <1>1, Zenon DEF encrypt
  <2>2. Follows(s, r, p, net) /\ Distinct(net) /\ Complete(s, r, p, net)
    BY PairFacts, Zenon
  <2>3. kem \in KemId BY Zenon DEF Kem, KemId, IInv, TypeOK
  <2> HIDE DEF kem
  <2>4. e \in States /\ m \in Messages
    <3>1. s \in States /\ LocalInv(s) BY <2>2, Zenon DEF Follows
    <3> QED BY <2>3, <3>1, EncryptFacts
  <2>5. /\ Within(e) /\ Distinct(net') /\ Complete(e, r, p, net')
        /\ e.recv_epoch = s.recv_epoch /\ e.recv_msg_num = s.recv_msg_num
        /\ e.skipped_keys = s.skipped_keys /\ m.from = p
    <3>1. /\ s \in States /\ Within(s) /\ r \in States /\ net \in SUBSET Messages
          /\ Agree(s, r, p, net)
      BY <2>2, Zenon DEF Follows
    <3> QED BY <2>1, <2>2, <2>3, <2>4, <3>1, EncryptCompletes, SMTT(20)
  <2>6. Complete(r, s, Peer(p), net) BY <2>2, Zenon DEF Follows
  <2>7. Complete(r, e, Peer(p), net')
    <3>1. Behind(e, r) BY <2>5, <2>6, Zenon DEF Complete, Behind
    <3>2. ASSUME NEW x \in net', x.from = Peer(p) PROVE Bounded(r, x) /\ Kept(e, x)
      <4>1. x \in net BY <2>1, <2>5, <3>2, PeerFacts
      <4>2. Bounded(r, x) /\ Kept(s, x) BY <2>6, <3>2, <4>1, Zenon DEF Complete
      <4> QED BY <2>5, <4>2, Zenon DEF Kept, Past, HasSkipped, SkippedAt
    <3> QED BY <3>1, <3>2, Zenon DEF Complete
  <2> QED BY <2>1, <2>5, <2>7, PartyCompletes, Zenon DEF IInv
<1>2. ASSUME NEW p \in Party, Restart(p) PROVE FALSE
  <2>1. restarts \in 0 .. MaxRestarts /\ MaxRestarts = 0 /\ restarts < MaxRestarts
    BY <1>2, Zenon DEF IInv, TypeOK, Restart, Roomy
  <2> QED BY <2>1
<1>3. ASSUME NEW m \in net, Lose(m) PROVE CompleteInv'
  <2>1. cache' = cache /\ net' \in SUBSET net BY <1>3, Zenon DEF Lose
  <2> QED BY <2>1, CompleteFewer, Zenon DEF CompleteInv
<1>4. ASSUME NEW p \in Party, NEW m \in net,
             \/ DecryptSkipped(p, m) \/ DecryptNext(p, m)
             \/ RejectUnreadable(p, m) \/ RejectOverflow(p, m)
      PROVE  CompleteInv'
  <2> SUFFICES ASSUME NEW s, s = cache[p], NEW r, r = cache[Peer(p)] PROVE CompleteInv'
    BY Zenon
  <2>1. Arrives(p, m)
    BY <1>4, Zenon DEF DecryptSkipped, DecryptNext, RejectUnreadable, RejectOverflow
  <2>2. net' = net \ {m} /\ m.from # p
    <3>1. dups \in 0 .. MaxDups /\ MaxDups = 0 BY Zenon DEF IInv, TypeOK, Roomy
    <3>2. ~(dups < MaxDups) BY <3>1
    <3> QED BY <2>1, <3>2, Zenon DEF Arrives
  <2>3. Follows(s, r, p, net) /\ Distinct(net) BY PairFacts, Zenon
  <2>4. /\ s \in States /\ LocalInv(s) /\ Within(s) /\ Complete(r, s, Peer(p), net)
        /\ r \in States /\ net \in SUBSET Messages
    BY <2>3, Zenon DEF Follows
  <2>5. m \in Messages /\ m.from = Peer(p) /\ SentBy(r, m)
    BY <2>2, <2>3, Incoming, Zenon
  <2>6. CASE DecryptSkipped(p, m)
    <3> SUFFICES ASSUME NEW c, c = EraseSkipped(s, m) PROVE CompleteInv'
      BY Zenon
    <3>1. cache' = [cache EXCEPT ![p] = c]
      BY <2>6, Zenon DEF DecryptSkipped, Accept, Reject
    <3>2. Within(c) /\ Complete(r, c, Peer(p), net \ {m})
      BY <2>3, <2>4, <2>5, EraseCompletes, Zenon
    <3>3. /\ c.send_epoch = s.send_epoch /\ c.send_msg_num = s.send_msg_num
          /\ c.prev_send_count = s.prev_send_count
      BY <2>4, Zenon DEF EraseSkipped, States
    <3> QED BY <2>2, <3>1, <3>2, <3>3, ReceiptCompletes, Zenon
  <2>7. CASE DecryptNext(p, m)
    <3> SUFFICES ASSUME NEW a, a = AtMessage(s, m), NEW c, c = ConsumeChainKey(a)
                 PROVE  CompleteInv'
      BY Zenon
    <3>1. cache' = [cache EXCEPT ![p] = c]
      BY <2>7, Zenon DEF DecryptNext, Accept, Reject
    <3>2. ReachesChain(s, m) BY <2>7, Zenon DEF DecryptNext, TakesChain
    <3>3. a \in States /\ LocalInv(a) BY <2>4, <2>5, <3>2, ChainFacts
    <3>4. /\ Within(a) /\ Complete(r, a, Peer(p), net)
          /\ a.recv_epoch = m.epoch /\ a.recv_msg_num = m.msg_num
      BY <2>2, <2>3, <3>2, AtMessageCompletes
    <3>5. Within(c) /\ Complete(r, c, Peer(p), net \ {m})
      BY <2>3, <2>4, <2>5, <3>3, <3>4, ConsumeCompletes, Zenon
    <3>6. /\ c.send_epoch = s.send_epoch /\ c.send_msg_num = s.send_msg_num
          /\ c.prev_send_count = s.prev_send_count
      BY <2>4, <2>5, <3>2, ChainFrame
    <3> QED BY <2>2, <3>1, <3>5, <3>6, ReceiptCompletes, Zenon
  <2>8. CASE RejectUnreadable(p, m)
    <3>1. cache' = [cache EXCEPT ![p] = s] BY <2>8, Zenon DEF RejectUnreadable, Reject
    <3>2. net \ {m} \in SUBSET net BY Zenon
    <3>3. Complete(r, s, Peer(p), net \ {m}) BY <2>4, <3>2, CompleteFewer, Zenon
    <3> QED BY <2>2, <2>4, <3>1, <3>3, ReceiptCompletes, Zenon
  <2>9. CASE RejectOverflow(p, m)
    <3>1. ~DrainOverflows(s, m) BY <2>2, <2>3, KemStepCompletes, Zenon DEF DrainOverflows
    <3>2. ~GapOverflows(s, m)
      BY <2>2, <2>3, AtMessageCompletes, Zenon DEF GapOverflows, TakesChain
    <3> QED BY <2>9, <3>1, <3>2, Zenon DEF RejectOverflow
  <2> QED BY <1>4, <2>6, <2>7, <2>8, <2>9, Zenon
<1> QED BY <1>1, <1>2, <1>3, <1>4, Zenon DEF Next

(* The invariants give the property: a message behind the receive position *)
(* has its key in the cache, any other has the key that the chain arrives  *)
(* at.                                                                     *)
LEMMA CompleteReadable ==
  ASSUME Roomy, IInv, AgreeInv, CompleteInv
  PROVE  NothingForgotten
<1> SUFFICES ASSUME NEW p \in Party, NEW m \in net, m.from # p, NEW s, s = cache[p],
                    NEW r, r = cache[Peer(p)], ~LacksKemCt(s, m)
             PROVE  Decrypts(s, m)
  BY Zenon DEF NothingForgotten
<1>1. Follows(s, r, p, net) BY PairFacts, Zenon
<1>2. /\ m \in Messages /\ Numbered(m) /\ m.epoch \in Nat /\ s.recv_epoch \in Nat
      /\ Readable(s, m) /\ Kept(s, m)
  BY <1>1, Incoming
<1>3. CASE HasSkipped(s, m) BY <1>2, <1>3, Zenon DEF HasSkipped, Readable, Decrypts
<1>4. CASE ~HasSkipped(s, m)
  <2>1. m.epoch >= s.recv_epoch
    <3>1. ~(m.epoch < s.recv_epoch) BY <1>2, <1>4, Zenon DEF Kept, Past
    <3> QED BY <1>2, <3>1
  <2>2. ~DrainOverflows(s, m) BY <1>1, KemStepCompletes, Zenon DEF DrainOverflows
  <2>3. ReachesChain(s, m) BY <1>4, <2>1, <2>2, Zenon DEF ReachesChain
  <2> SUFFICES ASSUME NEW a, a = AtMessage(s, m) PROVE Decrypts(s, m)
    BY Zenon
  <2>4. TakesChain(s, m) /\ a.recv_epoch = m.epoch /\ a.recv_msg_num = m.msg_num
    BY <1>1, <2>3, AtMessageCompletes
  <2>5. /\ s \in States /\ LocalInv(s) /\ r \in States /\ net \in SUBSET Messages
        /\ (\A x \in net : Numbered(x)) /\ Agree(s, r, p, net)
    BY <1>1, Zenon DEF Follows
  <2>6. a \in States /\ LocalInv(a) BY <1>2, <2>3, <2>5, ChainFacts
  <2>7. Agree(a, r, p, net) BY <2>3, <2>5, AtMessageAgrees, Zenon
  <2>8. SameChain(m.key, a.recv_chain_key) BY <2>4, <2>7, Zenon DEF Agree, Readable
  <2>9. m.key.pos = a.recv_chain_key.pos BY <1>2, <2>4, <2>6, Zenon DEF Numbered, LocalInv
  <2>10. m.key \in Chain /\ a.recv_chain_key \in Chain
    BY <1>2, <2>6, Zenon DEF Messages, States
  <2>11. m.key = a.recv_chain_key BY <2>8, <2>9, <2>10, SameKey, Zenon
  <2> QED BY <2>4, <2>11, Zenon DEF Decrypts
<1> QED BY <1>3, <1>4, Zenon

(* A path that only loses and reorders makes decrypt() forget nothing:     *)
(* with room in the cache, no restart and no repeat, every message under   *)
(* way can still be decrypted, in any order, save one that waits for the   *)
(* message with its epoch's kem_ct (advance_recv_chain,                    *)
(* apply_kem_step_recv).  Each of the three assumptions is needed: a full  *)
(* cache throws, a restart empties the cache, a repeat finds its key gone. *)
THEOREM UnderWayReadable ==
  ASSUME Roomy
  PROVE  Spec => []NothingForgotten
<1>1. Init => CompleteInv BY InitCompletes
<1>2. IInv /\ AgreeInv /\ CompleteInv /\ IInv' /\ [Next]_vars => CompleteInv'
  <2> SUFFICES ASSUME IInv, AgreeInv, CompleteInv, IInv', [Next]_vars PROVE CompleteInv'
    OBVIOUS
  <2>1. CASE Next BY <2>1, NextCompletes, Zenon
  <2>2. CASE UNCHANGED vars BY <2>2, Zenon DEF vars, CompleteInv
  <2> QED BY <2>1, <2>2, Zenon
<1>3. IInv /\ AgreeInv /\ CompleteInv => NothingForgotten BY CompleteReadable, Zenon
<1> QED BY <1>1, <1>2, <1>3, Agreement, PTL DEF Spec
=============================================================================
