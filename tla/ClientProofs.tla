---------------------------- MODULE ClientProofs ----------------------------
(***************************************************************************)
(* Every step of Client preserves its invariant, and what follows from it: *)
(* the safety of sessions, keys, certs and sends, whatever is killed where. *)
(***************************************************************************)
EXTENDS ClientSessions, ClientRequests, WellFoundedInduction

(* Sequence numbers.                                                       *)
LEMMA LeastNat ==
  ASSUME NEW T, T \subseteq Nat, T # {}
  PROVE  \E x \in T : \A y \in T : x <= y
<1> DEFINE R == OpToRel(<, Nat)
<1>1. IsWellFoundedOn(R, Nat) BY NatLessThanWellFounded
<1>2. \A x, y \in Nat : x < y => <<x, y>> \in R BY DEF OpToRel
<1> HIDE DEF R
<1>3. PICK x \in T : \A y \in T : ~(<<y, x>> \in R) BY <1>1, WFMin
<1>4. \A y \in T : ~(y < x) BY <1>2, <1>3, Zenon
<1> QED BY <1>4

(* A set of numbers that has a bound has a greatest element: its least     *)
(* upper bound.                                                            *)
LEMMA GreatestNat ==
  ASSUME NEW S, S \subseteq Nat, S # {}, NEW n \in Nat, \A x \in S : x <= n
  PROVE  Max(S) \in S /\ Max(S) <= n
<1> DEFINE T == {b \in Nat : \A x \in S : x <= b}
<1>1. PICK b \in T : \A c \in T : b <= c BY LeastNat, Zenon
<1>2. b \in Nat /\ \A x \in S : x <= b BY <1>1, Zenon
<1>3. b \in S
  <2> SUFFICES ASSUME b \notin S PROVE FALSE BY Zenon
  <2>1. \A x \in S : x < b BY <1>2
  <2>a. PICK y \in S : TRUE BY Zenon
  <2>b. y \in Nat /\ y < b BY <2>1, Zenon
  <2>c. b - 1 \in Nat BY <1>2, <2>b
  <2>2. \A x \in S : x <= b - 1 BY <1>2, <2>1
  <2>3. b - 1 \in T BY <2>2, <2>c, Zenon
  <2>4. b <= b - 1 BY <1>1, <2>3, Zenon
  <2> QED BY <1>2, <2>4
<1>4. \A x \in S : b >= x BY <1>2
<1>5. Max(S) \in S BY <1>3, <1>4, Zenon DEF Max
<1> QED BY <1>5, Zenon

(* next_seq is at most the number of the request that asks for it.         *)
LEMMA NextSeq ==
  ASSUME NEW w \in Worlds, NEW n \in Nat, RowsOk(w, n), NEW conv
  PROVE  next_seq(w, conv) \in Nat /\ next_seq(w, conv) <= n + 1
<1> DEFINE S == {0} \union {m.seq : m \in RowsOf(w, conv)}
<1>1. \A m \in RowsOf(w, conv) : m.seq \in Nat /\ m.seq <= n
  BY Zenon DEF RowsOf, Worlds, RowsOk
<1>2. 0 \in Nat /\ 0 <= n BY SMT
<1>3. S \subseteq Nat /\ S # {} /\ \A x \in S : x <= n BY <1>1, <1>2, Zenon
<1>4. next_seq(w, conv) = 1 + Max(S) BY Zenon DEF next_seq
<1> HIDE DEF S
<1>5. Max(S) \in Nat /\ Max(S) <= n BY <1>3, GreatestNat, Zenon
<1> QED BY <1>4, <1>5, SMT

(* Every step of a send preserves the invariant.                           *)
LEMMA SendingStep ==
  ASSUME IInv, Sending
  PROVE  IInv'
<1>1. world \in Worlds BY Zenon DEF IInv, Good
<1>2. Contacts \subseteq Relationships /\ 0 \in Nat BY SMT DEF Relationships
<1>3. ASSUME NEW m \in world.messages, send_update(m) \/ send_delete(m) PROVE IInv'
  <2>1. m.conv \in Relationships /\ m.no \in Nat BY <1>1, <1>3, Zenon DEF Worlds
  <2>2. HasRow(world, m.no) BY <1>3, Zenon DEF HasRow
  <2>3. CASE send_update(m)
    <3>1. BeginSend(m.conv, 0) BY <2>3, Zenon DEF send_update
    <3> QED BY <1>2, <2>1, <3>1, BeginSendStep, Zenon
  <2>4. CASE send_delete(m)
    <3>1. BeginSend(m.conv, m.no) BY <2>4, Zenon DEF send_delete
    <3> QED BY <2>1, <2>2, <3>1, BeginSendStep, Zenon
  <2> QED BY <1>3, <2>3, <2>4, Zenon
<1>4. ASSUME NEW c \in Contacts,
             \/ send_typing(c) \/ mark_read(c) \/ \E g \in Groups : invite_to_group(g, c)
      PROVE  IInv'
  <2>1. BeginSend(c, 0) BY <1>4, Zenon DEF send_typing, mark_read, invite_to_group
  <2>2. c \in Relationships BY <1>2, <1>4, Zenon
  <2> QED BY <1>2, <2>1, <2>2, BeginSendStep, Zenon
<1>5. ASSUME NEW conv \in Relationships, send_message(conv) PROVE IInv'
  <2>1. RowsOk(world, count.requests) /\ count.requests \in Nat
    BY Zenon DEF IInv, Types, Counted
  <2>2. next_seq(world, conv) \in Nat /\ next_seq(world, conv) <= count.requests + 1
    BY <1>1, <2>1, NextSeq, Zenon
  <2> QED BY <1>5, <2>2, SendMessageStep, Zenon
<1>6. ASSUME NEW s \in sending, StoreMessage(s) \/ Submit(s) PROVE IInv'
  BY <1>6, StoreMessageStep, SubmitStep, Zenon
<1> QED BY <1>3, <1>4, <1>5, <1>6, Zenon DEF Sending

(* So does every other request.                                            *)
LEMMA RequestStep ==
  ASSUME IInv, Request
  PROVE  IInv'
<1>1. ASSUME NEW old \in Passphrases, NEW new \in Passphrases,
             session_change_passphrase(old, new)
      PROVE  IInv'
  BY <1>1, ChangePassphraseStep, Zenon
<1>2. CASE set_display_name BY <1>2, SetDisplayNameStep, Zenon
<1>3. ASSUME NEW c \in Contacts, \/ contacts_send_request(c)
                                \/ contacts_accept_request(c) \/ contacts_block(c)
      PROVE  IInv'
  BY <1>3, SendRequestStep, AcceptStep, BlockStep, Zenon
<1>4. ASSUME NEW g \in Groups, NEW type \in {"group", "server"}, groups_create(g, type)
      PROVE  IInv'
  BY <1>4, CreateGroupStep, Zenon
<1>5. ASSUME NEW g \in Groups, NEW server \in Groups, servers_create_channel(server, g)
      PROVE  IInv'
  BY <1>5, CreateChannelStep, Zenon
<1>6. ASSUME NEW g \in Groups, groups_kick(g) PROVE IInv' BY <1>6, KickStep, Zenon
<1>7. ASSUME NEW kc, devices_revoke(kc) PROVE IInv' BY <1>7, RevokeStep, Zenon
<1> QED BY <1>1, <1>2, <1>3, <1>4, <1>5, <1>6, <1>7, Zenon DEF Request

(* So does every step, and stuttering.                                     *)
LEMMA NextPreserves ==
  ASSUME IInv, [Next]_vars
  PROVE  IInv'
<1>1. CASE start BY <1>1, StartStep, Zenon
<1>2. CASE stop BY <1>2, StopStep, Zenon
<1>3. CASE Kill BY <1>3, KillStep, Zenon
<1>4. CASE Tick BY <1>4, TickStep, Zenon
<1>5. CASE InstallKey BY <1>5, InstallKeyStep, Zenon
<1>6. CASE session_lock BY <1>6, LockStep, Zenon
<1>7. ASSUME NEW answers \in Answers, NEW typed \in Passphrases, session_unlock(typed, answers)
      PROVE  IInv'
  BY <1>7, UnlockStep, Zenon
<1>8. ASSUME NEW answers \in Answers, cert_renew_loop(answers) PROVE IInv'
  BY <1>8, RenewStep, Zenon
<1>9. CASE Request BY <1>9, RequestStep, Zenon
<1>10. CASE Sending BY <1>10, SendingStep, Zenon
<1>11. CASE UNCHANGED vars
  <2>1. /\ world' = world /\ up' = up /\ sending' = sending /\ changing' = changing
        /\ now' = now /\ passphrase' = passphrase /\ identity' = identity
        /\ kicked' = kicked /\ killed' = killed /\ cut' = cut /\ raced' = raced
        /\ count' = count
    BY <1>11, Zenon DEF vars
  <2>2. Types' BY <2>1, Zenon DEF IInv, Types
  <2>3. (Good(world, identity, kicked) /\ FramesOk(world, killed)
         /\ RowsOk(world, count.requests))'
    BY <2>1, Zenon DEF IInv
  <2>4. Steady' BY <2>1, Zenon DEF IInv, Steady, Db
  <2>5. SendsOk' BY <2>1, Zenon DEF IInv, SendsOk, Unlocked
  <2>6. Opens' BY <2>1, Zenon DEF IInv, Opens
  <2> QED BY <2>2, <2>3, <2>4, <2>5, <2>6, Zenon DEF IInv
<1> QED BY <1>1, <1>2, <1>3, <1>4, <1>5, <1>6, <1>7, <1>8, <1>9, <1>10, <1>11, Zenon DEF Next

(* The invariant holds throughout.                                         *)
LEMMA Inductive == Spec => []IInv
<1>1. Init => IInv BY InitEstablishes, Zenon
<1>2. IInv /\ [Next]_vars => IInv' BY NextPreserves, Zenon
<1> QED BY <1>1, <1>2, PTL DEF Spec

(* The variables keep their types, a session has both its database and its *)
(* key, prekeys belong to rows of Key B in memory and on disk, and no      *)
(* handler runs without a daemon, whatever the handlers and the kills.     *)
THEOREM ClientTypes == Spec => []TypeOK
BY GivesTypeOK, Inductive, PTL

(* The salt file and the keystore file belong together and to the          *)
(* passphrase in force, after any sessions, refused passphrases and        *)
(* changes of the passphrase that were neither cut nor raced by a save.    *)
THEOREM PassphraseOpens == Spec => []KeystoreOpens
BY GivesKeystoreOpens, Inductive, PTL

(* Every session has the Key A that an unlock has shown before, wherever   *)
(* the daemon was killed: ensure_identity saves a new one before it is     *)
(* shown, and a file that cannot be read is no first launch.               *)
THEOREM IdentitySurvives == Spec => []IdentityKept
BY GivesIdentityKept, Inductive, PTL

(* Frames of one life of the process never share a ratchet key, through    *)
(* all locks, unlocks and restarts, unless their sends overlapped.         *)
THEOREM RatchetKeysFresh == Spec => []NoKeyReuse
BY GivesNoKeyReuse, Inductive, PTL

(* A device that took all its calls works with the Key C on record.        *)
THEOREM DevicesAgree == Spec => []DeviceHoldsRecordedKey
BY GivesDeviceHoldsRecordedKey, Inductive, PTL

(* Every frame to a contact goes out with a cert that has not expired: a   *)
(* session renews the Key C of its devices before it serves a request.     *)
THEOREM CertsFresh == Spec => []CertFresh
BY GivesCertFresh, Inductive, PTL

(* send_message hands no frame to the Outbox whose row was refused: the    *)
(* row is in the message store, or was until it was deleted.               *)
THEOREM RowsPrecedeFrames == Spec => []RowBeforeFrame
BY GivesRowBeforeFrame, Inductive, PTL

(* After a kick no frame of the group goes out under an earlier sender     *)
(* key, also after a kill: the new key is saved before the kick ends.      *)
THEOREM KicksRotate == Spec => []KickRotates
BY GivesKickRotates, Inductive, PTL

(* Wherever a handler is killed, a conversation in the message store has   *)
(* its keys in the keystore file.                                          *)
THEOREM KeysPrecedeConversations == Spec => []ConversationKeysSaved
BY GivesConversationKeysSaved, Inductive, PTL
=============================================================================
