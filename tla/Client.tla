------------------------------- MODULE Client -------------------------------
(***************************************************************************)
(* The client daemon (client.cpp, store.cpp, ipc_handler.cpp) on top of    *)
(* its keystore: sessions, Key C of the two devices, contacts, groups and  *)
(* the sending of messages.                                                *)
(*                                                                         *)
(* world holds what the handlers change: the keystore, the tables of the   *)
(* message store, which are durable row by row, and what the Outbox and    *)
(* the Inbox have been given.  A handler is a path of worlds, one for each *)
(* durable change; it runs to the end of the path or is killed on the way. *)
(* Requests are served by one thread per connection and take no lock.  Two *)
(* handlers use what they read before another thread may change it, and    *)
(* are several steps: send_message with its kin, and change_passphrase.    *)
(*                                                                         *)
(* Left out, as no handler looks at it: display names, texts, time stamps, *)
(* read marks, server roles and the tables of members and channels.  No    *)
(* handler adds a member to a group.  The Inbox refuses the allowlist,     *)
(* which comes under another name than the one it looks for, and the       *)
(* AnonRouter refuses the DHT records for the same reason.                 *)
(***************************************************************************)
EXTENDS Keystore, MessageStore

CONSTANTS Passphrases,  \* what users type
          Devices,      \* the daemons that run, among "inbox" and "outbox"
          Lifetime,     \* life of a Key C (30 days)
          Threshold,    \* config.hpp: key_c_renewal_threshold_days
          MaxTime, MaxStarts, MaxRequests,
          MaxFaults     \* kills and unanswered calls together

MasterKeys == Passphrases \X Nat
Databases ==
  [key_a : Nat, key_b : Seq(Relationships), prekeys : SUBSET Relationships,
   key_c : SUBSET [type : Devices, key : Nat, expires_at : Nat],
   ratchet : [Contacts -> Nat \union {-1}], sender : [Groups -> Nat \union {-1}]]

(* A Key C is renewed at least a day before it expires.                    *)
ASSUME ClientAssumption ==
  /\ Lifetime \in Nat \ {0} /\ Threshold \in Nat \ {0} /\ MaxTime \in Nat
  /\ MaxStarts \in Nat /\ MaxRequests \in Nat /\ MaxFaults \in Nat
  /\ Contacts \intersect Groups = {} /\ Devices \subseteq {"inbox", "outbox"}
  /\ None \notin Passphrases /\ None \notin MasterKeys /\ None \notin Databases

VARIABLES world,      \* see above
          up,         \* the daemon runs
          sending,    \* sends in progress
          changing,   \* the key that change_passphrase is about to install
          now,
          passphrase, \* the one in force
          identity,   \* the Key A that unlock has shown, 0 before
          kicked,     \* by group, the generation of the last completed kick
          killed,     \* how often the daemon has been killed
          cut,        \* it was once killed inside a handler
          raced,      \* a handler saved while changing was set
          count       \* starts, requests and unanswered calls so far

vars == <<world, up, sending, changing, now, passphrase, identity, kicked,
          killed, cut, raced, count>>
history == <<passphrase, identity, kicked>>

(* The devices that answer the calls of a handler.  Another one may have   *)
(* taken a call or not: the client does not know, and device is 0.         *)
Answers == SUBSET Devices

Init ==
  /\ world = [ks |-> NewKeystore, contacts |-> NoRows(Contacts),
              conversations |-> {}, groups |-> NoRows(Groups),
              messages |-> {}, deleted |-> {}, sent |-> {},
              device |-> [t \in Devices |-> 0], keys |-> 0]
  /\ up = FALSE /\ sending = {} /\ changing = None /\ now = 0
  /\ passphrase = None /\ identity = 0 /\ kicked = [g \in Groups |-> 0]
  /\ killed = 0 /\ cut = FALSE /\ raced = FALSE
  /\ count = [starts |-> 0, requests |-> 0, unanswered |-> 0]

-----------------------------------------------------------------------------
(* Paths *)

Then(path, Step(_)) == path \o Step(Last(path))
InKeystore(w, path) == [i \in DOMAIN path |-> [w EXCEPT !.ks = path[i]]]
Saved(w)            == InKeystore(w, save(w.ks))

Spend(what, n, limit) ==
  count[what] + n <= limit /\ count' = [count EXCEPT ![what] = @ + n]
Serve == Spend("requests", 1, MaxRequests)
Call(answers) ==
  Spend("unanswered", Cardinality(Devices \ answers), MaxFaults - killed)

(* The process ends and leaves w.  The keystore it finds next may be older *)
(* than what the devices were told.                                        *)
Killed(w, inside) ==
  /\ killed + count'.unanswered < MaxFaults
  /\ world' = [w EXCEPT !.ks = Ended(@), !.device = [t \in Devices |-> 0]]
  /\ up' = FALSE /\ sending' = {} /\ changing' = None
  /\ killed' = killed + 1 /\ cut' = (cut \/ inside)
  /\ UNCHANGED <<now, raced, history>>

Completes(path) ==
  /\ world' = Last(path)
  /\ raced' = (raced \/ (changing # None
                         /\ Last(path).ks.file # world.ks.file))
  /\ UNCHANGED <<now, killed, cut>>

DiesIn(path) == \E i \in 1 .. Len(path) - 1 : Killed(path[i], TRUE)

(* Handlers whose only effect is their path; Row makes one durable change. *)
Runs(path) ==
  up /\ Completes(path) /\ UNCHANGED <<up, sending, changing, history>>
Handler(path) == up /\ (Runs(path) \/ DiesIn(path))
Row(w) == Runs(<<w>>)

Db == world.ks.db
Unlocked == up /\ is_unlocked(world.ks)

-----------------------------------------------------------------------------
(* Sessions *)

start ==
  /\ ~up /\ Spend("starts", 1, MaxStarts) /\ up' = TRUE
  /\ UNCHANGED <<world, sending, changing, now, history, killed, cut, raced>>

(* Client::stop: the IPC server joins its handlers before the save.        *)
stop ==
  /\ up /\ sending = {} /\ changing = None /\ UNCHANGED count
  /\ LET path == Saved(world)
                 \o <<[Last(Saved(world)) EXCEPT !.ks = Ended(@)]>>
     IN  \/ /\ Completes(path) /\ up' = FALSE
            /\ UNCHANGED <<sending, changing, history>>
         \/ DiesIn(path)

Kill == up /\ UNCHANGED count /\ Killed(world, FALSE)

ensure_identity(w) ==
  IF get_key_a(w.ks.db) # 0 THEN << >>
  ELSE Saved([w EXCEPT !.ks.db = set_key_a(@, w.keys + 1), !.keys = @ + 1])

KeyC(type, key) ==
  [type |-> type, key |-> key, expires_at |-> now + Lifetime]

(* provision_devices for one device.                                       *)
provision(w, type, answers) ==
  LET key  == w.keys + 1
      sent == [w EXCEPT !.device[type] = 0]
  IN  IF type \notin Devices \/ Unrevoked(w.ks.db, type) # {} THEN << >>
      ELSE <<sent>> \o
           (IF type \notin answers THEN << >>
            ELSE <<[sent EXCEPT !.ks.db = insert_key_c(@, KeyC(type, key)),
                                !.device[type] = key, !.keys = key]>>)

provision_devices(w, answers) ==
  LET inbox == <<w>> \o provision(w, "inbox", answers)
  IN  Then(Then(inbox, LAMBDA v : provision(v, "outbox", answers)), Saved)

\* Mutant: a Key C is renewed once it has expired.
ExpiringLate(db, type) ==
  {kc \in Unrevoked(db, type) : kc.expires_at < now}

Expiring(db, type) ==
  {kc \in Unrevoked(db, type) : kc.expires_at <= now + Threshold}

Renewed(w, type, answers, key) ==
  [w EXCEPT !.device[type] = IF type \in answers THEN key ELSE 0,
            !.keys = key]

\* Mutant: the old record stays in force.
renewKeeping(w, type, answers) ==
  LET key  == w.keys + 1
      sent == Renewed(w, type, answers, key)
  IN  IF Expiring(w.ks.db, type) = {} THEN << >>
      ELSE <<[sent EXCEPT !.ks.db = insert_key_c(@, KeyC(type, key))]>>

(* check_renew_key_c for one device, which has at most one key to renew.   *)
(* The new key is recorded whether the device has taken it or not.         *)
renew(w, type, answers) ==
  LET old  == CHOOSE kc \in Expiring(w.ks.db, type) : TRUE
      key  == w.keys + 1
      sent == Renewed(w, type, answers, key)
  IN  IF Expiring(w.ks.db, type) = {} THEN << >>
      ELSE <<[sent EXCEPT !.ks.db = insert_key_c(revoke_key_c(@, old),
                                                 KeyC(type, key))]>>

check_renew_key_c(w, answers) ==
  LET inbox == <<w>> \o renew(w, "inbox", answers)
  IN  Then(inbox, LAMBDA v : renew(v, "outbox", answers))

(* Row by row, a relationship short of prekeys gets a batch and a save.    *)
(* One that has enough leaves the world as it is.                          *)
replenish_prekeys(w) ==
  LET rows       == list_key_b(w.ks.db)
      Short(n)   == {i \in 1 .. n : ~HasPrekeys(w.ks.db, rows[i])}
      Stocked(n) == Saved([w EXCEPT !.ks.db =
                             insert_prekeys(@, {rows[i] : i \in 1 .. n})])
      After(n)   == IF Short(n) = {} THEN w ELSE Last(Stocked(n))
  IN  <<w>> \o [j \in 1 .. 2 * Len(rows) |->
                  LET n == (j + 1) \div 2
                  IN  IF j = 2 * n - 1 /\ n \in Short(n) THEN Stocked(n)[1]
                      ELSE After(n)]

connect_services(w, answers) ==
  Then(Then(provision_devices(w, answers),
            LAMBDA v : check_renew_key_c(v, answers)),
       replenish_prekeys)

(* Client::unlock.  A passphrase that does not open the file is refused.   *)
Unlocking(w, typed, answers) ==
  LET opened == InKeystore(w, unlock(w.ks, typed))
  IN  IF ~is_unlocked(Last(opened).ks) THEN opened
      ELSE Then(Then(opened, ensure_identity),
                LAMBDA v : connect_services(v, answers))

session_unlock(typed, answers) ==
  /\ up /\ ~is_unlocked(world.ks) /\ Call(answers)
  /\ LET path == Unlocking(world, typed, answers)
         done == Last(path)
     IN  \/ /\ Completes(path)
            /\ passphrase' = IF world.ks.file.state = "absent" THEN typed
                             ELSE passphrase
            /\ identity' = IF is_unlocked(done.ks) /\ identity = 0
                           THEN get_key_a(done.ks.db) ELSE identity
            /\ UNCHANGED <<up, sending, changing, kicked>>
         \/ DiesIn(path)

(* Client::lock *)
Locking(w) == InKeystore(w, lock(w.ks))

(* While no other handler uses the database, which it closes.              *)
session_lock ==
  Unlocked /\ sending = {} /\ UNCHANGED count /\ Handler(Locking(world))

cert_renew_loop(answers) ==
  /\ Unlocked /\ Call(answers)
  /\ LET path == Then(check_renew_key_c(world, answers), replenish_prekeys)
     IN  Last(path) # world /\ Handler(path)

(* Days pass while no request is served and the hourly loop has nothing to *)
(* renew.                                                                  *)
Tick ==
  /\ now < MaxTime /\ sending = {} /\ changing = None
  /\ Unlocked => \A t \in Devices : Expiring(Db, t) = {}
  /\ now' = now + 1
  /\ UNCHANGED <<world, up, sending, changing, history, killed, cut, raced,
                 count>>

(* change_passphrase writes the new file, and then installs the new key.   *)
session_change_passphrase(old, new) ==
  /\ Unlocked /\ changing = None /\ old # new /\ Serve
  /\ world.ks.master_key = <<old, world.ks.salt>>
  /\ LET path == InKeystore(world, change_passphrase(world.ks, new))
     IN  \/ /\ Completes(path) /\ changing' = Last(path).ks.file.key
            /\ passphrase' = new
            /\ UNCHANGED <<up, sending, identity, kicked>>
         \/ DiesIn(path)

\* Mutant: the key of the session stays the old one.
InstallKeyNot ==
  /\ changing # None /\ changing' = None
  /\ UNCHANGED <<world, up, sending, now, history, killed, cut, raced, count>>

InstallKey ==
  /\ changing # None /\ changing' = None
  /\ world' = IF Unlocked THEN [world EXCEPT !.ks.master_key = changing]
              ELSE world
  /\ UNCHANGED <<up, sending, now, history, killed, cut, raced, count>>

-----------------------------------------------------------------------------
(* Contacts, groups, devices *)

(* The display name itself is left out, its save is not.                  *)
set_display_name == Unlocked /\ Serve /\ Handler(Saved(world))

(* A frame to a contact, with the number of its ratchet key, the row of    *)
(* the message it carries, if any, and the cert of the Outbox.             *)
DmFrame(w, no, row, c, key, alone) ==
  [no |-> no, row |-> row, conv |-> c, key |-> key, killed |-> killed,
   alone |-> alone, floor |-> 0,
   stale |-> \E kc \in Unrevoked(w.ks.db, "outbox") : kc.expires_at <= now]

(* The ratchet starts after the last save of the handler.                  *)
send_contact_request(w, c) ==
  LET keyed == Then(replenish_prekeys(
                      [w EXCEPT !.ks.db = insert_key_b(@, c)]), Saved)
      w1 == insert_contact(Last(keyed), c)
      w2 == upsert_conversation(w1, c)
      w3 == [w2 EXCEPT !.ks.db = set_ratchet_state(@, c, 1),
                       !.sent = @ \union {DmFrame(w2, 0, 0, c, 0, TRUE)}]
  IN  keyed \o <<w1, w2, w3>>

contacts_send_request(c) ==
  /\ Unlocked /\ ~get_contact(world, c) /\ Serve
  /\ Handler(send_contact_request(world, c))

contacts_accept_request(c) ==
  /\ world.contacts[c] = "pending" /\ Serve
  /\ Row(set_contact_status(world, c, "active"))

(* contacts_decline_request and contacts_block.  Without a contact, or for *)
(* a blocked one, nothing happens.                                         *)
contacts_block(c) ==
  /\ world.contacts[c] \in {"pending", "active"} /\ Serve
  /\ Row(set_contact_status(world, c, "blocked"))

(* Identifiers of groups and channels are drawn at random.                 *)
Unused(g) == ~get_group(world, g) /\ ~get_conversation(world, g)
             /\ get_sender_key(Db, g) = -1

\* Mutant: the keys of the group are not saved.
create_groupUnsaved(w, g, type) ==
  LET keyed == [w EXCEPT !.ks.db = set_sender_key(insert_key_b(@, g), g, 0)]
      w1    == upsert_group(keyed, g, type)
  IN  <<keyed, w1, upsert_conversation(w1, g)>>

create_group(w, g, type) ==
  LET keyed == Saved([w EXCEPT !.ks.db =
                        set_sender_key(insert_key_b(@, g), g, 0)])
      w1    == upsert_group(Last(keyed), g, type)
  IN  keyed \o <<w1, upsert_conversation(w1, g)>>

groups_create(g, type) ==
  Unlocked /\ Unused(g) /\ Serve /\ Handler(create_group(world, g, type))

create_server_channel(w, g) ==
  LET keyed == Saved([w EXCEPT !.ks.db = set_sender_key(@, g, 0)])
  IN  keyed \o <<upsert_conversation(Last(keyed), g)>>

servers_create_channel(server, g) ==
  /\ Unlocked /\ world.groups[server] = "server" /\ Unused(g) /\ Serve
  /\ Handler(create_server_channel(world, g))

NextGeneration(db, g) ==
  IF get_sender_key(db, g) = -1 THEN 1 ELSE get_sender_key(db, g) + 1

\* Mutant: the new sender key is not saved.
kick_from_groupUnsaved(w, g) ==
  <<[w EXCEPT !.ks.db = set_sender_key(@, g, NextGeneration(@, g))]>>

kick_from_group(w, g) ==
  Saved([w EXCEPT !.ks.db = set_sender_key(@, g, NextGeneration(@, g))])

groups_kick(g) ==
  /\ Unlocked /\ get_group(world, g) /\ Serve
  /\ LET path == kick_from_group(world, g)
     IN  \/ /\ Completes(path)
            /\ kicked' = [kicked EXCEPT ![g] = NextGeneration(Db, g)]
            /\ UNCHANGED <<up, sending, changing, passphrase, identity>>
         \/ DiesIn(path)

revoke_device(w, kc) == Saved([w EXCEPT !.ks.db = revoke_key_c(@, kc)])

devices_revoke(kc) == Unlocked /\ Serve /\ Handler(revoke_device(world, kc))

-----------------------------------------------------------------------------
(* Sending.  A send in progress is a record: what it has read and the step *)
(* it is at.                                                               *)

(* The chain key that encrypt starts from: load in RatchetManager.         *)
ReadKey(conv) == IF conv \in Contacts THEN get_ratchet_state(Db, conv) ELSE -1

(* Sends of one conversation that are at their encryption together.        *)
Together(s) == {r \in sending : r.conv = s.conv /\ r.step = "submit"}
AtSubmit(s) ==
  {[r EXCEPT !.alone = FALSE] : r \in Together(s)}
  \union (sending \ Together(s))
  \union {[s EXCEPT !.step = "submit", !.alone = Together(s) = {},
                    !.seq = 0, !.key = ReadKey(s.conv)]}

(* A send with the row of the message that it carries or is about to       *)
(* delete, 0 for none.                                                     *)
Send(conv, carries, deletes) ==
  [no |-> count.requests + 1, conv |-> conv, carries |-> carries,
   deletes |-> deletes, seq |-> 0, key |-> -1, step |-> "insert",
   alone |-> TRUE]

(* send_message up to the number of the message.                           *)
send_message(conv) ==
  /\ Unlocked /\ Serve
  /\ sending' = sending \union
       {[Send(conv, count.requests + 1, 0) EXCEPT !.seq = next_seq(world, conv)]}
  /\ UNCHANGED <<world, up, changing, now, history, killed, cut, raced>>

RowFor(s) == [no |-> s.no, conv |-> s.conv, seq |-> s.seq]

\* Mutant: a row that is refused is ignored.
StoreMessageOrIgnore(s) ==
  /\ s.step = "insert"
  /\ world' = IF Conflicts(world, RowFor(s)) THEN world
              ELSE insert_message(world, RowFor(s))
  /\ sending' = AtSubmit(s) \ {s}
  /\ UNCHANGED <<up, changing, now, history, killed, cut, raced, count>>

(* The row of send_message is stored.  One that is refused ends the        *)
(* handler.                                                                *)
StoreMessage(s) ==
  /\ s.step = "insert"
  /\ IF Conflicts(world, RowFor(s))
     THEN sending' = sending \ {s} /\ UNCHANGED world
     ELSE sending' = AtSubmit(s) \ {s} /\ world' = insert_message(world, RowFor(s))
  /\ UNCHANGED <<up, changing, now, history, killed, cut, raced, count>>

(* The handlers that have nothing to store go on to the encryption.        *)
BeginSend(conv, deletes) ==
  /\ Unlocked /\ get_conversation(world, conv) /\ Serve
  /\ sending' = AtSubmit(Send(conv, 0, deletes))
  /\ UNCHANGED <<world, up, changing, now, history, killed, cut, raced>>

(* send_reaction, send_unreact and send_edit, which leave the row as it is. *)
send_update(m) == BeginSend(m.conv, 0)

send_delete(m) == BeginSend(m.conv, m.no)

send_typing(c) == BeginSend(c, 0)

(* A read receipt may name a message of any conversation.                  *)
mark_read(c) == world.messages # {} /\ BeginSend(c, 0)

invite_to_group(g, c) ==
  /\ Unlocked /\ get_group(world, g) /\ get_key_b(Db, g)
  /\ get_contact(world, c)
  /\ BeginSend(c, 0)

GroupFrame(w, s) ==
  [no |-> s.no, row |-> s.carries, conv |-> s.conv,
   key |-> get_sender_key(w.ks.db, s.conv), killed |-> killed, alone |-> s.alone,
   floor |-> kicked[s.conv], stale |-> FALSE]

\* Mutant: encryption does not move the chain on.
enqueue_dmStill(w, s) ==
  [w EXCEPT !.sent =
     @ \union {DmFrame(w, s.no, s.carries, s.conv, s.key, s.alone)}]

(* Encryption moves the chain on from the key it has read.                 *)
enqueue_dm(w, s) ==
  [w EXCEPT !.ks.db = set_ratchet_state(@, s.conv, s.key + 1),
            !.sent =
     @ \union {DmFrame(w, s.no, s.carries, s.conv, s.key, s.alone)}]

(* A frame counts as sent whether it reaches the Outbox or not, as errors  *)
(* of the call are ignored.                                                *)
enqueue_for_conv(w, s) ==
  IF s.conv \in Contacts THEN enqueue_dm(w, s)
  ELSE [w EXCEPT !.sent = @ \union {GroupFrame(w, s)}]

(* The handler fails for an unknown conversation and for one without keys. *)
HasKeys(s) ==
  /\ get_conversation(world, s.conv)
  /\ IF s.conv \in Contacts THEN s.key # -1
     ELSE get_sender_key(Db, s.conv) # -1

Submit(s) ==
  /\ s.step = "submit" /\ UNCHANGED count
  /\ LET w1 == enqueue_for_conv(world, s)
         path == IF ~HasKeys(s) THEN <<world>>
                 ELSE IF s.deletes # 0 THEN <<w1, delete_message(w1, s.deletes)>> ELSE <<w1>>
     IN  \/ /\ Completes(path) /\ sending' = sending \ {s}
            /\ UNCHANGED <<up, changing, history>>
         \/ DiesIn(path)

-----------------------------------------------------------------------------
Request ==
  \/ \E old, new \in Passphrases : session_change_passphrase(old, new)
  \/ set_display_name
  \/ \E c \in Contacts : \/ contacts_send_request(c)
                         \/ contacts_accept_request(c) \/ contacts_block(c)
  \/ \E g \in Groups : \/ \E type \in {"group", "server"} : groups_create(g, type)
                       \/ \E server \in Groups : servers_create_channel(server, g)
                       \/ groups_kick(g)
  \/ \E kc \in IF Unlocked THEN Db.key_c ELSE {} : devices_revoke(kc)

Sending ==
  \/ \E conv \in Relationships : send_message(conv)
  \/ \E m \in world.messages : send_update(m) \/ send_delete(m)
  \/ \E c \in Contacts : \/ send_typing(c) \/ mark_read(c)
                         \/ \E g \in Groups : invite_to_group(g, c)
  \/ \E s \in sending : StoreMessage(s) \/ Submit(s)

Next ==
  \/ start \/ stop \/ Kill \/ Tick \/ InstallKey \/ session_lock
  \/ \E answers \in Answers : \/ \E typed \in Passphrases :
                                    session_unlock(typed, answers)
                              \/ cert_renew_loop(answers)
  \/ Request \/ Sending

Spec == Init /\ [][Next]_vars

-----------------------------------------------------------------------------
(* Properties *)

Files == {NoFile, Torn}
         \union [state : {"whole"}, key : MasterKeys, content : Databases]
Keystores ==
  [db : Databases \union {None}, master_key : MasterKeys \union {None},
   salt : Nat \union {NoSalt}, salts : Nat, file : Files]
Frame == [no : Nat, row : Nat, conv : Relationships, key : Nat, killed : Nat,
          alone : BOOLEAN, floor : Nat, stale : BOOLEAN]
Worlds ==
  [ks : Keystores, contacts : [Contacts -> {"none", "pending", "active", "blocked"}],
   conversations : SUBSET Relationships, groups : [Groups -> {"none", "group", "server"}],
   messages : SUBSET [no : Nat, conv : Relationships, seq : Nat],
   deleted : SUBSET Nat, sent : SUBSET Frame, device : [Devices -> Nat], keys : Nat]
Sends == [no : Nat, conv : Relationships, carries : Nat, deletes : Nat, seq : Nat,
          key : Nat \union {-1}, step : {"insert", "submit"}, alone : BOOLEAN]

Stocks(db) == db.prekeys \subseteq Range(db.key_b)

(* The variables have their types: a whole file holds a database, prekeys  *)
(* belong to rows of Key B, a keystore in memory has a master key          *)
(* (have_master_key_) or is without both, and a deleted row is gone.       *)
TypeOK ==
  /\ world \in Worlds /\ sending \subseteq Sends
  /\ changing \in MasterKeys \union {None} /\ passphrase \in Passphrases \union {None}
  /\ world.ks.db # None => Stocks(world.ks.db)
  /\ world.ks.file.state = "whole" => Stocks(world.ks.file.content)
  /\ (world.ks.db = None) = (world.ks.master_key = None)
  /\ \A m \in world.messages : m.no \notin world.deleted
  /\ now \in 0 .. MaxTime /\ killed \in Nat /\ kicked \in [Groups -> Nat]
  /\ identity \in Nat
  /\ (sending # {} \/ is_unlocked(world.ks)) => up

(* The passphrase in force opens the keystore on disk: the salt file and   *)
(* the keystore file belong together, after any sequence of sessions, wrong *)
(* passphrases and changes of the passphrase (change_passphrase), as long  *)
(* as no handler was killed on its way or saved during a change.           *)
KeystoreOpens ==
  \/ cut \/ raced \/ world.ks.file.state = "absent"
  \/ Decrypts(world.ks, <<passphrase, world.ks.salt>>)

(* Once unlock has shown an identity, no later session has another Key A,  *)
(* wherever the daemon was killed before: a keystore that cannot be read   *)
(* is never taken for a first launch (load_from_disk).                     *)
IdentityKept ==
  identity # 0 /\ is_unlocked(world.ks) => Db.key_a = identity

(* Two frames of a conversation are never encrypted under one ratchet key  *)
(* within the life of the process, across all locks, unlocks and clean     *)
(* restarts, unless their sends overlapped (encrypt, persist).             *)
NoKeyReuse ==
  \A f, g \in world.sent :
    f # g /\ f.conv = g.conv /\ f.conv \in Contacts /\ f.alone /\ g.alone
      /\ f.killed = g.killed
    => f.key # g.key

(* The Key C on record for a device is the one the device works with,      *)
(* unless a call to it failed or the daemon was killed since               *)
(* (provision_devices, check_renew_key_c).  So there is at most one.       *)
DeviceHoldsRecordedKey ==
  is_unlocked(world.ks) =>
    \A t \in Devices : world.device[t] # 0 =>
      \A kc \in Unrevoked(Db, t) : kc.key = world.device[t]

(* No frame to a contact carries an expired cert of the Outbox, after any  *)
(* time without a session (check_renew_key_c, enqueue_dm).                 *)
CertFresh == \A f \in world.sent : ~f.stale

(* A message that was handed to the Outbox has its row in the message      *)
(* store, or had it until it was deleted, also when two sends draw the     *)
(* same sequence number (next_seq, insert_message).                        *)
RowBeforeFrame ==
  \A f \in world.sent :
    f.row # 0 => \/ \E m \in world.messages : m.no = f.row
                 \/ f.row \in world.deleted

(* After a member was kicked, no frame of the group is encrypted under an  *)
(* earlier sender key, also after a restart (kick_from_group).             *)
KickRotates == \A f \in world.sent : f.conv \in Groups => f.key >= f.floor

(* A conversation in the message store has its keys in the keystore file:  *)
(* the two databases are written in this order (create_group,              *)
(* create_server_channel, send_contact_request).                           *)
ConversationKeysSaved ==
  world.ks.file.state = "whole" =>
    \A r \in world.conversations :
      IF r \in Contacts THEN get_key_b(world.ks.file.content, r)
      ELSE world.ks.file.content.sender[r] # -1
=============================================================================
