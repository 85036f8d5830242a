--------------------------- MODULE ClientRequests ---------------------------
(***************************************************************************)
(* Contacts, groups, channels and sends preserve the invariant of Client.  *)
(*                                                                         *)
(* Joins and Stored say what a send needs when it comes to its encryption, *)
(* Sound what its frame needs to be handed to the Outbox.                  *)
(***************************************************************************)
EXTENDS ClientInvariant

(* The sender key of a group.                                              *)
LEMMA SetSenderKey ==
  ASSUME NEW w \in Worlds, NEW id, NEW ki \in [Groups -> Nat], NEW x \in Databases,
         DbOk(x, w, id, ki), NEW g \in Groups, NEW n \in Nat, x.sender[g] <= n,
         NEW y, y = set_sender_key(x, g, n)
  PROVE  /\ y \in Databases /\ DbOk(y, w, id, ki) /\ y.ratchet = x.ratchet
         /\ y.key_a = x.key_a /\ y.key_c = x.key_c /\ y.key_b = x.key_b
         /\ y.sender[g] = n
<1>1. /\ y \in Databases /\ y.ratchet = x.ratchet /\ y.key_a = x.key_a
      /\ y.key_c = x.key_c /\ y.key_b = x.key_b /\ y.prekeys = x.prekeys
      /\ y.sender = [x.sender EXCEPT ![g] = n] /\ x.sender \in [Groups -> Nat \union {-1}]
  <2> DEFINE d == [x.sender EXCEPT ![g] = n]
  <2>1. d \in [Groups -> Nat \union {-1}] /\ x.sender \in [Groups -> Nat \union {-1}]
    BY Zenon DEF Databases
  <2>2. y = [x EXCEPT !.sender = d] BY Zenon DEF set_sender_key
  <2>3. d = [x.sender EXCEPT ![g] = n] BY Zenon
  <2> HIDE DEF d
  <2> QED BY <2>1, <2>2, <2>3, Zenon DEF Databases
<1>2. y.sender[g] = n /\ \A h \in Groups : h # g => y.sender[h] = x.sender[h]
  BY <1>1, Zenon
<1>3. \A h \in Groups : ki[h] # 0 => x.sender[h] >= ki[h] BY Zenon DEF DbOk
<1>4. \A h \in Groups : ki[h] # 0 => y.sender[h] >= ki[h]
  <2> SUFFICES ASSUME NEW h \in Groups, ki[h] # 0 PROVE y.sender[h] >= ki[h] BY Zenon
  <2>1. CASE h # g BY <1>2, <1>3, <2>1, Zenon
  <2>2. CASE h = g
    <3>1. x.sender[g] >= ki[g] /\ y.sender[h] = n BY <1>2, <1>3, <2>2, Zenon
    <3>2. x.sender[g] \in Int /\ ki[g] \in Nat BY <1>1, SMT
    <3> QED BY <2>2, <3>1, <3>2, SMT
  <2> QED BY <2>1, <2>2, Zenon
<1>5. \A h \in Groups : x.sender[h] # -1 => y.sender[h] # -1
  <2>1. n # -1 BY SMT
  <2> QED BY <1>2, <2>1, Zenon
<1>6. \A r \in w.conversations : KeysIn(y, r)
  <2>1. \A r \in w.conversations : KeysIn(x, r) BY Zenon DEF DbOk
  <2> SUFFICES ASSUME NEW r \in w.conversations PROVE KeysIn(y, r) BY Zenon
  <2>2. CASE r \in Contacts BY <1>1, <2>1, <2>2, Zenon DEF KeysIn, get_key_b
  <2>3. CASE r \notin Contacts
    <3>1. x.sender[r] # -1 BY <2>1, <2>3, Zenon DEF KeysIn, get_sender_key
    <3>2. r \in Groups BY <2>3, Zenon DEF Worlds, Relationships
    <3> QED BY <1>5, <2>3, <3>1, <3>2, Zenon DEF KeysIn, get_sender_key
  <2> QED BY <2>2, <2>3, Zenon
<1>7. DbOk(y, w, id, ki)
  BY <1>1, <1>4, <1>6, Zenon DEF DbOk, Stocks
<1> QED BY <1>1, <1>2, <1>7, Zenon

(* A kick sets and saves a new sender key.                                 *)
LEMMA KickStep ==
  ASSUME IInv, NEW g \in Groups, groups_kick(g)
  PROVE  IInv'
<1> DEFINE S == Session(world, identity, kicked)
           x == world.ks.db
           n == NextGeneration(x, g)
           y == set_sender_key(x, g, n)
           v == SetDb(world, y)
           p == Saved(v)
           s == Last(p)
<1>1. /\ Unlocked /\ Serve
      /\ \/ /\ Completes(p) /\ kicked' = [kicked EXCEPT ![g] = n]
            /\ UNCHANGED <<up, sending, changing, passphrase, identity>>
         \/ DiesIn(p)
  BY Zenon DEF groups_kick, kick_from_group, SetDb, Db
<1>2. /\ world \in S /\ Fresh(x) /\ Counted(count) /\ count.requests \in Nat
      /\ Used(world, killed)
  BY <1>1, InSession, Zenon
<1>3. /\ Counted(count') /\ count'.requests \in Nat /\ count'.requests >= count.requests
  BY <1>1, <1>2, Spent DEF Counted
<1>4. /\ world \in Worlds /\ x \in Databases /\ DbOk(x, world, identity, kicked)
      /\ HeldBy(world.device, x)
  BY <1>2, Zenon DEF Session, Good, Worlds, Keystores
<1>5. kicked \in [Groups -> Nat] /\ sending \subseteq Sends BY Zenon DEF IInv, Types
<1>6. n \in Nat /\ x.sender[g] <= n
  <2>1. x.sender[g] \in Nat \union {-1} BY <1>4, SMT DEF Databases
  <2> QED BY <2>1, SMT DEF NextGeneration, get_sender_key
<1>7. v = SetDb(world, y) /\ p = Saved(v) /\ s = Last(p) BY Zenon
<1> HIDE DEF x, n, v, p, S, s
<1>8. /\ y \in Databases /\ DbOk(y, world, identity, kicked) /\ y.ratchet = x.ratchet
      /\ y.key_a = x.key_a /\ y.key_c = x.key_c /\ y.sender[g] = n
  BY <1>4, <1>5, <1>6, SetSenderKey, SMT
<1> HIDE DEF y
<1>9. Fresh(y) /\ HeldBy(world.device, y)
  BY <1>2, <1>4, <1>8, Zenon DEF Fresh, HeldBy, Unrevoked
<1>10. v \in S /\ v.ks.db = y /\ SameSession(v, world)
  BY <1>2, <1>7, <1>8, <1>9, SessionDb, SMT DEF S, x
<1>11. Path(p, S) /\ s \in S /\ SameSession(s, v)
  BY <1>7, <1>10, SavedPath, Zenon DEF S
<1>12. s.ks.db = y /\ s.ks.file = NewFile(v) BY <1>7, <1>10, SavedPath, SMT DEF S
<1>13. \A u \in S : Fit(u, count'.requests) BY <1>1, <1>3, SessionFit, Zenon DEF S
<1>14. CASE DiesIn(p) BY <1>3, <1>11, <1>13, <1>14, DiesStep, Zenon
<1>15. CASE /\ Completes(p) /\ kicked' = [kicked EXCEPT ![g] = n]
            /\ UNCHANGED <<up, sending, changing, passphrase, identity>>
  <2>1. up BY <1>1, Zenon DEF Unlocked
  <2>2. Passed(s) /\ sending' = sending
    BY <1>7, <1>15, <2>1, Zenon DEF Completes, Passed
  <2>3. /\ s \in Worlds /\ Good(s, identity, kicked) /\ SameTables(s, world)
        /\ SameSession(s, world) /\ s.ks.db # None /\ s.ks.db.ratchet = world.ks.db.ratchet
        /\ HeldBy(s.device, s.ks.db)
    BY <1>11, Zenon DEF S, Session
  <2>4. s.ks.file.state = "whole" /\ s.ks.file.content = s.ks.db
        /\ s.ks.file.key = s.ks.master_key
    BY <1>10, <1>11, <1>12, SMT DEF NewFile, SameSession
  <2>5. kicked' \in [Groups -> Nat] BY <1>5, <1>6, <1>15, Zenon
  <2>6. DbOk(y, s, identity, kicked')
    <3>1. DbOk(y, s, identity, kicked) BY <1>12, <2>3, Zenon DEF Good
    <3>2. \A h \in Groups : kicked'[h] # 0 => y.sender[h] >= kicked'[h]
      <4> SUFFICES ASSUME NEW h \in Groups, kicked'[h] # 0
                   PROVE  y.sender[h] >= kicked'[h]
        BY Zenon
      <4>1. CASE h # g
        <5>1. kicked'[h] = kicked[h] BY <1>5, <1>15, <4>1, Zenon
        <5> QED BY <3>1, <5>1, Zenon DEF DbOk
      <4>2. CASE h = g
        <5>1. kicked'[h] = n /\ y.sender[h] = n BY <1>5, <1>8, <1>15, <4>2, Zenon
        <5> QED BY <1>6, <5>1, SMT
      <4> QED BY <4>1, <4>2, Zenon
    <3> QED BY <3>1, <3>2, Zenon DEF DbOk
  <2>7. Good(s, identity, kicked') BY <1>12, <2>3, <2>4, <2>6, Zenon DEF Good
  <2>8. FramesOk(s, killed) /\ RowsOk(s, count'.requests)
    BY <1>11, <1>13, Zenon DEF Fit
  <2>9. Fresh(s.ks.db) /\ Solid(s, world) BY <1>9, <1>12, <2>4, Zenon DEF Solid
  <2>10. Held(s) BY <2>3, Zenon DEF Held, Cur
  <2>11. Used(s, killed)
    <3>1. world.ks.db # None BY <1>1, Zenon DEF Unlocked, is_unlocked
    <3> QED BY <1>2, <2>3, <3>1, Zenon DEF Used, Cur, Live, SameTables
  <2>12. Keeps(s, world) BY <2>3, Zenon DEF Keeps, SameTables, get_contact
  <2>13. SendsOk'
    <3>1. world' = s /\ up' /\ killed' = killed BY <2>2, Zenon DEF Passed
    <3> QED BY <1>2, <1>3, <2>2, <2>3, <2>12, <3>1, SendsKept, Zenon
  <2>14. sending' \subseteq Sends BY <1>5, <2>2, Zenon
  <2> QED
    BY <1>1, <1>3, <2>2, <2>3, <2>5, <2>7, <2>8, <2>9, <2>10, <2>11, <2>13, <2>14,
       PassedStep, Zenon
<1> QED BY <1>1, <1>14, <1>15, Zenon

(* Sends go on; keystore, devices and frames stay.                         *)
LEMMA SentStep ==
  ASSUME IInv, Unlocked, NEW w, world' = w, w.ks = world.ks, w.device = world.device,
         w.sent = world.sent, Fit(w, count'.requests), up' = up,
         UNCHANGED <<changing, now, history, killed, cut, raced>>, sending' \subseteq Sends,
         \A t \in sending' : SendOk(t, sending', w, count'.requests, killed), Counted(count')
  PROVE  IInv'
<1>1. /\ changing' = changing /\ now' = now /\ killed' = killed /\ cut' = cut
      /\ raced' = raced /\ passphrase' = passphrase /\ identity' = identity
      /\ kicked' = kicked
  BY Zenon DEF history
<1>2. up' /\ w.ks.db # None BY Zenon DEF Unlocked, is_unlocked
<1>a. w.ks.file = world.ks.file BY Zenon
<1>b. raced => raced' BY <1>1
<1>3. Passed(w) BY <1>1, <1>2, <1>a, <1>b, Zenon DEF Passed
<1>4. SameSession(w, world) /\ Solid(w, world) BY Zenon DEF SameSession, Solid
<1>5. Fresh(w.ks.db) BY InSession, Zenon
<1>6. Held(w) /\ Used(w, killed) BY Zenon DEF IInv, Steady, Held, Used
<1>7. SendsOk' BY <1>1, <1>2, Zenon DEF SendsOk, Unlocked, is_unlocked
<1>8. kicked' \in [Groups -> Nat] BY <1>1, Zenon DEF IInv, Types
<1>9. Good(w, identity, kicked') /\ FramesOk(w, killed) /\ RowsOk(w, count'.requests)
  BY <1>1, Zenon DEF Fit
<1> QED BY <1>2, <1>3, <1>4, <1>5, <1>6, <1>7, <1>8, <1>9, PassedStep, Zenon

(* send_message begins with a sequence number for its row.                 *)
LEMMA SendMessageStep ==
  ASSUME IInv, NEW conv \in Relationships, send_message(conv),
         next_seq(world, conv) \in Nat, next_seq(world, conv) <= count.requests + 1
  PROVE  IInv'
<1> DEFINE q == next_seq(world, conv)
           N == count'.requests
           o == count.requests + 1
           s == [Send(conv, o, 0) EXCEPT !.seq = q]
<1>1. /\ Unlocked /\ Serve /\ sending' = sending \union {s} /\ world' = world /\ up' = up
      /\ UNCHANGED <<changing, now, history, killed, cut, raced>>
  BY Zenon DEF send_message, history
<1>2. /\ Counted(count) /\ count.requests \in Nat /\ world \in Worlds
      /\ world \in Session(world, identity, kicked)
  BY <1>1, InSession, Zenon
<1>3. Counted(count') /\ N = o BY <1>1, <1>2, Spent
<1>4. RowsOk(world, count.requests) /\ SendsOk /\ sending \subseteq Sends
  BY Zenon DEF IInv, Types
<1>5. q \in Nat /\ q <= o BY Zenon
<1>6. o \in Nat /\ o > count.requests BY <1>2, SMT
<1> HIDE DEF q
<1>7. /\ s.no = o /\ s.conv = conv /\ s.carries = o /\ s.deletes = 0 /\ s.seq = q
      /\ s.step = "insert"
  BY SMT DEF Send
<1>8. s \in Sends
  <2> DEFINE z == Send(conv, o, 0)
  <2>1. z \in Sends
    <3>1. o \in Nat BY <1>6, Zenon
    <3> QED BY <3>1, SMT DEF Send, Sends
  <2> HIDE DEF z
  <2>2. s = [z EXCEPT !.seq = q] BY Zenon DEF z
  <2> QED BY <1>5, <2>1, <2>2, Zenon DEF Sends
<1>9. sending' = sending \union {s} BY <1>1, Zenon
<1> HIDE DEF s, N, o
<1>10. N \in Nat /\ N >= count.requests BY <1>2, <1>3, <1>6, SMT
<1>11. Fit(world, N) BY <1>1, <1>2, <1>10, SessionFit, Zenon
<1>12. \A r \in sending : r.no # o /\ r.deletes # o
  <2>1. \A r \in sending : r.no \in Nat /\ r.deletes \in Nat BY <1>4, Zenon DEF Sends
  <2>2. \A r \in sending : r.no <= count.requests /\ r.deletes <= count.requests
    BY <1>4, Zenon DEF SendsOk, SendOk
  <2> QED BY <1>2, <1>6, <2>1, <2>2, SMT
<1>13. ~HasRow(world, o)
  <2>1. \A m \in world.messages : m.no \in Nat /\ m.no <= count.requests
    BY <1>2, <1>4, Zenon DEF RowsOk, Worlds
  <2>2. \A d \in world.deleted : d \in Nat /\ d <= count.requests
    BY <1>2, <1>4, Zenon DEF RowsOk, Worlds
  <2>3. \A x \in Nat : x <= count.requests => x # o BY <1>2, <1>6, SMT
  <2> QED BY <2>1, <2>2, <2>3, Zenon DEF HasRow
<1>14. SendOk(s, sending', world, N, killed)
  <2>1. s.no <= N /\ s.deletes <= N /\ s.seq <= N BY <1>3, <1>5, <1>6, <1>7, SMT
  <2>2. s.step # "submit" BY <1>7, SMT
  <2>3. \A t \in sending' : t.deletes # 0 => t.deletes # s.no BY <1>7, <1>9, <1>12, Zenon
  <2>4. \A t \in sending' : t.no = s.no => t = s BY <1>7, <1>9, <1>12, Zenon
  <2>5. s.carries = s.no /\ ~HasRow(world, s.no) BY <1>7, <1>13, Zenon
  <2> QED BY <2>1, <2>2, <2>3, <2>4, <2>5, Zenon DEF SendOk
<1>15. ASSUME NEW r \in sending PROVE SendOk(r, sending', world, N, killed)
  <2>1. SendOk(r, sending, world, count.requests, killed) BY <1>4, Zenon DEF SendsOk
  <2>2. r.no <= N /\ r.deletes <= N /\ r.seq <= N
    <3>1. r.no <= count.requests /\ r.deletes <= count.requests /\ r.seq <= count.requests
      BY <2>1, Zenon DEF SendOk
    <3>2. r.no \in Nat /\ r.deletes \in Nat /\ r.seq \in Nat BY <1>4, Zenon DEF Sends
    <3> QED BY <1>2, <1>10, <3>1, <3>2, SMT
  <2>3. s.step # "submit" BY <1>7, SMT
  <2>4. \A t \in sending' : t.step = "submit" => t \in sending BY <1>9, <2>3, Zenon
  <2>5. \A t \in sending' : t.deletes # 0 => t \in sending BY <1>7, <1>9, Zenon
  <2>6. \A t \in sending' : t.no = r.no => t \in sending BY <1>7, <1>9, <1>12, Zenon
  <2> QED BY <2>1, <2>2, <2>4, <2>5, <2>6, Zenon DEF SendOk
<1>16. sending' \subseteq Sends BY <1>4, <1>8, <1>9, Zenon
<1>17. \A t \in sending' : SendOk(t, sending', world, N, killed)
  BY <1>9, <1>14, <1>15, Zenon
<1> QED BY <1>1, <1>3, <1>11, <1>16, <1>17, SentStep, Zenon DEF N

(* Rows that are added, or change their status.                            *)
Adds(v, w) ==
  /\ v \in Worlds /\ v.ks = w.ks /\ SameDevices(v, w)
  /\ v.messages = w.messages /\ v.deleted = w.deleted /\ v.sent = w.sent
  /\ \A c \in Contacts : get_contact(w, c) => get_contact(v, c)

(* The keystore has the keys of r, in memory and in the file.              *)
KeysKept(k, r) ==
  /\ k.file.state # "absent" /\ (k.db # None => KeysIn(k.db, r))
  /\ k.file.state = "whole" => KeysIn(k.file.content, r)

(* Added rows keep the world fit if their conversations have keys.         *)
LEMMA AddsFit ==
  ASSUME NEW w, NEW n, Fit(w, n), NEW v, Adds(v, w),
         \A r \in v.conversations : r \in w.conversations \/ KeysKept(w.ks, r)
  PROVE  Fit(v, n)
<1>1. /\ v \in Worlds /\ v.ks = w.ks
      /\ v.messages = w.messages /\ v.deleted = w.deleted /\ v.sent = w.sent
      /\ \A c \in Contacts : w.contacts[c] # "none" => v.contacts[c] # "none"
  BY Zenon DEF Adds, get_contact
<1>2. Good(w, identity, kicked) /\ FramesOk(w, killed) /\ RowsOk(w, n) BY Zenon DEF Fit
<1>3. ASSUME w.ks.db # None PROVE DbOk(v.ks.db, v, identity, kicked)
  <2>1. DbOk(w.ks.db, w, identity, kicked) BY <1>2, <1>3, Zenon DEF Good
  <2>2. \A r \in v.conversations : KeysIn(w.ks.db, r)
    BY <1>3, <2>1, Zenon DEF DbOk, KeysKept
  <2> QED BY <1>1, <2>1, <2>2, Zenon DEF DbOk
<1>4. ASSUME w.ks.file.state = "whole" PROVE DbOk(v.ks.file.content, v, identity, kicked)
  <2>1. DbOk(w.ks.file.content, w, identity, kicked) BY <1>2, <1>4, Zenon DEF Good
  <2>2. \A r \in v.conversations : KeysIn(w.ks.file.content, r)
    BY <1>4, <2>1, Zenon DEF DbOk, KeysKept
  <2> QED BY <1>1, <2>1, <2>2, Zenon DEF DbOk
<1>5. Good(v, identity, kicked) BY <1>1, <1>2, <1>3, <1>4, Zenon DEF Good, KeysKept
<1>6. FramesOk(v, killed) BY <1>1, <1>2, Zenon DEF FramesOk, HasRow
<1>7. RowsOk(v, n) BY <1>1, <1>2, Zenon DEF RowsOk
<1> QED BY <1>5, <1>6, <1>7, Zenon DEF Fit

(* The row of a contact.                                                   *)
LEMMA ContactRow ==
  ASSUME NEW w \in Worlds, NEW c \in Contacts, NEW status \in {"pending", "active", "blocked"},
         NEW v, v = [w EXCEPT !.contacts[c] = status]
  PROVE  Adds(v, w) /\ v.conversations = w.conversations /\ get_contact(v, c)
<1> DEFINE d == [w.contacts EXCEPT ![c] = status]
<1>1. d \in [Contacts -> {"none", "pending", "active", "blocked"}] /\ d[c] # "none"
      /\ \A b \in Contacts : w.contacts[b] # "none" => d[b] # "none"
  BY Zenon DEF Worlds
<1>2. v = [w EXCEPT !.contacts = d] BY Zenon
<1> HIDE DEF d
<1> QED BY <1>1, <1>2, Zenon DEF Worlds, Adds, SameDevices, get_contact

(* A row of the contacts changes its status, in a session or outside one.  *)
LEMMA StatusStep ==
  ASSUME IInv, NEW c \in Contacts, NEW status \in {"active", "blocked"},
         get_contact(world, c), Serve, Row(set_contact_status(world, c, status))
  PROVE  IInv'
<1> DEFINE v == set_contact_status(world, c, status)
<1>1. world \in Worlds /\ v = [world EXCEPT !.contacts[c] = status]
  BY Zenon DEF set_contact_status, IInv, Good
<1>2. Counted(count) /\ count.requests \in Nat BY Zenon DEF IInv, Types, Counted
<1>3. Counted(count') /\ count'.requests = count.requests + 1 BY <1>2, Spent, Zenon
<1>4. count'.requests \in Nat /\ count'.requests >= count.requests BY <1>2, <1>3
<1>5. Last(<<v>>) = v BY DEF Last
<1>6. Runs(<<v>>) BY Zenon DEF Row
<1> HIDE DEF v
<1>7. Adds(v, world) /\ v.conversations = world.conversations
  <2>1. status \in {"pending", "active", "blocked"} BY Zenon
  <2>2. Adds(v, world) BY <1>1, <2>1, ContactRow, Zenon
  <2>3. v.conversations = world.conversations BY <1>1, <2>1, ContactRow, SMT
  <2> QED BY <2>2, <2>3, Zenon
<1>8. Fit(v, count'.requests)
  <2>1. SameTables(world, world) /\ Good(world, identity, kicked)
    BY Zenon DEF SameTables, IInv
  <2>2. world \in Tabled(world, identity, kicked) BY <1>1, <2>1, Zenon DEF Tabled
  <2>3. Fit(world, count'.requests) BY <1>3, <1>4, <2>2, TablesFit, Zenon
  <2> QED BY <1>7, <2>3, AddsFit, Zenon
<1>9. /\ up /\ world' = v /\ sending' = sending /\ changing' = changing /\ up' = up
      /\ now' = now /\ passphrase' = passphrase /\ identity' = identity
      /\ kicked' = kicked /\ killed' = killed /\ cut' = cut /\ (raced => raced')
  BY <1>5, <1>6, Zenon DEF Runs, Completes, history
<1>a. v.ks = world.ks /\ v.device = world.device /\ v.sent = world.sent
  BY <1>7, Zenon DEF Adds, SameDevices
<1>10. Types' BY <1>3, <1>9, Zenon DEF IInv, Types
<1>11. Held(v) /\ Used(v, killed) BY <1>a, Zenon DEF IInv, Steady, Held, Used
<1>12. Steady' BY <1>9, <1>a, <1>11, Zenon DEF IInv, Steady, Db
<1>13. Opens' BY <1>9, <1>a, Zenon DEF IInv, Opens
<1>14. SendsOk'
  <2>1. CASE sending = {} BY <1>9, <2>1, Zenon DEF SendsOk
  <2>2. CASE sending # {}
    <3>1. v.ks.db # None BY <1>a, <2>2, Zenon DEF IInv, SendsOk, Unlocked, is_unlocked
    <3>2. Keeps(v, world) BY <1>7, Zenon DEF Keeps, Adds
    <3> QED BY <1>2, <1>4, <1>9, <3>1, <3>2, SendsKept, Zenon
  <2> QED BY <2>1, <2>2, Zenon
<1>15. (Good(world, identity, kicked) /\ FramesOk(world, killed)
        /\ RowsOk(world, count.requests))'
  BY <1>8, <1>9, Zenon DEF Fit
<1> QED BY <1>10, <1>12, <1>13, <1>14, <1>15, Zenon DEF IInv

(* What the end of send s leaves to the other sends.                       *)
Finished(v, s) ==
  /\ v.contacts = world.contacts
  /\ \A x : HasRow(world, x) => HasRow(v, x)
  /\ \A x : HasRow(v, x) => HasRow(world, x) \/ (s.deletes # 0 /\ x = s.deletes)
  /\ \A f \in v.sent : f \in world.sent \/ (f.conv = s.conv /\ f.alone = s.alone)

(* The end of one send keeps what is said of the others.                   *)
LEMMA OthersKept ==
  ASSUME IInv, NEW s \in sending, s.step = "submit", NEW v, Finished(v, s),
         NEW t \in sending \ {s}
  PROVE  SendOk(t, sending \ {s}, v, count.requests, killed)
<1>1. /\ SendOk(t, sending, world, count.requests, killed)
      /\ SendOk(s, sending, world, count.requests, killed)
  BY Zenon DEF IInv, SendsOk
<1>2. ASSUME t.step = "insert" PROVE ~HasRow(v, t.no)
  <2>1. ~HasRow(world, t.no) /\ (s.deletes # 0 => s.deletes # t.no)
    BY <1>1, <1>2, Zenon DEF SendOk
  <2> QED BY <2>1, Zenon DEF Finished
<1>3. ASSUME t.step = "submit", t.conv \in Contacts, t.key # -1
      PROVE  /\ get_contact(v, t.conv)
             /\ \A f \in v.sent : Own(f, t.conv, killed) => f.key < t.key
  <2>1. /\ get_contact(world, t.conv)
        /\ \A f \in world.sent : Own(f, t.conv, killed) => f.key < t.key
    BY <1>1, <1>3, Zenon DEF SendOk
  <2>2. ASSUME NEW f \in v.sent, Own(f, t.conv, killed) PROVE f \in world.sent
    <3> SUFFICES ASSUME f.conv = s.conv, f.alone = s.alone PROVE FALSE
      BY <2>2, Zenon DEF Finished
    <3>1. s.alone /\ s.conv = t.conv BY <2>2, Zenon DEF Own
    <3>2. t = s BY <1>1, <1>3, <3>1, Zenon DEF SendOk
    <3> QED BY <3>2, Zenon
  <2>3. get_contact(v, t.conv) BY <2>1, Zenon DEF Finished, get_contact
  <2> QED BY <2>1, <2>2, <2>3, Zenon
<1>4. t.step = "submit" /\ t.carries # 0 => HasRow(v, t.carries)
  BY <1>1, Zenon DEF SendOk, Finished
<1> QED BY <1>1, <1>2, <1>3, <1>4, Zenon DEF SendOk

(* Sends that go on to their encryption.                                   *)
Dimmed(r, s) == IF r \in Together(s) THEN [r EXCEPT !.alone = FALSE] ELSE r

(* It loses the mark that it is alone, if s joins it, and nothing else.    *)
LEMMA DimmedIs ==
  ASSUME NEW s, NEW r \in Sends, NEW t, t = Dimmed(r, s)
  PROVE  /\ t \in Sends /\ t.no = r.no /\ t.conv = r.conv /\ t.carries = r.carries
         /\ t.deletes = r.deletes /\ t.seq = r.seq /\ t.key = r.key /\ t.step = r.step
         /\ t.alone => r.alone /\ r \notin Together(s)
<1>1. CASE r \notin Together(s) BY <1>1, Zenon DEF Dimmed
<1>2. CASE r \in Together(s)
  <2>1. t = [r EXCEPT !.alone = FALSE] BY <1>2, Zenon DEF Dimmed
  <2>2. /\ t.no = r.no /\ t.conv = r.conv /\ t.carries = r.carries /\ t.deletes = r.deletes
        /\ t.seq = r.seq /\ t.key = r.key /\ t.step = r.step
    BY <2>1, Zenon DEF Sends
  <2>3. t \in Sends BY <2>1, Zenon DEF Sends
  <2>4. ~t.alone BY <2>1, Zenon DEF Sends
  <2> QED BY <2>2, <2>3, <2>4, Zenon
<1> QED BY <1>1, <1>2, Zenon

(* What send n, which was s, needs for its encryption.                     *)
Joins(n, s, w, N) ==
  /\ n \in Sends /\ n.step = "submit" /\ n.conv = s.conv
  /\ n.alone => Together(s) = {}
  /\ n.no <= N /\ n.deletes <= N /\ n.seq <= N
  /\ n.carries # 0 => HasRow(w, n.carries)
  /\ n.conv \in Contacts => n.key = world.ks.db.ratchet[n.conv]
  /\ \A r \in sending : r # s =>
       r.no # n.no /\ (r.step = "insert" /\ n.deletes # 0 => n.deletes # r.no)

(* The row of send s may be new; nothing else is.                          *)
Stored(w, s) ==
  /\ w.sent = world.sent /\ w.contacts = world.contacts
  /\ \A x : HasRow(world, x) => HasRow(w, x)
  /\ \A r \in sending : r # s /\ HasRow(w, r.no) => HasRow(world, r.no)

(* What is said of a send that comes to its encryption.                    *)
LEMMA JoiningSend ==
  ASSUME IInv, Unlocked, NEW s, NEW n, NEW w, NEW N, Joins(n, s, w, N), Stored(w, s),
         NEW S, \A t \in S : t = n \/ \E r \in sending : r # s /\ t = Dimmed(r, s)
  PROVE  SendOk(n, S, w, N, killed)
<1>1. sending \subseteq Sends BY Zenon DEF IInv, Types
<1>a. \A r \in sending : /\ Dimmed(r, s).no = r.no /\ Dimmed(r, s).conv = r.conv
                         /\ Dimmed(r, s).step = r.step
  BY <1>1, DimmedIs
<1>2. \A t \in S : t.no = n.no => t = n
  <2> SUFFICES ASSUME NEW r \in sending, r # s, NEW t, t = Dimmed(r, s) PROVE t.no # n.no
    BY Zenon
  <2>1. t.no = r.no BY <1>a, Zenon
  <2> QED BY <2>1, Zenon DEF Joins
<1>3. ASSUME n.conv \in Contacts, n.key # -1
      PROVE  /\ get_contact(w, n.conv)
             /\ \A f \in w.sent : Own(f, n.conv, killed) => f.key < n.key
  <2>1. world.ks.db # None BY Zenon DEF Unlocked, is_unlocked
  <2>2. Good(world, identity, kicked) /\ Used(world, killed) BY Zenon DEF IInv, Steady
  <2>3. n.key = world.ks.db.ratchet[n.conv] BY <1>3, Zenon DEF Joins
  <2>4. get_contact(w, n.conv)
    BY <1>3, <2>1, <2>2, <2>3, Zenon DEF Good, DbOk, get_contact, Stored
  <2>5. \A f \in w.sent : Own(f, n.conv, killed) => f.key < n.key
    BY <1>3, <2>1, <2>2, <2>3, Zenon DEF Used, Live, Cur, Stored
  <2> QED BY <2>4, <2>5, Zenon
<1>4. n.alone => \A t \in S : t.step = "submit" /\ t.conv = n.conv => t = n
  <2> SUFFICES ASSUME n.alone, NEW r \in sending, Dimmed(r, s).step = "submit",
                      Dimmed(r, s).conv = n.conv
               PROVE  FALSE
    BY Zenon
  <2>1. r.step = "submit" /\ r.conv = s.conv BY <1>a, Zenon DEF Joins
  <2> QED BY <2>1, Zenon DEF Together, Joins
<1>5. n.step # "insert" BY SMT DEF Joins
<1> QED BY <1>2, <1>3, <1>4, <1>5, Zenon DEF SendOk, Joins

(* What is said of the others.                                             *)
LEMMA DimmedSend ==
  ASSUME IInv, Unlocked, NEW s, NEW n, NEW w, NEW N \in Nat, N >= count.requests,
         Joins(n, s, w, N), Stored(w, s),
         NEW S, \A t \in S : t = n \/ \E r \in sending : r # s /\ t = Dimmed(r, s),
         NEW r \in sending, r # s, NEW t, t = Dimmed(r, s)
  PROVE  SendOk(t, S, w, N, killed)
<1>1. sending \subseteq Sends /\ count.requests \in Nat BY DEF IInv, Types, Counted
<1>2. SendOk(r, sending, world, count.requests, killed) BY Zenon DEF IInv, SendsOk
<1>3. /\ t \in Sends /\ t.no = r.no /\ t.conv = r.conv /\ t.carries = r.carries
      /\ t.deletes = r.deletes /\ t.seq = r.seq /\ t.key = r.key /\ t.step = r.step
      /\ t.alone => r.alone /\ r \notin Together(s)
  BY <1>1, DimmedIs, SMT
<1>4. t.no <= N /\ t.deletes <= N /\ t.seq <= N
  <2>1. r.no <= count.requests /\ r.deletes <= count.requests /\ r.seq <= count.requests
    BY <1>2, Zenon DEF SendOk
  <2>2. t.no \in Nat /\ t.deletes \in Nat /\ t.seq \in Nat BY <1>3, Zenon DEF Sends
  <2> QED BY <1>1, <1>3, <2>1, <2>2, SMT
<1>5. \A u \in S : u = n \/ \E q \in sending : q # s /\ u = Dimmed(q, s)
                             /\ u.no = q.no /\ u.conv = q.conv /\ u.deletes = q.deletes
                             /\ u.step = q.step
  <2>1. \A q \in sending :
          /\ Dimmed(q, s).no = q.no /\ Dimmed(q, s).conv = q.conv
          /\ Dimmed(q, s).deletes = q.deletes /\ Dimmed(q, s).step = q.step
    BY <1>1, DimmedIs
  <2> SUFFICES ASSUME NEW u \in S, u # n
               PROVE  \E q \in sending : /\ q # s /\ u = Dimmed(q, s) /\ u.no = q.no
                                         /\ u.conv = q.conv /\ u.deletes = q.deletes
                                         /\ u.step = q.step
    BY Zenon
  <2>2. PICK q \in sending : q # s /\ u = Dimmed(q, s) BY Zenon
  <2>3. u.no = q.no /\ u.conv = q.conv /\ u.deletes = q.deletes /\ u.step = q.step
    BY <2>1, <2>2, Zenon
  <2> QED BY <2>2, <2>3, Zenon
<1>6. \A u \in S : u.no = t.no => u = t
  <2> SUFFICES ASSUME NEW u \in S, u.no = t.no PROVE u = t BY Zenon
  <2>1. u # n BY <1>3, Zenon DEF Joins
  <2>2. PICK q \in sending : u = Dimmed(q, s) /\ u.no = q.no BY <1>5, <2>1, Zenon
  <2>3. q = r BY <1>2, <1>3, <2>2, Zenon DEF SendOk
  <2> QED BY <2>2, <2>3, Zenon
<1>7. ASSUME t.step = "insert"
      PROVE  /\ t.carries = t.no /\ ~HasRow(w, t.no)
             /\ \A u \in S : u.deletes # 0 => u.deletes # t.no
  <2>1. /\ r.carries = r.no /\ ~HasRow(world, r.no)
        /\ \A u \in sending : u.deletes # 0 => u.deletes # r.no
    BY <1>2, <1>3, <1>7, Zenon DEF SendOk
  <2>2. ~HasRow(w, t.no) BY <1>3, <2>1, Zenon DEF Stored
  <2>3. ASSUME NEW u \in S, u.deletes # 0 PROVE u.deletes # t.no
    <3>1. CASE u = n BY <1>3, <1>7, <2>3, <3>1, Zenon DEF Joins
    <3>2. CASE u # n
      <4>1. PICK q \in sending : u.deletes = q.deletes BY <1>5, <2>3, <3>2, Zenon
      <4> QED BY <1>3, <2>1, <2>3, <4>1, Zenon
    <3> QED BY <3>1, <3>2, Zenon
  <2> QED BY <1>3, <2>1, <2>2, <2>3, Zenon
<1>8. ASSUME t.step = "submit"
      PROVE  /\ t.carries # 0 => HasRow(w, t.carries)
             /\ t.conv \in Contacts /\ t.key # -1 =>
                  /\ get_contact(w, t.conv)
                  /\ \A f \in w.sent : Own(f, t.conv, killed) => f.key < t.key
  <2>1. /\ r.carries # 0 => HasRow(world, r.carries)
        /\ r.conv \in Contacts /\ r.key # -1 =>
             /\ get_contact(world, r.conv)
             /\ \A f \in world.sent : Own(f, r.conv, killed) => f.key < r.key
    BY <1>2, <1>3, <1>8, Zenon DEF SendOk
  <2> QED BY <1>3, <2>1, Zenon DEF Stored, get_contact
<1>9. ASSUME t.step = "submit", t.alone, NEW u \in S, u.step = "submit", u.conv = t.conv
      PROVE  u = t
  <2>1. r.alone /\ r \notin Together(s) /\ r.step = "submit" BY <1>3, <1>9, Zenon
  <2>2. r.conv # s.conv BY <2>1, Zenon DEF Together
  <2>3. u # n BY <1>3, <1>9, <2>2, Zenon DEF Joins
  <2>4. PICK q \in sending : u = Dimmed(q, s) /\ u.conv = q.conv /\ u.step = q.step
    BY <1>5, <1>9, <2>3, Zenon
  <2>5. q = r BY <1>2, <1>3, <1>9, <2>1, <2>4, Zenon DEF SendOk
  <2> QED BY <2>4, <2>5, Zenon
<1> QED BY <1>4, <1>6, <1>7, <1>8, <1>9, Zenon DEF SendOk

(* Rows of messages that are written or deleted.                           *)
Rewritten(v, w) ==
  /\ v \in Worlds /\ v.ks = w.ks /\ v.device = w.device /\ v.sent = w.sent
  /\ v.contacts = w.contacts /\ v.conversations = w.conversations

(* They keep the world fit if the rows of frames stay or are deleted.      *)
LEMMA MessagesFit ==
  ASSUME NEW n, NEW w, Fit(w, n), NEW v, Rewritten(v, w), RowsOk(v, n),
         \A x : HasRow(w, x) => HasRow(v, x)
  PROVE  Fit(v, n)
<1>1. w \in Worlds /\ Good(w, identity, kicked) /\ FramesOk(w, killed)
  BY Zenon DEF Fit, Good
<1>2. Good(v, identity, kicked) BY <1>1, Zenon DEF Good, DbOk, Rewritten
<1>3. FramesOk(v, killed) BY <1>1, Zenon DEF FramesOk, Rewritten
<1> QED BY <1>2, <1>3, Zenon DEF Fit

(* Send s at its encryption.                                               *)
Submitted(s) == [s EXCEPT !.step = "submit", !.alone = Together(s) = {},
                          !.seq = 0, !.key = ReadKey(s.conv)]

(* It has read its key.                                                    *)
LEMMA SubmittedIs ==
  ASSUME IInv, Unlocked, NEW s \in Sends, NEW n, n = Submitted(s)
  PROVE  /\ n \in Sends /\ n.step = "submit" /\ n.conv = s.conv /\ n.seq = 0
         /\ n.no = s.no /\ n.carries = s.carries /\ n.deletes = s.deletes
         /\ n.alone => Together(s) = {}
         /\ n.conv \in Contacts => n.key = world.ks.db.ratchet[n.conv]
<1> DEFINE e == (Together(s) = {})
           k == ReadKey(s.conv)
<1>1. e \in BOOLEAN BY Zenon
<1>2. s.conv \in Contacts => k = world.ks.db.ratchet[s.conv]
  BY Zenon DEF ReadKey, get_ratchet_state, Db
<1>3. k \in Nat \union {-1}
  <2>1. world \in Worlds /\ world.ks.db # None
    BY InSession, Zenon DEF Unlocked, is_unlocked
  <2>2. world.ks.db.ratchet \in [Contacts -> Nat \union {-1}]
    BY <2>1, Zenon DEF Worlds, Keystores, Databases
  <2> QED BY <1>2, <2>2, Zenon DEF ReadKey
<1>4. n = [s EXCEPT !.step = "submit", !.alone = e, !.seq = 0, !.key = k]
  BY Zenon DEF Submitted
<1> HIDE DEF e, k
<1>5. /\ n.step = "submit" /\ n.conv = s.conv /\ n.seq = 0 /\ n.key = k
      /\ n.no = s.no /\ n.carries = s.carries /\ n.deletes = s.deletes
  BY <1>4, Zenon DEF Sends
<1>6. n.alone = e BY <1>4, Zenon DEF Sends
<1>7. 0 \in Nat BY SMT
<1>8. n \in Sends BY <1>1, <1>3, <1>4, <1>7, Zenon DEF Sends
<1>9. n.alone => Together(s) = {} BY <1>6, Zenon DEF e
<1> QED BY <1>2, <1>5, <1>8, <1>9, Zenon

(* The sends in progress after it has.                                     *)
LEMMA AtSubmitIs ==
  ASSUME NEW s, NEW t \in AtSubmit(s)
  PROVE  t = Submitted(s) \/ \E r \in sending : t = Dimmed(r, s)
BY Zenon DEF AtSubmit, Submitted, Dimmed, Together

(* All sends together.                                                     *)
LEMMA JoinedSends ==
  ASSUME IInv, Unlocked, NEW s, NEW n, NEW w, NEW N \in Nat, N >= count.requests,
         Joins(n, s, w, N), Stored(w, s),
         NEW S, \A t \in S : t = n \/ \E r \in sending : r # s /\ t = Dimmed(r, s)
  PROVE  S \subseteq Sends /\ \A t \in S : SendOk(t, S, w, N, killed)
<1>1. sending \subseteq Sends BY Zenon DEF IInv, Types
<1>2. n \in Sends BY Zenon DEF Joins
<1> SUFFICES ASSUME NEW t \in S PROVE t \in Sends /\ SendOk(t, S, w, N, killed)
  BY Zenon
<1>3. CASE t = n BY <1>2, <1>3, JoiningSend, Zenon
<1>4. CASE \E r \in sending : r # s /\ t = Dimmed(r, s)
  <2>1. PICK r \in sending : r # s /\ t = Dimmed(r, s) BY <1>4, Zenon
  <2>2. r \in Sends BY <1>1, Zenon
  <2>3. t \in Sends BY <2>1, <2>2, DimmedIs, Zenon
  <2>4. SendOk(t, S, w, N, killed) BY <2>1, DimmedSend, SMT
  <2> QED BY <2>3, <2>4, Zenon
<1> QED BY <1>3, <1>4, Zenon

(* The row of a send is inserted, or refused with the send.                *)
LEMMA StoreMessageStep ==
  ASSUME IInv, NEW s \in sending, StoreMessage(s)
  PROVE  IInv'
<1> DEFINE n == Submitted(s)
           m == RowFor(s)
           w == insert_message(world, m)
           N == count'.requests
<1>1. /\ s.step = "insert" /\ up' = up /\ count' = count
      /\ UNCHANGED <<changing, now, history, killed, cut, raced>>
      /\ \/ sending' = sending \ {s} /\ world' = world
         \/ sending' = AtSubmit(s) \ {s} /\ world' = w
  BY Zenon DEF StoreMessage, history
<1>2. /\ Unlocked /\ s \in Sends /\ SendOk(s, sending, world, count.requests, killed)
      /\ sending \subseteq Sends
  BY Zenon DEF IInv, Types, SendsOk
<1>3. /\ Counted(count) /\ count.requests \in Nat /\ world \in Worlds
      /\ world \in Session(world, identity, kicked)
  BY <1>2, InSession, Zenon
<1>4. Counted(count') /\ N = count.requests BY <1>1, <1>3, Zenon
<1>5. n = Submitted(s) /\ m = RowFor(s) /\ w = insert_message(world, m) BY Zenon
<1> HIDE DEF n, m, w, N
<1>6. N \in Nat /\ N >= count.requests BY <1>3, <1>4, SMT
<1>7. Fit(world, N) BY <1>2, <1>3, <1>6, SessionFit, Zenon
<1>8. /\ s.no <= N /\ s.deletes <= N /\ s.seq <= N
      /\ s.carries = s.no /\ ~HasRow(world, s.no)
      /\ \A t \in sending : t.no = s.no => t = s
  BY <1>1, <1>2, <1>4, Zenon DEF SendOk
<1>9. CASE sending' = sending \ {s} /\ world' = world
  <2>1. \A t \in sending \ {s} : SendOk(t, sending \ {s}, world, N, killed)
    BY <1>4, Zenon DEF IInv, SendsOk, SendOk
  <2>2. sending' \subseteq Sends BY <1>2, <1>9, Zenon
  <2> QED BY <1>1, <1>2, <1>4, <1>7, <1>9, <2>1, <2>2, SentStep, Zenon DEF N
<1>10. CASE sending' = AtSubmit(s) \ {s} /\ world' = w
  <2> DEFINE M == world.messages \union {m}
             D == world.deleted
  <2>1. s.no \in Nat /\ s.conv \in Relationships /\ s.seq \in Nat BY <1>2, Zenon DEF Sends
  <2>2. /\ m \in [no : Nat, conv : Relationships, seq : Nat] /\ m.no = s.no /\ m.seq = s.seq
    BY <1>5, <2>1, SMT DEF RowFor
  <2>3. /\ M \subseteq [no : Nat, conv : Relationships, seq : Nat] /\ D \subseteq Nat
    BY <1>3, <2>2, Zenon DEF Worlds
  <2>4. w.messages = M /\ w.deleted = D /\ Rewritten(w, world)
    <3>1. w = [world EXCEPT !.messages = M] BY <1>5, Zenon DEF insert_message
    <3>2. M \in SUBSET [no : Nat, conv : Relationships, seq : Nat] BY <2>3, Zenon
    <3> HIDE DEF M
    <3> QED BY <1>3, <3>1, <3>2, Zenon DEF Worlds, Rewritten
  <2>5. M = world.messages \union {m} /\ D = world.deleted BY Zenon
  <2> HIDE DEF M, D
  <2>6. \A x : HasRow(w, x) <=> HasRow(world, x) \/ x = s.no
    BY <2>2, <2>4, <2>5, Zenon DEF HasRow
  <2>7. RowsOk(world, N) BY <1>7, Zenon DEF Fit
  <2>8. RowsOk(w, N)
    <3>1. m.no <= N /\ m.seq <= N /\ m.no \notin world.deleted
      BY <1>8, <2>2, Zenon DEF HasRow
    <3> QED BY <2>4, <2>5, <2>7, <3>1, Zenon DEF RowsOk
  <2>9. Fit(w, N) /\ w.ks = world.ks /\ w.device = world.device /\ w.sent = world.sent
        /\ w.contacts = world.contacts
    BY <1>7, <2>4, <2>6, <2>8, MessagesFit, Zenon DEF Rewritten
  <2>10. /\ n \in Sends /\ n.step = "submit" /\ n.conv = s.conv /\ n.seq = 0
         /\ n.no = s.no /\ n.carries = s.carries /\ n.deletes = s.deletes
         /\ n.conv \in Contacts => n.key = world.ks.db.ratchet[n.conv]
    BY <1>2, <1>5, SubmittedIs, SMT
  <2>11. n.alone => Together(s) = {} BY <1>2, <1>5, SubmittedIs, Zenon
  <2>12. Joins(n, s, w, N)
    <3>1. n.no <= N /\ n.deletes <= N BY <1>8, <2>10, Zenon
    <3>2. n.seq <= N BY <1>6, <2>10, SMT
    <3>3. HasRow(w, n.carries) BY <1>8, <2>6, <2>10, Zenon
    <3>4. ASSUME NEW r \in sending, r # s
          PROVE  r.no # n.no /\ (r.step = "insert" /\ n.deletes # 0 => n.deletes # r.no)
      <4>1. r.no # n.no BY <1>8, <2>10, <3>4, Zenon
      <4>2. SendOk(r, sending, world, count.requests, killed) BY Zenon DEF IInv, SendsOk
      <4>3. r.step = "insert" /\ s.deletes # 0 => s.deletes # r.no BY <4>2, Zenon DEF SendOk
      <4> QED BY <2>10, <4>1, <4>3, Zenon
    <3> QED BY <2>10, <2>11, <3>1, <3>2, <3>3, <3>4, Zenon DEF Joins
  <2>13. Stored(w, s) BY <1>8, <2>6, <2>9, Zenon DEF Stored
  <2>14. ASSUME NEW t \in AtSubmit(s) \ {s}
         PROVE  t = n \/ \E r \in sending : r # s /\ t = Dimmed(r, s)
    <3>1. t = n \/ \E r \in sending : t = Dimmed(r, s) BY <1>5, AtSubmitIs, Zenon
    <3>2. s.step # "submit" BY <1>1, SMT
    <3>3. Dimmed(s, s) = s BY <3>2, Zenon DEF Dimmed, Together
    <3> QED BY <2>14, <3>1, <3>3, Zenon
  <2>15. /\ sending' \subseteq Sends
         /\ \A t \in sending' : SendOk(t, sending', w, N, killed)
    BY <1>2, <1>6, <1>10, <2>12, <2>13, <2>14, JoinedSends, SMT
  <2> QED BY <1>1, <1>2, <1>4, <1>10, <2>9, <2>15, SentStep, Zenon DEF N
<1> QED BY <1>1, <1>9, <1>10, Zenon

(* The requests that send without a row of their own.                      *)
LEMMA BeginSendStep ==
  ASSUME IInv, NEW conv \in Relationships, NEW d \in Nat, d # 0 => HasRow(world, d),
         BeginSend(conv, d)
  PROVE  IInv'
<1> DEFINE s == Send(conv, 0, d)
           n == Submitted(s)
           N == count'.requests
<1>1. /\ Unlocked /\ Serve /\ sending' = AtSubmit(s) /\ world' = world /\ up' = up
      /\ UNCHANGED <<changing, now, history, killed, cut, raced>>
  BY Zenon DEF BeginSend, history
<1>2. Counted(count) /\ count.requests \in Nat /\ world \in Session(world, identity, kicked)
  BY <1>1, InSession, Zenon
<1>3. Counted(count') /\ N = count.requests + 1 BY <1>1, <1>2, Spent
<1>4. s.no = count.requests + 1 /\ s.conv = conv /\ s.carries = 0 /\ s.deletes = d
  BY SMT DEF Send
<1>5. s \in Sends BY <1>2, SMT DEF Send, Sends
<1>6. n = Submitted(s) BY Zenon
<1> HIDE DEF s, n, N
<1>7. N \in Nat /\ N >= count.requests BY <1>2, <1>3, SMT
<1>8. Fit(world, N) BY <1>1, <1>2, <1>7, SessionFit, Zenon
<1>9. /\ n \in Sends /\ n.step = "submit" /\ n.conv = s.conv /\ n.seq = 0
      /\ n.no = s.no /\ n.carries = s.carries /\ n.deletes = s.deletes
      /\ n.conv \in Contacts => n.key = world.ks.db.ratchet[n.conv]
  BY <1>1, <1>5, <1>6, SubmittedIs, SMT
<1>10. n.alone => Together(s) = {} BY <1>1, <1>5, <1>6, SubmittedIs, Zenon
<1>11. SendsOk /\ sending \subseteq Sends /\ RowsOk(world, count.requests)
       /\ world \in Worlds
  BY Zenon DEF IInv, Types, Good
<1>12. \A r \in sending : r.no \in Nat /\ r.no <= count.requests
  BY <1>11, Zenon DEF SendsOk, SendOk, Sends
<1>13. \A r \in sending : r.no # s.no BY <1>2, <1>4, <1>12, SMT
<1>14. ASSUME NEW r \in sending, r.step = "insert", d # 0 PROVE d # r.no
  <2>1. ~HasRow(world, r.no) BY <1>11, <1>14, Zenon DEF SendsOk, SendOk
  <2> QED BY <1>14, <2>1, Zenon
<1>15. d <= N
  <2>1. d = 0 \/ d \in world.deleted \/ \E m \in world.messages : m.no = d
    BY Zenon DEF HasRow
  <2>2. d = 0 \/ d <= count.requests BY <1>11, <2>1, Zenon DEF RowsOk
  <2> QED BY <1>2, <1>3, <2>2, SMT
<1>16. Joins(n, s, world, N)
  <2>1. n.no <= N /\ n.deletes <= N /\ n.seq <= N
    BY <1>2, <1>3, <1>4, <1>7, <1>9, <1>15, SMT
  <2>2. n.carries = 0 BY <1>4, <1>9, Zenon
  <2>3. \A r \in sending : r # s =>
          r.no # n.no /\ (r.step = "insert" /\ n.deletes # 0 => n.deletes # r.no)
    BY <1>4, <1>9, <1>13, <1>14, Zenon
  <2> QED BY <1>9, <1>10, <2>1, <2>2, <2>3, Zenon DEF Joins
<1>17. Stored(world, s) BY Zenon DEF Stored
<1>18. \A t \in AtSubmit(s) : t = n \/ \E r \in sending : r # s /\ t = Dimmed(r, s)
  BY <1>6, <1>13, AtSubmitIs, Zenon
<1>19. /\ sending' \subseteq Sends
       /\ \A t \in sending' : SendOk(t, sending', world, N, killed)
  BY <1>1, <1>7, <1>16, <1>17, <1>18, JoinedSends, SMT
<1> QED BY <1>1, <1>3, <1>8, <1>19, SentStep, Zenon DEF N

(* Handlers that change tables.                                            *)
Fits(n) == {v \in Worlds : Fit(v, n)}

(* Worlds that are fit.                                                    *)
LEMMA InFits ==
  ASSUME NEW v, NEW n
  PROVE  v \in Fits(n) <=> Fit(v, n)
BY Zenon DEF Fits, Fit, Good

(* Where a handler may leave a session.                                    *)
Leaves(v) ==
  /\ v.ks.db # None /\ SameSession(v, world) /\ Fresh(v.ks.db)
  /\ Solid(v, world) /\ Held(v) /\ Used(v, killed)

(* Frames.                                                                 *)
Framed(w, x, f) == [w EXCEPT !.ks.db = x, !.sent = @ \union {f}]

(* A frame under database x.                                               *)
LEMMA WithFrame ==
  ASSUME NEW w \in Worlds, NEW x \in Databases, NEW f \in Frame, NEW v, v = Framed(w, x, f)
  PROVE  /\ v \in Worlds /\ v.ks.db = x /\ v.ks.file = w.ks.file
         /\ SameSession(v, w) /\ SameDevices(v, w) /\ v.sent = w.sent \union {f}
         /\ v.contacts = w.contacts /\ v.conversations = w.conversations
         /\ v.messages = w.messages /\ v.deleted = w.deleted
<1> DEFINE u == SetDb(w, x)
           d == w.sent \union {f}
<1>1. /\ u \in Worlds /\ u.ks.db = x /\ u.ks.file = w.ks.file
      /\ SameSession(u, w) /\ SameTables(u, w) /\ SameDevices(u, w)
  BY WithDb, Zenon
<1>2. d \in SUBSET Frame /\ d = w.sent \union {f} BY Zenon DEF Worlds
<1>3. v = [u EXCEPT !.sent = d] BY Zenon DEF Framed, SetDb
<1> HIDE DEF u, d
<1>4. /\ v \in Worlds /\ v.ks = u.ks /\ v.sent = d /\ SameDevices(v, u)
      /\ v.contacts = u.contacts /\ v.conversations = u.conversations
      /\ v.messages = u.messages /\ v.deleted = u.deleted
  BY <1>1, <1>2, <1>3, Zenon DEF Worlds, SameDevices
<1> QED BY <1>1, <1>2, <1>4, Zenon DEF SameSession, SameTables, SameDevices

(* A frame that may be handed to the Outbox: its key is new among the      *)
(* frames of this life of the process, unless its send has overlapped.     *)
Sound(f, w) ==
  /\ f \in Frame /\ f.killed = killed /\ ~f.stale
  /\ f.conv \in Groups => f.key >= f.floor
  /\ f.row # 0 => HasRow(w, f.row)
  /\ f.conv \in Contacts =>
       /\ w.contacts[f.conv] # "none"
       /\ \A g \in w.sent : Own(g, f.conv, killed) => g.key < f.key

(* A sound frame keeps the world fit.                                      *)
LEMMA FrameFit ==
  ASSUME NEW n, NEW w, Fit(w, n), w.ks.db # None, NEW x \in Databases,
         DbOk(x, w, identity, kicked), NEW f, Sound(f, w), NEW v, v = Framed(w, x, f),
         killed \in Nat
  PROVE  Fit(v, n)
<1>1. w \in Worlds /\ Good(w, identity, kicked) /\ FramesOk(w, killed) /\ RowsOk(w, n)
  BY Zenon DEF Fit, Good
<1>2. f \in Frame BY Zenon DEF Sound
<1>3. /\ v \in Worlds /\ v.ks.db = x /\ v.ks.file = w.ks.file
      /\ v.sent = w.sent \union {f}
      /\ v.contacts = w.contacts /\ v.conversations = w.conversations
      /\ v.messages = w.messages /\ v.deleted = w.deleted
  BY <1>1, <1>2, WithFrame, SMT
<1>4. DbOk(v.ks.db, v, identity, kicked) BY <1>3, Zenon DEF DbOk
<1>5. v.ks.file.state = "whole" => DbOk(v.ks.file.content, v, identity, kicked)
  BY <1>1, <1>3, Zenon DEF Good, DbOk
<1>6. v.ks.file.state # "absent" BY <1>1, <1>3, Zenon DEF Good
<1>7. Good(v, identity, kicked) BY <1>3, <1>4, <1>5, <1>6, Zenon DEF Good
<1>8. RowsOk(v, n) BY <1>1, <1>3, Zenon DEF RowsOk
<1>9. FramesOk(v, killed)
  <2>1. f.killed <= killed BY SMT DEF Sound
  <2>2. ASSUME NEW g \in v.sent
        PROVE  /\ g.killed <= killed /\ ~g.stale /\ (g.conv \in Groups => g.key >= g.floor)
               /\ g.row # 0 => HasRow(v, g.row)
               /\ g.conv \in Contacts => v.contacts[g.conv] # "none"
    <3>1. CASE g = f BY <1>3, <2>1, <3>1, Zenon DEF Sound, HasRow
    <3>2. CASE g \in w.sent BY <1>1, <1>3, <3>2, Zenon DEF FramesOk, HasRow
    <3> QED BY <1>3, <2>2, <3>1, <3>2, Zenon
  <2>3. ASSUME NEW g \in w.sent, g.conv = f.conv, f.conv \in Contacts, g.alone,
               g.killed = f.killed
        PROVE  g.key # f.key
    <3>1. Own(g, f.conv, killed) BY <2>3, Zenon DEF Own, Sound
    <3>2. g.key < f.key BY <2>3, <3>1, Zenon DEF Sound
    <3>3. g.key \in Nat /\ f.key \in Nat BY <1>1, <1>2, <2>3, Zenon DEF Worlds, Frame
    <3> QED BY <3>2, <3>3, SMT
  <2>4. ASSUME NEW g \in v.sent, NEW h \in v.sent, g # h, g.conv = h.conv,
               g.conv \in Contacts, g.alone, h.alone, g.killed = h.killed
        PROVE  g.key # h.key
    <3>1. CASE g = f /\ h \in w.sent BY <2>3, <2>4, <3>1, Zenon
    <3>2. CASE h = f /\ g \in w.sent BY <2>3, <2>4, <3>2, Zenon
    <3>3. CASE g \in w.sent /\ h \in w.sent BY <1>1, <2>4, <3>3, Zenon DEF FramesOk
    <3> QED BY <1>3, <2>4, <3>1, <3>2, <3>3, Zenon
  <2> QED BY <2>2, <2>4, Zenon DEF FramesOk
<1> QED BY <1>7, <1>8, <1>9, Zenon DEF Fit

(* A ratchet moves on.                                                     *)
LEMMA SetRatchetState ==
  ASSUME NEW w, NEW id, NEW ki, NEW x \in Databases, DbOk(x, w, id, ki),
         NEW c \in Contacts, w.contacts[c] # "none", NEW n \in Nat,
         NEW y, y = set_ratchet_state(x, c, n)
  PROVE  /\ y \in Databases /\ DbOk(y, w, id, ki) /\ y.key_c = x.key_c
         /\ y.ratchet = [x.ratchet EXCEPT ![c] = n]
<1> DEFINE d == [x.ratchet EXCEPT ![c] = n]
<1>1. d \in [Contacts -> Nat \union {-1}] /\ x.ratchet \in [Contacts -> Nat \union {-1}]
  BY Zenon DEF Databases
<1>2. y = [x EXCEPT !.ratchet = d] BY Zenon DEF set_ratchet_state
<1>3. d = [x.ratchet EXCEPT ![c] = n] BY Zenon
<1> HIDE DEF d
<1>4. /\ y \in Databases /\ y.ratchet = d /\ y.key_a = x.key_a
      /\ y.key_c = x.key_c /\ y.key_b = x.key_b /\ y.prekeys = x.prekeys
      /\ y.sender = x.sender
  BY <1>1, <1>2, Zenon DEF Databases
<1>5. \A b \in Contacts : y.ratchet[b] # -1 => w.contacts[b] # "none"
  BY <1>1, <1>3, <1>4, Zenon DEF DbOk
<1>6. DbOk(y, w, id, ki)
  BY <1>4, <1>5, Zenon DEF DbOk, Stocks, KeysIn, get_key_b, get_sender_key
<1> QED BY <1>3, <1>4, <1>6, Zenon

(* A frame under a ratchet key, which moves on.                            *)
LEMMA RatchetFrame ==
  ASSUME NEW n, NEW w, Fit(w, n), Leaves(w), NEW f, Sound(f, w), f.conv \in Contacts,
         NEW v, v = Framed(w, set_ratchet_state(w.ks.db, f.conv, f.key + 1), f),
         killed \in Nat
  PROVE  Fit(v, n) /\ Leaves(v)
<1> DEFINE x == w.ks.db
           c == f.conv
           y == set_ratchet_state(x, c, f.key + 1)
<1>1. /\ w \in Worlds /\ x # None /\ f \in Frame /\ w.contacts[c] # "none"
      /\ \A g \in w.sent : Own(g, c, killed) => g.key < f.key
  BY Zenon DEF Fit, Good, Leaves, Sound
<1>2. x \in Databases /\ DbOk(x, w, identity, kicked)
  BY <1>1, Zenon DEF Fit, Good, Worlds, Keystores
<1>3. f.key \in Nat /\ f.key + 1 \in Nat BY <1>1, SMT DEF Frame
<1>4. /\ y \in Databases /\ DbOk(y, w, identity, kicked) /\ y.key_c = x.key_c
      /\ y.ratchet = [x.ratchet EXCEPT ![c] = f.key + 1]
  BY <1>1, <1>2, <1>3, SetRatchetState, SMT
<1>5. v = Framed(w, y, f) BY Zenon
<1> HIDE DEF y
<1>6. Fit(v, n) BY <1>1, <1>4, <1>5, FrameFit, Zenon
<1>7. /\ v.ks.db = y /\ v.ks.file = w.ks.file /\ v.sent = w.sent \union {f}
  BY <1>1, <1>4, <1>5, WithFrame, SMT
<1>8. SameSession(v, w) /\ SameDevices(v, w) BY <1>1, <1>4, <1>5, WithFrame, SMT
<1>9. y # None BY <1>4, NoneApart, Zenon
<1>10. Fresh(y) BY <1>4, Zenon DEF Leaves, Fresh
<1>11. SameSession(v, world) /\ Solid(v, world)
  BY <1>7, <1>8, Zenon DEF Leaves, SameSession, Solid
<1>12. Held(v)
  <2>1. HeldBy(w.device, x) BY <1>1, Zenon DEF Leaves, Held, Live, Cur
  <2>2. HeldBy(v.device, y) BY <1>4, <1>8, <2>1, Zenon DEF HeldBy, Unrevoked, SameDevices
  <2> QED BY <1>7, <1>9, <2>2, Zenon DEF Held, Cur
<1>13. Used(v, killed)
  <2> SUFFICES ASSUME NEW b \in Contacts, NEW g \in v.sent, Own(g, b, killed)
               PROVE  g.key < y.ratchet[b]
    BY <1>7, <1>9, Zenon DEF Used, Cur
  <2>1. x.ratchet \in [Contacts -> Nat \union {-1}] BY <1>2, Zenon DEF Databases
  <2>2. CASE b # c
    <3>1. g \in w.sent BY <1>7, <2>2, Zenon DEF Own
    <3>2. g.key < x.ratchet[b] BY <1>1, <3>1, Zenon DEF Leaves, Used, Live, Cur
    <3>3. y.ratchet[b] = x.ratchet[b] BY <1>4, <2>1, <2>2, Zenon
    <3> QED BY <3>2, <3>3, Zenon
  <2>3. CASE b = c
    <3>1. y.ratchet[b] = f.key + 1 BY <1>4, <2>1, <2>3, Zenon
    <3>2. CASE g = f BY <1>3, <3>1, <3>2, SMT
    <3>3. CASE g \in w.sent
      <4>1. g.key < f.key BY <1>1, <2>3, <3>3, Zenon
      <4>2. g.key \in Nat BY <1>1, <3>3, Zenon DEF Worlds, Frame
      <4> QED BY <1>3, <3>1, <4>1, <4>2, SMT
    <3> QED BY <1>7, <3>2, <3>3, Zenon
  <2> QED BY <2>2, <2>3, Zenon
<1> QED BY <1>6, <1>7, <1>9, <1>10, <1>11, <1>12, <1>13, Zenon DEF Leaves

(* A frame to a contact under a fresh cert and a fresh key is sound.       *)
LEMMA DmFrameSound ==
  ASSUME NEW w \in Worlds, w.ks.db # None, Fresh(w.ks.db), now \in Nat, killed \in Nat,
         NEW f, f = DmFrame(w, f.no, f.row, f.conv, f.key, f.alone),
         f.no \in Nat, f.row \in Nat, f.row # 0 => HasRow(w, f.row),
         f.conv \in Contacts, w.contacts[f.conv] # "none", f.key \in Nat,
         \A g \in w.sent : Own(g, f.conv, killed) => g.key < f.key,
         f.alone \in BOOLEAN
  PROVE  Sound(f, w)
<1> DEFINE stale == \E kc \in Unrevoked(w.ks.db, "outbox") : kc.expires_at <= now
<1>1. w.ks.db \in Databases BY Zenon DEF Worlds, Keystores
<1>2. \A kc \in w.ks.db.key_c : kc.expires_at \in Nat BY <1>1, Zenon DEF Databases
<1>3. \A kc \in w.ks.db.key_c : ~(kc.expires_at <= now) BY <1>2, SMT DEF Fresh
<1>4. ~stale BY <1>3, Zenon DEF Unrevoked
<1>5. stale \in BOOLEAN BY Zenon
<1>6. f = [no |-> f.no, row |-> f.row, conv |-> f.conv, key |-> f.key, killed |-> killed,
           alone |-> f.alone, floor |-> 0, stale |-> stale]
  BY Zenon DEF DmFrame
<1> HIDE DEF stale
<1>7. f.conv \in Relationships /\ f.conv \notin Groups /\ 0 \in Nat
  BY ClientAssumption, SMT DEF Relationships
<1>8. f \in Frame
  <2> DEFINE no == f.no
             row == f.row
             c == f.conv
             key == f.key
             alone == f.alone
  <2>1. /\ no \in Nat /\ row \in Nat /\ c \in Relationships /\ key \in Nat
        /\ alone \in BOOLEAN
    BY <1>7, Zenon
  <2>2. f = [no |-> no, row |-> row, conv |-> c, key |-> key, killed |-> killed,
             alone |-> alone, floor |-> 0, stale |-> stale]
    BY <1>6, Zenon
  <2> HIDE DEF no, row, c, key, alone
  <2> QED BY <1>5, <1>7, <2>1, <2>2, SMT DEF Frame
<1>9. f.killed = killed /\ f.stale = stale BY <1>6, SMT
<1>10. ~f.stale BY <1>4, <1>9, Zenon
<1> QED BY <1>7, <1>8, <1>9, <1>10, Zenon DEF Sound

(* Between two handlers of a session the world is such a one.              *)
LEMMA WorldLeaves ==
  ASSUME IInv, Unlocked
  PROVE  /\ Leaves(world) /\ Fit(world, count.requests) /\ world \in Worlds
         /\ world.ks.db \in Databases /\ DbOk(world.ks.db, world, identity, kicked)
<1>1. world.ks.db # None BY Zenon DEF Unlocked, is_unlocked
<1>2. SameSession(world, world) /\ Solid(world, world) BY Zenon DEF SameSession, Solid
<1>3. Fresh(world.ks.db) /\ world \in Worlds BY InSession, Zenon
<1>4. Held(world) /\ Used(world, killed) BY Zenon DEF IInv, Steady
<1>5. Fit(world, count.requests) BY Zenon DEF Fit, IInv
<1>6. world.ks.db \in Databases /\ DbOk(world.ks.db, world, identity, kicked)
  BY <1>1, <1>3, <1>5, Zenon DEF Fit, Good, Worlds, Keystores
<1> QED BY <1>1, <1>2, <1>3, <1>4, <1>5, <1>6, Zenon DEF Leaves

(* What a hand-over leaves to the other sends.                             *)
Handed(v, s) ==
  /\ v.messages = world.messages /\ v.deleted = world.deleted
  /\ v.contacts = world.contacts
  /\ \A f \in v.sent : f \in world.sent \/ (f.conv = s.conv /\ f.alone = s.alone)

(* A frame of a group is under the present sender key.                     *)
LEMMA GroupFrameSound ==
  ASSUME IInv, Unlocked, NEW s \in Sends, s.conv \in Groups, get_sender_key(Db, s.conv) # -1,
         s.carries # 0 => HasRow(world, s.carries), NEW f, f = GroupFrame(world, s)
  PROVE  Sound(f, world) /\ f.conv = s.conv /\ f.alone = s.alone
<1> DEFINE x == world.ks.db
           g == s.conv
           k == x.sender[g]
           l == kicked[g]
<1>1. x \in Databases /\ DbOk(x, world, identity, kicked) BY WorldLeaves, Zenon
<1>2. k \in Nat
  <2>1. x.sender \in [Groups -> Nat \union {-1}] BY <1>1, Zenon DEF Databases
  <2>2. k # -1 BY Zenon DEF get_sender_key, Db
  <2> QED BY <2>1, <2>2, Zenon
<1>3. l \in Nat /\ killed \in Nat BY Zenon DEF IInv, Types
<1>4. l # 0 => k >= l BY <1>1, Zenon DEF DbOk
<1>5. f = [no |-> s.no, row |-> s.carries, conv |-> g, key |-> k, killed |-> killed,
           alone |-> s.alone, floor |-> l, stale |-> FALSE]
  BY Zenon DEF GroupFrame, get_sender_key
<1>6. /\ s.no \in Nat /\ s.carries \in Nat /\ g \in Relationships /\ s.alone \in BOOLEAN
      /\ g \notin Contacts
  BY ClientAssumption, Zenon DEF Sends
<1> HIDE DEF k, l
<1>7. k >= l BY <1>2, <1>3, <1>4, SMT
<1> HIDE DEF g
<1>8. f \in Frame
  <2> DEFINE no == s.no
             row == s.carries
             alone == s.alone
  <2>1. no \in Nat /\ row \in Nat /\ alone \in BOOLEAN BY <1>6, Zenon
  <2>2. f = [no |-> no, row |-> row, conv |-> g, key |-> k, killed |-> killed,
             alone |-> alone, floor |-> l, stale |-> FALSE]
    BY <1>5, Zenon
  <2> HIDE DEF no, row, alone
  <2> QED BY <1>2, <1>3, <1>6, <2>1, <2>2, SMT DEF Frame
<1>9. /\ f.row = s.carries /\ f.conv = g /\ f.key = k /\ f.killed = killed
      /\ f.floor = l
  BY <1>5, SMT
<1>10. ~f.stale BY <1>5, SMT
<1>11. f.alone = s.alone BY <1>5, SMT
<1>12. Sound(f, world) BY <1>6, <1>7, <1>8, <1>9, <1>10, Zenon DEF Sound
<1> QED BY <1>9, <1>11, <1>12, Zenon DEF g

(* A frame of a group, which leaves the keystore as it is.                 *)
LEMMA GroupFramed ==
  ASSUME IInv, Unlocked, NEW f, Sound(f, world), f.conv \in Groups,
         NEW v, v = [world EXCEPT !.sent = @ \union {f}]
  PROVE  /\ Fit(v, count.requests) /\ Leaves(v)
         /\ v.messages = world.messages /\ v.deleted = world.deleted
         /\ v.contacts = world.contacts /\ v.sent = world.sent \union {f}
<1> DEFINE x == world.ks.db
<1>1. /\ Leaves(world) /\ Fit(world, count.requests) /\ world \in Worlds
      /\ x \in Databases /\ DbOk(x, world, identity, kicked)
  BY WorldLeaves, Zenon
<1>2. f \in Frame /\ killed \in Nat /\ x # None BY Zenon DEF Sound, IInv, Types, Unlocked, is_unlocked
<1>3. v = Framed(world, x, f)
  <2>1. world.ks \in Keystores BY <1>1, Zenon DEF Worlds
  <2>2. [world.ks EXCEPT !.db = x] = world.ks BY <2>1, Zenon DEF Keystores
  <2>3. [world EXCEPT !.ks = [world.ks EXCEPT !.db = x]] = world
    BY <1>1, <2>2, Zenon DEF Worlds
  <2>4. [world EXCEPT !.ks.db = x] = world BY <2>3, Zenon
  <2>5. Framed(world, x, f) = [[world EXCEPT !.ks.db = x] EXCEPT !.sent = @ \union {f}]
    BY <1>1, Zenon DEF Framed, Worlds
  <2> QED BY <2>4, <2>5, Zenon
<1>4. Fit(v, count.requests) BY <1>1, <1>2, <1>3, FrameFit, Zenon
<1>5. /\ v.ks = world.ks /\ v.device = world.device /\ v.sent = world.sent \union {f}
      /\ v.messages = world.messages /\ v.deleted = world.deleted
      /\ v.contacts = world.contacts
  BY <1>1, Zenon DEF Worlds
<1>6. f.conv \notin Contacts BY ClientAssumption, Zenon
<1>7. Used(v, killed) BY <1>1, <1>5, <1>6, Zenon DEF Used, Leaves, Own
<1>8. Leaves(v)
  BY <1>1, <1>5, <1>7, Zenon DEF Leaves, SameSession, Solid, Held
<1> QED BY <1>4, <1>5, <1>8, Zenon

(* enqueue_dm keeps world and session.                                     *)
LEMMA DmFramed ==
  ASSUME IInv, Unlocked, NEW s \in sending, s.step = "submit", s.conv \in Contacts,
         s.key # -1, NEW v, v = enqueue_dm(world, s)
  PROVE  Fit(v, count.requests) /\ Leaves(v) /\ Handed(v, s)
<1> DEFINE f == DmFrame(world, s.no, s.carries, s.conv, s.key, s.alone)
<1>1. /\ s \in Sends /\ SendOk(s, sending, world, count.requests, killed)
  BY Zenon DEF IInv, Types, SendsOk
<1>2. /\ s.no \in Nat /\ s.carries \in Nat /\ s.key \in Nat BY <1>1, Zenon DEF Sends
<1>3. s.alone \in BOOLEAN BY <1>1, Zenon DEF Sends
<1>4. /\ s.carries # 0 => HasRow(world, s.carries)
      /\ get_contact(world, s.conv)
      /\ \A g \in world.sent : Own(g, s.conv, killed) => g.key < s.key
  BY <1>1, Zenon DEF SendOk
<1>5. /\ Leaves(world) /\ Fit(world, count.requests) /\ world \in Worlds
      /\ world.ks.db # None /\ Fresh(world.ks.db) /\ world.ks.db \in Databases
  BY WorldLeaves, Zenon DEF Leaves
<1>6. now \in Nat /\ killed \in Nat BY InSession, Zenon DEF IInv, Types
<1>7. v = Framed(world, set_ratchet_state(world.ks.db, s.conv, s.key + 1), f)
  BY Zenon DEF enqueue_dm, Framed
<1>8. /\ f.no = s.no /\ f.row = s.carries /\ f.conv = s.conv /\ f.key = s.key
  BY SMT DEF DmFrame
<1>9. f.alone = s.alone BY SMT DEF DmFrame
<1>10. f = DmFrame(world, f.no, f.row, f.conv, f.key, f.alone) BY Zenon DEF DmFrame
<1> HIDE DEF f
<1>11. f.alone \in BOOLEAN BY <1>3, <1>9, Zenon
<1>12. /\ f.no \in Nat /\ f.row \in Nat /\ (f.row # 0 => HasRow(world, f.row))
       /\ f.conv \in Contacts /\ world.contacts[f.conv] # "none" /\ f.key \in Nat
       /\ \A g \in world.sent : Own(g, f.conv, killed) => g.key < f.key
  BY <1>2, <1>4, <1>8, Zenon DEF get_contact
<1>13. Sound(f, world) BY <1>5, <1>6, <1>10, <1>11, <1>12, DmFrameSound, Zenon
<1>14. v = Framed(world, set_ratchet_state(world.ks.db, f.conv, f.key + 1), f)
  BY <1>7, <1>8, Zenon
<1>15. Fit(v, count.requests) /\ Leaves(v)
  BY <1>5, <1>6, <1>12, <1>13, <1>14, RatchetFrame, Zenon
<1>16. /\ v.messages = world.messages /\ v.deleted = world.deleted
       /\ v.contacts = world.contacts /\ v.sent = world.sent \union {f}
  BY <1>5, <1>7, Zenon DEF Framed, Worlds
<1>17. Handed(v, s) BY <1>8, <1>9, <1>16, Zenon DEF Handed
<1> QED BY <1>15, <1>17, Zenon

(* So does enqueue_for_conv.                                               *)
LEMMA Enqueued ==
  ASSUME IInv, Unlocked, NEW s \in sending, s.step = "submit", HasKeys(s),
         NEW v, v = enqueue_for_conv(world, s)
  PROVE  Fit(v, count.requests) /\ Leaves(v) /\ Handed(v, s)
<1>1. CASE s.conv \in Contacts
  <2>1. s.key # -1 /\ v = enqueue_dm(world, s) BY <1>1, Zenon DEF HasKeys, enqueue_for_conv
  <2> QED BY <1>1, <2>1, DmFramed, Zenon
<1>2. CASE s.conv \notin Contacts
  <2> DEFINE f == GroupFrame(world, s)
  <2>1. s \in Sends /\ SendOk(s, sending, world, count.requests, killed)
    BY Zenon DEF IInv, Types, SendsOk
  <2>2. s.conv \in Groups BY <1>2, <2>1, SMT DEF Sends, Relationships
  <2>3. s.carries # 0 => HasRow(world, s.carries) BY <2>1, Zenon DEF SendOk
  <2>4. get_sender_key(Db, s.conv) # -1 /\ v = [world EXCEPT !.sent = @ \union {f}]
    BY <1>2, Zenon DEF HasKeys, enqueue_for_conv
  <2>5. f = GroupFrame(world, s) BY Zenon
  <2> HIDE DEF f
  <2>6. Sound(f, world) BY <2>1, <2>2, <2>3, <2>4, <2>5, GroupFrameSound, Zenon
  <2>7. f.conv = s.conv /\ f.alone = s.alone
    BY <2>1, <2>2, <2>3, <2>4, <2>5, GroupFrameSound, SMT
  <2>8. f.conv \in Groups BY <2>2, <2>7, Zenon
  <2>9. Fit(v, count.requests) /\ Leaves(v) BY <2>4, <2>6, <2>8, GroupFramed, Zenon
  <2>10. /\ v.messages = world.messages /\ v.deleted = world.deleted
         /\ v.contacts = world.contacts /\ v.sent = world.sent \union {f}
    BY <2>4, <2>6, <2>8, GroupFramed, SMT
  <2>11. Handed(v, s) BY <2>7, <2>10, Zenon DEF Handed
  <2> QED BY <2>9, <2>11, Zenon
<1> QED BY <1>1, <1>2, Zenon

(* A row is deleted.                                                       *)
LEMMA DeletedRow ==
  ASSUME NEW n, NEW w, Fit(w, n), Leaves(w), NEW d \in Nat, d <= n,
         NEW v, v = delete_message(w, d)
  PROVE  /\ Fit(v, n) /\ Leaves(v) /\ Rewritten(v, w)
         /\ \A x : HasRow(v, x) <=> HasRow(w, x) \/ x = d
<1> DEFINE M == {m \in w.messages : m.no # d}
           D == w.deleted \union {d}
<1>1. w \in Worlds /\ RowsOk(w, n) BY Zenon DEF Fit, Good
<1>2. v = [w EXCEPT !.messages = M, !.deleted = D] BY Zenon DEF delete_message
<1>3. M \in SUBSET [no : Nat, conv : Relationships, seq : Nat] /\ D \in SUBSET Nat
  BY <1>1, Zenon DEF Worlds
<1>4. /\ \A m : m \in M <=> m \in w.messages /\ m.no # d
      /\ \A x : x \in D <=> x \in w.deleted \/ x = d
  BY Zenon
<1> HIDE DEF M, D
<1>5. v.messages = M /\ v.deleted = D BY <1>1, <1>2, Zenon DEF Worlds
<1>6. Rewritten(v, w) BY <1>1, <1>2, <1>3, Zenon DEF Worlds, Rewritten
<1>7. \A x : HasRow(v, x) <=> HasRow(w, x) \/ x = d BY <1>4, <1>5, Zenon DEF HasRow
<1>8. RowsOk(v, n) BY <1>1, <1>4, <1>5, Zenon DEF RowsOk
<1>9. Fit(v, n) BY <1>6, <1>7, <1>8, MessagesFit, Zenon
<1>10. Leaves(v)
  BY <1>6, Zenon DEF Leaves, Rewritten, SameSession, Solid, Held, Used
<1> QED BY <1>6, <1>7, <1>9, <1>10, Zenon

(* The path of the second half of a send.                                  *)
Submitting(s) ==
  LET w1 == enqueue_for_conv(world, s)
  IN  IF ~HasKeys(s) THEN <<world>>
      ELSE IF s.deletes # 0 THEN <<w1, delete_message(w1, s.deletes)>> ELSE <<w1>>

(* It passes through fit worlds.                                           *)
LEMMA SubmitPath ==
  ASSUME IInv, Unlocked, NEW s \in sending, s.step = "submit",
         NEW p, p = Submitting(s), NEW v, v = Last(p)
  PROVE  /\ Path(p, Fits(count.requests)) /\ v \in Fits(count.requests)
         /\ Leaves(v) /\ Finished(v, s)
<1> DEFINE F == Fits(count.requests)
           w1 == enqueue_for_conv(world, s)
           w2 == delete_message(w1, s.deletes)
<1>1. w1 = enqueue_for_conv(world, s) /\ w2 = delete_message(w1, s.deletes) BY Zenon
<1>2. /\ s.deletes \in Nat /\ s.deletes <= count.requests
  BY Zenon DEF IInv, Types, SendsOk, SendOk, Sends
<1>3. CASE ~HasKeys(s)
  <2>1. p = <<world>> BY <1>3, Zenon DEF Submitting
  <2>2. Leaves(world) /\ Fit(world, count.requests) BY WorldLeaves, Zenon
  <2>3. world \in F BY <2>2, InFits, Zenon
  <2> HIDE DEF F
  <2>4. Path(p, F) /\ v = world BY <2>1, <2>3, Singleton, SMT
  <2>5. Finished(world, s) BY Zenon DEF Finished
  <2> QED BY <2>2, <2>3, <2>4, <2>5, Zenon DEF F
<1>4. CASE HasKeys(s)
  <2> HIDE DEF w1, w2
  <2>1. Fit(w1, count.requests) /\ Leaves(w1) /\ Handed(w1, s)
    BY <1>1, <1>4, Enqueued, Zenon
  <2>2. \A x : HasRow(w1, x) <=> HasRow(world, x) BY <2>1, Zenon DEF HasRow, Handed
  <2>3. Finished(w1, s) BY <2>1, <2>2, Zenon DEF Finished, Handed
  <2>4. w1 \in F BY <2>1, InFits, Zenon
  <2>5. CASE s.deletes = 0
    <3>1. p = <<w1>> BY <1>4, <2>5, Zenon DEF Submitting, w1
    <3> HIDE DEF F
    <3>2. Path(p, F) /\ v = w1 BY <2>4, <3>1, Singleton, SMT
    <3> QED BY <2>1, <2>3, <2>4, <3>2, Zenon DEF F
  <2>6. CASE s.deletes # 0
    <3>1. p = <<w1, w2>> BY <1>4, <2>6, Zenon DEF Submitting, w1, w2
    <3>2. /\ Fit(w2, count.requests) /\ Leaves(w2) /\ Rewritten(w2, w1)
          /\ \A x : HasRow(w2, x) <=> HasRow(w1, x) \/ x = s.deletes
      BY <1>1, <1>2, <2>1, DeletedRow, SMT
    <3>3. Finished(w2, s) BY <2>2, <2>3, <2>6, <3>2, Zenon DEF Finished, Rewritten
    <3>4. w2 \in F BY <3>2, InFits, Zenon
    <3> HIDE DEF F
    <3>5. Path(p, F) /\ v = w2 BY <2>4, <3>1, <3>4, Pair, SMT
    <3> QED BY <3>2, <3>3, <3>4, <3>5, Zenon DEF F
  <2> QED BY <2>5, <2>6, Zenon
<1> QED BY <1>3, <1>4, Zenon

(* A send ends with its frame, or without keys.                            *)
LEMMA SubmitStep ==
  ASSUME IInv, NEW s \in sending, Submit(s)
  PROVE  IInv'
<1> DEFINE p == Submitting(s)
           v == Last(p)
           F == Fits(count.requests)
<1>1. /\ s.step = "submit" /\ count' = count
      /\ \/ /\ Completes(p) /\ sending' = sending \ {s}
            /\ UNCHANGED <<up, changing, history>>
         \/ DiesIn(p)
  BY Zenon DEF Submit, Submitting
<1>2. Unlocked /\ sending \subseteq Sends BY Zenon DEF IInv, Types, SendsOk
<1>3. Counted(count') BY <1>1, <1>2, InSession, Zenon
<1>4. p = Submitting(s) /\ v = Last(p) BY Zenon
<1> HIDE DEF p, v
<1>5. Path(p, F) /\ v \in F /\ Leaves(v) /\ Finished(v, s)
  BY <1>1, <1>2, <1>4, SubmitPath, Zenon
<1>6. \A u \in F : Fit(u, count'.requests) BY <1>1, InFits, Zenon
<1> HIDE DEF F
<1>7. CASE DiesIn(p) BY <1>3, <1>5, <1>6, <1>7, DiesStep, Zenon
<1>8. CASE Completes(p) /\ sending' = sending \ {s} /\ UNCHANGED <<up, changing, history>>
  <2>1. /\ world' = v /\ up' = up /\ changing' = changing /\ now' = now
        /\ killed' = killed /\ cut' = cut /\ passphrase' = passphrase
        /\ identity' = identity /\ kicked' = kicked
    BY <1>4, <1>8, Zenon DEF Completes, history
  <2>2. raced \/ (changing # None /\ v.ks.file # world.ks.file) => raced'
    BY <1>4, <1>8, Zenon DEF Completes
  <2>3. up /\ v.ks.db # None BY <1>2, <1>5, Zenon DEF Unlocked, Leaves
  <2>4. Passed(v) BY <2>1, <2>2, <2>3, Zenon DEF Passed
  <2>5. \A t \in sending \ {s} : SendOk(t, sending \ {s}, v, count.requests, killed)
    BY <1>1, <1>5, OthersKept, Zenon
  <2>a. \A t \in sending' : SendOk(t, sending', v, count'.requests, killed)
    BY <1>1, <1>8, <2>5, Zenon
  <2>b. Unlocked' BY <2>1, <2>3, Zenon DEF Unlocked, is_unlocked
  <2>6. SendsOk' BY <2>1, <2>a, <2>b, Zenon DEF SendsOk
  <2>7. /\ SameSession(v, world) /\ Fresh(v.ks.db) /\ Solid(v, world) /\ Held(v)
        /\ Used(v, killed)
    BY <1>5, Zenon DEF Leaves
  <2>8. sending' \subseteq Sends /\ kicked' \in [Groups -> Nat]
    BY <1>2, <1>8, <2>1, Zenon DEF IInv, Types
  <2>9. Good(v, identity, kicked') /\ FramesOk(v, killed) /\ RowsOk(v, count'.requests)
    BY <1>5, <1>6, <2>1, Zenon DEF Fit
  <2> QED BY <1>2, <1>3, <2>3, <2>4, <2>6, <2>7, <2>8, <2>9, PassedStep, Zenon
<1> QED BY <1>1, <1>7, <1>8, Zenon

(* A path of three steps.                                                  *)
LEMMA ThreeSteps ==
  ASSUME NEW S, NEW x \in S, NEW y \in S, NEW z \in S, NEW p, p = <<x, y, z>>
  PROVE  Path(p, S) /\ Last(p) = z
BY DEF Last, Path

(* A handler that has run to its end.                                      *)
LEMMA RunsStep ==
  ASSUME IInv, Unlocked, Counted(count'), count'.requests >= count.requests,
         NEW p, Runs(p), NEW v, v = Last(p), Fit(v, count'.requests), Leaves(v),
         Keeps(v, world)
  PROVE  IInv'
<1>1. Passed(v) /\ sending' = sending /\ kicked' = kicked
  BY Zenon DEF Runs, Completes, Passed, history
<1>2. count'.requests \in Nat /\ count.requests \in Nat
  BY InSession, Zenon DEF Counted
<1>3. up' /\ world' = v /\ killed' = killed BY <1>1, Zenon DEF Passed
<1>4. v.ks.db # None BY Zenon DEF Leaves
<1>5. SendsOk' BY <1>1, <1>2, <1>3, <1>4, SendsKept, Zenon
<1>6. sending' \subseteq Sends /\ kicked' \in [Groups -> Nat]
  BY <1>1, Zenon DEF IInv, Types
<1>7. Good(v, identity, kicked') /\ FramesOk(v, killed) /\ RowsOk(v, count'.requests)
  BY <1>1, Zenon DEF Fit
<1>8. SameSession(v, world) /\ Fresh(v.ks.db) /\ Solid(v, world) /\ Held(v)
      /\ Used(v, killed)
  BY Zenon DEF Leaves
<1> QED BY <1>1, <1>4, <1>5, <1>6, <1>7, <1>8, PassedStep, Zenon

(* A handler that has, or was killed on its path.                          *)
LEMMA HandlerStep ==
  ASSUME IInv, Unlocked, Counted(count'), count'.requests >= count.requests,
         NEW p, Path(p, Fits(count'.requests)), Handler(p),
         NEW v, v = Last(p), Leaves(v), Keeps(v, world)
  PROVE  IInv'
<1> DEFINE S == Fits(count'.requests)
<1>1. \A u \in S : Fit(u, count'.requests) BY InFits, Zenon
<1>2. CASE DiesIn(p) BY <1>1, <1>2, DiesStep, Zenon
<1>3. CASE Runs(p)
  <2>1. v \in S BY EndsIn, Zenon
  <2>2. Fit(v, count'.requests) BY <1>1, <2>1, Zenon
  <2> HIDE DEF S
  <2> QED BY <1>3, <2>2, RunsStep, Zenon
<1> QED BY <1>2, <1>3, Zenon DEF Handler

(* The row of a conversation.                                              *)
LEMMA ConversationRow ==
  ASSUME NEW w \in Worlds, NEW r \in Relationships, NEW v, v = upsert_conversation(w, r)
  PROVE  Adds(v, w) /\ v.conversations = w.conversations \union {r}
         /\ v.contacts = w.contacts
<1> DEFINE d == w.conversations \union {r}
<1>1. d \in SUBSET Relationships BY Zenon DEF Worlds
<1>2. v = [w EXCEPT !.conversations = d] BY Zenon DEF upsert_conversation
<1>3. d = w.conversations \union {r} BY Zenon
<1> HIDE DEF d
<1> QED BY <1>1, <1>2, <1>3, Zenon DEF Worlds, Adds, SameDevices, get_contact

(* The row of a new contact.                                               *)
LEMMA InsertContact ==
  ASSUME NEW w \in Worlds, NEW c \in Contacts, NEW v, v = insert_contact(w, c)
  PROVE  Adds(v, w) /\ v.conversations = w.conversations /\ get_contact(v, c)
<1>1. CASE get_contact(w, c) BY <1>1, Zenon DEF insert_contact, Adds, SameDevices
<1>2. CASE ~get_contact(w, c) BY <1>2, ContactRow, Zenon DEF insert_contact
<1> QED BY <1>1, <1>2, Zenon

(* A save in the session.                                                  *)
LEMMA SavedLeaves ==
  ASSUME IInv, Unlocked, NEW u \in Session(world, identity, kicked), Fresh(u.ks.db),
         NEW p, p = Saved(u), NEW s, s = Last(p)
  PROVE  /\ Path(p, Session(world, identity, kicked))
         /\ s \in Session(world, identity, kicked) /\ s.ks.db = u.ks.db
         /\ s.ks.file.state = "whole" /\ s.ks.file.content = u.ks.db
         /\ Leaves(s) /\ Keeps(s, world)
<1> DEFINE S == Session(world, identity, kicked)
<1>1. Path(p, S) /\ s \in S /\ SameSession(s, u) BY SavedPath, Zenon
<1>2. s.ks.db = u.ks.db /\ s.ks.file = NewFile(u) BY SavedPath, SMT
<1>3. s.ks.file.state = "whole" /\ s.ks.file.content = u.ks.db
      /\ s.ks.file.key = s.ks.master_key
  BY <1>1, <1>2, SMT DEF NewFile, SameSession
<1>4. /\ s \in Worlds /\ SameTables(s, world)
      /\ SameSession(s, world) /\ s.ks.db # None /\ s.ks.db.ratchet = world.ks.db.ratchet
      /\ HeldBy(s.device, s.ks.db)
  BY <1>1, Zenon DEF Session
<1>5. Fresh(s.ks.db) /\ Solid(s, world) BY <1>2, <1>3, Zenon DEF Solid
<1>6. Held(s) BY <1>4, Zenon DEF Held, Cur
<1>7. Used(s, killed)
  <2>1. world.ks.db # None BY Zenon DEF Unlocked, is_unlocked
  <2>2. Used(world, killed) BY InSession, Zenon
  <2> QED BY <1>4, <2>1, <2>2, Zenon DEF Used, Cur, Live, SameTables
<1>8. Keeps(s, world) BY <1>4, Zenon DEF Keeps, SameTables, get_contact
<1> QED BY <1>1, <1>2, <1>3, <1>4, <1>5, <1>6, <1>7, <1>8, Zenon DEF Leaves

(* Added rows leave the session as it is.                                  *)
LEMMA AddsLeaves ==
  ASSUME NEW w, Leaves(w), Keeps(w, world), NEW v, Adds(v, w)
  PROVE  Leaves(v) /\ Keeps(v, world)
<1>1. v.ks = w.ks /\ v.device = w.device /\ v.sent = w.sent /\ v.messages = w.messages
      /\ v.deleted = w.deleted
      /\ \A c \in Contacts : get_contact(w, c) => get_contact(v, c)
  BY Zenon DEF Adds, SameDevices
<1>2. Held(v) /\ Used(v, killed) BY <1>1, Zenon DEF Leaves, Held, Used
<1>3. SameSession(v, world) /\ Solid(v, world)
  BY <1>1, Zenon DEF Leaves, SameSession, Solid
<1>4. Keeps(v, world) BY <1>1, Zenon DEF Keeps
<1> QED BY <1>1, <1>2, <1>3, <1>4, Zenon DEF Leaves

(* A Key B for r.                                                          *)
LEMMA InsertKeyB ==
  ASSUME NEW w, NEW id, NEW ki, NEW x \in Databases, DbOk(x, w, id, ki),
         NEW r \in Relationships, NEW y, y = insert_key_b(x, r)
  PROVE  /\ y \in Databases /\ DbOk(y, w, id, ki) /\ y.ratchet = x.ratchet
         /\ y.key_a = x.key_a /\ y.key_c = x.key_c /\ y.sender = x.sender
         /\ get_key_b(y, r)
<1>1. CASE get_key_b(x, r) BY <1>1, Zenon DEF insert_key_b
<1>2. CASE ~get_key_b(x, r)
  <2> DEFINE d == Append(x.key_b, r)
  <2>1. x.key_b \in Seq(Relationships) BY Zenon DEF Databases
  <2>2. d \in Seq(Relationships) BY <2>1, SMT
  <2>3. Range(x.key_b) \subseteq Range(d) /\ r \in Range(d)
    <3> DEFINE b == x.key_b
    <3>1. /\ DOMAIN d = 1 .. Len(b) + 1 /\ d[Len(b) + 1] = r
          /\ \A i \in 1 .. Len(b) : d[i] = b[i]
          /\ DOMAIN b = 1 .. Len(b) /\ Len(b) \in Nat
      BY <2>1, SMT
    <3> HIDE DEF d, b
    <3> QED BY <3>1, SMT DEF Range, b
  <2>4. y = [x EXCEPT !.key_b = d] BY <1>2, Zenon DEF insert_key_b
  <2> HIDE DEF d
  <2>5. /\ y \in Databases /\ y.ratchet = x.ratchet /\ y.key_a = x.key_a
        /\ y.key_c = x.key_c /\ y.sender = x.sender /\ y.prekeys = x.prekeys
        /\ y.key_b = d
    BY <2>2, <2>4, Zenon DEF Databases
  <2>6. DbOk(y, w, id, ki)
    BY <2>3, <2>5, Zenon DEF DbOk, Stocks, KeysIn, get_key_b, get_sender_key
  <2> QED BY <2>3, <2>5, <2>6, Zenon DEF get_key_b
<1> QED BY <1>1, <1>2, Zenon

(* A row for a conversation whose keys are in the file.                    *)
LEMMA KeyedRow ==
  ASSUME NEW n, NEW w, Fit(w, n), NEW r \in Relationships, w.ks.file.state = "whole",
         KeysIn(w.ks.db, r), w.ks.file.content = w.ks.db,
         Leaves(w), Keeps(w, world), NEW v, v = upsert_conversation(w, r)
  PROVE  Fit(v, n) /\ Adds(v, w) /\ Leaves(v) /\ Keeps(v, world)
<1>1. w \in Worlds BY Zenon DEF Fit, Good
<1>2. Adds(v, w) BY <1>1, ConversationRow, Zenon
<1>3. v.conversations = w.conversations \union {r} BY <1>1, ConversationRow, SMT
<1>4. KeysKept(w.ks, r) BY SMT DEF KeysKept
<1>5. Fit(v, n) BY <1>2, <1>3, <1>4, AddsFit, Zenon
<1> QED BY <1>2, <1>5, AddsLeaves, Zenon

(* The worlds of the session are fit.                                      *)
LEMMA SessionFits ==
  ASSUME IInv, Unlocked, Counted(count'), count'.requests >= count.requests
  PROVE  Session(world, identity, kicked) \subseteq Fits(count'.requests)
<1>1. count'.requests \in Nat BY Zenon DEF Counted
<1>2. \A v \in Session(world, identity, kicked) : Fit(v, count'.requests)
  BY <1>1, SessionFit, Zenon
<1> QED BY <1>2, InFits, Zenon

(* A contact request: Key B, prekeys, save, row, conversation and frame.   *)
LEMMA SendRequestStep ==
  ASSUME IInv, NEW c \in Contacts, contacts_send_request(c)
  PROVE  IInv'
<1> DEFINE S == Session(world, identity, kicked)
           F == Fits(count'.requests)
           n == count'.requests
           x == world.ks.db
           y == insert_key_b(x, c)
           v == SetDb(world, y)
           a == replenish_prekeys(v)
           u == Last(a)
           b == Saved(u)
           k == Cat(a, b)
           s == Last(k)
           w1 == insert_contact(s, c)
           w2 == upsert_conversation(w1, c)
           f  == DmFrame(w2, 0, 0, c, 0, TRUE)
           w3 == [w2 EXCEPT !.ks.db = set_ratchet_state(@, c, 1), !.sent = @ \union {f}]
           d == <<w1, w2, w3>>
           p == Cat(k, d)
<1>1. Unlocked /\ Serve /\ ~get_contact(world, c) /\ Handler(p)
  BY Zenon DEF contacts_send_request, send_contact_request, Then, SetDb, Cat
<1>2. /\ world \in S /\ Counted(count) /\ count.requests \in Nat /\ now \in Nat
      /\ Fresh(x)
  BY <1>1, InSession, Zenon
<1>3. Counted(count') /\ count'.requests >= count.requests BY <1>1, <1>2, Spent
<1>4. /\ x \in Databases /\ DbOk(x, world, identity, kicked) /\ c \in Relationships
      /\ HeldBy(world.device, x)
  BY <1>2, Zenon DEF Session, Good, Worlds, Keystores, Relationships
<1>a. killed \in Nat BY Zenon DEF IInv, Types
<1>5. v = SetDb(world, y) /\ a = replenish_prekeys(v) BY Zenon
<1>6. u = Last(a) /\ b = Saved(u) /\ k = Cat(a, b) /\ s = Last(k) BY Zenon
<1>7. w1 = insert_contact(s, c) /\ w2 = upsert_conversation(w1, c) BY Zenon
<1>8. f = DmFrame(w2, 0, 0, c, 0, TRUE) /\ w3 = Framed(w2, set_ratchet_state(w2.ks.db, c, 1), f)
  BY Zenon DEF Framed
<1>9. d = <<w1, w2, w3>> /\ p = Cat(k, d) BY Zenon
<1> HIDE DEF S, F, n, x, v, a, u, b, k, s, w1, w2, f, w3, d, p
<1>10. /\ y \in Databases /\ DbOk(y, world, identity, kicked) /\ y.ratchet = x.ratchet
       /\ y.key_c = x.key_c /\ get_key_b(y, c)
  BY <1>4, InsertKeyB, SMT
<1> HIDE DEF y
<1>11. HeldBy(world.device, y) BY <1>4, <1>10, Zenon DEF HeldBy, Unrevoked
<1>12. v \in S /\ v.ks.db = y BY <1>2, <1>5, <1>10, <1>11, SessionDb, SMT DEF S, x
<1>13. Path(a, S) /\ u \in S /\ Restocked(u, v)
  BY <1>5, <1>6, <1>12, Replenish, Zenon DEF S
<1>14. Fresh(u.ks.db) /\ get_key_b(u.ks.db, c)
  BY <1>2, <1>10, <1>12, <1>13, Zenon DEF Restocked, Fresh, get_key_b
<1> DEFINE e == Last(b)
<1>15. e = Last(b) BY Zenon
<1> HIDE DEF e
<1>16. Path(b, S) /\ e \in S /\ Leaves(e) /\ Keeps(e, world)
  BY <1>1, <1>6, <1>13, <1>14, <1>15, SavedLeaves, Zenon DEF S
<1>17. e.ks.db = u.ks.db /\ e.ks.file.state = "whole" /\ e.ks.file.content = u.ks.db
  BY <1>1, <1>6, <1>13, <1>14, <1>15, SavedLeaves, SMT DEF S
<1>18. Path(k, S) /\ s = e BY <1>6, <1>13, <1>15, <1>16, Extended, SMT
<1>19. S \subseteq F BY <1>1, <1>3, SessionFits, Zenon DEF S, F
<1>20. Fit(s, n) /\ s \in Worlds BY <1>16, <1>18, <1>19, InFits, Zenon DEF F, Fits, n
<1>21. Adds(w1, s) /\ get_contact(w1, c) BY <1>7, <1>20, InsertContact, Zenon
<1>22. w1.conversations = s.conversations BY <1>7, <1>20, InsertContact, SMT
<1>23. Fit(w1, n) BY <1>20, <1>21, <1>22, AddsFit, Zenon
<1>24. Leaves(w1) /\ Keeps(w1, world) BY <1>16, <1>18, <1>21, AddsLeaves, Zenon
<1>25. /\ w1.ks.file.state = "whole" /\ w1.ks.file.content = w1.ks.db
       /\ KeysIn(w1.ks.db, c)
  BY <1>14, <1>17, <1>18, <1>21, Zenon DEF Adds, KeysIn
<1>26. Fit(w2, n) /\ Adds(w2, w1) /\ Leaves(w2) /\ Keeps(w2, world)
  BY <1>4, <1>7, <1>23, <1>24, <1>25, KeyedRow, Zenon
<1>27. /\ w2 \in Worlds /\ w2.ks.db # None /\ Fresh(w2.ks.db) /\ get_contact(w2, c)
  BY <1>21, <1>26, Zenon DEF Adds, Leaves
<1>28. w2.sent = world.sent
  <2>1. SameTables(s, world) BY <1>16, <1>18, Zenon DEF S, Session
  <2> QED BY <1>21, <1>26, <2>1, Zenon DEF Adds, SameTables
<1>29. \A g \in w2.sent : g.conv # c
  BY <1>1, <1>28, Zenon DEF IInv, FramesOk, get_contact
<1>30. Sound(f, w2) /\ f.conv = c /\ f.key = 0
  <2>1. /\ f.no = 0 /\ f.row = 0 /\ f.conv = c /\ f.key = 0
    BY <1>8, SMT DEF DmFrame
  <2>2. f = DmFrame(w2, f.no, f.row, f.conv, f.key, f.alone) BY <1>8, Zenon DEF DmFrame
  <2>a. f.alone \in BOOLEAN BY <1>8, SMT DEF DmFrame
  <2>3. /\ f.no \in Nat /\ f.row \in Nat /\ f.key \in Nat
        /\ (f.row # 0 => HasRow(w2, f.row))
    BY <2>1, SMT
  <2>4. \A g \in w2.sent : Own(g, f.conv, killed) => g.key < f.key
    BY <1>29, <2>1, Zenon DEF Own
  <2>5. f.conv \in Contacts /\ w2.contacts[f.conv] # "none"
    BY <1>27, <2>1, Zenon DEF get_contact
  <2>6. Sound(f, w2)
    BY <1>2, <1>27, <1>a, <2>2, <2>3, <2>4, <2>5, <2>a, DmFrameSound, Zenon
  <2> QED BY <2>1, <2>6, Zenon
<1>31. Fit(w3, n) /\ Leaves(w3)
  <2>1. w3 = Framed(w2, set_ratchet_state(w2.ks.db, f.conv, f.key + 1), f)
    <3>1. f.key + 1 = 1 BY <1>30, SMT
    <3> QED BY <1>8, <1>30, <3>1, Zenon
  <2>2. f.conv \in Contacts BY <1>30, Zenon
  <2> QED BY <1>26, <1>30, <1>a, <2>1, <2>2, RatchetFrame, Zenon
<1>32. Keeps(w3, world)
  <2>1. /\ w3.messages = w2.messages /\ w3.deleted = w2.deleted /\ w3.contacts = w2.contacts
        /\ w3.sent = w2.sent \union {f}
    BY <1>8, <1>27, Zenon DEF Framed, Worlds
  <2> QED BY <1>1, <1>26, <1>30, <2>1, Zenon DEF Keeps, get_contact
<1>33. w1 \in F /\ w2 \in F /\ w3 \in F
  BY <1>23, <1>26, <1>31, InFits, Zenon DEF F, n
<1>34. Path(d, F) /\ Last(d) = w3 BY <1>9, <1>33, ThreeSteps, SMT
<1>35. Path(k, F) BY <1>18, <1>19, Wider, Zenon
<1>36. Path(p, F) /\ Last(p) = Last(d) BY <1>9, <1>34, <1>35, Extended, SMT
<1>37. w3 = Last(p) BY <1>34, <1>36, Zenon
<1> QED BY <1>1, <1>3, <1>31, <1>32, <1>36, <1>37, HandlerStep, Zenon DEF F

(* A group that is not used yet gets its first sender key, which is saved. *)
LEMMA FirstSenderKey ==
  ASSUME IInv, Unlocked, NEW g \in Groups, NEW z \in Databases,
         DbOk(z, world, identity, kicked), z.ratchet = world.ks.db.ratchet,
         z.key_c = world.ks.db.key_c, z.sender[g] = -1,
         NEW p, p = Saved(SetDb(world, set_sender_key(z, g, 0))), NEW s, s = Last(p)
  PROVE  /\ Path(p, Session(world, identity, kicked))
         /\ s \in Session(world, identity, kicked) /\ KeysIn(s.ks.db, g)
         /\ s.ks.file.state = "whole" /\ s.ks.file.content = s.ks.db
         /\ Leaves(s) /\ Keeps(s, world)
<1> DEFINE S == Session(world, identity, kicked)
           y == set_sender_key(z, g, 0)
           u == SetDb(world, y)
<1>1. world \in S /\ Fresh(world.ks.db) /\ world \in Worlds BY InSession, Zenon
<1>2. kicked \in [Groups -> Nat] BY Zenon DEF IInv, Types
<1>3. 0 \in Nat /\ z.sender[g] <= 0 BY SMT
<1>4. u = SetDb(world, y) /\ p = Saved(u) BY Zenon
<1>5. /\ y \in Databases /\ DbOk(y, world, identity, kicked) /\ y.ratchet = z.ratchet
      /\ y.key_c = z.key_c /\ y.sender[g] = 0
  BY <1>1, <1>2, <1>3, SetSenderKey, SMT
<1> HIDE DEF S, y, u
<1>6. HeldBy(world.device, world.ks.db) BY <1>1, Zenon DEF S, Session
<1>7. Fresh(y) /\ HeldBy(world.device, y)
  BY <1>1, <1>5, <1>6, Zenon DEF Fresh, HeldBy, Unrevoked
<1>8. u \in S /\ u.ks.db = y BY <1>1, <1>4, <1>5, <1>7, SessionDb, SMT DEF S
<1>9. Fresh(u.ks.db) BY <1>7, <1>8, Zenon
<1>10. Path(p, S) /\ s \in S /\ Leaves(s) /\ Keeps(s, world)
  BY <1>4, <1>8, <1>9, SavedLeaves, Zenon DEF S
<1>11. /\ s.ks.db = y /\ s.ks.file.state = "whole" /\ s.ks.file.content = y
  BY <1>4, <1>8, <1>9, SavedLeaves, SMT DEF S
<1>12. KeysIn(y, g)
  <2>1. g \notin Contacts BY ClientAssumption, Zenon
  <2>2. y.sender[g] # -1 BY <1>5, SMT
  <2> QED BY <2>1, <2>2, Zenon DEF KeysIn, get_sender_key
<1> QED BY <1>10, <1>11, <1>12, Zenon DEF S

(* A channel of a server.                                                  *)
LEMMA CreateChannelStep ==
  ASSUME IInv, NEW server, NEW g \in Groups, servers_create_channel(server, g)
  PROVE  IInv'
<1> DEFINE S == Session(world, identity, kicked)
           F == Fits(count'.requests)
           x == world.ks.db
           a == Saved(SetDb(world, set_sender_key(x, g, 0)))
           s == Last(a)
           u == upsert_conversation(s, g)
           b == <<u>>
           p == Cat(a, b)
<1>1. Unlocked /\ Serve /\ x.sender[g] = -1 /\ Handler(p)
  BY Zenon DEF servers_create_channel, Unused, create_server_channel, SetDb, Cat, Db,
               get_sender_key
<1>2. /\ world \in S /\ Counted(count) /\ count.requests \in Nat
  BY <1>1, InSession, Zenon
<1>3. Counted(count') /\ count'.requests >= count.requests BY <1>1, <1>2, Spent
<1>4. x \in Databases /\ DbOk(x, world, identity, kicked) /\ g \in Relationships
  BY <1>2, Zenon DEF Session, Good, Worlds, Keystores, Relationships
<1>5. a = Saved(SetDb(world, set_sender_key(x, g, 0))) /\ s = Last(a) BY Zenon
<1>6. u = upsert_conversation(s, g) /\ b = <<u>> /\ p = Cat(a, b) BY Zenon
<1>7. x.ratchet = world.ks.db.ratchet /\ x.key_c = world.ks.db.key_c BY Zenon
<1> HIDE DEF S, F, x, a, s, u, b, p
<1>8. /\ Path(a, S) /\ s \in S /\ KeysIn(s.ks.db, g) /\ Leaves(s) /\ Keeps(s, world)
      /\ s.ks.file.state = "whole" /\ s.ks.file.content = s.ks.db
  BY <1>1, <1>4, <1>5, <1>7, FirstSenderKey, SMT DEF S
<1>9. S \subseteq F BY <1>1, <1>3, SessionFits, Zenon DEF S, F
<1>10. Fit(s, count'.requests) BY <1>8, <1>9, InFits, Zenon DEF F
<1>11. Fit(u, count'.requests) /\ Leaves(u) /\ Keeps(u, world)
  BY <1>4, <1>6, <1>8, <1>10, KeyedRow, Zenon
<1>12. u \in F BY <1>11, InFits, Zenon DEF F
<1>13. Path(b, F) /\ Last(b) = u BY <1>6, <1>12, Singleton, SMT
<1>14. Path(a, F) BY <1>8, <1>9, Wider, Zenon
<1>15. Path(p, F) /\ Last(p) = Last(b) BY <1>6, <1>13, <1>14, Extended, SMT
<1>16. u = Last(p) BY <1>13, <1>15, Zenon
<1> QED BY <1>1, <1>3, <1>11, <1>15, <1>16, HandlerStep, Zenon DEF F

(* The row of a group.                                                     *)
LEMMA GroupRow ==
  ASSUME NEW w \in Worlds, NEW g \in Groups, NEW type \in {"group", "server"},
         NEW v, v = upsert_group(w, g, type)
  PROVE  Adds(v, w) /\ v.conversations = w.conversations
<1> DEFINE d == [w.groups EXCEPT ![g] = type]
<1>1. d \in [Groups -> {"none", "group", "server"}] BY Zenon DEF Worlds
<1>2. v = [w EXCEPT !.groups = d] BY Zenon DEF upsert_group
<1> HIDE DEF d
<1> QED BY <1>1, <1>2, Zenon DEF Worlds, Adds, SameDevices, get_contact

(* A group or a server.                                                    *)
LEMMA CreateGroupStep ==
  ASSUME IInv, NEW g \in Groups, NEW type \in {"group", "server"}, groups_create(g, type)
  PROVE  IInv'
<1> DEFINE S == Session(world, identity, kicked)
           F == Fits(count'.requests)
           x == world.ks.db
           z == insert_key_b(x, g)
           a == Saved(SetDb(world, set_sender_key(z, g, 0)))
           s == Last(a)
           v == upsert_group(s, g, type)
           u == upsert_conversation(v, g)
           b == <<v, u>>
           p == Cat(a, b)
<1>1. Unlocked /\ Serve /\ x.sender[g] = -1 /\ Handler(p)
  BY Zenon DEF groups_create, Unused, create_group, SetDb, Cat, Db, get_sender_key
<1>2. /\ world \in S /\ Counted(count) /\ count.requests \in Nat
  BY <1>1, InSession, Zenon
<1>3. Counted(count') /\ count'.requests >= count.requests BY <1>1, <1>2, Spent
<1>4. x \in Databases /\ DbOk(x, world, identity, kicked) /\ g \in Relationships
  BY <1>2, Zenon DEF Session, Good, Worlds, Keystores, Relationships
<1>5. a = Saved(SetDb(world, set_sender_key(z, g, 0))) /\ s = Last(a) BY Zenon
<1>6. v = upsert_group(s, g, type) /\ u = upsert_conversation(v, g) BY Zenon
<1>7. b = <<v, u>> /\ p = Cat(a, b) BY Zenon
<1> HIDE DEF S, F, x, a, s, v, u, b, p
<1>8. /\ z \in Databases /\ DbOk(z, world, identity, kicked) /\ z.ratchet = x.ratchet
      /\ z.key_c = x.key_c /\ z.sender = x.sender
  BY <1>4, InsertKeyB, SMT
<1>9. z.sender[g] = -1 BY <1>1, <1>8, Zenon
<1> HIDE DEF z
<1>10. /\ Path(a, S) /\ s \in S /\ KeysIn(s.ks.db, g) /\ Leaves(s) /\ Keeps(s, world)
       /\ s.ks.file.state = "whole" /\ s.ks.file.content = s.ks.db
  BY <1>1, <1>5, <1>8, <1>9, FirstSenderKey, SMT DEF S, x
<1>11. S \subseteq F BY <1>1, <1>3, SessionFits, Zenon DEF S, F
<1>12. Fit(s, count'.requests) /\ s \in Worlds
  BY <1>10, <1>11, InFits, Zenon DEF F, Fits
<1>13. Adds(v, s) BY <1>6, <1>12, GroupRow, Zenon
<1>14. v.conversations = s.conversations BY <1>6, <1>12, GroupRow, SMT
<1>15. Fit(v, count'.requests) BY <1>12, <1>13, <1>14, AddsFit, Zenon
<1>16. Leaves(v) /\ Keeps(v, world) BY <1>10, <1>13, AddsLeaves, Zenon
<1>17. v.ks = s.ks BY <1>13, Zenon DEF Adds
<1>18. Fit(u, count'.requests) /\ Leaves(u) /\ Keeps(u, world)
  BY <1>4, <1>6, <1>10, <1>15, <1>16, <1>17, KeyedRow, Zenon
<1>19. v \in F /\ u \in F BY <1>15, <1>18, InFits, Zenon DEF F
<1>20. Path(b, F) /\ Last(b) = u BY <1>7, <1>19, Pair, SMT
<1>21. Path(a, F) BY <1>10, <1>11, Wider, Zenon
<1>22. Path(p, F) /\ Last(p) = Last(b) BY <1>7, <1>20, <1>21, Extended, SMT
<1>23. u = Last(p) BY <1>20, <1>22, Zenon
<1> QED BY <1>1, <1>3, <1>18, <1>22, <1>23, HandlerStep, Zenon DEF F

(* A contact is accepted.                                                  *)
LEMMA AcceptStep ==
  ASSUME IInv, NEW c \in Contacts, contacts_accept_request(c)
  PROVE  IInv'
<1>1. /\ get_contact(world, c) /\ Serve /\ "active" \in {"active", "blocked"}
      /\ Row(set_contact_status(world, c, "active"))
  BY DEF contacts_accept_request, get_contact
<1> QED BY <1>1, StatusStep, Zenon

(* A contact is blocked.                                                   *)
LEMMA BlockStep ==
  ASSUME IInv, NEW c \in Contacts, contacts_block(c)
  PROVE  IInv'
<1>1. /\ get_contact(world, c) /\ Serve /\ "blocked" \in {"active", "blocked"}
      /\ Row(set_contact_status(world, c, "blocked"))
  BY DEF contacts_block, get_contact
<1> QED BY <1>1, StatusStep, Zenon
=============================================================================
