-------------------------- MODULE ClientInvariant ---------------------------
(***************************************************************************)
(* The inductive invariant of Client, for any contacts, groups, devices and *)
(* passphrases and every bound, and what its parts need to hold on.        *)
(*                                                                         *)
(* A handler is a path of worlds, and a kill may come at each of them.  So *)
(* the invariant has two halves: what is said of every world (Good,        *)
(* FramesOk, RowsOk), which the whole path must satisfy, and what is said  *)
(* between two handlers (Steady, SendsOk, Opens), which only the end of the *)
(* path must restore.  Good says the same of the database in memory and of *)
(* the one in the file: a kill swaps one for the other.                    *)
(***************************************************************************)
EXTENDS Client, TLAPS

(* The counters of the run, of which the requests number the rows.         *)
Counted(c) ==
  /\ c = [starts |-> c.starts, requests |-> c.requests, unanswered |-> c.unanswered]
  /\ c.requests \in Nat

(* The variables that no other part describes.                             *)
Types ==
  /\ sending \subseteq Sends /\ Counted(count)
  /\ changing \in MasterKeys \union {None} /\ passphrase \in Passphrases \union {None}
  /\ now \in 0 .. MaxTime /\ killed \in Nat /\ kicked \in [Groups -> Nat]
  /\ identity \in Nat

(* Database x has the keys of relationship r: a Key B for a contact, a     *)
(* sender key for a group.                                                 *)
KeysIn(x, r) ==
  IF r \in Contacts THEN get_key_b(x, r) ELSE get_sender_key(x, r) # -1

(* What every database is worth, the one in memory and the one in the      *)
(* file: it has the Key A that was shown, sender keys as new as the last   *)
(* kick, the keys of every conversation, ratchets of contacts only, and    *)
(* one Key C for a device.                                                 *)
DbOk(x, w, id, ki) ==
  /\ Stocks(x) /\ (id # 0 => x.key_a = id)
  /\ \A g \in Groups : ki[g] # 0 => x.sender[g] >= ki[g]
  /\ \A r \in w.conversations : KeysIn(x, r)
  /\ \A c \in Contacts : x.ratchet[c] # -1 => w.contacts[c] # "none"
  /\ \A k, l \in x.key_c : k.type = l.type => k = l

(* A world a handler may be killed in. No file means no life before:       *)
(* nothing was shown, kicked or sent.                                      *)
Good(w, id, ki) ==
  /\ w \in Worlds
  /\ w.ks.db # None => DbOk(w.ks.db, w, id, ki) /\ w.ks.file.state # "absent"
  /\ w.ks.file.state = "whole" => DbOk(w.ks.file.content, w, id, ki)
  /\ w.ks.file.state = "absent" =>
       w.conversations = {} /\ w.sent = {} /\ id = 0 /\ \A g \in Groups : ki[g] = 0

(* Message n has its row, or had it until it was deleted.                  *)
HasRow(w, n) == (\E m \in w.messages : m.no = n) \/ n \in w.deleted

(* The frames handed to the Outbox, and the keys they used.                *)
FramesOk(w, kl) ==
  /\ \A f \in w.sent :
       /\ f.killed <= kl /\ ~f.stale /\ (f.conv \in Groups => f.key >= f.floor)
       /\ f.row # 0 => HasRow(w, f.row)
       /\ f.conv \in Contacts => w.contacts[f.conv] # "none"
  /\ \A f, g \in w.sent :
       f # g /\ f.conv = g.conv /\ f.conv \in Contacts /\ f.alone /\ g.alone
         /\ f.killed = g.killed
       => f.key # g.key

(* Rows are numbered by the requests that wrote them.                      *)
RowsOk(w, n) ==
  /\ \A m \in w.messages : m.no <= n /\ m.seq <= n /\ m.no \notin w.deleted
  /\ \A d \in w.deleted : d <= n

(* The database a session has, or would load.                              *)
Cur(k)  == IF k.db # None THEN k.db ELSE k.file.content

(* There is one.                                                           *)
Live(k) == k.db # None \/ k.file.state = "whole"

(* A device that took all its calls holds the Key C on record in x.        *)
HeldBy(device, x) ==
  \A t \in Devices : device[t] # 0 => \A kc \in Unrevoked(x, t) : kc.key = device[t]

(* So it is in the database of the session, or the one it would load.      *)
Held(w) == Live(w.ks) => HeldBy(w.device, Cur(w.ks))

(* Frame f of contact c was sent in this life of the process and           *)
(* overlapped no other.                                                    *)
Own(f, c, kl) == f.conv = c /\ f.alone /\ f.killed = kl

(* The ratchet is past every key that was used in this life of the         *)
(* process.                                                                *)
Used(w, kl) ==
  Live(w.ks) => \A c \in Contacts : \A f \in w.sent :
    Own(f, c, kl) => f.key < Cur(w.ks).ratchet[c]

(* Between two handlers: a session has both database and key, shows a Key  *)
(* A, and its certs have not expired.                                      *)
Steady ==
  /\ (world.ks.db = None) = (world.ks.master_key = None)
  /\ is_unlocked(world.ks) =>
       up /\ identity # 0 /\ \A kc \in Db.key_c : kc.expires_at > now
  /\ changing # None => world.ks.file.state # "absent"
  /\ Held(world) /\ Used(world, killed)

(* Send s, among the sends S in progress. Before its insert it has no row. *)
(* Before its encryption it has the row it carries, and the key it has     *)
(* read is newer than those used; if it is alone, no other send of its     *)
(* conversation waits for its encryption.                                  *)
SendOk(s, S, w, n, kl) ==
  /\ s.no <= n /\ s.deletes <= n /\ s.seq <= n
  /\ s.step = "insert" =>
       /\ s.carries = s.no /\ ~HasRow(w, s.no)
       /\ \A t \in S : t.deletes # 0 => t.deletes # s.no
  /\ s.step = "submit" =>
       /\ s.carries # 0 => HasRow(w, s.carries)
       /\ s.conv \in Contacts /\ s.key # -1 =>
            /\ get_contact(w, s.conv)
            /\ \A f \in w.sent : Own(f, s.conv, kl) => f.key < s.key
       /\ s.alone => \A t \in S : t.step = "submit" /\ t.conv = s.conv => t = s
  /\ \A t \in S : t.no = s.no => t = s

(* The sends in progress belong to a session.                              *)
SendsOk ==
  /\ sending # {} => Unlocked
  /\ \A s \in sending : SendOk(s, sending, world, count.requests, killed)

(* As long as no change of the passphrase was cut or raced: the file, the  *)
(* session and a change in progress go by the passphrase in force and the  *)
(* salt on disk.                                                           *)
Opens ==
  ~cut /\ ~raced =>
    /\ world.ks.file.state # "torn"
    /\ world.ks.file.state = "whole" => world.ks.file.key = <<passphrase, world.ks.salt>>
    /\ is_unlocked(world.ks) /\ changing = None =>
         world.ks.master_key = <<passphrase, world.ks.salt>>
    /\ changing # None => changing = <<passphrase, world.ks.salt>>

(* The inductive invariant.                                                *)
IInv ==
  /\ Types /\ Good(world, identity, kicked) /\ FramesOk(world, killed)
  /\ RowsOk(world, count.requests) /\ Steady /\ SendsOk /\ Opens

(* The message store and the frames sent are the same.                     *)
SameTables(v, w) ==
  /\ v.contacts = w.contacts /\ v.conversations = w.conversations
  /\ v.groups = w.groups /\ v.messages = w.messages
  /\ v.deleted = w.deleted /\ v.sent = w.sent

(* The devices and the key counter are the same.                           *)
SameDevices(v, w) == v.device = w.device /\ v.keys = w.keys

(* The master key and the salt are the same.                               *)
SameSession(v, w) == v.ks.master_key = w.ks.master_key /\ v.ks.salt = w.ks.salt

(* The database and the file are the same.                                 *)
SameDb(v, w)      == v.ks.db = w.ks.db /\ v.ks.file = w.ks.file

(* Where a path that may be empty leaves world w.                          *)
End(w, p)  == IF p = << >> THEN w ELSE Last(p)

(* Paths one after the other, kept apart from the provers' sequences.      *)
Cat(p, q)  == p \o q

(* A path of worlds of S that a handler passes through.                    *)
Path(p, S) == p \in Seq(S) /\ p # << >>

(* Facts about sequences.                                                  *)
LEMMA ElementOfSeq ==
  ASSUME NEW S, NEW s \in Seq(S), NEW i \in 1 .. Len(s)
  PROVE  s[i] \in S
OBVIOUS

LEMMA LenProperties ==
  ASSUME NEW S, NEW s \in Seq(S)
  PROVE  Len(s) \in Nat /\ DOMAIN s = 1 .. Len(s)
OBVIOUS

LEMMA EmptySeq ==
  ASSUME NEW S
  PROVE  << >> \in Seq(S) /\ \A s \in Seq(S) : s = << >> <=> Len(s) = 0
OBVIOUS

LEMMA ConcatProperties ==
  ASSUME NEW S, NEW s \in Seq(S), NEW t \in Seq(S)
  PROVE  /\ s \o t \in Seq(S) /\ Len(s \o t) = Len(s) + Len(t)
         /\ \A i \in 1 .. Len(s) + Len(t) :
              (s \o t)[i] = IF i <= Len(s) THEN s[i] ELSE t[i - Len(s)]
OBVIOUS

LEMMA SeqEqual ==
  ASSUME NEW S, NEW s \in Seq(S), NEW t \in Seq(S),
         Len(s) = Len(t), \A i \in 1 .. Len(s) : s[i] = t[i]
  PROVE  s = t
OBVIOUS

LEMMA SeqMonotonic ==
  ASSUME NEW S, NEW T, S \subseteq T
  PROVE  Seq(S) \subseteq Seq(T)
OBVIOUS

LEMMA ConcatEmptySeq ==
  ASSUME NEW S, NEW s \in Seq(S)
  PROVE  s \o << >> = s
BY EmptySeq, ConcatProperties, SeqEqual

(* Where joined sequences end.                                             *)
LEMMA Joined ==
  ASSUME NEW S, NEW p \in Seq(S), NEW q \in Seq(S), p # << >>
  PROVE  /\ p \o q \in Seq(S) /\ p \o q # << >> /\ Last(p) \in S
         /\ Last(p \o q) = IF q = << >> THEN Last(p) ELSE Last(q)
         /\ q # << >> => Last(q) \in S
<1>1. Len(p) \in Nat /\ Len(q) \in Nat /\ Len(p) > 0 BY EmptySeq
<1>2. p \o q \in Seq(S) /\ Len(p \o q) = Len(p) + Len(q)
  BY ConcatProperties, Zenon
<1>3. Last(p) \in S BY <1>1, ElementOfSeq DEF Last
<1>4. q # << >> => Len(q) > 0 BY EmptySeq
<1>5. q # << >> => Last(q) \in S BY <1>1, <1>4, ElementOfSeq DEF Last
<1>6. CASE q = << >> BY <1>2, <1>3, <1>6, ConcatEmptySeq, Zenon
<1>7. CASE q # << >>
  <2>1. (p \o q)[Len(p) + Len(q)] = q[Len(q)]
    BY <1>1, <1>4, <1>7, ConcatProperties
  <2> QED BY <1>1, <1>2, <1>3, <1>4, <1>5, <1>7, <2>1, EmptySeq DEF Last
<1> QED BY <1>6, <1>7, Zenon

(* Paths of one and of two worlds.                                         *)
LEMMA Singleton ==
  ASSUME NEW S, NEW x \in S, NEW p, p = <<x>>
  PROVE  Path(p, S) /\ Last(p) = x
BY DEF Last, Path

LEMMA Pair ==
  ASSUME NEW S, NEW x \in S, NEW y \in S, NEW p, p = <<x, y>>
  PROVE  Path(p, S) /\ Last(p) = y /\ p[1] = x
BY DEF Last, Path

(* A path ends in a world of its set, and is a path of every wider one.    *)
LEMMA EndsIn ==
  ASSUME NEW S, NEW p, Path(p, S)
  PROVE  Last(p) \in S
BY Joined, EmptySeq, SMT DEF Path

LEMMA Wider ==
  ASSUME NEW S, NEW T, S \subseteq T, NEW p, Path(p, S)
  PROVE  Path(p, T)
BY SeqMonotonic, Zenon DEF Path

(* Two paths after each other.                                             *)
LEMMA Extended ==
  ASSUME NEW S, NEW p, Path(p, S), NEW q, Path(q, S)
  PROVE  Path(Cat(p, q), S) /\ Last(Cat(p, q)) = Last(q)
BY Joined, SMT DEF Path, Cat

(* A step that may do nothing.                                             *)
LEMMA Continued ==
  ASSUME NEW S, NEW p, Path(p, S), NEW q \in Seq(S)
  PROVE  Path(Cat(p, q), S) /\ Last(Cat(p, q)) = End(Last(p), q)
<1> DEFINE r == Cat(p, q)
<1>1. p \in Seq(S) /\ p # << >> BY Zenon DEF Path
<1>2. r \in Seq(S) /\ r # << >> /\ Last(p) \in S
      /\ Last(r) = (IF q = << >> THEN Last(p) ELSE Last(q))
  BY <1>1, Joined, SMT DEF Cat
<1> QED BY <1>2, Zenon DEF End, Path

(* A path from w on.                                                       *)
LEMMA Started ==
  ASSUME NEW S, NEW w \in S, NEW q \in Seq(S), NEW p, p = Cat(<<w>>, q)
  PROVE  Path(p, S) /\ Last(p) = End(w, q)
<1> DEFINE a == <<w>>
<1>1. Path(a, S) /\ Last(a) = w BY Singleton, Zenon
<1>2. p = Cat(a, q) BY Zenon
<1> HIDE DEF a
<1>3. Path(p, S) /\ Last(p) = End(Last(a), q) BY <1>1, <1>2, Continued, SMT
<1> QED BY <1>1, <1>3, Zenon

(* A world with another keystore.                                          *)
LEMMA WithKs ==
  ASSUME NEW w \in Worlds, NEW k \in Keystores, NEW v, v = [w EXCEPT !.ks = k]
  PROVE  v \in Worlds /\ v.ks = k /\ SameTables(v, w) /\ SameDevices(v, w)
BY Zenon DEF Worlds, SameTables, SameDevices

(* A world with another database in memory.                                *)
SetDb(w, x) == [w EXCEPT !.ks.db = x]

(* It keeps the file, the session, the tables and the devices.             *)
LEMMA WithDb ==
  ASSUME NEW w \in Worlds, NEW x \in Databases \union {None},
         NEW v, v = SetDb(w, x)
  PROVE  /\ v \in Worlds /\ v.ks.db = x /\ v.ks.file = w.ks.file
         /\ SameSession(v, w) /\ SameTables(v, w) /\ SameDevices(v, w)
<1> DEFINE k == [w.ks EXCEPT !.db = x]
<1>1. w.ks \in Keystores BY Zenon DEF Worlds
<1>2. k \in Keystores /\ k.db = x /\ k.file = w.ks.file
      /\ k.master_key = w.ks.master_key /\ k.salt = w.ks.salt
  BY <1>1, Zenon DEF Keystores
<1>3. v = [w EXCEPT !.ks = k] BY Zenon DEF SetDb
<1> HIDE DEF k
<1>4. v \in Worlds /\ v.ks = k /\ SameTables(v, w) /\ SameDevices(v, w)
  BY <1>2, <1>3, WithKs, Zenon
<1> QED BY <1>2, <1>4, Zenon DEF SameSession

(* What save writes.                                                       *)
NewFile(w) ==
  [state |-> "whole", key |-> w.ks.master_key, content |-> w.ks.db]

(* save leaves a torn file, then a whole one with the database of the      *)
(* session.                                                                *)
LEMMA SaveIs ==
  ASSUME NEW w \in Worlds, w.ks.db # None, w.ks.master_key # None
  PROVE  \E t, s \in Worlds :
           /\ Saved(w) = <<t, s>> /\ t.ks.db = w.ks.db /\ s.ks.db = w.ks.db
           /\ t.ks.file = Torn /\ s.ks.file = NewFile(w)
           /\ SameSession(t, w) /\ SameTables(t, w) /\ SameDevices(t, w)
           /\ SameSession(s, w) /\ SameTables(s, w) /\ SameDevices(s, w)
<1> DEFINE k == w.ks
           a == [k EXCEPT !.file = Torn]
           b == [k EXCEPT !.file = NewFile(w)]
<1>1. k \in Keystores BY Zenon DEF Worlds
<1>2. NewFile(w) \in Files /\ Torn \in Files
  BY <1>1, Zenon DEF Keystores, Files, NewFile
<1>3. a \in Keystores /\ a.db = k.db /\ a.file = Torn
      /\ a.master_key = k.master_key /\ a.salt = k.salt
  BY <1>1, <1>2, Zenon DEF Keystores
<1>4. b \in Keystores /\ b.db = k.db /\ b.file = NewFile(w)
      /\ b.master_key = k.master_key /\ b.salt = k.salt
  BY <1>1, <1>2, Zenon DEF Keystores
<1>5. save(k) = <<a, b>> BY Zenon DEF save, write_to_disk, NewFile
<1>6. Saved(w) = <<[w EXCEPT !.ks = a], [w EXCEPT !.ks = b]>>
  BY <1>5 DEF Saved, InKeystore
<1> HIDE DEF a, b
<1> DEFINE t == [w EXCEPT !.ks = a]
           s == [w EXCEPT !.ks = b]
<1>7. t \in Worlds /\ t.ks = a /\ SameTables(t, w) /\ SameDevices(t, w)
  BY <1>3, WithKs, Zenon
<1>8. s \in Worlds /\ s.ks = b /\ SameTables(s, w) /\ SameDevices(s, w)
  BY <1>4, WithKs, Zenon
<1>9. Saved(w) = <<t, s>> BY <1>6, Zenon
<1> HIDE DEF t, s
<1> QED BY <1>3, <1>4, <1>7, <1>8, <1>9, Zenon DEF SameSession

(* Worlds that handlers of a session pass through before they touch a      *)
(* table.                                                                  *)
Session(w0, id, ki) ==
  {w \in Worlds :
     /\ Good(w, id, ki) /\ SameTables(w, w0) /\ SameSession(w, w0)
     /\ w.ks.db # None /\ w.ks.master_key # None
     /\ w.ks.db.ratchet = w0.ks.db.ratchet /\ HeldBy(w.device, w.ks.db)}

(* The file holds a database of the session, under its key.                *)
Wrote(v) ==
  /\ v.ks.file.state = "whole" /\ v.ks.file.key = v.ks.master_key
  /\ v.ks.file.content.key_a = v.ks.db.key_a

(* Inside one session: the Key A is the same, and the file is the same or  *)
(* was written by it.                                                      *)
Follows(v, w) ==
  /\ v.ks.db.key_a = w.ks.db.key_a /\ SameSession(v, w)
  /\ v.ks.file = w.ks.file \/ Wrote(v)

(* One handler after the other.                                            *)
LEMMA FollowsTransitive ==
  ASSUME NEW u, NEW v, NEW w, Follows(u, v), Follows(v, w)
  PROVE  Follows(u, w)
BY Zenon DEF Follows, Wrote, SameSession

(* None is no database and no key.                                         *)
LEMMA NoneApart ==
  /\ \A x \in Databases : x # None
  /\ \A k \in MasterKeys : k # None
BY ClientAssumption, Zenon

(* DbOk reads the world's tables only.                                     *)
LEMMA DbOkSame ==
  ASSUME NEW x, NEW v, NEW w, NEW id, NEW ki, DbOk(x, w, id, ki), SameTables(v, w)
  PROVE  DbOk(x, v, id, ki)
BY Zenon DEF DbOk, SameTables

(* A database that is as good as the one before stays in the session.      *)
LEMMA SessionDb ==
  ASSUME NEW w0, NEW id, NEW ki, NEW w \in Session(w0, id, ki), NEW x \in Databases,
         DbOk(x, w, id, ki), x.ratchet = w.ks.db.ratchet, HeldBy(w.device, x),
         NEW v, v = SetDb(w, x)
  PROVE  /\ v \in Session(w0, id, ki) /\ v.ks.db = x /\ v.ks.file = w.ks.file
         /\ SameSession(v, w) /\ SameTables(v, w) /\ SameDevices(v, w)
<1>1. w \in Worlds /\ Good(w, id, ki) /\ SameTables(w, w0) /\ SameSession(w, w0)
      /\ w.ks.db # None /\ w.ks.master_key # None
      /\ w.ks.db.ratchet = w0.ks.db.ratchet
  BY Zenon DEF Session
<1>2. /\ v \in Worlds /\ v.ks.db = x /\ v.ks.file = w.ks.file
      /\ SameSession(v, w) /\ SameTables(v, w) /\ SameDevices(v, w)
  BY <1>1, WithDb, Zenon
<1>3. x # None BY NoneApart, Zenon
<1>4. DbOk(x, v, id, ki) BY <1>2, DbOkSame, Zenon
<1>5. w.ks.file.state = "whole" => DbOk(w.ks.file.content, v, id, ki)
  BY <1>1, <1>2, DbOkSame, Zenon DEF Good
<1>6. v.ks.file.state # "absent" BY <1>1, <1>2, Zenon DEF Good
<1>7. Good(v, id, ki) BY <1>2, <1>4, <1>5, <1>6, Zenon DEF Good
<1> QED BY <1>1, <1>2, <1>3, <1>7, Zenon DEF Session, SameTables, SameSession, SameDevices

(* A save stays in the session.                                            *)
LEMMA SessionSave ==
  ASSUME NEW w0, NEW id, NEW ki, NEW w \in Session(w0, id, ki)
  PROVE  \E t, s \in Session(w0, id, ki) :
           /\ Saved(w) = <<t, s>> /\ s.ks.db = w.ks.db /\ s.ks.file = NewFile(w)
           /\ t.ks.db = w.ks.db /\ t.ks.file = Torn
           /\ SameSession(s, w) /\ SameTables(s, w) /\ SameDevices(s, w)
           /\ Follows(s, w)
<1>1. w \in Worlds /\ Good(w, id, ki) /\ SameTables(w, w0) /\ SameSession(w, w0)
      /\ w.ks.db # None /\ w.ks.master_key # None
      /\ w.ks.db.ratchet = w0.ks.db.ratchet /\ HeldBy(w.device, w.ks.db)
  BY Zenon DEF Session
<1>2. PICK t, s \in Worlds :
           /\ Saved(w) = <<t, s>> /\ t.ks.db = w.ks.db /\ s.ks.db = w.ks.db
           /\ t.ks.file = Torn /\ s.ks.file = NewFile(w)
           /\ SameSession(t, w) /\ SameTables(t, w) /\ SameDevices(t, w)
           /\ SameSession(s, w) /\ SameTables(s, w) /\ SameDevices(s, w)
  BY <1>1, SaveIs, Zenon
<1>3. DbOk(w.ks.db, w, id, ki) BY <1>1, Zenon DEF Good
<1>4. DbOk(t.ks.db, t, id, ki) /\ DbOk(s.ks.db, s, id, ki)
  BY <1>2, <1>3, DbOkSame, Zenon
<1>5. t.ks.file.state = "torn" BY <1>2 DEF Torn
<1>6. s.ks.file.state = "whole" /\ s.ks.file.content = s.ks.db
      /\ s.ks.file.key = s.ks.master_key
  BY <1>2 DEF NewFile, SameSession
<1>7. Good(t, id, ki) /\ Good(s, id, ki) BY <1>4, <1>5, <1>6, Zenon DEF Good
<1>8. t \in Session(w0, id, ki)
  BY <1>1, <1>2, <1>7, Zenon DEF Session, SameTables, SameSession, SameDevices
<1>9. s \in Session(w0, id, ki)
  BY <1>1, <1>2, <1>7, Zenon DEF Session, SameTables, SameSession, SameDevices
<1>10. Follows(s, w) BY <1>2, <1>6, Zenon DEF Follows, Wrote
<1> QED BY <1>2, <1>8, <1>9, <1>10, Zenon

(* No Key C of database x has expired.                                     *)
Fresh(x) == \A kc \in x.key_c : kc.expires_at > now

(* The same as a path.                                                     *)
LEMMA SavedPath ==
  ASSUME NEW w0, NEW id, NEW ki, NEW w \in Session(w0, id, ki), NEW p, p = Saved(w)
  PROVE  /\ Path(p, Session(w0, id, ki)) /\ p[1] \in Session(w0, id, ki)
         /\ Last(p) \in Session(w0, id, ki) /\ Last(p).ks.db = w.ks.db
         /\ Last(p).ks.file = NewFile(w) /\ SameSession(Last(p), w)
         /\ Wrote(Last(p)) /\ Follows(Last(p), w)
<1>1. PICK t, s \in Session(w0, id, ki) :
           /\ Saved(w) = <<t, s>> /\ s.ks.db = w.ks.db /\ s.ks.file = NewFile(w)
           /\ t.ks.db = w.ks.db /\ t.ks.file = Torn
           /\ SameSession(s, w) /\ SameTables(s, w) /\ SameDevices(s, w)
           /\ Follows(s, w)
  BY SessionSave, Zenon
<1>2. Path(p, Session(w0, id, ki)) /\ Last(p) = s /\ p[1] = t
  BY <1>1, Pair
<1>3. Wrote(s) BY <1>1 DEF Wrote, NewFile, SameSession
<1> QED BY <1>1, <1>2, <1>3, Zenon

(* Prekeys for rows of Key B.                                              *)
LEMMA InsertPrekeys ==
  ASSUME NEW w, NEW id, NEW ki, NEW x \in Databases, DbOk(x, w, id, ki),
         NEW rs \in SUBSET Range(x.key_b), NEW y, y = insert_prekeys(x, rs)
  PROVE  /\ y \in Databases /\ DbOk(y, w, id, ki) /\ y.ratchet = x.ratchet
         /\ y.key_a = x.key_a /\ y.key_c = x.key_c /\ y.key_b = x.key_b
<1>1. Range(x.key_b) \subseteq Relationships BY DEF Range, Databases
<1>2. /\ y \in Databases /\ y.ratchet = x.ratchet /\ y.key_a = x.key_a
      /\ y.key_c = x.key_c /\ y.key_b = x.key_b /\ y.sender = x.sender
      /\ y.prekeys = x.prekeys \union rs
  BY <1>1, Zenon DEF Databases, insert_prekeys
<1>3. Stocks(y) BY <1>2, Zenon DEF DbOk, Stocks
<1>4. DbOk(y, w, id, ki)
  BY <1>2, <1>3, Zenon DEF DbOk, KeysIn, get_key_b, get_sender_key
<1> QED BY <1>2, <1>4, Zenon

(* Saves and prekeys change nothing else.                                  *)
Restocked(v, w) ==
  /\ v.ks.db.key_b = w.ks.db.key_b /\ v.ks.db.key_c = w.ks.db.key_c

(* replenish_prekeys stays in the session, at every world it passes        *)
(* through.                                                                *)
LEMMA Replenish ==
  ASSUME NEW w0, NEW id, NEW ki, NEW w \in Session(w0, id, ki),
         NEW p, p = replenish_prekeys(w)
  PROVE  /\ Path(p, Session(w0, id, ki))
         /\ Last(p) \in Session(w0, id, ki) /\ Follows(Last(p), w)
         /\ Restocked(Last(p), w)
<1> DEFINE S    == Session(w0, id, ki)
           x    == w.ks.db
           rows == list_key_b(x)
           K    == Len(rows)
           Short(n) == {i \in 1 .. n : ~HasPrekeys(x, rows[i])}
           Y(n)  == insert_prekeys(x, {rows[i] : i \in 1 .. n})
           V(n)  == [w EXCEPT !.ks.db = Y(n)]
           St(n) == Saved(V(n))
           After(n) == IF Short(n) = {} THEN w ELSE Last(St(n))
           At(j)  == LET n == (j + 1) \div 2
                     IN  IF j = 2 * n - 1 /\ n \in Short(n) THEN St(n)[1]
                         ELSE After(n)
           q     == [j \in 1 .. 2 * K |-> At(j)]
           OK(v) == v \in S /\ Follows(v, w) /\ Restocked(v, w)
<1>1. p = Cat(<<w>>, q) BY Zenon DEF replenish_prekeys, Cat
<1>2. w \in Worlds /\ DbOk(x, w, id, ki) /\ x \in Databases /\ HeldBy(w.device, x)
  BY Zenon DEF Session, Good, Worlds, Keystores
<1>3. rows \in Seq(Relationships) /\ K \in Nat /\ x.key_b = rows
  BY <1>2 DEF Databases, list_key_b
<1>4. OK(w) BY Zenon DEF Follows, SameSession, Restocked
<1>5. \A n \in 1 .. K : St(n)[1] \in S /\ OK(Last(St(n)))
  <2> SUFFICES ASSUME NEW n \in 1 .. K
               PROVE  St(n)[1] \in S /\ OK(Last(St(n)))
    BY Zenon
  <2> DEFINE rs == {rows[i] : i \in 1 .. n}
             y  == Y(n)
             v  == V(n)
             t  == St(n)
  <2>1. rs \in SUBSET Range(x.key_b) BY <1>3 DEF Range
  <2>2. y = insert_prekeys(x, rs) BY Zenon
  <2>3. v = SetDb(w, y) BY Zenon DEF SetDb
  <2>4. t = Saved(v) BY Zenon
  <2> HIDE DEF rs, y, v, t, S, x
  <2>5. /\ y \in Databases /\ DbOk(y, w, id, ki) /\ y.ratchet = x.ratchet
        /\ y.key_a = x.key_a /\ y.key_c = x.key_c /\ y.key_b = x.key_b
    BY <1>2, <2>1, <2>2, InsertPrekeys, SMT
  <2>6. HeldBy(w.device, y) BY <1>2, <2>5, Zenon DEF HeldBy, Unrevoked
  <2>7. v \in S /\ v.ks.db = y /\ v.ks.file = w.ks.file /\ SameSession(v, w)
    BY <2>3, <2>5, <2>6, SessionDb, SMT DEF S, x
  <2>8. Follows(v, w) BY <2>5, <2>7, Zenon DEF Follows, x
  <2>9. t[1] \in S /\ Last(t) \in S /\ Last(t).ks.db = y /\ Follows(Last(t), v)
    BY <2>4, <2>7, SavedPath, SMT DEF S
  <2>10. Follows(Last(t), w) BY <2>8, <2>9, FollowsTransitive, Zenon
  <2>11. Restocked(Last(t), w) BY <2>5, <2>9, Zenon DEF Restocked, x
  <2> QED BY <2>9, <2>10, <2>11, Zenon DEF t
<1> HIDE DEF S, x, rows, St, Short
<1>6. \A j \in 1 .. 2 * K : (j + 1) \div 2 \in 1 .. K BY <1>3
<1>7. \A n \in 1 .. K : After(n) \in S BY <1>4, <1>5, Zenon
<1>8. \A j \in 1 .. 2 * K : At(j) \in S BY <1>5, <1>6, <1>7, Zenon
<1>9. K # 0 => OK(At(2 * K))
  <2> SUFFICES ASSUME K # 0 PROVE OK(At(2 * K)) BY Zenon
  <2>1. K \in 1 .. K /\ (2 * K + 1) \div 2 = K /\ 2 * K # 2 * K - 1 BY <1>3
  <2>2. At(2 * K) = After(K) BY <2>1, Zenon
  <2>3. OK(After(K)) BY <1>4, <1>5, <2>1, Zenon
  <2> QED BY <2>2, <2>3, Zenon
<1> HIDE DEF At, K
<1>10. q \in Seq(S) /\ Len(q) = 2 * K /\ (K # 0 => q[2 * K] = At(2 * K))
  BY <1>3, <1>8
<1> HIDE DEF q, OK
<1>11. OK(End(w, q))
  BY <1>3, <1>4, <1>9, <1>10, EmptySeq DEF End, Last
<1>12. Path(p, S) /\ Last(p) = End(w, q) /\ Last(p) \in S
  BY <1>1, <1>4, <1>10, Started, EndsIn, SMT DEF OK
<1> QED BY <1>11, <1>12, Zenon DEF OK, S

(* A world with another keystore.                                          *)
SetKs(w, k) == [w EXCEPT !.ks = k]

(* Worlds with the tables of w0.                                           *)
Tabled(w0, id, ki) == {w \in Worlds : Good(w, id, ki) /\ SameTables(w, w0)}

(* The worlds of a session have its tables.                                *)
LEMMA SessionTabled ==
  ASSUME NEW w0, NEW w, SameTables(w0, w), NEW id, NEW ki
  PROVE  Session(w0, id, ki) \subseteq Tabled(w, id, ki)
BY Zenon DEF Session, Tabled, SameTables

(* Counters.                                                               *)
LEMMA Spent ==
  ASSUME Counted(count)
  PROVE  /\ Serve => Counted(count') /\ count'.requests = count.requests + 1
         /\ Spend("starts", 1, MaxStarts) => Counted(count') /\ count'.requests = count.requests
         /\ \A answers \in Answers : Call(answers) =>
              Counted(count') /\ count'.requests = count.requests
<1>1. Serve => Counted(count') /\ count'.requests = count.requests + 1
  <2> SUFFICES ASSUME Serve PROVE Counted(count') /\ count'.requests = count.requests + 1
    BY Zenon
  <2>1. count' = [count EXCEPT !["requests"] = @ + 1] BY Zenon DEF Serve, Spend
  <2>2. count' = [starts |-> count.starts, requests |-> count.requests + 1,
                  unanswered |-> count.unanswered]
    BY <2>1, Zenon DEF Counted
  <2> QED BY <2>2 DEF Counted
<1>2. Spend("starts", 1, MaxStarts) => Counted(count') /\ count'.requests = count.requests
  BY Zenon DEF Spend, Counted
<1>5. ASSUME NEW answers \in Answers, Call(answers)
      PROVE  Counted(count') /\ count'.requests = count.requests
  <2> DEFINE n == Cardinality(Devices \ answers)
  <2>2. count' = [count EXCEPT !["unanswered"] = @ + n] BY <1>5, Zenon DEF Call, Spend
  <2> HIDE DEF n
  <2> QED BY <2>2, Zenon DEF Counted
<1> QED BY <1>1, <1>2, <1>5, Zenon

(* World v satisfies what is said of worlds, with n requests so far.       *)
Fit(v, n) == Good(v, identity, kicked) /\ FramesOk(v, killed) /\ RowsOk(v, n)

(* A handler that leaves the tables alone keeps the world fit.             *)
LEMMA TabledFit ==
  ASSUME NEW w, FramesOk(w, killed), NEW m \in Nat, NEW n \in Nat, m <= n, RowsOk(w, m),
         w \in Worlds, NEW v \in Tabled(w, identity, kicked)
  PROVE  Fit(v, n)
<1>1. Good(v, identity, kicked) /\ SameTables(v, w) BY Zenon DEF Tabled
<1>2. FramesOk(v, killed) BY <1>1, Zenon DEF FramesOk, SameTables, HasRow
<1>3. \A x \in w.messages : x.no \in Nat /\ x.seq \in Nat BY Zenon DEF Worlds
<1>4. w.deleted \subseteq Nat BY Zenon DEF Worlds
<1>5. RowsOk(v, n) BY <1>1, <1>3, <1>4 DEF RowsOk, SameTables
<1> QED BY <1>1, <1>2, <1>5, Zenon DEF Fit

(* The world after a kill in w.                                            *)
Dead(w) == [w EXCEPT !.ks = Ended(@), !.device = [t \in Devices |-> 0]]

(* The keystore is gone from memory, files and tables stay, and of no      *)
(* device it is known which Key C it holds.                                *)
LEMMA DeadWorld ==
  ASSUME NEW w \in Worlds, NEW v, v = Dead(w)
  PROVE  /\ v \in Worlds /\ SameTables(v, w)
         /\ v.ks.db = None /\ v.ks.master_key = None
         /\ v.ks.file = w.ks.file /\ v.ks.salt = w.ks.salt
         /\ \A t \in Devices : v.device[t] = 0
<1> DEFINE k == Ended(w.ks)
           u == [w EXCEPT !.ks = k]
           d == [t \in Devices |-> 0]
<1>1. w.ks \in Keystores BY Zenon DEF Worlds
<1>2. k \in Keystores /\ k.db = None /\ k.master_key = None
      /\ k.file = w.ks.file /\ k.salt = w.ks.salt
  BY <1>1, Zenon DEF Keystores, Ended
<1>3. v = [u EXCEPT !.device = d] BY Zenon DEF Dead
<1>4. d \in [Devices -> Nat] /\ \A t \in Devices : d[t] = 0 BY Zenon
<1> HIDE DEF k, d
<1>5. u \in Worlds /\ u.ks = k /\ SameTables(u, w) BY <1>2, WithKs, Zenon
<1> HIDE DEF u
<1>6. v \in Worlds /\ v.ks = u.ks /\ v.device = d /\ SameTables(v, u)
  BY <1>3, <1>4, <1>5, Zenon DEF Worlds, SameTables
<1> QED BY <1>2, <1>4, <1>5, <1>6, Zenon DEF SameTables

(* The daemon is killed where it leaves the world v, inside a handler or   *)
(* not.                                                                    *)
KilledAt(v) ==
  /\ world' = Dead(v)
  /\ up' = FALSE /\ sending' = {} /\ changing' = None /\ killed' = killed + 1
  /\ now' = now /\ raced' = raced
  /\ passphrase' = passphrase /\ identity' = identity /\ kicked' = kicked

(* A kill in a fit world preserves the invariant.                          *)
LEMMA KilledStep ==
  ASSUME IInv, NEW v, cut' \/ (v = world /\ ~cut),
         Counted(count'), Fit(v, count'.requests), KilledAt(v)
  PROVE  IInv'
<1> DEFINE u == Dead(v)
<1>1. v \in Worlds BY Zenon DEF Fit, Good
<1>2. world' = u BY Zenon DEF KilledAt
<1>3. u = Dead(v) BY Zenon
<1> HIDE DEF u
<1>4. /\ u \in Worlds /\ SameTables(u, v)
      /\ u.ks.db = None /\ u.ks.master_key = None
      /\ u.ks.file = v.ks.file /\ u.ks.salt = v.ks.salt
      /\ \A t \in Devices : u.device[t] = 0
  BY <1>1, <1>3, DeadWorld, SMT
<1>5. /\ up' = FALSE /\ sending' = {} /\ changing' = None /\ killed' = killed + 1
      /\ now' = now /\ raced' = raced
      /\ passphrase' = passphrase /\ identity' = identity /\ kicked' = kicked
  BY Zenon DEF KilledAt
<1>6. Types /\ killed \in Nat BY Zenon DEF IInv, Types
<1>7. Types' BY <1>5, <1>6 DEF Types
<1>8. Good(u, identity, kicked)
  <2>1. v.ks.file.state = "whole" => DbOk(u.ks.file.content, u, identity, kicked)
    BY <1>4, DbOkSame, Zenon DEF Fit, Good
  <2> QED BY <1>4, <2>1, Zenon DEF Fit, Good, SameTables
<1>9. \A f \in v.sent : f.killed \in Nat /\ f.killed <= killed
  BY <1>1, Zenon DEF Fit, FramesOk, Worlds, Frame
<1>10. FramesOk(u, killed + 1)
  <2>1. \A f \in u.sent : f.killed <= killed + 1 BY <1>4, <1>6, <1>9 DEF SameTables
  <2> QED BY <1>4, <2>1, Zenon DEF Fit, FramesOk, SameTables, HasRow
<1>11. RowsOk(u, count'.requests) BY <1>4, Zenon DEF Fit, RowsOk, SameTables
<1>12. Held(u) BY <1>4, Zenon DEF Held, HeldBy
<1>13. Used(u, killed + 1)
  <2>1. \A f \in u.sent : f.killed # killed + 1 BY <1>4, <1>6, <1>9 DEF SameTables
  <2> QED BY <2>1, Zenon DEF Used, Own
<1>14. Steady' BY <1>2, <1>4, <1>5, <1>12, <1>13, Zenon DEF Steady, is_unlocked
<1>15. SendsOk' BY <1>5, Zenon DEF SendsOk
<1>16. Opens'
  BY <1>2, <1>4, <1>5, Zenon DEF Opens, IInv, is_unlocked
<1> QED BY <1>2, <1>5, <1>7, <1>8, <1>10, <1>11, <1>14, <1>15, <1>16, Zenon DEF IInv

(* A kill at any point of a handler's path preserves it too.               *)
LEMMA DiesStep ==
  ASSUME IInv, NEW S, NEW p, Path(p, S), Counted(count'),
         \A v \in S : Fit(v, count'.requests), DiesIn(p)
  PROVE  IInv'
<1>1. PICK i \in 1 .. Len(p) - 1 : Killed(p[i], TRUE) BY Zenon DEF DiesIn
<1>2. p[i] \in S BY ElementOfSeq DEF Path
<1>3. Fit(p[i], count'.requests) BY <1>2, Zenon
<1> DEFINE v == p[i]
<1> HIDE DEF v
<1>4. Fit(v, count'.requests) /\ Killed(v, TRUE) BY <1>1, <1>3, Zenon DEF v
<1>5. KilledAt(v) /\ cut' BY <1>4, Zenon DEF Killed, KilledAt, Dead, history
<1> QED BY <1>4, <1>5, KilledStep, Zenon

(* What a handler leaves of the rows that sends in progress depend on.     *)
Keeps(v, w) ==
  /\ v.messages = w.messages /\ v.deleted = w.deleted
  /\ \A c \in Contacts : get_contact(w, c) => get_contact(v, c)
  /\ \A f \in v.sent : f \in w.sent \/ (f.conv \in Contacts => ~get_contact(w, f.conv))

(* Such a handler keeps the sends in progress.                             *)
LEMMA SendsKept ==
  ASSUME IInv, NEW v, world' = v, Keeps(v, world), v.ks.db # None, up', sending' = sending,
         killed' = killed, count.requests \in Nat, count'.requests \in Nat,
         count'.requests >= count.requests
  PROVE  SendsOk'
<1>1. sending \subseteq Sends /\ SendsOk BY Zenon DEF IInv, Types
<1>2. sending' # {} => Unlocked' BY Zenon DEF Unlocked, is_unlocked
<1>3. \A n : HasRow(v, n) <=> HasRow(world, n) BY Zenon DEF HasRow, Keeps
<1> SUFFICES ASSUME NEW s \in sending
             PROVE  SendOk(s, sending, v, count'.requests, killed)
  BY <1>2, Zenon DEF SendsOk
<1>4. s.no \in Nat /\ s.deletes \in Nat /\ s.seq \in Nat BY <1>1, Zenon DEF Sends
<1>a. SendOk(s, sending, world, count.requests, killed) BY <1>1, Zenon DEF SendsOk
<1>5. s.no <= count'.requests /\ s.deletes <= count'.requests /\ s.seq <= count'.requests
  <2>1. s.no <= count.requests /\ s.deletes <= count.requests /\ s.seq <= count.requests
    BY <1>a, Zenon DEF SendOk
  <2> QED BY <1>4, <2>1, SMT
<1>8. ASSUME s.step = "submit", s.conv \in Contacts, s.key # -1
      PROVE  /\ get_contact(v, s.conv)
             /\ \A f \in v.sent : Own(f, s.conv, killed) => f.key < s.key
  <2>1. /\ get_contact(world, s.conv)
        /\ \A f \in world.sent : Own(f, s.conv, killed) => f.key < s.key
    BY <1>a, <1>8, Zenon DEF SendOk
  <2> QED BY <1>8, <2>1, Zenon DEF Keeps, Own
<1> QED BY <1>3, <1>5, <1>8, <1>a, Zenon DEF SendOk

(* The file is the same or whole under the session's key.                  *)
Solid(v, w) ==
  \/ v.ks.file = w.ks.file
  \/ v.ks.file.state = "whole" /\ v.ks.file.key = v.ks.master_key

(* A handler that has run to its end leaves v and a session.               *)
Passed(v) ==
  /\ world' = v /\ up' /\ changing' = changing /\ now' = now /\ killed' = killed
  /\ cut' = cut /\ passphrase' = passphrase /\ identity' = identity
  /\ raced \/ (changing # None /\ v.ks.file # world.ks.file) => raced'

(* What a handler must leave behind to preserve the invariant.             *)
LEMMA PassedStep ==
  ASSUME IInv, Unlocked, NEW v, Passed(v), v.ks.db # None, SameSession(v, world),
         Good(v, identity, kicked'), FramesOk(v, killed), RowsOk(v, count'.requests),
         Fresh(v.ks.db), Solid(v, world), Held(v), Used(v, killed), SendsOk',
         sending' \subseteq Sends, Counted(count'), kicked' \in [Groups -> Nat]
  PROVE  IInv'
<1>1. Types' BY Zenon DEF IInv, Types, Passed
<1>2. /\ world.ks.master_key # None /\ identity # 0
      /\ world.ks.db # None
  BY Zenon DEF IInv, Steady, Unlocked, is_unlocked
<1>3. changing # None => v.ks.file.state # "absent"
  BY Zenon DEF IInv, Steady, Solid, Good
<1>4. Steady'
  BY <1>2, <1>3, Zenon DEF Steady, Passed, SameSession, is_unlocked, Fresh, Db
<1>5. Opens'
  <2> SUFFICES ASSUME ~cut', ~raced' PROVE Opens' BY Zenon DEF Opens
  <2>1. ~cut /\ ~raced /\ (changing = None \/ v.ks.file = world.ks.file)
    BY Zenon DEF Passed
  <2>2. /\ world.ks.file.state # "torn"
        /\ world.ks.file.state = "whole" => world.ks.file.key = <<passphrase, world.ks.salt>>
        /\ changing = None => world.ks.master_key = <<passphrase, world.ks.salt>>
        /\ changing # None => changing = <<passphrase, world.ks.salt>>
    BY <1>2, <2>1, Zenon DEF IInv, Opens, is_unlocked
  <2>3. /\ v.ks.file.state # "torn"
        /\ v.ks.file.state = "whole" => v.ks.file.key = <<passphrase, v.ks.salt>>
    BY <2>1, <2>2, Zenon DEF Solid, SameSession
  <2>4. /\ changing = None => v.ks.master_key = <<passphrase, v.ks.salt>>
        /\ changing # None => changing = <<passphrase, v.ks.salt>>
    BY <2>2, Zenon DEF SameSession
  <2> QED BY <2>3, <2>4, Zenon DEF Opens, Passed
<1> QED BY <1>1, <1>4, <1>5, Zenon DEF IInv, Passed

(* Between two handlers the world is one of its session.                   *)
LEMMA InSession ==
  ASSUME IInv, Unlocked
  PROVE  /\ world \in Session(world, identity, kicked) /\ Fresh(world.ks.db)
         /\ world \in Worlds /\ now \in Nat /\ Counted(count) /\ count.requests \in Nat
         /\ Used(world, killed)
<1>1. world.ks.db # None /\ world.ks.master_key # None
  BY Zenon DEF IInv, Steady, Unlocked, is_unlocked
<1>2. Good(world, identity, kicked) /\ world \in Worlds /\ HeldBy(world.device, world.ks.db)
  BY <1>1, Zenon DEF IInv, Good, Steady, Held, Live, Cur
<1>3. SameTables(world, world) /\ SameSession(world, world)
  BY Zenon DEF SameTables, SameSession
<1>4. world \in Session(world, identity, kicked)
  BY <1>1, <1>2, <1>3, Zenon DEF Session
<1>5. Fresh(world.ks.db) /\ Used(world, killed)
  BY Zenon DEF IInv, Steady, Unlocked, is_unlocked, Fresh, Db
<1>6. now \in Nat /\ Counted(count) /\ count.requests \in Nat
  BY DEF IInv, Types, Counted
<1> QED BY <1>2, <1>4, <1>5, <1>6, Zenon

(* The worlds of a session are fit.                                        *)
LEMMA SessionFit ==
  ASSUME IInv, Unlocked, NEW n \in Nat, n >= count.requests
  PROVE  \A v \in Session(world, identity, kicked) : Fit(v, n)
<1>1. /\ world \in Worlds /\ count.requests \in Nat BY InSession, Zenon
<1>2. FramesOk(world, killed) /\ RowsOk(world, count.requests) BY Zenon DEF IInv
<1>3. SameTables(world, world) BY Zenon DEF SameTables
<1>4. Session(world, identity, kicked) \subseteq Tabled(world, identity, kicked)
  BY <1>3, SessionTabled, Zenon
<1>5. \A v \in Tabled(world, identity, kicked) : Fit(v, n)
  BY <1>1, <1>2, TabledFit, SMT
<1> QED BY <1>4, <1>5, Zenon

(* A handler of the session that changes no table and no ratchet.          *)
LEMMA SessionStep ==
  ASSUME IInv, Unlocked, Counted(count'), count'.requests >= count.requests,
         NEW p, Path(p, Session(world, identity, kicked)), Follows(Last(p), world),
         Fresh(Last(p).ks.db), Handler(p)
  PROVE  IInv'
<1> DEFINE v == Last(p)
           S == Session(world, identity, kicked)
<1>1. count'.requests \in Nat /\ count.requests \in Nat BY InSession, Zenon DEF Counted
<1>2. \A u \in S : Fit(u, count'.requests) BY <1>1, SessionFit, SMT
<1>3. CASE DiesIn(p) BY <1>2, <1>3, DiesStep, Zenon
<1>4. CASE Runs(p)
  <2>1. /\ Passed(v) /\ sending' = sending /\ kicked' = kicked
    BY <1>4, Zenon DEF Runs, Completes, Passed, history
  <2>2. v \in S BY EndsIn, Zenon
  <2>3. Follows(v, world) /\ Fresh(v.ks.db) BY Zenon
  <2> HIDE DEF v, S
  <2>4. Fit(v, count'.requests) BY <1>2, <2>2, Zenon
  <2>5. v.ks.db # None /\ SameSession(v, world) /\ SameTables(v, world)
        /\ v.ks.db.ratchet = world.ks.db.ratchet /\ HeldBy(v.device, v.ks.db)
    BY <2>2, Zenon DEF S, Session
  <2>6. Held(v) BY <2>5, Zenon DEF Held, Cur
  <2>7. Used(v, killed)
    <3>1. world.ks.db # None BY Zenon DEF Unlocked, is_unlocked
    <3> QED BY <2>5, <3>1, InSession, Zenon DEF Used, Cur, Live, SameTables
  <2>8. Solid(v, world) BY <2>3, Zenon DEF Follows, Wrote, Solid
  <2>9. Keeps(v, world) BY <2>5, Zenon DEF Keeps, SameTables, get_contact
  <2>10. SendsOk'
    BY <1>1, <2>1, <2>5, <2>9, SendsKept, SMT DEF Passed
  <2>11. Types BY Zenon DEF IInv
  <2>12. sending' \subseteq Sends /\ kicked' \in [Groups -> Nat]
    BY <2>1, <2>11, Zenon DEF Types
  <2>13. Good(v, identity, kicked') /\ FramesOk(v, killed) /\ RowsOk(v, count'.requests)
    BY <2>1, <2>4, Zenon DEF Fit
  <2> QED BY <2>1, <2>3, <2>5, <2>6, <2>7, <2>8, <2>10, <2>12, <2>13, PassedStep, Zenon
<1> QED BY <1>3, <1>4, Zenon DEF Handler

(* So are worlds with the tables of the present one.                       *)
LEMMA TablesFit ==
  ASSUME IInv, Counted(count'), count'.requests >= count.requests
  PROVE  \A v \in Tabled(world, identity, kicked) : Fit(v, count'.requests)
<1>1. world \in Worlds /\ FramesOk(world, killed) /\ RowsOk(world, count.requests)
  BY Zenon DEF IInv, Good
<1>2. count.requests \in Nat /\ count'.requests \in Nat BY Zenon DEF IInv, Types, Counted
<1> QED BY <1>1, <1>2, TabledFit, SMT

(* What the invariant says.                                                *)
LEMMA GivesTypeOK == IInv => TypeOK
<1> SUFFICES ASSUME IInv PROVE TypeOK BY Zenon
<1>1. Types /\ Steady /\ SendsOk /\ world \in Worlds
  BY Zenon DEF IInv, Good
<1>2. /\ world.ks.db # None => Stocks(world.ks.db)
      /\ world.ks.file.state = "whole" => Stocks(world.ks.file.content)
  BY Zenon DEF IInv, Good, DbOk
<1>3. \A m \in world.messages : m.no \notin world.deleted BY Zenon DEF IInv, RowsOk
<1>4. (sending # {} \/ is_unlocked(world.ks)) => up
  BY <1>1, Zenon DEF Steady, SendsOk, Unlocked
<1> QED BY <1>1, <1>2, <1>3, <1>4, Zenon DEF TypeOK, Types, Steady

LEMMA GivesKeystoreOpens == IInv => KeystoreOpens
<1> SUFFICES ASSUME IInv, ~cut, ~raced, world.ks.file.state # "absent"
             PROVE  Decrypts(world.ks, <<passphrase, world.ks.salt>>)
  BY Zenon DEF KeystoreOpens
<1>1. world.ks.file.state # "torn" /\ world.ks.file \in Files
  BY Zenon DEF IInv, Opens, Good, Worlds, Keystores
<1>2. world.ks.file.state = "whole" BY <1>1, SMT DEF Files, NoFile, Torn
<1>3. world.ks.file.key = <<passphrase, world.ks.salt>> BY <1>2, Zenon DEF IInv, Opens
<1> QED BY <1>2, <1>3, Zenon DEF Decrypts

LEMMA GivesIdentityKept == IInv => IdentityKept
BY Zenon DEF IInv, IdentityKept, Good, DbOk, is_unlocked, Db

LEMMA GivesNoKeyReuse == IInv => NoKeyReuse
BY Zenon DEF IInv, NoKeyReuse, FramesOk

LEMMA GivesDeviceHoldsRecordedKey == IInv => DeviceHoldsRecordedKey
BY Zenon DEF IInv, DeviceHoldsRecordedKey, Steady, Held, HeldBy, Live, Cur, is_unlocked, Db

LEMMA GivesCertFresh == IInv => CertFresh
BY Zenon DEF IInv, CertFresh, FramesOk

LEMMA GivesRowBeforeFrame == IInv => RowBeforeFrame
BY Zenon DEF IInv, RowBeforeFrame, FramesOk, HasRow

LEMMA GivesKickRotates == IInv => KickRotates
BY Zenon DEF IInv, KickRotates, FramesOk

LEMMA GivesConversationKeysSaved == IInv => ConversationKeysSaved
BY Zenon DEF IInv, ConversationKeysSaved, Good, DbOk, KeysIn, get_sender_key

(* The first state: no file, no rows, no frame.                            *)
LEMMA InitEstablishes ==
  ASSUME Init
  PROVE  IInv
<1> DEFINE k == NewKeystore
           d == [t \in Devices |-> 0]
           g == [i \in Groups |-> 0]
<1>1. /\ up = FALSE /\ sending = {} /\ changing = None /\ now = 0
      /\ passphrase = None /\ identity = 0 /\ kicked = g
      /\ killed = 0 /\ count = [starts |-> 0, requests |-> 0, unanswered |-> 0]
  BY Zenon DEF Init
<1>2. world = [ks |-> k, contacts |-> NoRows(Contacts), conversations |-> {},
               groups |-> NoRows(Groups), messages |-> {}, deleted |-> {}, sent |-> {},
               device |-> d, keys |-> 0]
  BY Zenon DEF Init
<1>3. 0 \in Nat /\ NoSalt = -1 /\ 0 <= 0 /\ 0 \in 0 .. MaxTime
  BY ClientAssumption, SMT DEF NoSalt
<1>4. /\ d \in [Devices -> Nat] /\ g \in [Groups -> Nat] /\ \A i \in Groups : g[i] = 0
      /\ \A t \in Devices : d[t] = 0
  BY <1>3, Zenon
<1>5. /\ NoRows(Contacts) \in [Contacts -> {"none", "pending", "active", "blocked"}]
      /\ NoRows(Groups) \in [Groups -> {"none", "group", "server"}]
  BY Zenon DEF NoRows
<1>6. /\ k.db = None /\ k.master_key = None /\ k.file = NoFile
      /\ k.salt = NoSalt
  BY SMT DEF NewKeystore
<1>7. NoFile.state = "absent" BY SMT DEF NoFile
<1>8. k \in Keystores BY <1>3, SMT DEF NewKeystore, Keystores, Files
<1> HIDE DEF k, d, g
<1>9. /\ world.ks = k /\ world.conversations = {} /\ world.messages = {}
      /\ world.deleted = {} /\ world.sent = {} /\ world.device = d
  BY <1>2, SMT
<1>10. world \in Worlds BY <1>2, <1>3, <1>4, <1>5, <1>8, Zenon DEF Worlds
<1>11. count.requests = 0 /\ Counted(count) BY <1>1, SMT DEF Counted
<1>12. Types BY <1>1, <1>3, <1>4, <1>11, Zenon DEF Types
<1>13. Good(world, identity, kicked)
  <2>1. world.ks.file.state = "absent" /\ world.ks.file.state # "whole" /\ world.ks.db = None
    BY <1>6, <1>7, <1>9, SMT
  <2> QED BY <1>1, <1>4, <1>9, <1>10, <2>1, Zenon DEF Good
<1>14. FramesOk(world, killed) BY <1>9, Zenon DEF FramesOk
<1>15. RowsOk(world, count.requests) BY <1>9, Zenon DEF RowsOk
<1>16. Steady
  <2>1. ~Live(world.ks)
    <3>1. world.ks.file.state # "whole" BY <1>6, <1>7, <1>9, SMT
    <3> QED BY <1>6, <1>9, <3>1, Zenon DEF Live
  <2> QED BY <1>1, <1>6, <1>9, <2>1, Zenon DEF Steady, Held, Used, is_unlocked
<1>17. SendsOk BY <1>1, Zenon DEF SendsOk
<1>18. Opens
  <2>1. world.ks.file.state # "torn" /\ world.ks.file.state # "whole"
    BY <1>6, <1>7, <1>9, SMT
  <2> QED BY <1>1, <1>6, <1>9, <2>1, Zenon DEF Opens, is_unlocked
<1> QED BY <1>12, <1>13, <1>14, <1>15, <1>16, <1>17, <1>18, Zenon DEF IInv
=============================================================================
