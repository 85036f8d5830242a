--------------------------- MODULE ClientSessions ---------------------------
(***************************************************************************)
(* Start, unlock, lock, stop, the renewal of Key C, devices and the change *)
(* of the passphrase preserve the invariant of Client.                     *)
(*                                                                         *)
(* Session(w0, id, ki) are the worlds between the opening of a keystore and *)
(* its closing; each part of an unlock stays among them, so that the parts *)
(* compose.                                                                *)
(***************************************************************************)
EXTENDS ClientInvariant

(* Time passes in a session only while no cert is due for renewal, so that *)
(* none expires.                                                           *)
LEMMA TickStep ==
  ASSUME IInv, Tick
  PROVE  IInv'
<1>1. /\ now < MaxTime /\ now' = now + 1 /\ up' = up /\ world' = world /\ sending' = sending
      /\ changing' = changing /\ passphrase' = passphrase /\ identity' = identity
      /\ kicked' = kicked /\ killed' = killed /\ cut' = cut /\ raced' = raced
      /\ count' = count
  BY Zenon DEF Tick, history
<1>2. now' \in 0 .. MaxTime BY <1>1, ClientAssumption DEF IInv, Types
<1>3. Types' BY <1>1, <1>2, Zenon DEF IInv, Types
<1>4. ASSUME is_unlocked(world.ks)
      PROVE  \A kc \in world.ks.db.key_c : kc.expires_at > now'
  <2>1. Unlocked BY <1>4, Zenon DEF IInv, Steady, Unlocked
  <2>2. world.ks.db # None /\ world \in Worlds BY <1>4, Zenon DEF is_unlocked, IInv, Good
  <2>3. \A kc \in world.ks.db.key_c : kc.type \in Devices /\ kc.expires_at \in Nat
    BY <2>2, Zenon DEF Worlds, Keystores, Databases
  <2>4. \A t \in Devices : Expiring(world.ks.db, t) = {} BY <2>1, Zenon DEF Tick, Db
  <2>5. \A kc \in world.ks.db.key_c : ~(kc.expires_at <= now + Threshold)
    BY <2>3, <2>4, Zenon DEF Expiring, Unrevoked
  <2>6. now \in Nat BY DEF IInv, Types
  <2> QED BY <1>1, <2>3, <2>5, <2>6, ClientAssumption
<1>5. Steady' BY <1>1, <1>4, Zenon DEF IInv, Steady, Db
<1>6. SendsOk' BY <1>1, Zenon DEF IInv, SendsOk, Unlocked
<1>7. Opens' BY <1>1, Zenon DEF IInv, Opens
<1>8. Good(world, identity, kicked)' /\ FramesOk(world, killed)'
      /\ RowsOk(world, count.requests)'
  BY <1>1, Zenon DEF IInv
<1> QED BY <1>3, <1>5, <1>6, <1>7, <1>8, Zenon DEF IInv

(* The daemon starts, without a session.                                   *)
LEMMA StartStep ==
  ASSUME IInv, start
  PROVE  IInv'
<1>1. Counted(count') /\ count'.requests = count.requests
  BY Spent, Zenon DEF start, IInv, Types
<1>2. /\ ~up /\ up' /\ world' = world /\ sending' = sending /\ changing' = changing
      /\ now' = now /\ passphrase' = passphrase /\ identity' = identity
      /\ kicked' = kicked /\ killed' = killed /\ cut' = cut /\ raced' = raced
  BY Zenon DEF start, history
<1>3. sending = {} BY <1>2, Zenon DEF IInv, SendsOk, Unlocked
<1>4. Types' BY <1>1, <1>2, Zenon DEF IInv, Types
<1>5. Steady' BY <1>2, Zenon DEF IInv, Steady, Db
<1>6. SendsOk' BY <1>2, <1>3, Zenon DEF SendsOk
<1>7. Opens' BY <1>2, Zenon DEF IInv, Opens
<1>8. Good(world, identity, kicked)' /\ FramesOk(world, killed)'
      /\ RowsOk(world, count.requests)'
  BY <1>1, <1>2, Zenon DEF IInv
<1> QED BY <1>4, <1>5, <1>6, <1>7, <1>8, Zenon DEF IInv

(* A new display name is a save.                                           *)
LEMMA SetDisplayNameStep ==
  ASSUME IInv, set_display_name
  PROVE  IInv'
<1> DEFINE p == Saved(world)
<1>1. Unlocked /\ Serve /\ Handler(p) BY Zenon DEF set_display_name
<1>2. Counted(count') /\ count'.requests >= count.requests
  BY <1>1, Spent, InSession
<1>3. p = Saved(world) BY Zenon
<1>4. world \in Session(world, identity, kicked) /\ Fresh(world.ks.db)
  BY <1>1, InSession, Zenon
<1> HIDE DEF p
<1>5. Path(p, Session(world, identity, kicked)) /\ Follows(Last(p), world)
  BY <1>3, <1>4, SavedPath, Zenon
<1>6. Last(p).ks.db = world.ks.db BY <1>3, <1>4, SavedPath, SMT
<1> QED BY <1>1, <1>2, <1>4, <1>5, <1>6, SessionStep, Zenon

(* A kill between two handlers.                                            *)
LEMMA KillStep ==
  ASSUME IInv, Kill
  PROVE  IInv'
<1>1. count' = count /\ Counted(count') BY Zenon DEF Kill, IInv, Types
<1>2. Fit(world, count'.requests) BY <1>1, Zenon DEF Fit, IInv
<1>3. Killed(world, FALSE) BY Zenon DEF Kill
<1>4. KilledAt(world) /\ (cut' \/ ~cut)
  BY <1>3, Zenon DEF Killed, KilledAt, Dead, history
<1> QED BY <1>1, <1>2, <1>4, KilledStep, Zenon

(* The session's master key.                                               *)
SetKey(w, key) == [w EXCEPT !.ks.master_key = key]

(* It changes nothing else.                                                *)
LEMMA WithKey ==
  ASSUME NEW w \in Worlds, NEW key \in MasterKeys, NEW v, v = SetKey(w, key)
  PROVE  /\ v \in Worlds /\ SameTables(v, w) /\ SameDevices(v, w) /\ SameDb(v, w)
         /\ v.ks.master_key = key /\ v.ks.salt = w.ks.salt
<1> DEFINE k == [w.ks EXCEPT !.master_key = key]
<1>1. w.ks \in Keystores BY Zenon DEF Worlds
<1>2. k \in Keystores /\ k.db = w.ks.db /\ k.file = w.ks.file
      /\ k.master_key = key /\ k.salt = w.ks.salt
  BY <1>1, Zenon DEF Keystores
<1>3. v = [w EXCEPT !.ks = k] BY Zenon DEF SetKey
<1> HIDE DEF k
<1>4. v \in Worlds /\ v.ks = k /\ SameTables(v, w) /\ SameDevices(v, w)
  BY <1>2, <1>3, WithKs, Zenon
<1> QED BY <1>2, <1>4, Zenon DEF SameDb

(* The second half of a change of the passphrase: the session takes the    *)
(* key that the file was written with.                                     *)
LEMMA InstallKeyStep ==
  ASSUME IInv, InstallKey
  PROVE  IInv'
<1>1. /\ changing # None /\ changing' = None /\ up' = up /\ sending' = sending
      /\ now' = now /\ passphrase' = passphrase /\ identity' = identity
      /\ kicked' = kicked /\ killed' = killed /\ cut' = cut /\ raced' = raced
      /\ count' = count
      /\ world' = IF Unlocked THEN SetKey(world, changing) ELSE world
  BY Zenon DEF InstallKey, history, SetKey
<1>2. Types' BY <1>1, Zenon DEF IInv, Types
<1>3. changing \in MasterKeys BY <1>1, Zenon DEF IInv, Types
<1>4. CASE Unlocked
  <2> DEFINE v == SetKey(world, changing)
  <2>1. world \in Worlds BY Zenon DEF IInv, Good
  <2>2. world' = v BY <1>1, <1>4, Zenon
  <2>3. /\ v \in Worlds /\ SameTables(v, world) /\ SameDevices(v, world)
        /\ SameDb(v, world) /\ v.ks.master_key = changing /\ v.ks.salt = world.ks.salt
    BY <1>3, <2>1, WithKey, SMT
  <2> HIDE DEF v
  <2>4. world.ks.db # None BY <1>4, Zenon DEF Unlocked, is_unlocked
  <2>5. /\ DbOk(v.ks.db, v, identity, kicked)
        /\ v.ks.file.state = "whole" => DbOk(v.ks.file.content, v, identity, kicked)
        /\ v.ks.file.state # "absent"
    BY <2>3, <2>4, DbOkSame, Zenon DEF IInv, Good, SameDb
  <2>6. Good(v, identity, kicked) BY <2>3, <2>5, Zenon DEF Good
  <2>7. FramesOk(v, killed) BY <2>3, Zenon DEF IInv, FramesOk, SameTables, HasRow
  <2>8. RowsOk(v, count.requests) BY <2>3, Zenon DEF IInv, RowsOk, SameTables
  <2>9. Held(v) /\ Used(v, killed)
    BY <2>3, Zenon DEF IInv, Steady, Held, Used, Live, Cur, SameTables, SameDevices, SameDb
  <2>10. v.ks.master_key # None BY <1>1, <2>3, Zenon
  <2>11. Steady'
    BY <1>1, <2>2, <2>3, <2>4, <2>9, <2>10, Zenon
       DEF IInv, Steady, Db, is_unlocked, SameDb
  <2>12. Keeps(v, world) BY <2>3, Zenon DEF Keeps, SameTables, get_contact
  <2>13. count.requests \in Nat BY Zenon DEF IInv, Types, Counted
  <2>14. SendsOk'
    <3>1. up' /\ v.ks.db # None BY <1>1, <1>4, <2>3, <2>4, Zenon DEF Unlocked, SameDb
    <3>2. count'.requests \in Nat /\ count'.requests >= count.requests BY <1>1, <2>13
    <3> QED BY <1>1, <2>2, <2>12, <2>13, <3>1, <3>2, SendsKept, Zenon
  <2>15. Opens'
    BY <1>1, <2>2, <2>3, Zenon DEF IInv, Opens, SameDb
  <2> QED
    BY <1>1, <1>2, <2>2, <2>6, <2>7, <2>8, <2>11, <2>14, <2>15, Zenon DEF IInv
<1>5. CASE ~Unlocked
  <2>1. world' = world BY <1>1, <1>5, Zenon
  <2>2. ~is_unlocked(world.ks) BY <1>5, Zenon DEF IInv, Steady, Unlocked
  <2>3. Steady' BY <1>1, <2>1, <2>2, Zenon DEF IInv, Steady, Db
  <2>4. SendsOk' BY <1>1, <2>1, Zenon DEF IInv, SendsOk, Unlocked
  <2>5. Opens' BY <1>1, <2>1, <2>2, Zenon DEF IInv, Opens
  <2>6. Good(world, identity, kicked)' /\ FramesOk(world, killed)'
        /\ RowsOk(world, count.requests)'
    BY <1>1, <2>1, Zenon DEF IInv
  <2> QED BY <1>2, <2>3, <2>4, <2>5, <2>6, Zenon DEF IInv
<1> QED BY <1>4, <1>5, Zenon

(* What the keystore does step by step, the world does.                    *)
LEMMA KeystorePath ==
  ASSUME NEW w, NEW S, NEW T, NEW path, Path(path, T),
         \A e \in T : SetKs(w, e) \in S, NEW p, p = InKeystore(w, path)
  PROVE  Path(p, S) /\ Last(p) = SetKs(w, Last(path)) /\ Last(path) \in T
<1>1. Len(path) \in Nat /\ Len(path) > 0 /\ DOMAIN path = 1 .. Len(path)
      /\ \A i \in 1 .. Len(path) : path[i] \in T
  BY EmptySeq, LenProperties, ElementOfSeq DEF Path
<1>2. p = [i \in 1 .. Len(path) |-> SetKs(w, path[i])]
  BY <1>1, Zenon DEF InKeystore, SetKs
<1>3. \A i \in 1 .. Len(path) : SetKs(w, path[i]) \in S BY <1>1, Zenon
<1>4. p \in Seq(S) /\ Len(p) = Len(path) /\ p[Len(path)] = SetKs(w, path[Len(path)])
  BY <1>1, <1>2, <1>3
<1> QED BY <1>1, <1>4, EmptySeq DEF Last, Path

(* A salt and a derived key leave the database and the file alone.         *)
Salted(k) ==
  {e \in Keystores : e.db = k.db /\ e.file = k.file /\ e.master_key = k.master_key}

(* derive_key keeps a salt that is on disk and otherwise writes one.       *)
LEMMA DeriveKey ==
  ASSUME NEW k \in Keystores, NEW p, p = derive_key(k)
  PROVE  /\ Path(p, Salted(k)) /\ Last(p) \in Salted(k)
         /\ Last(p).salt \in Nat /\ (k.salt # NoSalt => Last(p).salt = k.salt)
<1>1. CASE k.salt # NoSalt
  <2>1. p = <<k>> BY <1>1, Zenon DEF derive_key
  <2>2. k \in Salted(k) BY Zenon DEF Salted
  <2>3. k.salt \in Nat BY <1>1, Zenon DEF Keystores
  <2> QED BY <1>1, <2>1, <2>2, <2>3, Singleton, Zenon
<1>2. CASE k.salt = NoSalt
  <2> DEFINE a == [k EXCEPT !.salt = ZeroSalt]
             b == [k EXCEPT !.salt = k.salts + 1, !.salts = @ + 1]
  <2>1. p = <<a, b>> BY <1>2, Zenon DEF derive_key
  <2>2. a \in Salted(k) BY Zenon DEF Salted, Keystores, ZeroSalt
  <2>3. b \in Salted(k) /\ b.salt \in Nat
    <3> DEFINE n == k.salts + 1
    <3>1. n \in Nat BY DEF Keystores
    <3>2. b = [k EXCEPT !.salt = n, !.salts = n] BY Zenon
    <3> HIDE DEF n, b
    <3>3. b \in Keystores /\ b.db = k.db /\ b.file = k.file /\ b.salt = n
          /\ b.master_key = k.master_key
      BY <3>1, <3>2, Zenon DEF Keystores
    <3> QED BY <3>1, <3>3, Zenon DEF Salted
  <2> HIDE DEF a, b
  <2> QED BY <1>2, <2>1, <2>2, <2>3, Pair, SMT
<1> QED BY <1>1, <1>2, Zenon

(* A change of the passphrase.                                             *)
Whole(key, x) == [state |-> "whole", key |-> key, content |-> x]

(* The keystores on the way: the old file, a torn one or a whole one.      *)
Rekeyed(k) ==
  {e \in Keystores :
     /\ e.db = k.db /\ e.master_key = k.master_key
     /\ \/ e.file = k.file \/ e.file = Torn
        \/ \E key \in MasterKeys : e.file = Whole(key, k.db)}

(* change_passphrase writes the session's database under the new key.      *)
LEMMA ChangePassphrase ==
  ASSUME NEW k \in Keystores, k.db \in Databases, NEW new \in Passphrases,
         NEW q, q = change_passphrase(k, new), NEW e, e = Last(q)
  PROVE  /\ Path(q, Rekeyed(k)) /\ e \in Rekeyed(k)
         /\ e.file = Whole(<<new, e.salt>>, k.db) /\ <<new, e.salt>> \in MasterKeys
<1> DEFINE R == Rekeyed(k)
           b == [k EXCEPT !.salt = NoSalt]
           d == derive_key(b)
           l == Last(d)
           key == <<new, l.salt>>
           t == [l EXCEPT !.file = Torn]
           v == [l EXCEPT !.file = Whole(key, l.db)]
           f == <<t, v>>
           a == <<b>>
           c == Cat(a, d)
<1>1. q = Cat(c, f) BY Zenon DEF change_passphrase, write_to_disk, Whole, Cat
<1>2. /\ b \in Keystores /\ b.db = k.db /\ b.file = k.file /\ b.master_key = k.master_key
  BY Zenon DEF Keystores
<1>3. d = derive_key(b) /\ l = Last(d) BY Zenon
<1> HIDE DEF b, d
<1>4. Path(d, Salted(b)) /\ l \in Salted(b) /\ l.salt \in Nat
  BY <1>2, <1>3, DeriveKey, Zenon
<1> HIDE DEF l
<1>5. Salted(b) \subseteq R /\ b \in R BY <1>2, Zenon DEF Salted, Rekeyed
<1>6. l \in Keystores /\ l.db = k.db /\ l.master_key = k.master_key
  BY <1>4, <1>5, Zenon DEF Rekeyed
<1>7. key \in MasterKeys /\ key = <<new, l.salt>> BY <1>4, Zenon DEF MasterKeys
<1> HIDE DEF key
<1>8. Whole(key, l.db) \in Files /\ Torn \in Files
  BY <1>6, <1>7, Zenon DEF Files, Whole
<1>9. t \in R BY <1>6, <1>8, Zenon DEF Keystores, Rekeyed
<1>10. /\ v \in Keystores /\ v.db = l.db /\ v.master_key = l.master_key
       /\ v.file = Whole(key, l.db) /\ v.salt = l.salt
  BY <1>6, <1>8, Zenon DEF Keystores
<1>11. v \in R BY <1>6, <1>7, <1>10, Zenon DEF Rekeyed
<1> HIDE DEF t, v, R
<1>12. Path(f, R) /\ Last(f) = v BY <1>9, <1>11, Pair, SMT
<1>13. Path(a, R) BY <1>5, Singleton, Zenon
<1>14. Path(d, R) BY <1>4, <1>5, Wider, Zenon
<1> HIDE DEF a, f
<1>15. Path(c, R) BY <1>13, <1>14, Extended, Zenon
<1> HIDE DEF c
<1>16. Path(q, R) /\ Last(q) = Last(f) BY <1>1, <1>12, <1>15, Extended, SMT
<1>17. e = v BY <1>12, <1>16, Zenon
<1> QED BY <1>6, <1>7, <1>10, <1>11, <1>16, <1>17, Zenon DEF R

(* Every world on the way is fit: only salt and file change.               *)
LEMMA RekeyedGood ==
  ASSUME NEW id, NEW ki, NEW w \in Worlds, Good(w, id, ki), w.ks.db # None,
         NEW e \in Rekeyed(w.ks), NEW v, v = SetKs(w, e)
  PROVE  v \in Tabled(w, id, ki) /\ v.ks = e /\ SameTables(v, w) /\ SameDevices(v, w)
<1>1. e \in Keystores /\ e.db = w.ks.db BY Zenon DEF Rekeyed
<1>2. v \in Worlds /\ v.ks = e /\ SameTables(v, w) /\ SameDevices(v, w)
  BY <1>1, WithKs, Zenon DEF SetKs
<1>3. DbOk(e.db, v, id, ki) BY <1>1, <1>2, DbOkSame, Zenon DEF Good
<1>4. e.file.state # "absent"
      /\ (e.file.state = "whole" => DbOk(e.file.content, v, id, ki))
  <2>1. CASE e.file = w.ks.file BY <1>2, <2>1, DbOkSame, Zenon DEF Good
  <2>2. CASE e.file = Torn BY <2>2, SMT DEF Torn
  <2>3. CASE \E key \in MasterKeys : e.file = Whole(key, w.ks.db)
    <3>1. PICK key \in MasterKeys : e.file = Whole(key, w.ks.db) BY <2>3, Zenon
    <3>2. e.file.state = "whole" /\ e.file.content = w.ks.db BY <3>1, SMT DEF Whole
    <3>3. e.file.state # "absent" BY <3>2, Zenon
    <3> QED BY <1>1, <1>3, <3>2, <3>3, Zenon
  <2> QED BY <2>1, <2>2, <2>3, Zenon DEF Rekeyed
<1>5. Good(v, id, ki) BY <1>2, <1>3, <1>4, Zenon DEF Good
<1> QED BY <1>2, <1>5, Zenon DEF Tabled

(* A change of the passphrase preserves the invariant.                     *)
LEMMA ChangePassphraseStep ==
  ASSUME IInv, NEW old, NEW new \in Passphrases, session_change_passphrase(old, new)
  PROVE  IInv'
<1> DEFINE T == Tabled(world, identity, kicked)
           k == world.ks
           q == change_passphrase(k, new)
           e == Last(q)
           p == InKeystore(world, q)
           v == SetKs(world, e)
           R == Rekeyed(k)
<1>1. /\ Unlocked /\ changing = None /\ Serve
      /\ \/ /\ Completes(p) /\ changing' = Last(p).ks.file.key
            /\ passphrase' = new
            /\ UNCHANGED <<up, sending, identity, kicked>>
         \/ DiesIn(p)
  BY Zenon DEF session_change_passphrase
<1>2. /\ world \in Worlds /\ Counted(count) /\ count.requests \in Nat
      /\ Used(world, killed) /\ Fresh(k.db)
  BY <1>1, InSession, Zenon
<1>3. Counted(count') /\ count'.requests >= count.requests /\ count'.requests \in Nat
  BY <1>1, <1>2, Spent DEF Counted
<1>4. /\ k.db # None /\ k.master_key # None /\ Good(world, identity, kicked) /\ Held(world)
  BY <1>1, Zenon DEF IInv, Steady, Unlocked, is_unlocked
<1>5. k \in Keystores /\ k.db \in Databases BY <1>2, <1>4, Zenon DEF Worlds, Keystores
<1>6. q = change_passphrase(k, new) /\ e = Last(q) /\ p = InKeystore(world, q)
      /\ v = SetKs(world, e)
  BY Zenon
<1> HIDE DEF q, e, p, v
<1>7. Path(q, R) /\ e \in R /\ <<new, e.salt>> \in MasterKeys
  BY <1>5, <1>6, ChangePassphrase, Zenon
<1>8. e.file = Whole(<<new, e.salt>>, k.db) BY <1>5, <1>6, ChangePassphrase, SMT
<1>9. e.db = k.db /\ e.master_key = k.master_key BY <1>7, Zenon DEF Rekeyed
<1> HIDE DEF R
<1>10. \A d \in R : SetKs(world, d) \in T BY <1>2, <1>4, RekeyedGood, Zenon DEF R, k
<1>11. Path(p, T) /\ Last(p) = v BY <1>6, <1>7, <1>10, KeystorePath, SMT
<1>12. v \in T /\ v.ks = e /\ SameTables(v, world) /\ SameDevices(v, world)
  BY <1>2, <1>4, <1>6, <1>7, RekeyedGood, SMT DEF R, k
<1>13. \A u \in T : Fit(u, count'.requests) BY <1>3, TablesFit, Zenon
<1>14. CASE DiesIn(p) BY <1>3, <1>11, <1>13, <1>14, DiesStep, Zenon
<1>15. CASE /\ Completes(p) /\ changing' = Last(p).ks.file.key
            /\ passphrase' = new
            /\ UNCHANGED <<up, sending, identity, kicked>>
  <2> DEFINE key == <<new, e.salt>>
  <2>1. e.file.state = "whole" /\ e.file.key = key /\ e.file.content = k.db
    BY <1>8, SMT DEF Whole
  <2>2. /\ world' = v /\ sending' = sending /\ changing' = key /\ up' = up /\ up
        /\ now' = now /\ killed' = killed /\ cut' = cut /\ kicked' = kicked
        /\ identity' = identity /\ passphrase' = new /\ (raced => raced')
    BY <1>1, <1>11, <1>12, <1>15, <2>1, Zenon DEF Completes, Unlocked
  <2>3. key \in MasterKeys /\ key # None BY <1>7, NoneApart, Zenon
  <2> HIDE DEF key
  <2>4. Types' BY <1>3, <2>2, <2>3, Zenon DEF IInv, Types
  <2>5. Fit(v, count'.requests) BY <1>12, <1>13, Zenon
  <2>6. Held(v) /\ Used(v, killed)
    BY <1>2, <1>4, <1>9, <1>12, Zenon DEF Held, Used, Live, Cur, SameTables, SameDevices, k
  <2>7. identity # 0 BY <1>4, Zenon DEF IInv, Steady, is_unlocked, k
  <2>8. Steady'
    <3>1. e.file.state # "absent" BY <2>1, Zenon
    <3> QED BY <1>2, <1>4, <1>9, <1>12, <2>2, <2>6, <2>7, <3>1, Zenon
            DEF Steady, is_unlocked, Db, Fresh
  <2>9. Keeps(v, world) BY <1>12, Zenon DEF Keeps, SameTables, get_contact
  <2>10. v.ks.db # None BY <1>4, <1>9, <1>12, Zenon
  <2>11. SendsOk' BY <1>2, <1>3, <2>2, <2>9, <2>10, SendsKept, Zenon
  <2>12. Opens'
    <3>1. v.ks.file.state # "torn" BY <1>12, <2>1, Zenon
    <3>2. /\ v.ks.file.key = <<new, v.ks.salt>> /\ key = <<new, v.ks.salt>>
      BY <1>12, <2>1, Zenon DEF key
    <3> QED BY <2>2, <2>3, <3>1, <3>2, Zenon DEF Opens
  <2>13. (Good(world, identity, kicked) /\ FramesOk(world, killed)
          /\ RowsOk(world, count.requests))'
    BY <2>2, <2>5, Zenon DEF Fit
  <2> QED BY <2>4, <2>8, <2>11, <2>12, <2>13, Zenon DEF IInv
<1> QED BY <1>1, <1>14, <1>15, Zenon

(* A path of two steps.                                                    *)
LEMMA TwoSteps ==
  ASSUME NEW S, NEW x \in S, NEW y \in S, NEW p, p = Cat(<<x>>, <<y>>)
  PROVE  Path(p, S) /\ Last(p) = y
<1> DEFINE a == <<x>>
           b == <<y>>
<1>1. Path(a, S) /\ Path(b, S) /\ Last(b) = y BY Singleton, Zenon
<1>2. p = Cat(a, b) BY Zenon
<1> HIDE DEF a, b
<1> QED BY <1>1, <1>2, Extended, SMT

(* The end of a session.                                                   *)
Closed(w) == SetKs(w, Ended(w.ks))

(* It keeps file, tables and devices.                                      *)
LEMMA ClosedWorld ==
  ASSUME NEW w \in Worlds, NEW v, v = Closed(w)
  PROVE  /\ v \in Worlds /\ SameTables(v, w) /\ SameDevices(v, w)
         /\ v.ks.db = None /\ v.ks.master_key = None
         /\ v.ks.file = w.ks.file /\ v.ks.salt = w.ks.salt
<1> DEFINE k == Ended(w.ks)
<1>1. w.ks \in Keystores BY Zenon DEF Worlds
<1>2. k \in Keystores /\ k.db = None /\ k.master_key = None
      /\ k.file = w.ks.file /\ k.salt = w.ks.salt
  BY <1>1, Zenon DEF Keystores, Ended
<1>3. v = [w EXCEPT !.ks = k] BY Zenon DEF Closed, SetKs
<1> HIDE DEF k
<1>4. v \in Worlds /\ v.ks = k /\ SameTables(v, w) /\ SameDevices(v, w)
  BY <1>2, <1>3, WithKs, Zenon
<1> QED BY <1>2, <1>4, Zenon

(* What the end of a session leaves.                                       *)
Ends(c) ==
  /\ c \in Tabled(world, identity, kicked) /\ c.ks.db = None /\ c.ks.master_key = None
  /\ c.ks.salt = world.ks.salt /\ Held(c) /\ Used(c, killed)
  /\ \/ c.ks.file = world.ks.file
     \/ /\ c.ks.file.state = "whole" /\ c.ks.file.key = world.ks.master_key
        /\ world.ks.db # None

(* The world after it is fit.                                              *)
LEMMA ClosedGood ==
  ASSUME NEW w \in Worlds, Good(w, identity, kicked), SameTables(w, world),
         NEW c, c = Closed(w)
  PROVE  c \in Tabled(world, identity, kicked)
<1>1. /\ c \in Worlds /\ SameTables(c, w)
      /\ c.ks.db = None /\ c.ks.file = w.ks.file
  BY ClosedWorld, Zenon
<1>2. c.ks.file.state = "whole" => DbOk(c.ks.file.content, c, identity, kicked)
  BY <1>1, DbOkSame, Zenon DEF Good
<1>3. Good(c, identity, kicked) BY <1>1, <1>2, Zenon DEF Good, SameTables
<1> QED BY <1>1, <1>3, Zenon DEF Tabled, SameTables

(* Saving first and closing then is an end of the session.                 *)
LEMMA SaveAndClose ==
  ASSUME IInv, Unlocked, NEW p, p = Saved(world), NEW c, c = Closed(Last(p))
  PROVE  /\ Path(Cat(p, <<c>>), Tabled(world, identity, kicked))
         /\ Last(Cat(p, <<c>>)) = c /\ Ends(c)
<1> DEFINE S == Session(world, identity, kicked)
           T == Tabled(world, identity, kicked)
           s == Last(p)
           q == <<c>>
<1>1. world \in S /\ Used(world, killed) /\ world.ks.db # None
  BY InSession, Zenon DEF Unlocked, is_unlocked
<1>2. Path(p, S) /\ s \in S /\ SameSession(s, world)
  BY <1>1, SavedPath, Zenon
<1>3. s.ks.db = world.ks.db /\ s.ks.file = NewFile(world) BY <1>1, SavedPath, SMT
<1>4. c = Closed(s) BY Zenon
<1>5. S \subseteq T
  <2>1. SameTables(world, world) BY Zenon DEF SameTables
  <2> QED BY <2>1, SessionTabled, Zenon
<1> HIDE DEF s, S
<1>6. s \in Worlds /\ Good(s, identity, kicked) /\ SameTables(s, world)
      /\ HeldBy(s.device, s.ks.db) /\ s.ks.db.ratchet = world.ks.db.ratchet
  BY <1>2, Zenon DEF S, Session
<1>7. c \in T BY <1>4, <1>6, ClosedGood, Zenon
<1>8. /\ SameTables(c, s) /\ SameDevices(c, s)
      /\ c.ks.db = None /\ c.ks.master_key = None
      /\ c.ks.file = s.ks.file /\ c.ks.salt = s.ks.salt
  BY <1>4, <1>6, ClosedWorld, SMT
<1>9. c.ks.file.state = "whole" /\ c.ks.file.key = world.ks.master_key
      /\ c.ks.file.content = world.ks.db
  BY <1>3, <1>8 DEF NewFile
<1>10. Held(c) BY <1>3, <1>6, <1>8, <1>9, Zenon DEF Held, Cur, SameDevices
<1>11. Used(c, killed)
  BY <1>1, <1>3, <1>6, <1>8, <1>9, Zenon DEF Used, Cur, Live, SameTables
<1>12. Ends(c)
  BY <1>1, <1>2, <1>7, <1>8, <1>9, <1>10, <1>11, Zenon DEF Ends, SameSession
<1>13. Path(q, T) /\ Last(q) = c BY <1>7, Singleton, SMT
<1>14. Path(p, T) BY <1>2, <1>5, Wider, Zenon
<1> HIDE DEF q, T
<1>15. Path(Cat(p, q), T) /\ Last(Cat(p, q)) = c BY <1>13, <1>14, Extended, SMT
<1> QED BY <1>12, <1>15, Zenon DEF q, T

(* The end of a session preserves the invariant.                           *)
LEMMA EndedStep ==
  ASSUME IInv, up, NEW c, Ends(c), world' = c, sending' = {}, UNCHANGED count,
         changing' = changing, now' = now, killed' = killed, cut' = cut,
         passphrase' = passphrase, identity' = identity, kicked' = kicked,
         raced' = (raced \/ (changing # None /\ c.ks.file # world.ks.file))
  PROVE  IInv'
<1>1. Types' BY Zenon DEF IInv, Types
<1>2. Good(c, identity, kicked) /\ SameTables(c, world) BY Zenon DEF Ends, Tabled
<1>3. FramesOk(c, killed) BY <1>2, Zenon DEF IInv, FramesOk, SameTables, HasRow
<1>4. RowsOk(c, count.requests) BY <1>2, Zenon DEF IInv, RowsOk, SameTables
<1>5. changing # None => c.ks.file.state # "absent" BY Zenon DEF IInv, Steady, Ends
<1>6. Steady' BY <1>5, Zenon DEF Ends, Steady, is_unlocked
<1>7. SendsOk' BY Zenon DEF SendsOk
<1>8. Opens'
  <2> SUFFICES ASSUME ~cut', ~raced' PROVE Opens' BY Zenon DEF Opens
  <2>1. ~cut /\ ~raced /\ (changing = None \/ c.ks.file = world.ks.file) BY Zenon
  <2>2. /\ world.ks.file.state # "torn"
        /\ world.ks.file.state = "whole" => world.ks.file.key = <<passphrase, world.ks.salt>>
        /\ world.ks.db # None /\ changing = None =>
             world.ks.master_key = <<passphrase, world.ks.salt>>
        /\ changing # None => changing = <<passphrase, world.ks.salt>>
    BY <2>1, Zenon DEF IInv, Opens, is_unlocked
  <2>3. /\ c.ks.file.state # "torn"
        /\ c.ks.file.state = "whole" => c.ks.file.key = <<passphrase, c.ks.salt>>
        /\ changing # None => changing = <<passphrase, c.ks.salt>>
    BY <2>1, <2>2, Zenon DEF Ends
  <2>4. c.ks.db = None BY Zenon DEF Ends
  <2> QED BY <2>3, <2>4, Zenon DEF Opens, is_unlocked
<1> QED BY <1>1, <1>2, <1>3, <1>4, <1>6, <1>7, <1>8, Zenon DEF IInv

(* The end of the daemon.                                                  *)
LEMMA StopStep ==
  ASSUME IInv, stop
  PROVE  IInv'
<1> DEFINE p == Saved(world)
           c == Closed(Last(p))
           q == Cat(p, <<c>>)
           T == Tabled(world, identity, kicked)
<1>1. /\ up /\ sending = {} /\ changing = None /\ count' = count
      /\ \/ /\ Completes(q) /\ up' = FALSE
            /\ UNCHANGED <<sending, changing, history>>
         \/ DiesIn(q)
  BY Zenon DEF stop, Cat, Closed, SetKs
<1>2. Path(q, T) /\ Last(q) = c /\ Ends(c)
  <2>1. CASE world.ks.db # None
    <3>1. Unlocked BY <1>1, <2>1, Zenon DEF Unlocked, is_unlocked
    <3> QED BY <3>1, SaveAndClose, SMT
  <2>2. CASE world.ks.db = None
    <3>1. Last(p) = world /\ p = <<world>>
      <4>1. world \in Worlds BY Zenon DEF IInv, Good
      <4>2. SetKs(world, world.ks) = world BY <4>1, Zenon DEF SetKs, Worlds
      <4>3. save(world.ks) = <<world.ks>> BY <2>2, Zenon DEF save
      <4>4. p = <<SetKs(world, world.ks)>> BY <4>3 DEF Saved, InKeystore, SetKs
      <4>5. p = <<world>> BY <4>2, <4>4, Zenon
      <4> QED BY <4>5 DEF Last
    <3>2. c = Closed(world) BY <3>1, Zenon
    <3>3. q = Cat(<<world>>, <<c>>) BY <3>1, Zenon
    <3> HIDE DEF c, q
    <3>4. world \in Worlds /\ Good(world, identity, kicked) /\ SameTables(world, world)
      BY Zenon DEF IInv, Good, SameTables
    <3>5. world \in T BY <3>4, Zenon DEF Tabled
    <3>6. c \in T BY <3>2, <3>4, ClosedGood, Zenon
    <3>7. /\ SameTables(c, world) /\ SameDevices(c, world)
          /\ c.ks.db = None /\ c.ks.master_key = None
          /\ c.ks.file = world.ks.file /\ c.ks.salt = world.ks.salt
      BY <3>2, <3>4, ClosedWorld, SMT
    <3>8. Held(c) /\ Used(c, killed)
      BY <2>2, <3>7, Zenon
         DEF IInv, Steady, Held, Used, Live, Cur, SameTables, SameDevices
    <3>9. Ends(c) BY <3>6, <3>7, <3>8, Zenon DEF Ends
    <3>10. Path(q, T) /\ Last(q) = c
      <4> HIDE DEF T
      <4> QED BY <3>3, <3>5, <3>6, TwoSteps, SMT
    <3> QED BY <3>9, <3>10, Zenon
  <2> QED BY <2>1, <2>2, Zenon
<1>3. Counted(count) /\ count.requests \in Nat BY Zenon DEF IInv, Types, Counted
<1>4. Counted(count') /\ count'.requests >= count.requests BY <1>1, <1>3
<1> HIDE DEF q, c
<1>5. CASE DiesIn(q)
  <2>1. \A v \in T : Fit(v, count'.requests) BY <1>4, TablesFit, Zenon
  <2> QED BY <1>2, <1>4, <1>5, <2>1, DiesStep, Zenon
<1>6. CASE Completes(q) /\ up' = FALSE /\ UNCHANGED <<sending, changing, history>>
  <2>1. /\ world' = c /\ sending' = {} /\ changing' = changing
        /\ now' = now /\ killed' = killed /\ cut' = cut
        /\ passphrase' = passphrase /\ identity' = identity /\ kicked' = kicked
        /\ raced' = (raced \/ (changing # None /\ c.ks.file # world.ks.file))
    BY <1>1, <1>2, <1>6, Zenon DEF Completes, history
  <2> QED BY <1>1, <1>2, <2>1, EndedStep, Zenon
<1> QED BY <1>1, <1>5, <1>6, Zenon

(* Paths of three worlds.                                                  *)
LEMMA TwoAndOne ==
  ASSUME NEW S, NEW p \in Seq(S), NEW q \in Seq(S), Len(p) = 2, Len(q) = 1
  PROVE  p \o q = <<p[1], p[2], q[1]>>
<1> DEFINE r == p \o q
           t == <<p[1], p[2], q[1]>>
<1>1. t \in Seq(S) /\ Len(t) = 3 /\ t[1] = p[1] /\ t[2] = p[2] /\ t[3] = q[1] OBVIOUS
<1>2. /\ r \in Seq(S) /\ Len(r) = Len(p) + Len(q)
      /\ \A i \in 1 .. Len(p) + Len(q) :
              r[i] = IF i <= Len(p) THEN p[i] ELSE q[i - Len(p)]
  BY ConcatProperties, Zenon
<1> HIDE DEF r, t
<1>3. Len(r) = 3 /\ r[1] = p[1] /\ r[2] = p[2] /\ r[3] = q[1]
  BY <1>2
<1>4. \A i \in 1 .. 3 : r[i] = t[i]
  <2> TAKE i \in 1 .. 3
  <2>1. i = 1 \/ i = 2 \/ i = 3 OBVIOUS
  <2> QED BY <1>1, <1>3, <2>1, Zenon
<1>5. \A i \in 1 .. Len(r) : r[i] = t[i] BY <1>3, <1>4, Zenon
<1>6. r = t BY <1>1, <1>2, <1>3, <1>5, SeqEqual, Zenon
<1> QED BY <1>6, Zenon DEF r, t

LEMMA Triple ==
  ASSUME NEW a, NEW b, NEW e
  PROVE  <<a, b>> \o <<e>> = <<a, b, e>>
<1> DEFINE S == {a, b, e}
           p == <<a, b>>
           q == <<e>>
<1>1. p \in Seq(S) /\ q \in Seq(S) /\ Len(p) = 2 /\ Len(q) = 1
      /\ p[1] = a /\ p[2] = b /\ q[1] = e
  OBVIOUS
<1>2. <<p[1], p[2], q[1]>> = <<a, b, e>> BY <1>1
<1> HIDE DEF p, q, S
<1>3. p \o q = <<p[1], p[2], q[1]>> BY <1>1, TwoAndOne, Zenon
<1>4. p \o q = <<a, b, e>> BY <1>2, <1>3, Zenon
<1> QED BY <1>4, Zenon DEF p, q

(* The end of the session on request.                                      *)
LEMMA LockStep ==
  ASSUME IInv, session_lock
  PROVE  IInv'
<1> DEFINE p == Saved(world)
           c == Closed(Last(p))
           q == Cat(p, <<c>>)
<1>1. Unlocked /\ sending = {} /\ count' = count /\ Handler(Locking(world))
  BY Zenon DEF session_lock
<1>2. Locking(world) = q
  <2> DEFINE k == world.ks
             a == [k EXCEPT !.file = Torn]
             b == [k EXCEPT !.file = NewFile(world)]
  <2>1. world.ks.db # None /\ world.ks.master_key # None
    BY <1>1, Zenon DEF IInv, Steady, Unlocked, is_unlocked
  <2>2. save(k) = <<a, b>> BY <2>1, Zenon DEF save, write_to_disk, NewFile
  <2> HIDE DEF a, b
  <2>3. lock(k) = <<a, b, Ended(b)>>
    <3> DEFINE e == Ended(b)
    <3>1. lock(k) = <<a, b>> \o <<e>> BY <2>2 DEF lock, Last
    <3> HIDE DEF e
    <3>2. <<a, b>> \o <<e>> = <<a, b, e>> BY Triple, Zenon
    <3> QED BY <3>1, <3>2, Zenon DEF e
  <2>4. p = <<SetKs(world, a), SetKs(world, b)>>
    BY <2>2 DEF Saved, InKeystore, SetKs
  <2>5. Locking(world) = <<SetKs(world, a), SetKs(world, b), SetKs(world, Ended(b))>>
    <3> DEFINE e == Ended(b)
    <3>1. lock(k) = <<a, b, e>> BY <2>3, Zenon
    <3> HIDE DEF e
    <3>2. Locking(world) = <<SetKs(world, a), SetKs(world, b), SetKs(world, e)>>
      BY <3>1 DEF Locking, InKeystore, SetKs
    <3> QED BY <3>2, Zenon DEF e
  <2>6. Last(p) = SetKs(world, b) BY <2>4 DEF Last
  <2>7. c = SetKs(world, Ended(b))
    <3> DEFINE u == SetKs(world, b)
    <3>1. world \in Worlds BY Zenon DEF IInv, Good
    <3>2. u.ks = b BY <3>1, Zenon DEF SetKs, Worlds
    <3>3. SetKs(u, Ended(b)) = SetKs(world, Ended(b)) BY <3>1, Zenon DEF SetKs, Worlds
    <3> QED BY <2>6, <3>2, <3>3, Zenon DEF Closed
  <2> QED BY <2>4, <2>5, <2>7 DEF Cat
<1>3. Path(q, Tabled(world, identity, kicked)) /\ Last(q) = c /\ Ends(c)
  BY <1>1, SaveAndClose, SMT
<1>4. Counted(count) /\ count.requests \in Nat BY Zenon DEF IInv, Types, Counted
<1>5. Counted(count') /\ count'.requests >= count.requests BY <1>1, <1>4
<1> HIDE DEF q, c
<1>6. CASE DiesIn(q)
  <2>1. \A v \in Tabled(world, identity, kicked) : Fit(v, count'.requests)
    BY <1>5, TablesFit, Zenon
  <2> QED BY <1>3, <1>5, <1>6, <2>1, DiesStep, Zenon
<1>7. CASE Runs(q)
  <2>1. /\ world' = c /\ sending' = {} /\ changing' = changing
        /\ now' = now /\ killed' = killed /\ cut' = cut
        /\ passphrase' = passphrase /\ identity' = identity /\ kicked' = kicked
        /\ raced' = (raced \/ (changing # None /\ c.ks.file # world.ks.file))
    BY <1>1, <1>3, <1>7, Zenon DEF Runs, Completes, history
  <2>2. up BY <1>7, Zenon DEF Runs
  <2> QED BY <1>1, <1>3, <2>1, <2>2, EndedStep, Zenon
<1> QED BY <1>1, <1>2, <1>6, <1>7, Zenon DEF Handler

(* A new Key A.                                                            *)
Named(w, x, n) == [w EXCEPT !.ks.db = x, !.keys = n]

(* It changes database and key counter only.                               *)
LEMMA WithName ==
  ASSUME NEW w \in Worlds, NEW x \in Databases, NEW n \in Nat, NEW v, v = Named(w, x, n)
  PROVE  /\ v \in Worlds /\ v.ks.db = x /\ v.ks.file = w.ks.file
         /\ v.device = w.device /\ SameSession(v, w) /\ SameTables(v, w)
<1> DEFINE u == SetDb(w, x)
<1>1. /\ u \in Worlds /\ u.ks.db = x /\ u.ks.file = w.ks.file
      /\ SameSession(u, w) /\ SameTables(u, w) /\ SameDevices(u, w)
  BY WithDb, Zenon
<1>2. v = [u EXCEPT !.keys = n] BY Zenon DEF Named, SetDb
<1> HIDE DEF u
<1>3. v \in Worlds /\ v.ks = u.ks /\ v.device = u.device /\ SameTables(v, u)
  BY <1>1, <1>2, Zenon DEF Worlds, SameTables
<1> QED BY <1>1, <1>3, Zenon DEF SameSession, SameTables, SameDevices

(* ensure_identity leaves a session with a Key A, the old one if there was *)
(* one.                                                                    *)
LEMMA EnsureIdentity ==
  ASSUME NEW w0, NEW id, NEW ki, NEW w \in Session(w0, id, ki),
         NEW p, p = ensure_identity(w)
  PROVE  /\ p \in Seq(Session(w0, id, ki)) /\ End(w, p) \in Session(w0, id, ki)
         /\ SameSession(End(w, p), w) /\ End(w, p).ks.db.key_a # 0
<1> DEFINE S == Session(w0, id, ki)
           x == w.ks.db
           n == w.keys + 1
           y == set_key_a(x, n)
           v == Named(w, y, n)
<1>1. w \in Worlds /\ DbOk(x, w, id, ki) /\ x \in Databases /\ HeldBy(w.device, x)
      /\ Good(w, id, ki) /\ w.ks.db # None /\ w.ks.master_key # None
      /\ SameTables(w, w0) /\ SameSession(w, w0) /\ x.ratchet = w0.ks.db.ratchet
  BY Zenon DEF Session, Good, Worlds, Keystores
<1>2. CASE x.key_a # 0
  <2>1. p = << >> BY <1>2, Zenon DEF ensure_identity, get_key_a
  <2> QED BY <1>2, <2>1, EmptySeq, Zenon DEF End, SameSession
<1>3. CASE x.key_a = 0
  <2>1. p = Saved(v) BY <1>3, Zenon DEF ensure_identity, get_key_a, Named
  <2>e. w.keys \in Nat BY <1>1, SMT DEF Worlds
  <2>2. n \in Nat /\ n # 0 BY <2>e, SMT
  <2> HIDE DEF x, n
  <2>3. /\ y \in Databases /\ y.ratchet = x.ratchet /\ y.key_a = n
        /\ y.key_c = x.key_c /\ y.key_b = x.key_b /\ y.sender = x.sender
        /\ y.prekeys = x.prekeys
    BY <1>1, <2>2, Zenon DEF Databases, set_key_a
  <2>4. id = 0 BY <1>1, <1>3, Zenon DEF DbOk
  <2>5. v = Named(w, y, n) BY Zenon
  <2> HIDE DEF y, v
  <2>6. DbOk(y, w, id, ki)
    BY <1>1, <2>3, <2>4, Zenon DEF DbOk, Stocks, KeysIn, get_key_b, get_sender_key
  <2>7. /\ v \in Worlds /\ v.ks.db = y /\ v.ks.file = w.ks.file
        /\ v.device = w.device /\ SameSession(v, w) /\ SameTables(v, w)
    BY <1>1, <2>2, <2>3, <2>5, WithName, SMT
  <2>8. DbOk(y, v, id, ki) BY <2>6, <2>7, DbOkSame, Zenon
  <2>9. w.ks.file.state = "whole" => DbOk(w.ks.file.content, v, id, ki)
    BY <1>1, <2>7, DbOkSame, Zenon DEF Good
  <2>10. v.ks.file.state # "absent" BY <1>1, <2>7, Zenon DEF Good
  <2>11. Good(v, id, ki) BY <2>7, <2>8, <2>9, <2>10, Zenon DEF Good
  <2>12. HeldBy(w.device, y) BY <1>1, <2>3, Zenon DEF HeldBy, Unrevoked
  <2>13. y # None BY <2>3, NoneApart, Zenon
  <2>14. v \in S
    BY <1>1, <2>3, <2>7, <2>11, <2>12, <2>13, Zenon
       DEF S, Session, SameTables, SameSession
  <2> HIDE DEF S
  <2>a. p = Saved(v) BY <2>1, Zenon
  <2>b. v \in Session(w0, id, ki) BY <2>14, Zenon DEF S
  <2>c. Path(p, Session(w0, id, ki)) BY <2>a, <2>b, SavedPath, Zenon
  <2>d. Last(p) \in Session(w0, id, ki) BY <2>a, <2>b, SavedPath, Zenon
  <2>g. Last(p).ks.db = v.ks.db BY <2>a, <2>b, SavedPath, SMT
  <2>f. SameSession(Last(p), v) BY <2>a, <2>b, SavedPath, Zenon
  <2>15. Path(p, S) /\ Last(p) \in S /\ Last(p).ks.db = y /\ SameSession(Last(p), v)
    BY <2>7, <2>c, <2>d, <2>g, <2>f, Zenon DEF S
  <2>16. p \in Seq(S) /\ End(w, p) = Last(p) BY <2>15, Zenon DEF Path, End
  <2> QED BY <2>2, <2>3, <2>7, <2>15, <2>16, Zenon DEF S, SameSession
<1> QED BY <1>2, <1>3, Zenon

(* unlock ends with the session open and its database in the file, or      *)
(* leaves everything but the salt.                                         *)
UnlockedTo(v, w, typed) ==
  /\ v.ks.db # None /\ v.ks.db.key_a # 0 /\ Fresh(v.ks.db) /\ Wrote(v)
  /\ HeldBy(v.device, v.ks.db)
  /\ v.ks.master_key = <<typed, v.ks.salt>>
  /\ \/ w.ks.file.state = "absent"
     \/ /\ w.ks.file.state = "whole" /\ w.ks.file.key = v.ks.master_key
        /\ v.ks.db.ratchet = w.ks.file.content.ratchet

(* As long as nothing was cut or raced, a salt is on disk whenever a file  *)
(* is, and stays.                                                          *)
LEMMA SaltKept ==
  ASSUME IInv, NEW v, world.ks.salt # NoSalt => v.ks.salt = world.ks.salt, ~cut, ~raced
  PROVE  /\ world.ks.file.state = "whole" => v.ks.salt = world.ks.salt
         /\ changing # None => v.ks.salt = world.ks.salt
<1>1. world \in Worlds BY Zenon DEF IInv, Good
<1>2. world.ks.file.state = "whole" => world.ks.file.key \in MasterKeys
  BY <1>1 DEF Worlds, Keystores, Files, NoFile, Torn
<1>3. changing # None => changing \in MasterKeys BY Zenon DEF IInv, Types
<1>4. /\ world.ks.file.state = "whole" => world.ks.file.key = <<passphrase, world.ks.salt>>
      /\ changing # None => changing = <<passphrase, world.ks.salt>>
  BY Zenon DEF IInv, Opens
<1>5. ASSUME NEW key \in MasterKeys, key = <<passphrase, world.ks.salt>>
      PROVE  world.ks.salt # NoSalt
  BY <1>5 DEF MasterKeys, NoSalt
<1> QED BY <1>2, <1>3, <1>4, <1>5, Zenon

(* A session that was opened satisfies the invariant.                      *)
LEMMA UnlockedStep ==
  ASSUME IInv, up, world.ks.db = None, NEW v \in Tabled(world, identity, kicked),
         NEW typed \in Passphrases, UnlockedTo(v, world, typed),
         world.ks.salt # NoSalt => v.ks.salt = world.ks.salt,
         world' = v, sending' = sending, changing' = changing, up' = up,
         now' = now, killed' = killed, cut' = cut, Counted(count'),
         count'.requests = count.requests, kicked' = kicked,
         passphrase' = (IF world.ks.file.state = "absent" THEN typed ELSE passphrase),
         identity' = (IF identity = 0 THEN v.ks.db.key_a ELSE identity),
         raced' = (raced \/ (changing # None /\ v.ks.file # world.ks.file))
  PROVE  IInv'
<1> DEFINE x == v.ks.db
<1>1. v \in Worlds /\ Good(v, identity, kicked) /\ SameTables(v, world) BY Zenon DEF Tabled
<1>2. x # None /\ x.key_a # 0 /\ Fresh(x) /\ Wrote(v) /\ HeldBy(v.device, x)
  BY Zenon DEF UnlockedTo
<1>3. x \in Databases /\ x.key_a \in Nat /\ v.ks.master_key \in MasterKeys \union {None}
      /\ (v.ks.file.state = "whole" => v.ks.file.key \in MasterKeys)
  <2>1. v.ks \in Keystores BY <1>1, SMT DEF Worlds
  <2>2. x \in Databases BY <1>2, <2>1, SMT DEF Keystores
  <2>3. x.key_a \in Nat BY <2>2, SMT DEF Databases
  <2>4. v.ks.master_key \in MasterKeys \union {None} /\ v.ks.file \in Files
    BY <2>1, SMT DEF Keystores
  <2>5. v.ks.file.state = "whole" => v.ks.file.key \in MasterKeys
    BY <2>4, SMT DEF Files, NoFile, Torn
  <2> QED BY <2>2, <2>3, <2>4, <2>5, Zenon
<1>4. v.ks.file.state = "whole" /\ v.ks.file.key = v.ks.master_key
      /\ v.ks.file.content.key_a = x.key_a /\ v.ks.master_key # None
  BY <1>2, <1>3, NoneApart, Zenon DEF Wrote
<1>5. Types' BY <1>3, Zenon DEF IInv, Types
<1>6. Good(v, identity', kicked)
  <2>1. DbOk(x, v, identity, kicked) /\ DbOk(v.ks.file.content, v, identity, kicked)
    BY <1>1, <1>2, <1>4, Zenon DEF Good
  <2>2. DbOk(x, v, identity', kicked) /\ DbOk(v.ks.file.content, v, identity', kicked)
    BY <1>4, <2>1, Zenon DEF DbOk
  <2>3. v.ks.file.state # "absent" BY <1>4, Zenon
  <2> QED BY <1>1, <2>2, <2>3, Zenon DEF Good
<1>7. FramesOk(v, killed) BY <1>1, Zenon DEF IInv, FramesOk, SameTables, HasRow
<1>8. RowsOk(v, count.requests) BY <1>1, Zenon DEF IInv, RowsOk, SameTables
<1>9. Held(v) BY <1>2, Zenon DEF Held, Cur
<1>10. Used(v, killed)
  <2>1. CASE world.ks.file.state = "absent"
    <3>1. v.sent = {} BY <1>1, <2>1, Zenon DEF IInv, Good, SameTables
    <3> QED BY <3>1, Zenon DEF Used
  <2>2. CASE world.ks.file.state = "whole" /\ x.ratchet = world.ks.file.content.ratchet
    <3>1. Used(world, killed) BY Zenon DEF IInv, Steady
    <3> QED BY <1>1, <1>2, <2>2, <3>1, Zenon DEF Used, Live, Cur, SameTables
  <2> QED BY <2>1, <2>2, Zenon DEF UnlockedTo
<1>11. Steady'
  <2>1. identity' # 0 BY <1>2, Zenon
  <2>2. v.ks.file.state # "absent" BY <1>4, Zenon
  <2> QED BY <1>2, <1>4, <1>9, <1>10, <2>1, <2>2, Zenon DEF Steady, is_unlocked, Fresh, Db
<1>12. sending = {} BY Zenon DEF IInv, SendsOk, Unlocked, is_unlocked
<1>13. SendsOk' BY <1>12, Zenon DEF SendsOk
<1>14. Opens'
  <2> SUFFICES ASSUME ~cut', ~raced' PROVE Opens' BY Zenon DEF Opens
  <2>1. ~cut /\ ~raced BY Zenon
  <2>2. /\ world.ks.file.state = "whole" => v.ks.salt = world.ks.salt
        /\ changing # None => v.ks.salt = world.ks.salt
    BY <2>1, SaltKept, Zenon
  <2>3. v.ks.master_key = <<typed, v.ks.salt>> BY Zenon DEF UnlockedTo
  <2>4. v.ks.file.state # "torn" BY <1>4, Zenon
  <2>5. CASE world.ks.file.state = "absent"
    <3>1. changing = None /\ passphrase' = typed BY <2>5, Zenon DEF IInv, Steady
    <3> QED BY <1>4, <2>3, <2>4, <3>1, Zenon DEF Opens
  <2>6. CASE world.ks.file.state = "whole" /\ world.ks.file.key = v.ks.master_key
    <3>1. world.ks.file.key = <<passphrase, world.ks.salt>>
          /\ (changing # None => changing = <<passphrase, world.ks.salt>>)
      BY <2>1, <2>6, Zenon DEF IInv, Opens
    <3>2. passphrase' = passphrase BY <2>6, Zenon
    <3> QED BY <1>4, <2>2, <2>4, <2>6, <3>1, <3>2, Zenon DEF Opens
  <2> QED BY <2>5, <2>6, Zenon DEF UnlockedTo
<1> QED BY <1>5, <1>6, <1>7, <1>8, <1>11, <1>13, <1>14, Zenon DEF IInv

(* A Key C is taken off the record.                                        *)
LEMMA RevokeKeyC ==
  ASSUME NEW w, NEW id, NEW ki, NEW x \in Databases, DbOk(x, w, id, ki), NEW kc,
         NEW y, y = revoke_key_c(x, kc)
  PROVE  /\ y \in Databases /\ DbOk(y, w, id, ki) /\ y.ratchet = x.ratchet
         /\ y.key_a = x.key_a /\ y.key_c = x.key_c \ {kc}
<1>1. /\ y \in Databases /\ y.ratchet = x.ratchet /\ y.key_a = x.key_a
      /\ y.key_c = x.key_c \ {kc} /\ y.key_b = x.key_b /\ y.sender = x.sender
      /\ y.prekeys = x.prekeys
  BY Zenon DEF Databases, revoke_key_c
<1>2. \A k, l \in y.key_c : k.type = l.type => k = l BY <1>1, Zenon DEF DbOk
<1>3. DbOk(y, w, id, ki)
  BY <1>1, <1>2, Zenon DEF DbOk, Stocks, KeysIn, get_key_b, get_sender_key
<1> QED BY <1>1, <1>3, Zenon

(* devices_revoke preserves the invariant.                                 *)
LEMMA RevokeStep ==
  ASSUME IInv, NEW kc, devices_revoke(kc)
  PROVE  IInv'
<1> DEFINE S == Session(world, identity, kicked)
           x == world.ks.db
           y == revoke_key_c(x, kc)
           v == SetDb(world, y)
           p == Saved(v)
<1>1. Unlocked /\ Serve /\ Handler(p)
  BY Zenon DEF devices_revoke, revoke_device, SetDb
<1>2. /\ world \in S /\ Fresh(x) /\ Counted(count) /\ count.requests \in Nat
  BY <1>1, InSession, Zenon
<1>3. Counted(count') /\ count'.requests >= count.requests BY <1>1, <1>2, Spent
<1>4. x \in Databases /\ DbOk(x, world, identity, kicked) /\ HeldBy(world.device, x)
  BY <1>2, Zenon DEF Session, Good, Worlds, Keystores
<1>5. v = SetDb(world, y) /\ p = Saved(v) BY Zenon
<1> HIDE DEF x, v, p, S
<1>6. /\ y \in Databases /\ DbOk(y, world, identity, kicked) /\ y.ratchet = x.ratchet
      /\ y.key_a = x.key_a /\ y.key_c = x.key_c \ {kc}
  BY <1>4, RevokeKeyC, SMT
<1> HIDE DEF y
<1>7. Fresh(y) /\ HeldBy(world.device, y)
  BY <1>2, <1>4, <1>6, Zenon DEF Fresh, HeldBy, Unrevoked
<1>8. v \in S /\ v.ks.db = y /\ v.ks.file = world.ks.file /\ SameSession(v, world)
  BY <1>2, <1>5, <1>6, <1>7, SessionDb, SMT DEF S, x
<1>9. Follows(v, world) BY <1>6, <1>8, Zenon DEF Follows, x
<1>10. Path(p, S) /\ Follows(Last(p), v) BY <1>5, <1>8, SavedPath, Zenon DEF S
<1>11. Last(p).ks.db = y BY <1>5, <1>8, SavedPath, SMT DEF S
<1>12. Follows(Last(p), world) BY <1>9, <1>10, FollowsTransitive, Zenon
<1>13. Fresh(Last(p).ks.db) BY <1>7, <1>11, Zenon
<1> QED BY <1>1, <1>3, <1>10, <1>12, <1>13, SessionStep, Zenon DEF S

(* The file of a first launch.                                             *)
Schemed(key) == [state |-> "whole", key |-> key, content |-> Schema]

(* The keystores on the way of an unlock.                                  *)
Opening(k) ==
  {e \in Keystores :
     \/ e.db = None /\ e.file = k.file
     \/ k.file.state = "absent" /\ e.db = Schema
        /\ (e.file = Torn \/ \E key \in MasterKeys : e.file = Schemed(key))
     \/ k.file.state = "whole" /\ e.db = k.file.content /\ e.file = k.file}

(* A new database.                                                         *)
LEMMA SchemaIsDatabase ==
  Schema \in Databases /\ Schema.key_c = {} /\ Schema.key_a = 0 /\ Schema # None
  /\ Stocks(Schema) /\ \A c \in Contacts : Schema.ratchet[c] = -1
<1>1. Schema \in Databases BY DEF Schema, Databases
<1> QED BY <1>1, NoneApart, Zenon DEF Schema, Stocks

(* The worlds on the way are fit.                                          *)
LEMMA OpeningGood ==
  ASSUME NEW id, NEW ki, NEW w \in Worlds, Good(w, id, ki), w.ks.db = None,
         NEW e \in Opening(w.ks)
  PROVE  SetKs(w, e) \in Tabled(w, id, ki) /\ SetKs(w, e).ks = e
         /\ SameDevices(SetKs(w, e), w)
<1> DEFINE v == SetKs(w, e)
<1>1. e \in Keystores BY Zenon DEF Opening
<1>2. v \in Worlds /\ v.ks = e /\ SameTables(v, w) /\ SameDevices(v, w)
  BY <1>1, WithKs, Zenon DEF SetKs
<1> HIDE DEF v
<1>3. CASE e.db = None /\ e.file = w.ks.file
  <2>1. e.file.state = "whole" => DbOk(e.file.content, v, id, ki)
    BY <1>2, <1>3, DbOkSame, Zenon DEF Good
  <2>2. Good(v, id, ki) BY <1>2, <1>3, <2>1, Zenon DEF Good, SameTables
  <2> QED BY <1>2, <2>2, Zenon DEF Tabled, v
<1>4. CASE w.ks.file.state = "absent" /\ e.db = Schema
           /\ (e.file = Torn \/ \E key \in MasterKeys : e.file = Schemed(key))
  <2>1. v.conversations = {} /\ id = 0 /\ \A g \in Groups : ki[g] = 0
    BY <1>2, <1>4, Zenon DEF Good, SameTables
  <2>2. DbOk(Schema, v, id, ki)
    BY <2>1, SchemaIsDatabase, Zenon DEF DbOk
  <2>3. e.file.state # "absent" /\ (e.file.state = "whole" => e.file.content = Schema)
    <3>1. CASE e.file = Torn BY <3>1 DEF Torn
    <3>2. CASE \E key \in MasterKeys : e.file = Schemed(key)
      <4>1. PICK key \in MasterKeys : e.file = Schemed(key) BY <3>2, Zenon
      <4> QED BY <4>1 DEF Schemed
    <3> QED BY <1>4, <3>1, <3>2, Zenon
  <2>4. Good(v, id, ki) BY <1>2, <1>4, <2>2, <2>3, Zenon DEF Good
  <2> QED BY <1>2, <2>4, Zenon DEF Tabled, v
<1>5. CASE w.ks.file.state = "whole" /\ e.db = w.ks.file.content
           /\ e.file = w.ks.file
  <2>1. DbOk(e.db, v, id, ki) BY <1>2, <1>5, DbOkSame, Zenon DEF Good
  <2>2. e.file.state # "absent" BY <1>5, Zenon
  <2>3. Good(v, id, ki) BY <1>2, <1>5, <2>1, <2>2, Zenon DEF Good
  <2> QED BY <1>2, <2>3, Zenon DEF Tabled, v
<1> QED BY <1>3, <1>4, <1>5, Zenon DEF Opening

(* A passphrase that does not open the file.                               *)
Refused(e, k) == e.db = None /\ e.file = k.file /\ k.file.state # "absent"

(* A session with the database of the file, or a new one with a new file.  *)
Opened(e, k) ==
  /\ e.file.state = "whole" /\ e.file.key = e.master_key /\ e.file.content = e.db
  /\ \/ k.file.state = "absent" /\ e.db = Schema
     \/ k.file.state = "whole" /\ e.file = k.file

(* load_from_disk opens or refuses.                                        *)
LEMMA LoadFromDisk ==
  ASSUME NEW k \in Keystores, NEW d \in Salted(k), k.db = None, k.master_key = None,
         NEW key \in MasterKeys, NEW p, p = load_from_disk(d, key)
  PROVE  /\ Path(p, Opening(k)) /\ Last(p) \in Opening(k)
         /\ Last(p).salt = d.salt /\ Last(p).master_key = None
         /\ \/ Refused(Last(p), k)
            \/ /\ Last(p).db # None /\ Last(p).file.state = "whole"
               /\ Last(p).file.key = key /\ Last(p).file.content = Last(p).db
               /\ \/ k.file.state = "absent" /\ Last(p).db = Schema
                  \/ k.file.state = "whole" /\ Last(p).file = k.file
<1>1. d \in Keystores /\ d.db = None /\ d.file = k.file /\ d.master_key = None
  BY Zenon DEF Salted
<1>2. CASE k.file.state = "absent"
  <2> DEFINE s == [d EXCEPT !.db = Schema]
             a == [s EXCEPT !.file = Torn]
             b == [s EXCEPT !.file = [state |-> "whole", key |-> key,
                                      content |-> s.db]]
  <2>1. p = <<a, b>>
    <3>1. d.file.state = "absent" /\ ~Decrypts(d, key) BY <1>1, <1>2, Zenon DEF Decrypts
    <3>2. load_from_disk(d, key) = write_to_disk(s, key)
      BY <3>1, Zenon DEF load_from_disk
    <3> QED BY <3>2, Zenon DEF write_to_disk
  <2>2. s \in Keystores /\ s.db = Schema /\ s.salt = d.salt /\ s.master_key = None
    BY <1>1, SchemaIsDatabase, Zenon DEF Keystores
  <2> HIDE DEF s
  <2>3. a \in Keystores /\ a.db = Schema /\ a.file = Torn
    BY <2>2, Zenon DEF Keystores, Files
  <2>4. Schemed(key) \in Files BY SchemaIsDatabase, Zenon DEF Schemed, Files
  <2>5. b \in Keystores /\ b.db = Schema /\ b.file = Schemed(key) /\ b.salt = d.salt
        /\ b.master_key = None
    BY <2>2, <2>4, Zenon DEF Keystores, Schemed
  <2> HIDE DEF a, b
  <2>6. a \in Opening(k) /\ b \in Opening(k)
    BY <1>2, <2>3, <2>5, Zenon DEF Opening
  <2>7. Path(p, Opening(k)) /\ Last(p) = b
    BY <2>1, <2>6, Pair, SMT
  <2>8. b.file.state = "whole" /\ b.file.key = key /\ b.file.content = b.db
    BY <2>5 DEF Schemed
  <2> QED BY <1>2, <2>5, <2>6, <2>7, <2>8, SchemaIsDatabase, Zenon
<1>3. CASE k.file.state # "absent" /\ Decrypts(d, key)
  <2> DEFINE a == [d EXCEPT !.db = d.file.content]
  <2>1. p = <<a>> BY <1>1, <1>3, Zenon DEF load_from_disk
  <2>2. k.file.state = "whole" /\ k.file.key = key BY <1>1, <1>3, Zenon DEF Decrypts
  <2>3. k.file.content \in Databases
    BY <2>2 DEF Keystores, Files, NoFile, Torn
  <2>4. a \in Keystores /\ a.db = k.file.content /\ a.file = k.file /\ a.salt = d.salt
        /\ a.master_key = None
    BY <1>1, <2>3, Zenon DEF Keystores
  <2> HIDE DEF a
  <2>5. a \in Opening(k) BY <2>2, <2>4, Zenon DEF Opening
  <2>6. Path(p, Opening(k)) /\ Last(p) = a
    BY <2>1, <2>5, Singleton, Zenon
  <2> QED BY <2>2, <2>3, <2>4, <2>5, <2>6, NoneApart, Zenon
<1>4. CASE k.file.state # "absent" /\ ~Decrypts(d, key)
  <2>1. p = <<d>> BY <1>1, <1>4, Zenon DEF load_from_disk
  <2>2. d \in Opening(k) BY <1>1, Zenon DEF Opening
  <2>3. Path(p, Opening(k)) /\ Last(p) = d
    BY <2>1, <2>2, Singleton, Zenon
  <2> QED BY <1>1, <1>4, <2>2, <2>3, Zenon DEF Refused
<1> QED BY <1>2, <1>3, <1>4, Zenon

(* Keystore::unlock opens or refuses, and keeps a salt that is on disk.    *)
LEMMA Unlock ==
  ASSUME NEW k \in Keystores, k.db = None, k.master_key = None,
         NEW typed \in Passphrases, NEW p, p = unlock(k, typed)
  PROVE  /\ Path(p, Opening(k)) /\ Last(p) \in Opening(k)
         /\ k.salt # NoSalt => Last(p).salt = k.salt
         /\ \/ Refused(Last(p), k) /\ Last(p).master_key = None
            \/ /\ Opened(Last(p), k) /\ Last(p).db # None
               /\ Last(p).master_key = <<typed, Last(p).salt>>
<1> DEFINE derived == derive_key(k)
           d       == Last(derived)
           key     == <<typed, d.salt>>
           loaded  == load_from_disk(d, key)
           l       == Last(loaded)
           o       == [l EXCEPT !.master_key = key]
           q       == Cat(derived, loaded)
           r       == IF is_unlocked(l) THEN <<o>> ELSE << >>
<1>1. p = Cat(q, r) BY Zenon DEF unlock, Cat
<1>2. Path(derived, Salted(k)) /\ d \in Salted(k)
      /\ d.salt \in Nat /\ (k.salt # NoSalt => d.salt = k.salt)
  BY DeriveKey, Zenon
<1>3. Salted(k) \subseteq Opening(k) BY Zenon DEF Salted, Opening
<1>4. Path(derived, Opening(k)) BY <1>2, <1>3, Wider, Zenon
<1>5. key \in MasterKeys BY <1>2, Zenon DEF MasterKeys
<1>6. loaded = load_from_disk(d, key) /\ q = Cat(derived, loaded) BY Zenon
<1>k. key = <<typed, d.salt>> BY Zenon
<1> HIDE DEF derived, key, loaded, d, q
<1>7. /\ Path(loaded, Opening(k)) /\ l \in Opening(k)
      /\ l.salt = d.salt /\ l.master_key = None
      /\ \/ Refused(l, k)
         \/ /\ l.db # None /\ l.file.state = "whole"
            /\ l.file.key = key /\ l.file.content = l.db
            /\ \/ k.file.state = "absent" /\ l.db = Schema
               \/ k.file.state = "whole" /\ l.file = k.file
  BY <1>2, <1>5, <1>6, LoadFromDisk, SMT
<1>8. Path(q, Opening(k)) /\ Last(q) = l
  BY <1>2, <1>4, <1>6, <1>7, Extended, EndsIn, SMT DEF l
<1> HIDE DEF l
<1>9. CASE l.db = None
  <2>1. r = << >> BY <1>9, Zenon DEF is_unlocked
  <2>2. p = q BY <1>1, <1>8, <2>1, ConcatEmptySeq, Zenon DEF Path, Cat
  <2> QED BY <1>2, <1>7, <1>8, <1>9, <2>2, Zenon
<1>10. CASE l.db # None
  <2>1. r = <<o>> BY <1>10, Zenon DEF is_unlocked
  <2>2. l \in Keystores BY <1>7, Zenon DEF Opening
  <2>3. o \in Keystores /\ o.db = l.db /\ o.file = l.file /\ o.salt = l.salt
        /\ o.master_key = key
    BY <1>5, <2>2, Zenon DEF Keystores
  <2> HIDE DEF o, r
  <2>4. o \in Opening(k) BY <1>7, <2>3, Zenon DEF Opening
  <2>5. Path(r, Opening(k)) /\ Last(r) = o
    BY <2>1, <2>4, Singleton, Zenon
  <2>6. Path(p, Opening(k)) /\ Last(p) = o
    <3>1. Path(p, Opening(k)) /\ Last(p) = Last(r)
      BY <1>1, <1>8, <2>5, Extended, EndsIn, SMT
    <3> QED BY <2>5, <3>1, Zenon
  <2>7. ~Refused(l, k) BY <1>10, Zenon DEF Refused
  <2>8. Opened(o, k) BY <1>7, <2>3, <2>7, Zenon DEF Opened
  <2> QED BY <1>2, <1>7, <1>10, <1>k, <2>3, <2>4, <2>6, <2>8, Zenon
<1> QED BY <1>9, <1>10, Zenon

(* Device type is told key n while database x is on record.                *)
Told(w, x, type, n, key) ==
  [w EXCEPT !.ks.db = x, !.device[type] = n, !.keys = key]

(* It changes nothing else.                                                *)
LEMMA WithDevice ==
  ASSUME NEW w \in Worlds, NEW x \in Databases \union {None}, NEW type \in Devices,
         NEW n \in Nat, NEW key \in Nat,
         NEW v, v = Told(w, x, type, n, key)
  PROVE  /\ v \in Worlds /\ v.ks.db = x /\ v.ks.file = w.ks.file /\ v.keys = key
         /\ v.device = [w.device EXCEPT ![type] = n]
         /\ SameSession(v, w) /\ SameTables(v, w)
<1> DEFINE u == SetDb(w, x)
<1>1. /\ u \in Worlds /\ u.ks.db = x /\ u.ks.file = w.ks.file
      /\ SameSession(u, w) /\ SameTables(u, w) /\ SameDevices(u, w)
  BY WithDb, Zenon
<1> DEFINE d == [u.device EXCEPT ![type] = n]
<1>2. v = [u EXCEPT !.device = d, !.keys = key] BY Zenon DEF Told, SetDb
<1> HIDE DEF u
<1>4. d \in [Devices -> Nat] BY <1>1, Zenon DEF Worlds
<1>5. d = [u.device EXCEPT ![type] = n] BY Zenon
<1> HIDE DEF d
<1>3. v \in Worlds /\ v.ks = u.ks /\ v.keys = key /\ SameTables(v, u)
      /\ v.device = [u.device EXCEPT ![type] = n]
  BY <1>1, <1>2, <1>4, <1>5, Zenon DEF Worlds, SameTables
<1> QED BY <1>1, <1>3, Zenon DEF SameSession, SameTables, SameDevices

(* A device is told a key, 0 when it may not have taken it.                *)
LEMMA SessionDevice ==
  ASSUME NEW w0, NEW id, NEW ki, NEW w \in Session(w0, id, ki), NEW x \in Databases,
         NEW type \in Devices, NEW n \in Nat, NEW key \in Nat,
         DbOk(x, w, id, ki), x.ratchet = w.ks.db.ratchet,
         \A t \in Devices \ {type} : Unrevoked(x, t) \subseteq Unrevoked(w.ks.db, t),
         n # 0 => \A kc \in Unrevoked(x, type) : kc.key = n,
         NEW v, v = Told(w, x, type, n, key)
  PROVE  /\ v \in Session(w0, id, ki) /\ v.ks.db = x /\ v.ks.file = w.ks.file
         /\ SameSession(v, w)
<1>1. w \in Worlds /\ Good(w, id, ki) /\ SameTables(w, w0) /\ SameSession(w, w0)
      /\ w.ks.db # None /\ w.ks.master_key # None
      /\ w.ks.db.ratchet = w0.ks.db.ratchet /\ HeldBy(w.device, w.ks.db)
  BY Zenon DEF Session
<1>2. /\ v \in Worlds /\ v.ks.db = x /\ v.ks.file = w.ks.file
      /\ v.device = [w.device EXCEPT ![type] = n]
      /\ SameSession(v, w) /\ SameTables(v, w)
  <2>1. x \in Databases \union {None} BY Zenon
  <2> QED BY <1>1, <2>1, WithDevice, SMT
<1>3. x # None BY NoneApart, Zenon
<1>4. DbOk(x, v, id, ki) BY <1>2, DbOkSame, Zenon
<1>5. w.ks.file.state = "whole" => DbOk(w.ks.file.content, v, id, ki)
  BY <1>1, <1>2, DbOkSame, Zenon DEF Good
<1>6. v.ks.file.state # "absent" BY <1>1, <1>2, Zenon DEF Good
<1>7. Good(v, id, ki) BY <1>2, <1>4, <1>5, <1>6, Zenon DEF Good
<1>8. w.device \in [Devices -> Nat] BY <1>1, Zenon DEF Worlds
<1>9. HeldBy(v.device, x) BY <1>1, <1>2, <1>8, Zenon DEF HeldBy
<1> QED BY <1>1, <1>2, <1>3, <1>7, <1>9, Zenon DEF Session, SameTables, SameSession

(* Calls in a row.                                                         *)
LEMMA ToldSame ==
  ASSUME NEW w \in Worlds, NEW type \in Devices, NEW n
  PROVE  [w EXCEPT !.device[type] = n] = Told(w, w.ks.db, type, n, w.keys)
<1>1. w.ks = [w.ks EXCEPT !.db = w.ks.db] BY Zenon DEF Worlds, Keystores
<1> QED BY <1>1, Zenon DEF Worlds, Told

LEMMA ToldTwice ==
  ASSUME NEW w \in Worlds, NEW x, NEW type \in Devices, NEW n, NEW m, NEW key,
         NEW u, u = [w EXCEPT !.device[type] = m]
  PROVE  Told(u, x, type, n, key) = Told(w, x, type, n, key)
<1> DEFINE d == w.device
<1>1. [[d EXCEPT ![type] = m] EXCEPT ![type] = n] = [d EXCEPT ![type] = n]
  BY Zenon DEF Worlds
<1> QED BY <1>1, Zenon DEF Worlds, Told

(* The Key C of a device, recorded in x instead of the old ones.           *)
LEMMA InsertKeyC ==
  ASSUME NEW w, NEW id, NEW ki, NEW x \in Databases, DbOk(x, w, id, ki),
         NEW type \in Devices, Unrevoked(x, type) = {},
         NEW kc \in [type : Devices, key : Nat, expires_at : Nat], kc.type = type,
         NEW y, y = insert_key_c(x, kc)
  PROVE  /\ y \in Databases /\ DbOk(y, w, id, ki) /\ y.ratchet = x.ratchet
         /\ y.key_a = x.key_a /\ Unrevoked(y, type) = {kc}
         /\ \A t \in Devices \ {type} : Unrevoked(y, t) = Unrevoked(x, t)
<1>1. /\ y \in Databases /\ y.ratchet = x.ratchet /\ y.key_a = x.key_a
      /\ y.key_c = x.key_c \union {kc} /\ y.key_b = x.key_b /\ y.sender = x.sender
      /\ y.prekeys = x.prekeys
  BY Zenon DEF Databases, insert_key_c
<1>2. Unrevoked(y, type) = {kc} BY <1>1, Zenon DEF Unrevoked
<1>3. \A t \in Devices \ {type} : Unrevoked(y, t) = Unrevoked(x, t)
  BY <1>1, Zenon DEF Unrevoked
<1>4. \A k, l \in y.key_c : k.type = l.type => k = l
  BY <1>1, Zenon DEF Unrevoked, DbOk
<1>5. DbOk(y, w, id, ki)
  BY <1>1, <1>4, Zenon DEF DbOk, Stocks, KeysIn, get_key_b, get_sender_key
<1> QED BY <1>1, <1>2, <1>3, <1>5, Zenon

(* provision stays in the session.                                         *)
LEMMA Provision ==
  ASSUME NEW w0, NEW id, NEW ki, NEW w \in Session(w0, id, ki), NEW type, NEW answers,
         now \in Nat, NEW p, p = provision(w, type, answers)
  PROVE  p \in Seq(Session(w0, id, ki)) /\ Follows(End(w, p), w)
<1> DEFINE key  == w.keys + 1
           sent == [w EXCEPT !.device[type] = 0]
           x    == w.ks.db
           kc   == KeyC(type, key)
           y    == insert_key_c(x, kc)
           full == [sent EXCEPT !.ks.db = insert_key_c(@, kc),
                                !.device[type] = key, !.keys = key]
           S    == Session(w0, id, ki)
<1>1. w \in Worlds /\ DbOk(x, w, id, ki) /\ x \in Databases /\ HeldBy(w.device, x)
  BY Zenon DEF Session, Good, Worlds, Keystores
<1>2. Follows(w, w) BY Zenon DEF Follows, SameSession
<1>3. CASE type \notin Devices \/ Unrevoked(x, type) # {}
  <2>1. p = << >> BY <1>3, Zenon DEF provision
  <2> QED BY <1>2, <2>1, EmptySeq, Zenon DEF End
<1>4. CASE type \in Devices /\ Unrevoked(x, type) = {}
  <2>1. sent = Told(w, x, type, 0, w.keys) BY <1>1, <1>4, ToldSame, Zenon
  <2>2. sent.ks.db = x BY <1>1, Zenon DEF Worlds
  <2>3. full = Told(w, y, type, key, key)
    <3>1. full = Told(sent, y, type, key, key)
      <4> HIDE DEF sent
      <4> QED BY <2>2, Zenon DEF Told
    <3>2. Told(sent, y, type, key, key) = Told(w, y, type, key, key)
      <4>1. sent = [w EXCEPT !.device[type] = 0] BY Zenon
      <4> HIDE DEF sent, y, key
      <4> QED BY <1>1, <1>4, <4>1, ToldTwice
    <3> QED BY <3>1, <3>2, Zenon
  <2>4. key \in Nat /\ key # 0 /\ w.keys \in Nat BY <1>1 DEF Worlds
  <2>5. kc \in [type : Devices, key : Nat, expires_at : Nat] /\ kc.type = type
        /\ kc.key = key
    BY <1>4, <2>4, ClientAssumption DEF KeyC
  <2> HIDE DEF x, y, kc, sent, full, key, S
  <2>6. /\ y \in Databases /\ DbOk(y, w, id, ki) /\ y.ratchet = x.ratchet
        /\ y.key_a = x.key_a /\ Unrevoked(y, type) = {kc}
        /\ \A t \in Devices \ {type} : Unrevoked(y, t) = Unrevoked(x, t)
    BY <1>1, <1>4, <2>5, InsertKeyC, SMT DEF y
  <2>7. sent \in S /\ sent.ks.db = x /\ sent.ks.file = w.ks.file
        /\ SameSession(sent, w)
    BY <1>1, <1>4, <2>1, <2>4, SessionDevice, SMT DEF x, S
  <2>8. full \in S /\ full.ks.db = y /\ full.ks.file = w.ks.file
        /\ SameSession(full, w)
    BY <1>1, <1>4, <2>3, <2>4, <2>5, <2>6, SessionDevice, SMT DEF x, S
  <2>9. Follows(sent, w) /\ Follows(full, w)
    BY <2>6, <2>7, <2>8, Zenon DEF Follows, x
  <2>10. CASE type \notin answers
    <3>1. p = Cat(<<sent>>, << >>)
      BY <1>4, <2>10, Zenon DEF provision, x, sent, Cat
    <3>2. p = <<sent>> BY <3>1 DEF Cat
    <3> QED BY <2>7, <2>9, <3>2, Singleton, SMT DEF End, S, Path
  <2>11. CASE type \in answers
    <3>1. p = Cat(<<sent>>, <<full>>)
      BY <1>4, <2>11, Zenon DEF provision, Cat, x, sent, full, kc, key
    <3>3. Path(p, S) /\ Last(p) = full
      BY <2>7, <2>8, <3>1, TwoSteps, SMT
    <3> QED BY <2>9, <3>3, Zenon DEF End, S, Path
  <2> QED BY <2>10, <2>11, Zenon
<1> QED BY <1>3, <1>4, Zenon DEF x

(* The Key C of one device has not expired.                                *)
FreshFor(x, type) == \A kc \in Unrevoked(x, type) : kc.expires_at > now

(* renew stays in the session and leaves the device a fresh Key C.         *)
LEMMA Renew ==
  ASSUME NEW w0, NEW id, NEW ki, NEW w \in Session(w0, id, ki), NEW type, NEW answers,
         now \in Nat, NEW p, p = renew(w, type, answers)
  PROVE  /\ p \in Seq(Session(w0, id, ki)) /\ Follows(End(w, p), w)
         /\ End(w, p) \in Session(w0, id, ki)
         /\ FreshFor(End(w, p).ks.db, type)
         /\ \A t \in Devices \ {type} :
              Unrevoked(End(w, p).ks.db, t) = Unrevoked(w.ks.db, t)
<1> DEFINE x == w.ks.db
           S == Session(w0, id, ki)
<1>1. w \in Worlds /\ DbOk(x, w, id, ki) /\ x \in Databases /\ HeldBy(w.device, x)
  BY Zenon DEF Session, Good, Worlds, Keystores
<1>2. Follows(w, w) BY Zenon DEF Follows, SameSession
<1>3. \A kc \in x.key_c : kc.type \in Devices /\ kc.expires_at \in Nat
  BY <1>1, Zenon DEF Databases
<1>4. CASE Expiring(x, type) = {}
  <2>1. p = << >> BY <1>4, Zenon DEF renew
  <2>2. FreshFor(x, type)
    BY <1>3, <1>4, ClientAssumption DEF Expiring, FreshFor, Unrevoked
  <2> QED BY <1>2, <2>1, <2>2, EmptySeq, Zenon DEF End
<1>5. CASE Expiring(x, type) # {}
  <2> DEFINE key  == w.keys + 1
             sent == Renewed(w, type, answers, key)
             old  == CHOOSE kc \in Expiring(x, type) : TRUE
             kc   == KeyC(type, key)
             z    == revoke_key_c(x, old)
             y    == insert_key_c(z, kc)
             n    == IF type \in answers THEN key ELSE 0
             full == [sent EXCEPT !.ks.db = insert_key_c(revoke_key_c(@, old), kc)]
  <2>1. old \in x.key_c /\ old.type = type /\ type \in Devices
    BY <1>3, <1>5, Zenon DEF Expiring, Unrevoked
  <2>2. p = <<full>> BY <1>5, Zenon DEF renew
  <2>3. key \in Nat /\ key # 0 /\ w.keys \in Nat BY <1>1 DEF Worlds
  <2>4. kc \in [type : Devices, key : Nat, expires_at : Nat] /\ kc.type = type
        /\ kc.key = key /\ kc.expires_at > now
    BY <2>1, <2>3, ClientAssumption DEF KeyC
  <2>5. sent = Renewed(w, type, answers, key) BY Zenon
  <2> HIDE DEF x, key, kc, sent, old, S
  <2>6. full = Told(w, y, type, n, key)
    <3>1. sent.ks.db = x BY <1>1, <2>5, Zenon DEF x, Renewed, Worlds
    <3>2. full = [sent EXCEPT !.ks.db = y] BY <3>1, Zenon
    <3> HIDE DEF full, y
    <3> QED BY <1>1, <2>1, <2>5, <3>2, Zenon DEF Worlds, Told, Renewed
  <2>7. /\ z \in Databases /\ DbOk(z, w, id, ki) /\ z.ratchet = x.ratchet
        /\ z.key_a = x.key_a /\ z.key_c = x.key_c \ {old}
    BY <1>1, RevokeKeyC, SMT
  <2>8. Unrevoked(z, type) = {} BY <1>1, <2>1, <2>7, Zenon DEF DbOk, Unrevoked
  <2>9. \A t \in Devices \ {type} : Unrevoked(z, t) = Unrevoked(x, t)
    BY <2>1, <2>7, Zenon DEF Unrevoked
  <2> HIDE DEF z
  <2>10. /\ y \in Databases /\ DbOk(y, w, id, ki) /\ y.ratchet = z.ratchet
         /\ y.key_a = z.key_a /\ Unrevoked(y, type) = {kc}
         /\ \A t \in Devices \ {type} : Unrevoked(y, t) = Unrevoked(z, t)
    BY <2>1, <2>4, <2>7, <2>8, InsertKeyC, SMT
  <2>11. n \in Nat /\ (n # 0 => \A k \in Unrevoked(y, type) : k.key = n)
    BY <2>3, <2>4, <2>10, Zenon
  <2> HIDE DEF y, n, full
  <2>12. full \in S /\ full.ks.db = y /\ full.ks.file = w.ks.file
         /\ SameSession(full, w)
    BY <1>1, <2>1, <2>3, <2>6, <2>7, <2>9, <2>10, <2>11, SessionDevice, SMT DEF x, S
  <2>13. Follows(full, w) BY <2>7, <2>10, <2>12, Zenon DEF Follows, x
  <2>14. FreshFor(y, type) BY <2>4, <2>10, Zenon DEF FreshFor
  <2>15. p \in Seq(S) /\ End(w, p) = full
    BY <2>2, <2>12, Singleton, SMT DEF End, Path
  <2> QED BY <2>9, <2>10, <2>12, <2>13, <2>14, <2>15, Zenon DEF S, x
<1> QED BY <1>4, <1>5, Zenon

(* check_renew_key_c leaves every device a fresh Key C.                    *)
LEMMA CheckRenew ==
  ASSUME NEW w0, NEW id, NEW ki, NEW w \in Session(w0, id, ki), NEW answers,
         now \in Nat, NEW p, p = check_renew_key_c(w, answers)
  PROVE  /\ Path(p, Session(w0, id, ki)) /\ Follows(Last(p), w)
         /\ Last(p) \in Session(w0, id, ki) /\ Fresh(Last(p).ks.db)
<1> DEFINE S == Session(w0, id, ki)
           a == renew(w, "inbox", answers)
           q == Cat(<<w>>, a)
           v == Last(q)
           b == renew(v, "outbox", answers)
<1>1. p = Cat(q, b) BY Zenon DEF check_renew_key_c, Then, Cat
<1>2. a \in Seq(S) /\ Follows(End(w, a), w) /\ FreshFor(End(w, a).ks.db, "inbox")
  BY Renew, SMT
<1>a. a = renew(w, "inbox", answers) /\ q = Cat(<<w>>, a) BY Zenon
<1> HIDE DEF S, a, q
<1>3. Path(q, S) /\ v = End(w, a) /\ v \in S
  BY <1>2, <1>a, Started, EndsIn, SMT DEF S
<1>4. b = renew(v, "outbox", answers) BY Zenon
<1> HIDE DEF v, b
<1>5. b \in Seq(S) /\ Follows(End(v, b), v) /\ FreshFor(End(v, b).ks.db, "outbox")
      /\ \A t \in Devices \ {"outbox"} :
           Unrevoked(End(v, b).ks.db, t) = Unrevoked(v.ks.db, t)
  BY <1>3, <1>4, Renew, SMT DEF S
<1>6. Path(p, S) /\ Last(p) = End(v, b) /\ Last(p) \in S
  BY <1>1, <1>3, <1>5, Continued, EndsIn, SMT DEF v
<1>7. Follows(Last(p), w) BY <1>2, <1>3, <1>5, <1>6, FollowsTransitive, Zenon
<1>8. \A kc \in Last(p).ks.db.key_c : kc.type \in Devices
  BY <1>6 DEF S, Session, Worlds, Keystores, Databases
<1>9. Fresh(Last(p).ks.db)
  BY <1>2, <1>3, <1>5, <1>6, <1>8, ClientAssumption DEF Fresh, FreshFor, Unrevoked
<1> QED BY <1>6, <1>7, <1>9, Zenon DEF S

(* provision_devices stays in the session and saves it.                    *)
LEMMA ProvisionDevices ==
  ASSUME NEW w0, NEW id, NEW ki, NEW w \in Session(w0, id, ki), NEW answers,
         now \in Nat, NEW p, p = provision_devices(w, answers)
  PROVE  /\ Path(p, Session(w0, id, ki)) /\ Follows(Last(p), w)
         /\ Last(p) \in Session(w0, id, ki) /\ Wrote(Last(p))
<1> DEFINE S == Session(w0, id, ki)
           a == provision(w, "inbox", answers)
           q == Cat(<<w>>, a)
           v == Last(q)
           b == provision(v, "outbox", answers)
           r == Cat(q, b)
           u == Last(r)
           c == Saved(u)
<1>1. p = Cat(r, c) BY Zenon DEF provision_devices, Then, Cat
<1>2. a \in Seq(S) /\ Follows(End(w, a), w) BY Provision, SMT
<1>a. q = Cat(<<w>>, a) BY Zenon
<1> HIDE DEF S, a, q
<1>3. Path(q, S) /\ v = End(w, a) /\ v \in S
  BY <1>2, <1>a, Started, EndsIn, SMT DEF S
<1>4. v = Last(q) /\ b = provision(v, "outbox", answers) BY Zenon
<1> HIDE DEF v, b
<1>5. b \in Seq(S) /\ Follows(End(v, b), v)
  BY <1>3, <1>4, Provision, SMT DEF S
<1>6. r = Cat(q, b) BY Zenon
<1> HIDE DEF r
<1>7. Path(r, S) /\ u = End(v, b) /\ u \in S
  <2>1. Path(q, S) /\ b \in Seq(S) BY <1>3, <1>5, Zenon
  <2> QED BY <2>1, <1>6, Continued, EndsIn, SMT DEF v
<1>8. u = Last(r) /\ c = Saved(u) BY Zenon
<1> HIDE DEF u, c
<1>9. Path(c, S) /\ Wrote(Last(c)) /\ Follows(Last(c), u)
  BY <1>7, <1>8, SavedPath, Zenon DEF S
<1>10. Path(p, S) /\ Last(p) \in S
  BY <1>1, <1>7, <1>9, Extended, EndsIn, SMT
<1>11. Last(p) = Last(c) BY <1>1, <1>7, <1>9, Extended, EndsIn, SMT
<1>12. Follows(Last(p), w)
  BY <1>2, <1>3, <1>5, <1>7, <1>9, <1>11, FollowsTransitive, Zenon
<1> QED BY <1>9, <1>10, <1>11, <1>12, Zenon DEF S

(* The services of a session.                                              *)
LEMMA ConnectServices ==
  ASSUME NEW w0, NEW id, NEW ki, NEW w \in Session(w0, id, ki), NEW answers,
         now \in Nat, NEW p, p = connect_services(w, answers)
  PROVE  /\ Path(p, Session(w0, id, ki)) /\ Follows(Last(p), w)
         /\ Last(p) \in Session(w0, id, ki) /\ Wrote(Last(p))
         /\ Fresh(Last(p).ks.db)
<1> DEFINE S == Session(w0, id, ki)
           a == provision_devices(w, answers)
           v == Last(a)
           b == check_renew_key_c(v, answers)
           q == Cat(a, b)
           u == Last(q)
           c == replenish_prekeys(u)
<1>1. p = Cat(q, c) BY Zenon DEF connect_services, Then, Cat
<1>2. Path(a, S) /\ Follows(v, w) /\ v \in S /\ Wrote(v)
  BY ProvisionDevices, SMT
<1>3. b = check_renew_key_c(v, answers) /\ q = Cat(a, b) BY Zenon
<1> HIDE DEF S, b, q
<1>4. Path(b, S) /\ Follows(Last(b), v) /\ Fresh(Last(b).ks.db)
  <2> HIDE DEF v
  <2> QED BY <1>2, <1>3, CheckRenew, SMT DEF S
<1>5. Path(q, S) /\ u = Last(b) /\ u \in S
  BY <1>2, <1>3, <1>4, Extended, EndsIn, SMT
<1>6. c = replenish_prekeys(u) BY Zenon
<1> HIDE DEF a, v, c
<1>7. Path(c, S) /\ Follows(Last(c), u) /\ Restocked(Last(c), u)
  <2> HIDE DEF u
  <2> QED BY <1>5, <1>6, Replenish, SMT DEF S
<1>8. Path(p, S) /\ Last(p) = Last(c) /\ Last(p) \in S
  BY <1>1, <1>5, <1>7, Extended, EndsIn, SMT
<1> HIDE DEF u
<1>9. Follows(Last(p), v)
  BY <1>4, <1>5, <1>7, <1>8, FollowsTransitive, Zenon
<1>10. Follows(Last(p), w) BY <1>2, <1>9, FollowsTransitive, Zenon
<1>11. Wrote(Last(p)) BY <1>2, <1>9, Zenon DEF Wrote, Follows, SameSession
<1>12. Fresh(Last(p).ks.db) BY <1>4, <1>5, <1>7, <1>8, Zenon DEF Fresh, Restocked
<1> QED BY <1>8, <1>10, <1>11, <1>12, Zenon DEF S

(* A keystore that was opened makes a session.                             *)
LEMMA OpenedSession ==
  ASSUME NEW id, NEW ki, NEW w \in Worlds, Good(w, id, ki), w.ks.db = None, Held(w),
         NEW e \in Opening(w.ks), Opened(e, w.ks), e.db # None, e.master_key # None,
         NEW v, v = SetKs(w, e)
  PROVE  v \in Session(v, id, ki) /\ v.ks = e /\ SameTables(v, w)
<1>1. v \in Worlds /\ v.ks = e /\ SameTables(v, w) /\ SameDevices(v, w)
      /\ Good(v, id, ki)
  BY OpeningGood, Zenon DEF Tabled
<1>2. CASE w.ks.file.state = "absent" /\ e.db = Schema
  <2>1. HeldBy(v.device, e.db) BY <1>2, SchemaIsDatabase, Zenon DEF HeldBy, Unrevoked
  <2> QED BY <1>1, <2>1, Zenon DEF Session, SameTables, SameSession
<1>3. CASE w.ks.file.state = "whole" /\ e.file = w.ks.file
  <2>1. e.db = w.ks.file.content BY <1>3, Zenon DEF Opened
  <2>2. HeldBy(w.device, w.ks.file.content) BY <1>3, Zenon DEF Held, Live, Cur
  <2> QED BY <1>1, <2>1, <2>2, Zenon DEF Session, SameTables, SameSession, SameDevices
<1> QED BY <1>2, <1>3, Zenon DEF Opened

(* A refused unlock leaves everything but the salt.                        *)
RefusedAt(v, w) ==
  /\ v.ks.db = None /\ v.ks.master_key = None /\ v.ks.file = w.ks.file
  /\ SameDevices(v, w) /\ w.ks.file.state # "absent"

(* The path of an unlock.                                                  *)
Unlocks(p, w, id, ki, typed) ==
  /\ Path(p, Tabled(w, id, ki))
  /\ w.ks.salt # NoSalt => Last(p).ks.salt = w.ks.salt
  /\ RefusedAt(Last(p), w) \/ UnlockedTo(Last(p), w, typed)

(* Client::unlock takes one.                                               *)
LEMMA UnlockPath ==
  ASSUME NEW id, NEW ki, NEW w \in Worlds, Good(w, id, ki), Held(w),
         w.ks.db = None, w.ks.master_key = None, now \in Nat,
         NEW typed \in Passphrases, NEW answers, NEW p, p = Unlocking(w, typed, answers)
  PROVE  Unlocks(p, w, id, ki, typed)
<1> DEFINE k == w.ks
           a == unlock(k, typed)
           e == Last(a)
           b == InKeystore(w, a)
           o == Last(b)
           T == Tabled(w, id, ki)
<1>1. k \in Keystores BY Zenon DEF Worlds
<1>2. /\ Path(a, Opening(k)) /\ e \in Opening(k)
      /\ k.salt # NoSalt => e.salt = k.salt
      /\ \/ Refused(e, k) /\ e.master_key = None
         \/ /\ Opened(e, k) /\ e.db # None
            /\ e.master_key = <<typed, e.salt>>
  BY <1>1, Unlock, SMT DEF Path
<1>3. b = InKeystore(w, a) BY Zenon
<1> HIDE DEF k, a, b, e, T, o
<1>4. \A d \in Opening(k) : SetKs(w, d) \in T /\ SetKs(w, d).ks = d
                            /\ SameDevices(SetKs(w, d), w)
  BY OpeningGood, Zenon DEF k, T
<1>5. Path(b, T) /\ o = SetKs(w, e)
  <2> DEFINE R == Opening(k)
  <2>1. Path(a, R) /\ \A d \in R : SetKs(w, d) \in T BY <1>2, <1>4, Zenon
  <2> HIDE DEF R
  <2> QED BY <1>3, <2>1, KeystorePath, SMT DEF e, o
<1>6. o.ks = e BY <1>2, <1>4, <1>5, Zenon
<1>7. p = IF e.db = None THEN b
          ELSE Cat(Cat(b, ensure_identity(o)),
                   connect_services(Last(Cat(b, ensure_identity(o))), answers))
  BY <1>6, Zenon DEF Unlocking, Then, is_unlocked, Cat, a, b, k, o
<1>8. CASE e.db = None
  <2>1. p = b BY <1>7, <1>8, Zenon
  <2>2. RefusedAt(o, w)
    BY <1>2, <1>4, <1>5, <1>6, <1>8, Zenon DEF Refused, RefusedAt, k
  <2> QED BY <1>2, <1>5, <1>6, <2>1, <2>2, Zenon DEF k, o, T, Unlocks
<1>9. CASE e.db # None
  <2> DEFINE c == ensure_identity(o)
             q == Cat(b, c)
             v == Last(q)
             d == connect_services(v, answers)
             S == Session(o, id, ki)
  <2>1. p = Cat(q, d) BY <1>7, <1>9, Zenon
  <2>2. Opened(e, k) /\ e.master_key = <<typed, e.salt>> /\ e.master_key # None
    <3>1. Opened(e, k) /\ e.master_key = <<typed, e.salt>>
      BY <1>2, <1>9, Zenon DEF Refused
    <3>2. e.file.state = "whole" /\ e.file.key = e.master_key BY <3>1, Zenon DEF Opened
    <3>3. e.file.key \in MasterKeys
      <4>1. e \in Keystores BY <1>2, Zenon DEF Opening
      <4>2. e.file \in Files BY <4>1, SMT DEF Keystores
      <4> QED BY <3>2, <4>2, SMT DEF Files, NoFile, Torn
    <3> QED BY <3>1, <3>2, <3>3, NoneApart, Zenon
  <2>3. o \in S /\ SameTables(o, w)
    BY <1>2, <1>5, <1>9, <2>2, OpenedSession, Zenon DEF k
  <2>4. S \subseteq T BY <2>3, SessionTabled, Zenon DEF T
  <2>5. c = ensure_identity(o) BY Zenon
  <2> HIDE DEF S, c
  <2>6. c \in Seq(S) /\ End(o, c) \in S /\ SameSession(End(o, c), o)
        /\ End(o, c).ks.db.key_a # 0
    BY <2>3, <2>5, EnsureIdentity, Zenon DEF S
  <2>7. c \in Seq(T) BY <2>4, <2>6, SeqMonotonic, Zenon
  <2>8. Path(q, T) /\ v = End(o, c) BY <1>5, <2>7, Continued, SMT DEF o
  <2>a. v \in S /\ v.ks.db.key_a # 0 BY <2>6, <2>8, Zenon
  <2>9. v = Last(q) /\ d = connect_services(v, answers) BY Zenon
  <2> HIDE DEF q, v, d
  <2>10. /\ Path(d, S) /\ Follows(Last(d), v) /\ Last(d) \in S /\ Wrote(Last(d))
         /\ Fresh(Last(d).ks.db)
    BY <2>a, <2>9, ConnectServices, Zenon DEF S
  <2>11. Path(d, T) BY <2>4, <2>10, Wider, Zenon
  <2>b. Path(Cat(q, d), T) /\ Last(Cat(q, d)) = Last(d)
    <3>1. Path(q, T) /\ Path(d, T) BY <2>8, <2>11, Zenon
    <3>2. Path(Cat(q, d), T) BY <3>1, Extended, Zenon
    <3>3. Last(Cat(q, d)) = Last(d) BY <3>1, Extended, SMT
    <3> QED BY <3>2, <3>3, Zenon
  <2>12. Path(p, T) /\ Last(p) = Last(d) BY <2>1, <2>b, Zenon
  <2>13. SameSession(Last(d), o) /\ Last(d).ks.db.key_a # 0
    BY <2>6, <2>8, <2>10, Zenon DEF Follows, SameSession
  <2>14. Last(d).ks.master_key = <<typed, Last(d).ks.salt>>
    BY <1>6, <2>2, <2>13, Zenon DEF SameSession
  <2>15. \/ k.file.state = "absent"
         \/ /\ k.file.state = "whole" /\ k.file.key = Last(d).ks.master_key
            /\ Last(d).ks.db.ratchet = k.file.content.ratchet
    <3>1. Last(d).ks.db.ratchet = e.db.ratchet BY <1>6, <2>10, Zenon DEF S, Session
    <3> QED BY <1>6, <2>2, <2>13, <3>1, Zenon DEF Opened, SameSession
  <2>16. Last(d).ks.db # None /\ HeldBy(Last(d).device, Last(d).ks.db)
    BY <2>10, Zenon DEF S, Session
  <2>17. UnlockedTo(Last(p), w, typed)
    BY <2>10, <2>12, <2>13, <2>14, <2>15, <2>16, Zenon DEF UnlockedTo, k
  <2>18. k.salt # NoSalt => Last(p).ks.salt = k.salt
    BY <1>2, <1>6, <2>12, <2>13, Zenon DEF SameSession
  <2> QED BY <2>12, <2>17, <2>18, Zenon DEF k, T, Unlocks
<1> QED BY <1>8, <1>9, Zenon

(* A refused unlock preserves the invariant.                               *)
LEMMA RefusedStep ==
  ASSUME IInv, up, world.ks.db = None, NEW v \in Tabled(world, identity, kicked),
         RefusedAt(v, world), world.ks.salt # NoSalt => v.ks.salt = world.ks.salt,
         world' = v, sending' = sending, changing' = changing, up' = up,
         now' = now, killed' = killed, cut' = cut, Counted(count'),
         count'.requests = count.requests,
         passphrase' = passphrase, identity' = identity, kicked' = kicked,
         raced' = (raced \/ (changing # None /\ v.ks.file # world.ks.file))
  PROVE  IInv'
<1>1. Types' BY Zenon DEF IInv, Types
<1>2. Good(v, identity, kicked) /\ SameTables(v, world) BY Zenon DEF Tabled
<1>3. FramesOk(v, killed) BY <1>2, Zenon DEF IInv, FramesOk, SameTables, HasRow
<1>4. RowsOk(v, count.requests) BY <1>2, Zenon DEF IInv, RowsOk, SameTables
<1>5. Held(v) /\ Used(v, killed)
  BY <1>2, Zenon DEF RefusedAt, IInv, Steady, Held, Used, Live, Cur, SameTables, SameDevices
<1>6. Steady' BY <1>5, Zenon DEF RefusedAt, IInv, Steady, is_unlocked
<1>7. sending = {} BY Zenon DEF IInv, SendsOk, Unlocked, is_unlocked
<1>8. SendsOk' BY <1>7, Zenon DEF SendsOk
<1>9. Opens'
  <2> SUFFICES ASSUME ~cut', ~raced' PROVE Opens' BY Zenon DEF Opens
  <2>1. ~cut /\ ~raced BY Zenon
  <2>2. /\ world.ks.file.state = "whole" => v.ks.salt = world.ks.salt
        /\ changing # None => v.ks.salt = world.ks.salt
    BY <2>1, SaltKept, Zenon
  <2> QED BY <2>1, <2>2, Zenon DEF IInv, Opens, RefusedAt, is_unlocked
<1> QED BY <1>1, <1>2, <1>3, <1>4, <1>6, <1>8, <1>9, Zenon DEF IInv

(* So does every unlock, wherever it is killed.                            *)
LEMMA UnlockStep ==
  ASSUME IInv, NEW typed \in Passphrases, NEW answers \in Answers,
         session_unlock(typed, answers)
  PROVE  IInv'
<1> DEFINE p == Unlocking(world, typed, answers)
           v == Last(p)
           T == Tabled(world, identity, kicked)
<1>1. /\ up /\ world.ks.db = None /\ Call(answers)
      /\ \/ /\ Completes(p)
            /\ passphrase' = IF world.ks.file.state = "absent" THEN typed ELSE passphrase
            /\ identity' = IF v.ks.db # None /\ identity = 0 THEN v.ks.db.key_a ELSE identity
            /\ UNCHANGED <<up, sending, changing, kicked>>
         \/ DiesIn(p)
  BY Zenon DEF session_unlock, is_unlocked, get_key_a
<1>2. /\ world \in Worlds /\ Good(world, identity, kicked) /\ Held(world)
      /\ world.ks.master_key = None
  BY <1>1, Zenon DEF IInv, Good, Steady
<1>3. now \in Nat /\ Counted(count) /\ count.requests \in Nat BY DEF IInv, Types, Counted
<1>4. Counted(count') /\ count'.requests = count.requests BY <1>1, <1>3, Spent, Zenon
<1>5. p = Unlocking(world, typed, answers) BY Zenon
<1> HIDE DEF p
<1>a. world.ks.db = None /\ now \in Nat BY <1>1, <1>3, Zenon
<1>6. /\ Path(p, T)
      /\ world.ks.salt # NoSalt => v.ks.salt = world.ks.salt
      /\ RefusedAt(v, world) \/ UnlockedTo(v, world, typed)
  <2>1. Unlocks(p, world, identity, kicked, typed) BY <1>2, <1>a, <1>5, UnlockPath, Zenon
  <2> QED BY <2>1, Zenon DEF Unlocks
<1>7. v \in T BY <1>6, EndsIn, Zenon
<1> HIDE DEF v
<1>8. CASE DiesIn(p)
  <2>1. count'.requests >= count.requests BY <1>3, <1>4
  <2>2. \A u \in T : Fit(u, count'.requests) BY <1>4, <2>1, TablesFit, Zenon
  <2> QED BY <1>4, <1>6, <1>8, <2>2, DiesStep, Zenon
<1>9. CASE /\ Completes(p)
           /\ passphrase' = IF world.ks.file.state = "absent" THEN typed ELSE passphrase
           /\ identity' = IF v.ks.db # None /\ identity = 0 THEN v.ks.db.key_a ELSE identity
           /\ UNCHANGED <<up, sending, changing, kicked>>
  <2>1. /\ world' = v /\ sending' = sending /\ changing' = changing /\ up' = up
        /\ now' = now /\ killed' = killed /\ cut' = cut /\ kicked' = kicked
        /\ raced' = (raced \/ (changing # None /\ v.ks.file # world.ks.file))
    BY <1>9, Zenon DEF Completes, v
  <2>2. CASE RefusedAt(v, world)
    <3>1. passphrase' = passphrase /\ identity' = identity
      BY <1>9, <2>2, Zenon DEF RefusedAt
    <3> QED BY <1>1, <1>4, <1>6, <1>7, <2>1, <2>2, <3>1, RefusedStep, Zenon
  <2>3. CASE UnlockedTo(v, world, typed)
    <3>1. /\ passphrase' = (IF world.ks.file.state = "absent" THEN typed ELSE passphrase)
          /\ identity' = (IF identity = 0 THEN v.ks.db.key_a ELSE identity)
      BY <1>9, <2>3, Zenon DEF UnlockedTo
    <3> QED BY <1>1, <1>4, <1>6, <1>7, <2>1, <2>3, <3>1, UnlockedStep, Zenon
  <2> QED BY <1>6, <2>2, <2>3, Zenon
<1> QED BY <1>1, <1>8, <1>9, Zenon

(* The renewal thread.                                                     *)
LEMMA RenewStep ==
  ASSUME IInv, NEW answers \in Answers, cert_renew_loop(answers)
  PROVE  IInv'
<1> DEFINE S == Session(world, identity, kicked)
           a == check_renew_key_c(world, answers)
           v == Last(a)
           b == replenish_prekeys(v)
           p == Cat(a, b)
<1>1. Unlocked /\ Call(answers) /\ Handler(p)
  BY Zenon DEF cert_renew_loop, Then, Cat
<1>2. world \in S /\ now \in Nat /\ Counted(count) /\ count.requests \in Nat
  BY <1>1, InSession, Zenon
<1>3. Counted(count') /\ count'.requests >= count.requests
  BY <1>1, <1>2, Spent
<1>4. Path(a, S) /\ Follows(v, world) /\ v \in S /\ Fresh(v.ks.db)
  BY <1>2, CheckRenew, SMT
<1>5. b = replenish_prekeys(v) /\ p = Cat(a, b) /\ v = Last(a) BY Zenon
<1> HIDE DEF a, b, v, p, S
<1>6. Path(b, S) /\ Last(b) \in S /\ Follows(Last(b), v) /\ Restocked(Last(b), v)
  BY <1>4, <1>5, Replenish, SMT DEF S
<1>7. Path(p, S) /\ Last(p) = Last(b) BY <1>4, <1>5, <1>6, Extended, SMT
<1>8. Follows(Last(p), world) BY <1>4, <1>6, <1>7, FollowsTransitive, Zenon
<1>9. Fresh(Last(p).ks.db) BY <1>4, <1>6, <1>7, Zenon DEF Fresh, Restocked
<1> QED BY <1>1, <1>3, <1>7, <1>8, <1>9, SessionStep, Zenon DEF S
=============================================================================
