------------------------------ MODULE Keystore ------------------------------
(***************************************************************************)
(* The client's keystore (keystore.cpp): an SQLite database in memory that *)
(* is written to a file encrypted under a key derived from the passphrase  *)
(* and a salt, which has a file of its own.                                *)
(*                                                                         *)
(* Each method is an operator from a keystore to the sequence of keystores *)
(* it passes through; the last one is its result, and a process killed on  *)
(* the way leaves the salt and the file of one of the others.  A file that *)
(* is being written is truncated first, and what is in it before the end   *)
(* of the write cannot be decrypted.  An empty salt file is read as a salt *)
(* of zeros.                                                               *)
(***************************************************************************)
EXTENDS Integers, Sequences, Functions

CONSTANTS Contacts,     \* contacts; one also names the conversation with it
          Groups,       \* groups, servers and server channels
          None          \* an empty optional, a null pointer

Relationships == Contacts \union Groups

(* Where a path ends.                                                      *)
Last(path) == path[Len(path)]

(* The tables.  key_b holds the relationships that have a Key B, in the    *)
(* order of their rows, prekeys the ones with a stock of prekeys, key_c    *)
(* the records that are not revoked, ratchet the number of messages        *)
(* encrypted in a conversation, sender the generation of our sender key in *)
(* a group; -1 is the missing row.                                         *)
Schema ==
  [key_a |-> 0, key_b |-> << >>, prekeys |-> {}, key_c |-> {},
   ratchet |-> [c \in Contacts |-> -1], sender |-> [g \in Groups |-> -1]]

NoSalt   == -1
ZeroSalt == 0

NoFile == [state |-> "absent", key |-> None, content |-> None]
Torn   == [state |-> "torn", key |-> None, content |-> None]

NewKeystore ==
  [db |-> None, master_key |-> None, salt |-> NoSalt, salts |-> 0,
   file |-> NoFile]

(* What is left in memory and on disk when the process ends.               *)
Ended(k) == [k EXCEPT !.db = None, !.master_key = None]

is_unlocked(k) == k.db # None

-----------------------------------------------------------------------------
derive_key(k) ==
  IF k.salt # NoSalt THEN <<k>>
  ELSE <<[k EXCEPT !.salt = ZeroSalt],
         [k EXCEPT !.salt = k.salts + 1, !.salts = @ + 1]>>

write_to_disk(k, key) ==
  <<[k EXCEPT !.file = Torn],
    [k EXCEPT !.file = [state |-> "whole", key |-> key, content |-> k.db]]>>

save(k) ==
  IF k.db = None \/ k.master_key = None THEN <<k>>
  ELSE write_to_disk(k, k.master_key)

(* The keystore can be read with this key.                                 *)
Decrypts(k, key) == k.file.state = "whole" /\ k.file.key = key

\* Mutant: a file too short to be read counts as a first launch.
load_from_diskAnew(k, key) ==
  CASE k.file.state # "whole" -> write_to_disk([k EXCEPT !.db = Schema], key)
    [] Decrypts(k, key)       -> <<[k EXCEPT !.db = k.file.content]>>
    [] OTHER                  -> <<k>>

(* On a first launch an empty database is written at once.                 *)
load_from_disk(k, key) ==
  CASE k.file.state = "absent" -> write_to_disk([k EXCEPT !.db = Schema], key)
    [] Decrypts(k, key)        -> <<[k EXCEPT !.db = k.file.content]>>
    [] OTHER                   -> <<k>>

unlock(k, passphrase) ==
  LET derived == derive_key(k)
      key     == <<passphrase, Last(derived).salt>>
      loaded  == load_from_disk(Last(derived), key)
  IN  derived \o loaded
      \o (IF is_unlocked(Last(loaded))
          THEN <<[Last(loaded) EXCEPT !.master_key = key]>> ELSE << >>)

\* Mutant: the master key stays in memory.
lockKeeping(k) == save(k) \o <<[Last(save(k)) EXCEPT !.db = None]>>

lock(k) == save(k) \o <<Ended(Last(save(k)))>>

(* The key of the new file is assigned to master_key by the caller's next  *)
(* step.                                                                   *)
change_passphrase(k, new) ==
  LET bare    == [k EXCEPT !.salt = NoSalt]
      derived == derive_key(bare)
      key     == <<new, Last(derived).salt>>
  IN  <<bare>> \o derived \o write_to_disk(Last(derived), key)

-----------------------------------------------------------------------------
(* Rows of the tables.                                                     *)

get_key_a(db)              == db.key_a
set_key_a(db, k)           == [db EXCEPT !.key_a = k]
get_key_b(db, r)           == r \in Range(db.key_b)
list_key_b(db)             == db.key_b
insert_key_b(db, r)        ==
  IF get_key_b(db, r) THEN db ELSE [db EXCEPT !.key_b = Append(@, r)]
insert_key_c(db, kc)       == [db EXCEPT !.key_c = @ \union {kc}]
revoke_key_c(db, kc)       == [db EXCEPT !.key_c = @ \ {kc}]
Unrevoked(db, type)        == {kc \in db.key_c : kc.type = type}
HasPrekeys(db, r)          == r \in db.prekeys
insert_prekeys(db, rs)     == [db EXCEPT !.prekeys = @ \union rs]
get_ratchet_state(db, c)   == db.ratchet[c]
set_ratchet_state(db, c, n) == [db EXCEPT !.ratchet[c] = n]
get_sender_key(db, g)      == db.sender[g]
set_sender_key(db, g, n)   == [db EXCEPT !.sender[g] = n]
=============================================================================
