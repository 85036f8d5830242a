---------------------------- MODULE MessageStore ----------------------------
(***************************************************************************)
(* The client's message store (store.cpp): SQLite tables on disk, where    *)
(* every statement is durable.  Its methods are operators on a record w    *)
(* that has the tables among its fields: contacts and groups give a row's  *)
(* status and type, "none" without a row, conversations are the rows       *)
(* themselves, and deleted keeps the numbers of deleted messages.          *)
(***************************************************************************)
EXTENDS Integers, FiniteSets, FiniteSetsExt

(* A table of contacts or groups without rows.                             *)
NoRows(ids) == [i \in ids |-> "none"]

get_conversation(w, r)    == r \in w.conversations
upsert_conversation(w, r) == [w EXCEPT !.conversations = @ \union {r}]

get_contact(w, c)    == w.contacts[c] # "none"
insert_contact(w, c) ==
  IF get_contact(w, c) THEN w ELSE [w EXCEPT !.contacts[c] = "pending"]
set_contact_status(w, c, status) ==
  IF get_contact(w, c) THEN [w EXCEPT !.contacts[c] = status] ELSE w

get_group(w, g)          == w.groups[g] # "none"
upsert_group(w, g, type) == [w EXCEPT !.groups[g] = type]

RowsOf(w, conv)   == {m \in w.messages : m.conv = conv}
next_seq(w, conv) == 1 + Max({0} \union {m.seq : m \in RowsOf(w, conv)})

(* UNIQUE(conversation_id, seq) refuses a row.                             *)
Conflicts(w, m)      == \E r \in RowsOf(w, m.conv) : r.seq = m.seq
insert_message(w, m) == [w EXCEPT !.messages = @ \union {m}]
delete_message(w, no) ==
  [w EXCEPT !.messages = {m \in @ : m.no # no}, !.deleted = @ \union {no}]
=============================================================================
