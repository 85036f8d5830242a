------------------------------ MODULE Channel ------------------------------
(***************************************************************************)
(* The AnonRouter's cells (cell.cpp, garlic.cpp) and ChannelManager        *)
(* (channel.cpp).  Each method is an operator on the map of channels it    *)
(* locks; Router.tla composes them into the daemon's handlers.             *)
(*                                                                         *)
(* A key is a pair: the channel it was drawn for and the number of the     *)
(* draw.  Draw 0 is the opener's temporary key, draws 1 .. MaxAccepts are  *)
(* the acceptor's, and the next number stands for the key that upgrade     *)
(* installs.  AES-GCM authenticates exactly when the keys are equal.       *)
(* Channel modes, sequence numbers and time stamps are left out: on_cell   *)
(* looks at none of them.                                                  *)
(***************************************************************************)
EXTENDS Naturals, Sequences, FiniteSets

CONSTANTS Nodes,        \* routers; a node stands for its address and its key
          None,         \* an empty optional or an empty string
          MaxIds,       \* channels opened
          MaxAccepts    \* accepts of one channel

ASSUME ChannelAssumption ==
  MaxIds \in Nat /\ MaxAccepts \in Nat /\ None \notin Nodes

Ids == 1 .. MaxIds

HandshakeKey  == <<0, 0>>
Draw(id, i)   == <<id, i>>
Csk(id)       == <<id, MaxAccepts + 1>>
Keys          == {HandshakeKey} \union (Ids \X (0 .. MaxAccepts + 1))

AnonLevels == {"DIRECT", "ANONYMOUS"}

\* A payload of the application: its number and how it compares with a cell.
Sizes    == {"empty", "fits", "long"}
Payloads == [from : Nodes, no : Nat, size : Sizes]

ChannelInfo ==
  [remote : Nodes \union {None}, anon : AnonLevels,
   state : {"OPENING", "OPEN"}, key : Keys, peer : Nodes \union {None}]

-----------------------------------------------------------------------------
(* Cells.  cell_build encrypts under a key, cell_decode needs the same.    *)

ChanOpenCell(from, to, id, anon) ==
  [type |-> "CHAN_OPEN", from |-> from, to |-> to, id |-> id, anon |-> anon,
   enc |-> HandshakeKey]
ChanAcceptCell(to, id, key) ==
  [type |-> "CHAN_ACCEPT", to |-> to, id |-> id, key |-> key,
   enc |-> HandshakeKey]
\* Mutant: data is encrypted with the key of the handshake.
DataCellZero(to, id, key, garlic) ==
  [type |-> "DATA", to |-> to, id |-> id, garlic |-> garlic,
   enc |-> HandshakeKey]

DataCell(to, id, key, garlic) ==
  [type |-> "DATA", to |-> to, id |-> id, garlic |-> garlic, enc |-> key]

Decodes(cell, key) == cell.enc = key

\* A garlic blob longer than the cell is cut, which spoils its CBOR.
garlic_encode(p) == [cloves |-> <<p>>, cut |-> p.size = "long"]
\* Mutant: a cut blob decodes all the same.
garlic_decodeCut(g) == g.cloves
garlic_decode(g) == IF g.cut THEN << >> ELSE g.cloves

-----------------------------------------------------------------------------
(* ChannelManager.                                                         *)

NoChannels == [id \in Ids |-> None]

Has(cs, id)  == cs[id] # None
IsOpen(cs, id) == Has(cs, id) /\ cs[id].state = "OPEN"

Put(cs, id, remote, anon, state, key, peer) ==
  [cs EXCEPT ![id] = [remote |-> remote, anon |-> anon, state |-> state,
                      key |-> key, peer |-> peer]]

open(cs, id, remote, anon, peer) ==
  Put(cs, id, remote, anon, "OPENING", Draw(id, 0), peer)

\* Mutant: a repeated CHAN_OPEN finds the channel open and leaves it so.
register_incomingOpen(cs, id, peer, anon) ==
  Put(cs, id, None, anon, IF Has(cs, id) THEN cs[id].state ELSE "OPENING",
      HandshakeKey, peer)

\* Whatever the map holds for the id is replaced, and its key is zero.
register_incoming(cs, id, peer, anon) ==
  Put(cs, id, None, anon, "OPENING", HandshakeKey, peer)

SetOpen(cs, id, key) ==
  IF Has(cs, id) THEN [cs EXCEPT ![id].key = key, ![id].state = "OPEN"] ELSE cs

\* Mutant: the channel waits in a state that ChannelInfo does not use here.
upgradePending(cs, id) ==
  IF Has(cs, id) THEN [cs EXCEPT ![id].key = Csk(id), ![id].state = "UPGRADING"]
  ELSE cs

\* accept, upgrade and on_chan_accept differ in where the key comes from.
accept(cs, id, key) == SetOpen(cs, id, key)
upgrade(cs, id)     == SetOpen(cs, id, Csk(id))

\* Mutant: the map is indexed, which creates the channel.
on_chan_acceptCreate(cs, id, key) ==
  IF Has(cs, id) THEN SetOpen(cs, id, key)
  ELSE Put(cs, id, None, "ANONYMOUS", "OPEN", key, None)

on_chan_accept(cs, id, key) == SetOpen(cs, id, key)

close(cs, id) == [cs EXCEPT ![id] = None]

\* on_cell: a cell belongs to the open direct channel its token names.
Matches(cs, cell) == IsOpen(cs, cell.id) /\ cs[cell.id].anon = "DIRECT"

\* Cloves with no ciphertext behind nonce and tag are passed over.
Frames(cell) ==
  LET cloves == garlic_decode(cell.garlic)
  IN  {cloves[i] : i \in {j \in DOMAIN cloves : cloves[j].size # "empty"}}
=============================================================================
