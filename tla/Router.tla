------------------------------- MODULE Router -------------------------------
(***************************************************************************)
(* AnonRouters that exchange UDP cells (router.cpp, udp_transport.cpp) and *)
(* serve their local callers (ipc_handler.cpp).  Datagrams are lost,       *)
(* repeated and reordered.  A router handles datagrams on one thread and   *)
(* every caller on a thread of its own; a handler that locks the map once  *)
(* is one step, and send, which works on a copy it took under an earlier   *)
(* lock, is two.                                                           *)
(*                                                                         *)
(* No guard, tunnel or credit is ever recorded, because nothing calls the  *)
(* functions that add them; so a cell never is relayed, and a channel that *)
(* is not direct carries nothing.                                          *)
(***************************************************************************)
EXTENDS Channel

CONSTANTS Bootstrap,    \* pairs <<router, bootstrap node>>
          MaxSends,     \* payloads handed to frame.send
          MaxStarts,    \* starts of routers
          MaxRequests,  \* requests of their callers
          MaxNet        \* cells in flight

ASSUME RouterAssumption ==
  /\ Bootstrap \subseteq {p \in Nodes \X Nodes : p[1] # p[2]}
  /\ MaxSends \in Nat /\ MaxStarts \in Nat /\ MaxRequests \in Nat
  /\ MaxNet \in Nat

VARIABLES up,         \* routers that run
          channels,   \* channels_ by router
          sending,    \* by router, the frame.send in progress
          net,        \* cells in flight
          opener,     \* who drew a channel id
          accepts,    \* keys drawn by accept, by channel
          upgraded,   \* channels given a key by channel.upgrade
          frames,     \* payloads handed to frame.send, in order
          delivered,  \* frame.recv pushes by router
          failed,     \* channels on which a cell did not authenticate
          starts,     \* starts so far
          requests    \* requests so far

vars == <<up, channels, sending, net, opener, accepts, upgraded, frames,
          delivered, failed, starts, requests>>
history == <<opener, accepts, upgraded, frames, delivered, failed>>
bounds  == <<starts, requests>>

Idle == [rest |-> << >>, id |-> None, copy |-> None]

Init ==
  /\ up = {} /\ channels = [n \in Nodes |-> NoChannels]
  /\ sending = [n \in Nodes |-> Idle] /\ net = {}
  /\ opener = [id \in Ids |-> None] /\ accepts = [id \in Ids |-> 0]
  /\ upgraded = {} /\ frames = << >>
  /\ delivered = [n \in Nodes |-> {}] /\ failed = {}
  /\ starts = 0 /\ requests = 0

Fresh == {id \in Ids : opener[id] = None
                       /\ \A j \in Ids : j < id => opener[j] # None}
Room(cells) == Cardinality(net \union cells) <= MaxNet

-----------------------------------------------------------------------------
(* Start and end of a router.  Its channels live in memory only.           *)

\* start, with initiate_bootstrap_connections (at most one node).
start(n) ==
  /\ n \notin up /\ starts < MaxStarts
  /\ up' = up \union {n} /\ starts' = starts + 1
  /\ LET nodes == {m \in Nodes : <<n, m>> \in Bootstrap}
     IN  \/ /\ nodes = {}
            /\ UNCHANGED <<channels, net, opener>>
         \/ \E m \in nodes, id \in Fresh :
              /\ Room({ChanOpenCell(n, m, id, "DIRECT")})
              /\ channels' = [channels EXCEPT ![n] =
                                open(@, id, None, "DIRECT", m)]
              /\ net' = net \union {ChanOpenCell(n, m, id, "DIRECT")}
              /\ opener' = [opener EXCEPT ![id] = n]
  /\ UNCHANGED <<sending, accepts, upgraded, frames, delivered, failed,
                 requests>>

Gone(n) ==
  /\ up' = up \ {n}
  /\ channels' = [channels EXCEPT ![n] = NoChannels]
  /\ sending' = [sending EXCEPT ![n] = Idle]

stop(n) ==
  /\ n \in up /\ Gone(n)
  /\ UNCHANGED <<net, history, bounds>>

-----------------------------------------------------------------------------
(* Requests.                                                               *)

Request(n) == n \in up /\ requests < MaxRequests /\ requests' = requests + 1

\* The handler records the level it was given, ANONYMOUS by default; with a
\* peer address dispatch_ipc then sends CHAN_OPEN, whose default is DIRECT.
channel_open(n, m, anon, addressed) ==
  /\ Request(n)
  /\ \E id \in Fresh :
       LET given(default) == IF anon = None THEN default ELSE anon
           cells == IF addressed
                      THEN {ChanOpenCell(n, m, id, given("DIRECT"))} ELSE {}
       IN  /\ Room(cells)
           /\ channels' = [channels EXCEPT ![n] =
                open(@, id, m, given("ANONYMOUS"),
                     IF addressed THEN m ELSE None)]
           /\ net' = net \union cells
           /\ opener' = [opener EXCEPT ![id] = n]
  /\ UNCHANGED <<up, sending, accepts, upgraded, frames, delivered, failed,
                 starts>>

\* ensure_channel of Inbox and Outbox: an open channel to the key, or a new
\* one that is neither direct nor addressed.
ensure_channel(n, m) ==
  /\ ~\E id \in Ids : IsOpen(channels[n], id) /\ channels[n][id].remote = m
  /\ channel_open(n, m, "ANONYMOUS", FALSE)

\* channel.accept of a channel whose channel.incoming was pushed: the key is
\* drawn, and sent to the peer if it has an address.
channel_accept(n, id) ==
  /\ Request(n) /\ opener[id] \notin {None, n} /\ accepts[id] < MaxAccepts
  /\ Has(channels[n], id)
  /\ LET key  == Draw(id, accepts[id] + 1)
         peer == channels[n][id].peer
         cells == IF peer = None THEN {} ELSE {ChanAcceptCell(peer, id, key)}
     IN  /\ Room(cells)
         /\ channels' = [channels EXCEPT ![n] = accept(@, id, key)]
         /\ net' = net \union cells
  /\ accepts' = [accepts EXCEPT ![id] = @ + 1]
  /\ UNCHANGED <<up, sending, opener, upgraded, frames, delivered, failed,
                 starts>>

\* channel.upgrade: the caller supplies the key.
channel_upgrade(n, id) ==
  /\ Request(n) /\ Has(channels[n], id)
  /\ channels' = [channels EXCEPT ![n] = upgrade(@, id)]
  /\ upgraded' = upgraded \union {id}
  /\ UNCHANGED <<up, sending, net, opener, accepts, frames, delivered, failed,
                 starts>>

\* channel.close and channel.reject.
channel_close(n, id) ==
  /\ Request(n) /\ Has(channels[n], id)
  /\ channels' = [channels EXCEPT ![n] = close(@, id)]
  /\ UNCHANGED <<up, sending, net, history, starts>>

\* frame.send and frame.send_batch: the payloads are sent one after another.
frame_send_batch(n, id, sizes) ==
  /\ Request(n) /\ sending[n] = Idle /\ opener[id] # None
  /\ Len(frames) + Len(sizes) <= MaxSends
  /\ LET batch == [i \in 1 .. Len(sizes) |->
                     [from |-> n, no |-> Len(frames) + i, size |-> sizes[i]]]
     IN  /\ sending' = [sending EXCEPT ![n] = [rest |-> batch, id |-> id,
                                               copy |-> None]]
         /\ frames' = frames \o batch
  /\ UNCHANGED <<up, channels, net, opener, accepts, upgraded, delivered,
                 failed, starts>>

\* The payload in work is done with, sent or not.
NextFrame(n) ==
  sending' = [sending EXCEPT ![n] =
    IF Len(@.rest) <= 1 THEN Idle
    ELSE [rest |-> Tail(@.rest), id |-> @.id, copy |-> None]]

\* send, first lock: false unless the channel is open, else a copy is taken.
SendCopies(n) ==
  /\ n \in up /\ sending[n].rest # << >> /\ sending[n].copy = None
  /\ LET id == sending[n].id
     IN  \/ ~IsOpen(channels[n], id) /\ NextFrame(n)
         \/ /\ IsOpen(channels[n], id)
            /\ sending' = [sending EXCEPT ![n].copy = channels[n][id]]
  /\ UNCHANGED <<up, channels, net, history, bounds>>

\* send, second lock: false if the channel is gone; the cell is built with the
\* key of the copy, and transmitted if the channel is direct.
SendTransmits(n) ==
  /\ n \in up /\ sending[n].copy # None
  /\ LET s     == sending[n]
         cells == IF /\ Has(channels[n], s.id)
                     /\ s.copy.anon = "DIRECT" /\ s.copy.peer # None
                  THEN {DataCell(s.copy.peer, s.id, s.copy.key,
                                 garlic_encode(Head(s.rest)))}
                  ELSE {}
     IN  Room(cells) /\ net' = net \union cells
  /\ NextFrame(n)
  /\ UNCHANGED <<up, channels, history, bounds>>

-----------------------------------------------------------------------------
(* Datagrams.  A cell is consumed, or stays to be received once more.      *)

Receive(cell) == net' \in {net, net \ {cell}}

on_chan_open_cell(cell) ==
  /\ cell.type = "CHAN_OPEN" /\ cell.to \in up /\ Decodes(cell, HandshakeKey)
  /\ channels' = [channels EXCEPT ![cell.to] =
                    register_incoming(@, cell.id, cell.from, cell.anon)]
  /\ Receive(cell)
  /\ UNCHANGED <<up, sending, history, bounds>>

on_chan_accept_cell(cell) ==
  /\ cell.type = "CHAN_ACCEPT" /\ cell.to \in up /\ Decodes(cell, HandshakeKey)
  /\ channels' = [channels EXCEPT ![cell.to] =
                    on_chan_accept(@, cell.id, cell.key)]
  /\ Receive(cell)
  /\ UNCHANGED <<up, sending, history, bounds>>

\* on_cell for a cell that belongs to a channel and authenticates, or to none.
on_cell(cell) ==
  /\ cell.type = "DATA" /\ cell.to \in up
  /\ LET cs == channels[cell.to]
     IN  \/ ~Matches(cs, cell) /\ UNCHANGED delivered
         \/ /\ Matches(cs, cell) /\ Decodes(cell, cs[cell.id].key)
            /\ delivered' = [delivered EXCEPT ![cell.to] = @ \union
                 {[id |-> cell.id, frame |-> p] : p \in Frames(cell)}]
  /\ Receive(cell)
  /\ UNCHANGED <<up, channels, sending, opener, accepts, upgraded, frames,
                 failed, bounds>>

\* cell_decode throws, nobody catches it on the receiving thread, and the
\* process ends.
on_cellThrows(cell) ==
  /\ cell.type = "DATA" /\ cell.to \in up
  /\ Matches(channels[cell.to], cell)
  /\ ~Decodes(cell, channels[cell.to][cell.id].key)
  /\ failed' = failed \union {cell.id}
  /\ Gone(cell.to) /\ Receive(cell)
  /\ UNCHANGED <<opener, accepts, upgraded, frames, delivered, bounds>>

\* A datagram is handled by its type.  With an empty guard table none is
\* relayed.
on_datagram(cell) ==
  \/ on_chan_open_cell(cell) \/ on_chan_accept_cell(cell)
  \/ on_cell(cell) \/ on_cellThrows(cell)

\* The network drops a cell.
Lose(cell) ==
  /\ net' = net \ {cell}
  /\ UNCHANGED <<up, channels, sending, history, bounds>>

Others(n) == Nodes \ {n}

\* A frame.send, and a batch of payloads that do not get through.
Batches == {<<"fits">>, <<"long", "empty">>}

Next ==
  \/ \E n \in Nodes :
       \/ start(n) \/ stop(n) \/ SendCopies(n) \/ SendTransmits(n)
       \/ \E m \in Others(n) :
            \/ \E anon \in AnonLevels \union {None} :
                 channel_open(n, m, anon, TRUE)
            \/ ensure_channel(n, m)
       \/ \E id \in Ids :
            \/ channel_accept(n, id) \/ channel_upgrade(n, id)
            \/ channel_close(n, id)
            \/ \E sizes \in Batches : frame_send_batch(n, id, sizes)
  \/ \E cell \in net : on_datagram(cell) \/ Lose(cell)

Spec == Init /\ [][Next]_vars

-----------------------------------------------------------------------------
(* Properties.                                                             *)

\* Every variable keeps its type.
TypeOK ==
  /\ up \subseteq Nodes
  /\ \A n \in Nodes : \A id \in Ids :
       channels[n][id] \in ChannelInfo \union {None}
  /\ \A n \in Nodes :
       /\ sending[n].id \in Ids \union {None}
       /\ sending[n].copy \in ChannelInfo \union {None}
       /\ \A i \in DOMAIN sending[n].rest : sending[n].rest[i] \in Payloads
       /\ \A d \in delivered[n] : d.id \in Ids /\ d.frame \in Payloads
  /\ Cardinality(net) <= MaxNet
  /\ opener \in [Ids -> Nodes \union {None}]
  /\ accepts \in [Ids -> 0 .. MaxAccepts]
  /\ upgraded \subseteq Ids /\ failed \subseteq Ids
  /\ starts \in 0 .. MaxStarts /\ requests \in 0 .. MaxRequests

\* An open channel, and a send in progress, uses a key the acceptor drew for
\* that channel or one an upgrade supplied: never the opener's temporary key
\* nor the zero key of the handshake, whatever cells are lost, repeated or late.
OpenKeyIsAgreed ==
  \A n \in Nodes, id \in Ids :
    LET agreed == {Draw(id, i) : i \in 1 .. accepts[id]}
                    \union (IF id \in upgraded THEN {Csk(id)} ELSE {})
    IN  /\ IsOpen(channels[n], id) => channels[n][id].key \in agreed
        /\ (sending[n].copy # None /\ sending[n].id = id)
             => sending[n].copy.key \in agreed

\* What frame.recv reports on a channel is, whole, what the other router was
\* given for that channel.
DeliveredWasSent ==
  \A n \in Nodes : \A d \in delivered[n] :
    /\ \E i \in DOMAIN frames : frames[i] = d.frame
    /\ d.frame.from # n /\ d.frame.size = "fits"

\* A cell fails to authenticate, which ends the router, only on a channel whose
\* key was drawn more than once or replaced by an upgrade.
FailsOnlyWhenRekeyed ==
  \A id \in failed : accepts[id] > 1 \/ id \in upgraded

\* A channel that its opener has closed, or lost in a restart, never comes back
\* there: a late CHAN_ACCEPT does not revive it.
CloseIsFinal ==
  [][\A id \in Ids : \A n \in Nodes :
       (opener[id] = n /\ ~Has(channels[n], id)) => ~Has(channels'[n], id)]_vars
=============================================================================
