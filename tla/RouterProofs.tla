---------------------------- MODULE RouterProofs ----------------------------
(***************************************************************************)
(* The inductive invariant of Router, for any set of routers and every     *)
(* bound, that every step preserves it, and what follows from it.          *)
(*                                                                         *)
(* The properties speak of channels and deliveries; what makes them hold   *)
(* is what the cells in flight carry.  The inductive invariant therefore   *)
(* describes every cell (CellInv) and every send in progress (SendInv), so *)
(* that a late or repeated cell changes a channel only in ways that were   *)
(* agreed when it was built.                                               *)
(***************************************************************************)
EXTENDS Router, FiniteSetTheorems, SequenceTheorems, TLAPS

(* The keys both ends of a channel may use.                                *)
Agreed(id) == {Draw(id, i) : i \in 1 .. accepts[id]}
                \union (IF id \in upgraded THEN {Csk(id)} ELSE {})

(* A payload that router n was given.                                      *)
GivenTo(n, p) == p.from = n /\ \E i \in DOMAIN frames : frames[i] = p

ChannelInv(n, id) ==
  /\ channels[n][id] \in ChannelInfo \union {None}
  /\ Has(channels[n], id) => opener[id] # None /\ channels[n][id].peer # n
  /\ IsOpen(channels[n], id) => channels[n][id].key \in Agreed(id)

Sends == [rest : Seq(Payloads), id : Ids \union {None},
          copy : ChannelInfo \union {None}]

SendInv(n) ==
  LET s == sending[n]
  IN  /\ \A i \in DOMAIN s.rest : GivenTo(n, s.rest[i])
      /\ s.rest # << >> => s.id \in Ids
      /\ s.copy # None =>
           s.rest # << >> /\ s.copy.peer # n /\ s.copy.key \in Agreed(s.id)

(* What a cell of each type carries.                                       *)
OpenCellInv(cell) ==
  /\ cell.from \in Nodes /\ cell.to \in Nodes \ {cell.from}
  /\ cell.id \in Ids /\ cell.anon \in AnonLevels
  /\ opener[cell.id] = cell.from
AcceptCellInv(cell) ==
  cell.to \in Nodes /\ cell.id \in Ids /\ cell.key \in Agreed(cell.id)
DataCellInv(cell) ==
  /\ cell.to \in Nodes /\ cell.id \in Ids /\ cell.enc \in Agreed(cell.id)
  /\ \E n \in Nodes \ {cell.to} : \E p \in Payloads :
       GivenTo(n, p) /\ cell.garlic = garlic_encode(p)

CellInv(cell) ==
  \/ cell.type = "CHAN_OPEN" /\ OpenCellInv(cell)
  \/ cell.type = "CHAN_ACCEPT" /\ AcceptCellInv(cell)
  \/ cell.type = "DATA" /\ DataCellInv(cell)

Shapes ==
  /\ up \subseteq Nodes
  /\ channels \in [Nodes -> [Ids -> ChannelInfo \union {None}]]
  /\ sending \in [Nodes -> Sends]
  /\ delivered \in [Nodes -> SUBSET [id : Ids, frame : Payloads]]
  /\ opener \in [Ids -> Nodes \union {None}]
  /\ accepts \in [Ids -> 0 .. MaxAccepts]
  /\ upgraded \subseteq Ids /\ failed \subseteq Ids
  /\ frames \in Seq(Payloads)
  /\ starts \in 0 .. MaxStarts /\ requests \in 0 .. MaxRequests

NetInv == IsFiniteSet(net) /\ Cardinality(net) <= MaxNet /\ \A cell \in net : CellInv(cell)

IInv ==
  /\ Shapes /\ NetInv
  /\ \A n \in Nodes : SendInv(n) /\ \A id \in Ids : ChannelInv(n, id)
  /\ DeliveredWasSent
  /\ FailsOnlyWhenRekeyed

-----------------------------------------------------------------------------
(* What was agreed or given stays so: the keys of a channel are only added *)
(* to, a channel id has one opener, and frames only grows.                 *)
Kept ==
  /\ \A id \in Ids : accepts[id] <= accepts'[id] /\ Agreed(id) \subseteq Agreed(id)'
  /\ upgraded \subseteq upgraded'
  /\ \A id \in Ids : opener[id] # None => opener'[id] = opener[id]
  /\ \A n \in Nodes : \A p \in Payloads : GivenTo(n, p) => GivenTo(n, p)'

(* What was said of a cell, a channel or a send in progress that a step    *)
(* leaves alone is still true after it.                                    *)
LEMMA CellKept ==
  ASSUME NEW cell, CellInv(cell), Kept
  PROVE  CellInv(cell)'
BY ChannelAssumption, Zenon
   DEF CellInv, OpenCellInv, AcceptCellInv, DataCellInv, Kept, ChannelAssumption

LEMMA ChannelKept ==
  ASSUME NEW n \in Nodes, NEW id \in Ids, ChannelInv(n, id), Kept,
         channels'[n][id] = channels[n][id]
  PROVE  ChannelInv(n, id)'
BY Zenon DEF ChannelInv, Kept, Has, IsOpen

LEMMA SendKept ==
  ASSUME NEW n \in Nodes, sending[n] \in Sends, SendInv(n), Kept,
         sending'[n] = sending[n]
  PROVE  SendInv(n)'
<1>1. \A i \in DOMAIN sending[n].rest : sending[n].rest[i] \in Payloads
  BY DEF Sends
<1> QED BY <1>1, Zenon DEF SendInv, Kept, Sends

LEMMA SendIdle ==
  ASSUME NEW n \in Nodes, sending[n] = Idle
  PROVE  SendInv(n)
BY EmptySeq DEF SendInv, Idle

(* A set of well-formed cells stays one when few enough cells are added or *)
(* some are taken away.                                                    *)
LEMMA NetGrows ==
  ASSUME NetInv, Kept, NEW cells, IsFiniteSet(cells), Room(cells),
         net' = net \union cells, \A cell \in cells : CellInv(cell)'
  PROVE  NetInv'
<1>1. IsFiniteSet(net') BY FS_Union, Zenon DEF NetInv
<1>2. \A cell \in net' : CellInv(cell)' BY CellKept, Zenon DEF NetInv
<1> QED BY <1>1, <1>2, Zenon DEF NetInv, Room

LEMMA NetShrinks ==
  ASSUME NetInv, Kept, net' \subseteq net
  PROVE  NetInv'
<1>1. IsFiniteSet(net') /\ Cardinality(net') <= Cardinality(net)
  BY FS_Subset, Zenon DEF NetInv
<1>2. Cardinality(net') \in Nat /\ Cardinality(net) \in Nat
  BY <1>1, FS_CardinalityType, Zenon DEF NetInv
<1>3. \A cell \in net' : CellInv(cell)' BY CellKept, Zenon DEF NetInv
<1> QED BY <1>1, <1>2, <1>3, RouterAssumption DEF NetInv, RouterAssumption

(* The history variables that Kept is about, one at a time.                *)
LEMMA KeptIfUnchanged ==
  ASSUME Shapes, UNCHANGED <<opener, accepts, upgraded, frames>>
  PROVE  Kept
BY DEF Kept, Agreed, GivenTo, Shapes

LEMMA HistoryKept ==
  ASSUME IInv, Kept, Shapes', UNCHANGED <<delivered, failed>>
  PROVE  DeliveredWasSent' /\ FailsOnlyWhenRekeyed'
<1>1. DeliveredWasSent'
  <2> SUFFICES ASSUME NEW n \in Nodes, NEW d \in delivered[n]
               PROVE  /\ (\E i \in DOMAIN frames : frames[i] = d.frame)'
                      /\ d.frame.from # n /\ d.frame.size = "fits"
    BY Zenon DEF DeliveredWasSent
  <2>1. d.frame \in Payloads /\ d.frame.from \in Nodes
    BY DEF IInv, Shapes, Payloads
  <2>2. /\ GivenTo(d.frame.from, d.frame)
        /\ d.frame.from # n /\ d.frame.size = "fits"
    BY Zenon DEF IInv, DeliveredWasSent, GivenTo
  <2>3. GivenTo(d.frame.from, d.frame)' BY <2>1, <2>2, Zenon DEF Kept
  <2> QED BY <2>2, <2>3, Zenon DEF GivenTo
<1>2. FailsOnlyWhenRekeyed'
  <2> SUFFICES ASSUME NEW id \in failed
               PROVE  accepts'[id] > 1 \/ id \in upgraded'
    BY Zenon DEF FailsOnlyWhenRekeyed
  <2>1. id \in Ids /\ accepts[id] \in Int /\ accepts'[id] \in Int BY DEF IInv, Shapes
  <2>2. accepts[id] > 1 \/ id \in upgraded BY Zenon DEF IInv, FailsOnlyWhenRekeyed
  <2>3. accepts[id] <= accepts'[id] /\ upgraded \subseteq upgraded'
    BY <2>1, Zenon DEF Kept
  <2> QED BY <2>1, <2>2, <2>3
<1> QED BY <1>1, <1>2, Zenon

-----------------------------------------------------------------------------
(* Steps that several actions share.                                       *)

(* open() with a fresh id (start, channel.open, ensure_channel).           *)
LEMMA Opening ==
  ASSUME IInv, NEW n \in Nodes, NEW id \in Fresh,
         NEW remote \in Nodes \union {None}, NEW anon \in AnonLevels,
         NEW peer \in (Nodes \ {n}) \union {None},
         channels' = [channels EXCEPT ![n] = open(@, id, remote, anon, peer)],
         opener' = [opener EXCEPT ![id] = n],
         UNCHANGED <<sending, accepts, upgraded, frames>>
  PROVE  /\ Kept
         /\ channels' \in [Nodes -> [Ids -> ChannelInfo \union {None}]]
         /\ opener' \in [Ids -> Nodes \union {None}]
         /\ \A m \in Nodes : SendInv(m)' /\ \A j \in Ids : ChannelInv(m, j)'
<1> USE DEF IInv, Shapes
<1>1. id \in Ids /\ opener[id] = None BY Zenon DEF Fresh
<1>2. Kept BY <1>1 DEF Kept, Agreed, GivenTo
<1>3. opener' \in [Ids -> Nodes \union {None}] BY <1>1, Zenon
<1>4. Draw(id, 0) \in Keys BY <1>1, ChannelAssumption DEF Draw, Keys, ChannelAssumption
<1> DEFINE new == [remote |-> remote, anon |-> anon, state |-> "OPENING",
                   key |-> Draw(id, 0), peer |-> peer]
<1>5. new \in ChannelInfo BY <1>4, Zenon DEF ChannelInfo
<1>6. channels' = [channels EXCEPT ![n] = [@ EXCEPT ![id] = new]]
  BY Zenon DEF open, Put
<1> HIDE DEF new
<1>7. channels' \in [Nodes -> [Ids -> ChannelInfo \union {None}]]
  BY <1>1, <1>5, <1>6
<1>8. ASSUME NEW m \in Nodes, NEW j \in Ids PROVE ChannelInv(m, j)'
  <2>1. CASE m = n /\ j = id
    <3>1. channels'[m][j] = new BY <1>1, <1>6, <2>1
    <3>2. opener'[j] # None BY <1>1, <2>1, ChannelAssumption, Zenon DEF ChannelAssumption
    <3>3. new.peer # n /\ new.state # "OPEN"
      BY ChannelAssumption, Zenon DEF ChannelAssumption, new
    <3> QED BY <1>5, <2>1, <3>1, <3>2, <3>3, Zenon DEF ChannelInv, Has, IsOpen
  <2>2. CASE ~(m = n /\ j = id)
    <3>1. channels'[m][j] = channels[m][j] BY <1>1, <1>6, <2>2
    <3> QED BY <1>2, <3>1, ChannelKept, Zenon
  <2> QED BY <2>1, <2>2, Zenon
<1>9. \A m \in Nodes : SendInv(m)' BY <1>2, SendKept, Zenon DEF Shapes
<1> QED BY <1>2, <1>3, <1>7, <1>8, <1>9, Zenon

(* A channel record replaced by one that satisfies the invariant.          *)
LEMMA Replacing ==
  ASSUME IInv, Kept, NEW n \in Nodes, NEW id \in Ids,
         NEW new \in ChannelInfo \union {None},
         channels' = [channels EXCEPT ![n] = [@ EXCEPT ![id] = new]],
         new # None => /\ opener'[id] # None /\ new.peer # n
                       /\ new.state = "OPEN" => new.key \in Agreed(id)'
  PROVE  /\ channels' \in [Nodes -> [Ids -> ChannelInfo \union {None}]]
         /\ \A m \in Nodes : \A j \in Ids : ChannelInv(m, j)'
<1>1. channels \in [Nodes -> [Ids -> ChannelInfo \union {None}]] BY Zenon DEF IInv, Shapes
<1>2. channels' \in [Nodes -> [Ids -> ChannelInfo \union {None}]] BY <1>1, Zenon
<1>3. ASSUME NEW m \in Nodes, NEW j \in Ids PROVE ChannelInv(m, j)'
  <2>1. CASE m = n /\ j = id
    <3>1. channels'[m][j] = new BY <1>1, <2>1, Zenon
    <3> QED BY <2>1, <3>1, Zenon DEF ChannelInv, Has, IsOpen
  <2>2. CASE ~(m = n /\ j = id)
    <3>1. channels'[m][j] = channels[m][j] BY <1>1, <2>2, Zenon
    <3> QED BY <3>1, ChannelKept, Zenon DEF IInv
  <2> QED BY <2>1, <2>2, Zenon
<1> QED BY <1>2, <1>3, Zenon

(* accept, upgrade and on_chan_accept: a key that is agreed by now.        *)
LEMMA Setting ==
  ASSUME IInv, Kept, NEW n \in Nodes, NEW id \in Ids, NEW key \in Agreed(id)',
         key \in Keys,
         channels' = [channels EXCEPT ![n] = SetOpen(@, id, key)]
  PROVE  /\ channels' \in [Nodes -> [Ids -> ChannelInfo \union {None}]]
         /\ \A m \in Nodes : \A j \in Ids : ChannelInv(m, j)'
<1>1. channels \in [Nodes -> [Ids -> ChannelInfo \union {None}]] BY Zenon DEF IInv, Shapes
<1>2. CASE Has(channels[n], id)
  <2> DEFINE old == channels[n][id]
             new == [old EXCEPT !.key = key, !.state = "OPEN"]
  <2>1. old \in ChannelInfo BY <1>1, <1>2, Zenon DEF Has
  <2>2. new \in ChannelInfo /\ new.peer = old.peer /\ new.key = key
    BY <2>1, Zenon DEF ChannelInfo
  <2>3. opener'[id] # None /\ old.peer # n BY <1>2, Zenon DEF IInv, ChannelInv, Kept
  <2>4. SetOpen(channels[n], id, key) = [channels[n] EXCEPT ![id] = new]
    <3>1. channels[n] \in [Ids -> ChannelInfo \union {None}] BY <1>1, Zenon
    <3> QED BY <1>2, <2>1, <3>1, Zenon DEF SetOpen, ChannelInfo
  <2>5. channels' = [channels EXCEPT ![n] = [@ EXCEPT ![id] = new]]
    BY <1>1, <2>4, Zenon
  <2> HIDE DEF new
  <2> QED BY <2>2, <2>3, <2>5, Replacing, Zenon
<1>3. CASE ~Has(channels[n], id)
  <2>1. channels' = channels BY <1>1, <1>3, Zenon DEF SetOpen
  <2> QED BY <1>1, <2>1, ChannelKept, Zenon DEF IInv
<1> QED BY <1>2, <1>3, Zenon

(* The draws of an acceptor and the key of an upgrade are keys.            *)
LEMMA AgreedAreKeys ==
  ASSUME Shapes, NEW id \in Ids
  PROVE  Agreed(id) \subseteq Keys
BY ChannelAssumption DEF Shapes, Agreed, Keys, Draw, Csk, ChannelAssumption

(* The payload in work is dropped from a send in progress.                 *)
LEMMA Advancing ==
  ASSUME IInv, Kept, NEW n \in Nodes, sending[n].rest # << >>, NextFrame(n)
  PROVE  sending' \in [Nodes -> Sends] /\ \A m \in Nodes : SendInv(m)'
<1>0. sending \in [Nodes -> Sends] BY Zenon DEF IInv, Shapes
<1> SUFFICES ASSUME NEW s \in Sends, s = sending[n]
             PROVE  sending' \in [Nodes -> Sends] /\ \A m \in Nodes : SendInv(m)'
  BY <1>0, Zenon
<1> DEFINE new == IF Len(s.rest) <= 1 THEN Idle
                  ELSE [rest |-> Tail(s.rest), id |-> s.id, copy |-> None]
<1>1. sending' = [sending EXCEPT ![n] = new] BY <1>0, Zenon DEF NextFrame
<1>2. sending'[n] = new BY <1>0, <1>1, Zenon
<1>3. /\ s.rest \in Seq(Payloads) /\ s.rest # << >>
      /\ Tail(s.rest) \in Seq(Payloads)
      /\ Len(Tail(s.rest)) = Len(s.rest) - 1
      /\ \A i \in 1 .. Len(Tail(s.rest)) : Tail(s.rest)[i] = s.rest[i + 1]
  BY HeadTailProperties, Zenon DEF Sends
<1>4. new \in Sends BY <1>3, EmptySeq, Zenon DEF Sends, Idle
<1>5. SendInv(n)'
  <2>1. CASE Len(s.rest) <= 1
    <3>1. sending'[n] = Idle BY <1>2, <2>1, Zenon
    <3> QED BY <3>1, EmptySeq DEF SendInv, Idle
  <2>2. CASE ~(Len(s.rest) <= 1)
    <3>1. ASSUME NEW i \in DOMAIN Tail(s.rest) PROVE GivenTo(n, Tail(s.rest)[i])'
      <4>1. /\ i + 1 \in DOMAIN s.rest /\ Tail(s.rest)[i] = s.rest[i + 1]
            /\ s.rest[i + 1] \in Payloads
        BY <1>3
      <4>2. GivenTo(n, s.rest[i + 1]) BY <4>1, Zenon DEF IInv, SendInv
      <4> QED BY <4>1, <4>2, Zenon DEF Kept
    <3>2. s.id \in Ids BY <1>3, Zenon DEF IInv, SendInv
    <3>3. new = [rest |-> Tail(s.rest), id |-> s.id, copy |-> None] BY <2>2, Zenon
    <3> HIDE DEF new
    <3> QED BY <1>2, <3>1, <3>2, <3>3 DEF SendInv
  <2> QED BY <2>1, <2>2, Zenon
<1> HIDE DEF new
<1>6. ASSUME NEW m \in Nodes \ {n} PROVE SendInv(m)'
  <2>1. sending'[m] = sending[m] BY <1>0, <1>1, Zenon
  <2> QED BY <1>0, <2>1, SendKept, Zenon DEF IInv
<1> QED BY <1>0, <1>1, <1>4, <1>5, <1>6, Zenon

(* A router ends and forgets its channels and its sends.                   *)
LEMMA Ending ==
  ASSUME IInv, Kept, NEW n \in Nodes, Gone(n)
  PROVE  /\ up' \subseteq Nodes /\ sending' \in [Nodes -> Sends]
         /\ channels' \in [Nodes -> [Ids -> ChannelInfo \union {None}]]
         /\ \A m \in Nodes : SendInv(m)' /\ \A j \in Ids : ChannelInv(m, j)'
<1> USE DEF Gone
<1>1. /\ up \subseteq Nodes /\ sending \in [Nodes -> Sends]
      /\ channels \in [Nodes -> [Ids -> ChannelInfo \union {None}]]
  BY Zenon DEF IInv, Shapes
<1>2. channels' \in [Nodes -> [Ids -> ChannelInfo \union {None}]]
  BY <1>1, Zenon DEF NoChannels
<1>3. ASSUME NEW m \in Nodes, NEW j \in Ids PROVE ChannelInv(m, j)'
  <2>1. CASE m = n
    <3>1. channels'[m][j] = None BY <1>1, <2>1, Zenon DEF NoChannels
    <3> QED BY <3>1, Zenon DEF ChannelInv, Has, IsOpen
  <2>2. CASE m # n
    <3>1. channels'[m][j] = channels[m][j] BY <1>1, <2>2, Zenon
    <3> QED BY <3>1, ChannelKept, Zenon DEF IInv
  <2> QED BY <2>1, <2>2, Zenon
<1>4. ASSUME NEW m \in Nodes PROVE SendInv(m)'
  <2>1. CASE m = n
    <3>1. sending'[m] = Idle BY <1>1, <2>1, Zenon
    <3> QED BY <3>1, EmptySeq DEF SendInv, Idle
  <2>2. CASE m # n
    <3>1. sending'[m] = sending[m] BY <1>1, <2>2, Zenon
    <3> QED BY <1>1, <3>1, SendKept, Zenon DEF IInv
  <2> QED BY <2>1, <2>2, Zenon
<1>5. Idle \in Sends BY EmptySeq, Zenon DEF Idle, Sends
<1>6. sending' \in [Nodes -> Sends] BY <1>1, <1>5, Zenon
<1> QED BY <1>1, <1>2, <1>3, <1>4, <1>6, Zenon

-----------------------------------------------------------------------------
(* Start, stop and channel.open preserve the invariant.                    *)

LEMMA StartStep ==
  ASSUME IInv, NEW n \in Nodes, start(n)
  PROVE  IInv'
<1> USE DEF start
<1>1. /\ up' \subseteq Nodes /\ starts' \in 0 .. MaxStarts
      /\ UNCHANGED <<sending, accepts, upgraded, frames, delivered, failed, requests>>
  BY RouterAssumption DEF IInv, Shapes, RouterAssumption
<1>2. CASE UNCHANGED <<channels, net, opener>>
  <2>1. Shapes' BY <1>1, <1>2, Zenon DEF IInv, Shapes
  <2>2. Kept BY <1>1, <1>2, KeptIfUnchanged, Zenon DEF IInv
  <2>3. NetInv' BY <1>2, <2>2, NetShrinks, Zenon DEF IInv
  <2>4. \A m \in Nodes : SendInv(m)' BY <1>1, <2>2, SendKept, Zenon DEF IInv, Shapes
  <2>5. \A m \in Nodes : \A j \in Ids : ChannelInv(m, j)'
    BY <1>2, <2>2, ChannelKept, Zenon DEF IInv
  <2> QED BY <1>1, <2>1, <2>2, <2>3, <2>4, <2>5, HistoryKept, Zenon DEF IInv
<1>3. ASSUME NEW m \in Nodes, <<n, m>> \in Bootstrap, NEW id \in Fresh,
             Room({ChanOpenCell(n, m, id, "DIRECT")}),
             channels' = [channels EXCEPT ![n] = open(@, id, None, "DIRECT", m)],
             net' = net \union {ChanOpenCell(n, m, id, "DIRECT")},
             opener' = [opener EXCEPT ![id] = n]
      PROVE  IInv'
  <2>1. m # n BY <1>3, RouterAssumption, Zenon DEF RouterAssumption
  <2>2. /\ Kept
        /\ channels' \in [Nodes -> [Ids -> ChannelInfo \union {None}]]
        /\ opener' \in [Ids -> Nodes \union {None}]
        /\ \A k \in Nodes : SendInv(k)' /\ \A j \in Ids : ChannelInv(k, j)'
    BY <1>1, <1>3, <2>1, Opening, Zenon DEF AnonLevels
  <2>3. Shapes' BY <1>1, <2>2, Zenon DEF IInv, Shapes
  <2>4. CellInv(ChanOpenCell(n, m, id, "DIRECT"))'
    BY <1>3, <2>1, Zenon DEF IInv, Shapes, Fresh, CellInv, OpenCellInv, ChanOpenCell, AnonLevels
  <2>5. NetInv' BY <1>3, <2>2, <2>4, FS_Singleton, NetGrows, Zenon DEF IInv
  <2> QED BY <1>1, <2>2, <2>3, <2>5, HistoryKept, Zenon DEF IInv
<1> QED BY <1>2, <1>3, Zenon

LEMMA StopStep ==
  ASSUME IInv, NEW n \in Nodes, stop(n)
  PROVE  IInv'
<1> USE DEF stop, history, bounds
<1>1. Kept BY KeptIfUnchanged, Zenon DEF IInv
<1>2. /\ up' \subseteq Nodes /\ sending' \in [Nodes -> Sends]
      /\ channels' \in [Nodes -> [Ids -> ChannelInfo \union {None}]]
      /\ \A m \in Nodes : SendInv(m)' /\ \A j \in Ids : ChannelInv(m, j)'
  BY <1>1, Ending, Zenon
<1>3. Shapes' BY <1>2, Zenon DEF IInv, Shapes
<1>4. NetInv' BY <1>1, NetShrinks, Zenon DEF IInv
<1> QED BY <1>1, <1>2, <1>3, <1>4, HistoryKept, Zenon DEF IInv

LEMMA ChannelOpenStep ==
  ASSUME IInv, NEW n \in Nodes, NEW m \in Nodes \ {n},
         NEW anon \in AnonLevels \union {None}, NEW addressed \in BOOLEAN,
         channel_open(n, m, anon, addressed)
  PROVE  IInv'
<1> DEFINE given(default) == IF anon = None THEN default ELSE anon
           cells(id) == IF addressed
                          THEN {ChanOpenCell(n, m, id, given("DIRECT"))} ELSE {}
           peer == IF addressed THEN m ELSE None
<1>1. PICK id \in Fresh :
        /\ Room(cells(id)) /\ net' = net \union cells(id)
        /\ channels' = [channels EXCEPT ![n] = open(@, id, m, given("ANONYMOUS"), peer)]
        /\ opener' = [opener EXCEPT ![id] = n]
  BY Zenon DEF channel_open
<1>2. /\ requests' \in 0 .. MaxRequests
      /\ UNCHANGED <<up, sending, accepts, upgraded, frames, delivered, failed, starts>>
  BY RouterAssumption DEF channel_open, Request, IInv, Shapes, RouterAssumption
<1>3. given("DIRECT") \in AnonLevels /\ given("ANONYMOUS") \in AnonLevels
  BY Zenon DEF AnonLevels
<1>4. /\ Kept
      /\ channels' \in [Nodes -> [Ids -> ChannelInfo \union {None}]]
      /\ opener' \in [Ids -> Nodes \union {None}]
      /\ \A k \in Nodes : SendInv(k)' /\ \A j \in Ids : ChannelInv(k, j)'
  <2>1. m \in Nodes \union {None} /\ peer \in (Nodes \ {n}) \union {None} BY Zenon
  <2> HIDE DEF given, peer
  <2> QED BY <1>1, <1>2, <1>3, <2>1, Opening, Zenon
<1>5. Shapes' BY <1>2, <1>4, Zenon DEF IInv, Shapes
<1>6. IsFiniteSet(cells(id)) BY FS_Singleton, FS_EmptySet, Zenon
<1>7. \A cell \in cells(id) : CellInv(cell)'
  BY <1>1, <1>3 DEF IInv, Shapes, Fresh, CellInv, OpenCellInv, ChanOpenCell
<1>8. NetInv'
  <2> HIDE DEF cells
  <2> QED BY <1>1, <1>4, <1>6, <1>7, NetGrows, Zenon DEF IInv
<1> QED BY <1>2, <1>4, <1>5, <1>8, HistoryKept, Zenon DEF IInv

-----------------------------------------------------------------------------
(***************************************************************************)
(* The requests of a channel, the sends and the datagrams.                 *)
(***************************************************************************)

(* Requests of a channel, and the sender's two steps.                      *)
LEMMA ChannelAcceptStep ==
  ASSUME IInv, NEW n \in Nodes, NEW id \in Ids, channel_accept(n, id)
  PROVE  IInv'
<1> DEFINE key == Draw(id, accepts[id] + 1)
           peer == channels[n][id].peer
           cells == IF peer = None THEN {} ELSE {ChanAcceptCell(peer, id, key)}
<1>1. /\ Has(channels[n], id) /\ Room(cells) /\ net' = net \union cells
      /\ channels' = [channels EXCEPT ![n] = SetOpen(@, id, key)]
      /\ accepts' = [accepts EXCEPT ![id] = @ + 1]
      /\ accepts[id] < MaxAccepts
      /\ UNCHANGED <<up, sending, opener, upgraded, frames, delivered, failed, starts>>
  BY Zenon DEF channel_accept, accept
<1>2. accepts \in [Ids -> 0 .. MaxAccepts] /\ MaxAccepts \in Nat
  BY ChannelAssumption, Zenon DEF IInv, Shapes, ChannelAssumption
<1>3. accepts' \in [Ids -> 0 .. MaxAccepts] /\ requests' \in 0 .. MaxRequests
  BY <1>1, <1>2, RouterAssumption
     DEF channel_accept, Request, IInv, Shapes, RouterAssumption
<1>4. Kept
  <2>1. \A j \in Ids : accepts[j] <= accepts'[j] BY <1>1, <1>2
  <2>2. \A j \in Ids : 1 .. accepts[j] \subseteq 1 .. accepts'[j] BY <1>2, <1>3, <2>1
  <2> QED BY <1>1, <2>1, <2>2, Zenon DEF Kept, Agreed, GivenTo
<1>5. key \in Agreed(id)' /\ key \in Keys
  <2>1. accepts[id] + 1 \in 1 .. accepts'[id] /\ accepts[id] + 1 \in 0 .. MaxAccepts + 1
    BY <1>1, <1>2
  <2> QED BY <2>1, Zenon DEF Agreed, Keys, Draw
<1> SUFFICES ASSUME NEW to, to = peer, NEW k, k = key PROVE IInv'
  BY Zenon
<1>6. /\ channels' \in [Nodes -> [Ids -> ChannelInfo \union {None}]]
      /\ \A m \in Nodes : \A j \in Ids : ChannelInv(m, j)'
  <2> HIDE DEF key
  <2> QED BY <1>1, <1>4, <1>5, Setting, Zenon
<1>7. Shapes' BY <1>1, <1>3, <1>6, Zenon DEF IInv, Shapes
<1>8. \A m \in Nodes : SendInv(m)' BY <1>1, <1>4, SendKept, Zenon DEF IInv, Shapes
<1>9. to \in Nodes \union {None}
  BY <1>1, Zenon DEF IInv, ChannelInv, ChannelInfo, Has
<1>10. to # None => CellInv(ChanAcceptCell(to, id, k))'
  <2> HIDE DEF key
  <2> QED BY <1>5, <1>9, Zenon DEF CellInv, AcceptCellInv, ChanAcceptCell
<1>11. NetInv'
  <2> DEFINE sent == IF to = None THEN {} ELSE {ChanAcceptCell(to, id, k)}
  <2>1. IsFiniteSet(sent) BY FS_Singleton, FS_EmptySet, Zenon
  <2>2. Room(sent) /\ net' = net \union sent BY <1>1, Zenon
  <2>3. \A cell \in sent : CellInv(cell)' BY <1>10, Zenon
  <2> HIDE DEF sent
  <2> QED BY <1>4, <2>1, <2>2, <2>3, NetGrows, Zenon DEF IInv
<1> QED BY <1>1, <1>4, <1>6, <1>7, <1>8, <1>11, HistoryKept, Zenon DEF IInv

LEMMA ChannelUpgradeStep ==
  ASSUME IInv, NEW n \in Nodes, NEW id \in Ids, channel_upgrade(n, id)
  PROVE  IInv'
<1>1. /\ channels' = [channels EXCEPT ![n] = SetOpen(@, id, Csk(id))]
      /\ upgraded' = upgraded \union {id}
      /\ UNCHANGED <<up, sending, net, opener, accepts, frames, delivered, failed, starts>>
  BY Zenon DEF channel_upgrade, upgrade
<1>2. requests' \in 0 .. MaxRequests
  BY RouterAssumption DEF channel_upgrade, Request, IInv, Shapes, RouterAssumption
<1>3. Kept BY <1>1 DEF IInv, Shapes, Kept, Agreed, GivenTo
<1>4. Csk(id) \in Agreed(id)' /\ Csk(id) \in Keys
  BY <1>1, ChannelAssumption DEF Agreed, Keys, Csk, ChannelAssumption
<1>5. /\ channels' \in [Nodes -> [Ids -> ChannelInfo \union {None}]]
      /\ \A m \in Nodes : \A j \in Ids : ChannelInv(m, j)'
  BY <1>1, <1>3, <1>4, Setting, Zenon
<1>6. Shapes' BY <1>1, <1>2, <1>5, Zenon DEF IInv, Shapes
<1>7. \A m \in Nodes : SendInv(m)' BY <1>1, <1>3, SendKept, Zenon DEF IInv, Shapes
<1>8. NetInv' BY <1>1, <1>3, NetShrinks, Zenon DEF IInv
<1> QED BY <1>1, <1>3, <1>5, <1>6, <1>7, <1>8, HistoryKept, Zenon DEF IInv

LEMMA ChannelCloseStep ==
  ASSUME IInv, NEW n \in Nodes, NEW id \in Ids, channel_close(n, id)
  PROVE  IInv'
<1>1. /\ channels' = [channels EXCEPT ![n] = [@ EXCEPT ![id] = None]]
      /\ UNCHANGED <<up, sending, net, opener, accepts, upgraded, frames,
                     delivered, failed, starts>>
  BY Zenon DEF channel_close, close, history
<1>2. requests' \in 0 .. MaxRequests
  BY RouterAssumption DEF channel_close, Request, IInv, Shapes, RouterAssumption
<1>3. Kept BY <1>1, KeptIfUnchanged, Zenon DEF IInv
<1>4. /\ channels' \in [Nodes -> [Ids -> ChannelInfo \union {None}]]
      /\ \A m \in Nodes : \A j \in Ids : ChannelInv(m, j)'
  BY <1>1, <1>3, Replacing, Zenon
<1>5. Shapes' BY <1>1, <1>2, <1>4, Zenon DEF IInv, Shapes
<1>6. \A m \in Nodes : SendInv(m)' BY <1>1, <1>3, SendKept, Zenon DEF IInv, Shapes
<1>7. NetInv' BY <1>1, <1>3, NetShrinks, Zenon DEF IInv
<1> QED BY <1>1, <1>3, <1>4, <1>5, <1>6, <1>7, HistoryKept, Zenon DEF IInv

LEMMA FrameSendStep ==
  ASSUME IInv, NEW n \in Nodes, NEW id \in Ids, NEW sizes \in Seq(Sizes),
         frame_send_batch(n, id, sizes)
  PROVE  IInv'
<1>0. frames \in Seq(Payloads) /\ Len(frames) \in Nat /\ Len(sizes) \in Nat
      /\ sending \in [Nodes -> Sends]
  BY DEF IInv, Shapes
<1> SUFFICES ASSUME NEW batch,
                    batch = [i \in 1 .. Len(sizes) |->
                      [from |-> n, no |-> Len(frames) + i, size |-> sizes[i]]]
             PROVE  IInv'
  BY Zenon
<1>1. /\ sending' = [sending EXCEPT ![n] = [rest |-> batch, id |-> id, copy |-> None]]
      /\ frames' = frames \o batch
      /\ UNCHANGED <<up, channels, net, opener, accepts, upgraded, delivered,
                     failed, starts>>
  BY Zenon DEF frame_send_batch
<1>2. requests' \in 0 .. MaxRequests
  BY RouterAssumption DEF frame_send_batch, Request, IInv, Shapes, RouterAssumption
<1>3. \A i \in 1 .. Len(sizes) : batch[i] \in Payloads /\ batch[i].from = n
  BY <1>0 DEF Payloads
<1>4. batch \in Seq(Payloads) /\ Len(batch) = Len(sizes) BY <1>0, <1>3
<1>5. /\ frames' \in Seq(Payloads) /\ Len(frames') = Len(frames) + Len(batch)
      /\ \A i \in 1 .. Len(frames) + Len(batch) :
           frames'[i] = IF i <= Len(frames) THEN frames[i] ELSE batch[i - Len(frames)]
  BY <1>0, <1>1, <1>4, ConcatProperties
<1>6. Kept
  <2>1. ASSUME NEW m \in Nodes, NEW p \in Payloads, GivenTo(m, p) PROVE GivenTo(m, p)'
    <3>1. PICK i \in DOMAIN frames : frames[i] = p BY <2>1, Zenon DEF GivenTo
    <3>2. i \in 1 .. Len(frames) BY <1>0
    <3>3. i \in DOMAIN frames' /\ frames'[i] = p BY <1>0, <1>4, <1>5, <3>1, <3>2
    <3> QED BY <2>1, <3>3, Zenon DEF GivenTo
  <2> QED BY <1>1, <2>1 DEF IInv, Shapes, Kept, Agreed
<1>7. sending' \in [Nodes -> Sends] BY <1>0, <1>1, <1>4, Zenon DEF Sends
<1>8. Shapes' BY <1>1, <1>2, <1>5, <1>7, Zenon DEF IInv, Shapes
<1>9. ASSUME NEW m \in Nodes PROVE SendInv(m)'
  <2>1. CASE m = n
    <3>1. sending'[m] = [rest |-> batch, id |-> id, copy |-> None]
      BY <1>0, <1>1, <2>1, Zenon
    <3>2. ASSUME NEW i \in DOMAIN batch PROVE GivenTo(n, batch[i])'
      <4>1. i \in 1 .. Len(batch) BY <1>4, Zenon
      <4>2. /\ Len(frames) + i \in 1 .. Len(frames) + Len(batch)
            /\ ~(Len(frames) + i <= Len(frames)) /\ Len(frames) + i - Len(frames) = i
        BY <1>0, <1>4, <4>1
      <4>3. Len(frames) + i \in DOMAIN frames' BY <1>5, <4>2
      <4>4. frames'[Len(frames) + i] = batch[i] BY <1>5, <4>2
      <4> QED BY <1>3, <1>4, <4>1, <4>3, <4>4, Zenon DEF GivenTo
    <3> QED BY <2>1, <3>1, <3>2 DEF SendInv
  <2>2. CASE m # n
    <3>1. sending'[m] = sending[m] /\ sending[m] \in Sends BY <1>0, <1>1, <2>2, Zenon
    <3> QED BY <1>6, <3>1, SendKept, Zenon DEF IInv
  <2> QED BY <2>1, <2>2, Zenon
<1>10. \A m \in Nodes : \A j \in Ids : ChannelInv(m, j)'
  BY <1>1, <1>6, ChannelKept, Zenon DEF IInv
<1>11. NetInv' BY <1>1, <1>6, NetShrinks, Zenon DEF IInv
<1> QED BY <1>1, <1>6, <1>8, <1>9, <1>10, <1>11, HistoryKept, Zenon DEF IInv

LEMMA SendCopiesStep ==
  ASSUME IInv, NEW n \in Nodes, SendCopies(n)
  PROVE  IInv'
<1> USE DEF history, bounds
<1>1. UNCHANGED <<up, channels, net, opener, accepts, upgraded, frames, delivered,
                  failed, starts, requests>>
      /\ sending[n].rest # << >>
  BY Zenon DEF SendCopies
<1>2. Kept BY <1>1, KeptIfUnchanged, Zenon DEF IInv
<1>3. sending \in [Nodes -> Sends] BY Zenon DEF IInv, Shapes
<1>4. sending' \in [Nodes -> Sends] /\ \A m \in Nodes : SendInv(m)'
  <2>1. CASE NextFrame(n) BY <1>1, <1>2, <2>1, Advancing, Zenon
  <2>2. CASE /\ IsOpen(channels[n], sending[n].id)
             /\ sending' = [sending EXCEPT ![n].copy = channels[n][sending[n].id]]
    <3> SUFFICES ASSUME NEW s \in Sends, s = sending[n],
                        NEW copy, copy = channels[n][s.id]
                 PROVE  sending' \in [Nodes -> Sends] /\ \A m \in Nodes : SendInv(m)'
      BY <1>3, Zenon
    <3>1. /\ s.id \in Ids /\ s.rest # << >>
          /\ \A i \in DOMAIN s.rest : GivenTo(n, s.rest[i]) /\ s.rest[i] \in Payloads
      BY <1>1 DEF IInv, SendInv, Sends
    <3>2. /\ copy \in ChannelInfo /\ copy.peer # n /\ copy.key \in Agreed(s.id)
      BY <2>2, <3>1, Zenon DEF IInv, ChannelInv, Has, IsOpen
    <3>3. sending'[n] = [s EXCEPT !.copy = copy] BY <1>3, <2>2, Zenon
    <3>4. /\ sending'[n] \in Sends /\ sending'[n].rest = s.rest
          /\ sending'[n].id = s.id /\ sending'[n].copy = copy
      BY <3>2, <3>3, Zenon DEF Sends
    <3>5. sending' \in [Nodes -> Sends] BY <1>3, <2>2, <3>4, Zenon
    <3>6. SendInv(n)' BY <1>2, <3>1, <3>2, <3>4, Zenon DEF SendInv, Kept
    <3>7. ASSUME NEW m \in Nodes \ {n} PROVE SendInv(m)'
      <4>1. sending'[m] = sending[m] BY <1>3, <2>2, Zenon
      <4> QED BY <1>2, <1>3, <4>1, SendKept, Zenon DEF IInv
    <3> QED BY <3>5, <3>6, <3>7, Zenon
  <2> QED BY <2>1, <2>2, Zenon DEF SendCopies
<1>5. Shapes' BY <1>1, <1>4, Zenon DEF IInv, Shapes
<1>6. \A m \in Nodes : \A j \in Ids : ChannelInv(m, j)'
  BY <1>1, <1>2, ChannelKept, Zenon DEF IInv
<1>7. NetInv' BY <1>1, <1>2, NetShrinks, Zenon DEF IInv
<1> QED BY <1>1, <1>2, <1>4, <1>5, <1>6, <1>7, HistoryKept, Zenon DEF IInv

LEMMA SendTransmitsStep ==
  ASSUME IInv, NEW n \in Nodes, SendTransmits(n)
  PROVE  IInv'
<1> USE DEF history, bounds
<1>1. /\ UNCHANGED <<up, channels, opener, accepts, upgraded, frames, delivered,
                     failed, starts, requests>>
      /\ sending[n].copy # None /\ NextFrame(n)
  BY Zenon DEF SendTransmits
<1>2. Kept BY <1>1, KeptIfUnchanged, Zenon DEF IInv
<1>3. sending \in [Nodes -> Sends] BY Zenon DEF IInv, Shapes
<1> SUFFICES ASSUME NEW s \in Sends, s = sending[n] PROVE IInv'
  BY <1>3, Zenon
<1>4. /\ s.rest # << >> /\ s.id \in Ids /\ s.copy \in ChannelInfo
      /\ s.copy.peer # n /\ s.copy.key \in Agreed(s.id)
      /\ \A i \in DOMAIN s.rest : GivenTo(n, s.rest[i])
  BY <1>1, Zenon DEF IInv, SendInv, Sends
<1>5. sending' \in [Nodes -> Sends] /\ \A m \in Nodes : SendInv(m)'
  BY <1>1, <1>2, <1>4, Advancing, Zenon
<1>6. Shapes' BY <1>1, <1>5, Zenon DEF IInv, Shapes
<1>7. \A m \in Nodes : \A j \in Ids : ChannelInv(m, j)'
  BY <1>1, <1>2, ChannelKept, Zenon DEF IInv
<1>8. Head(s.rest) \in Payloads /\ GivenTo(n, Head(s.rest))
  <2>1. s.rest \in Seq(Payloads) BY Zenon DEF Sends
  <2>2. 1 \in DOMAIN s.rest /\ Head(s.rest) = s.rest[1] /\ s.rest[1] \in Payloads
    BY <1>4, <2>1
  <2> QED BY <1>4, <2>2, Zenon
<1> DEFINE cell == DataCell(s.copy.peer, s.id, s.copy.key, garlic_encode(Head(s.rest)))
<1>9. s.copy.peer # None => CellInv(cell)'
  <2> SUFFICES ASSUME s.copy.peer # None PROVE CellInv(cell)'
    BY Zenon
  <2>1. s.copy.peer \in Nodes \ {n} BY <1>4, Zenon DEF ChannelInfo
  <2>2. s.copy.key \in Agreed(s.id)' BY <1>2, <1>4, Zenon DEF Kept
  <2>3. GivenTo(n, Head(s.rest))' BY <1>2, <1>8, Zenon DEF Kept
  <2> QED BY <1>4, <1>8, <2>1, <2>2, <2>3, Zenon DEF CellInv, DataCellInv, DataCell
<1>10. NetInv'
  <2>1. \/ Room({}) /\ net' = net
        \/ s.copy.peer # None /\ Room({cell}) /\ net' = net \union {cell}
    BY Zenon DEF SendTransmits
  <2> HIDE DEF cell
  <2>2. CASE net' = net BY <1>2, <2>2, NetShrinks, Zenon DEF IInv
  <2>3. CASE s.copy.peer # None /\ Room({cell}) /\ net' = net \union {cell}
    BY <1>2, <1>9, <2>3, FS_Singleton, NetGrows, Zenon DEF IInv
  <2> QED BY <2>1, <2>2, <2>3, Zenon
<1> QED BY <1>1, <1>2, <1>5, <1>6, <1>7, <1>10, HistoryKept, Zenon DEF IInv

(* Datagrams.                                                              *)
LEMMA OpenCellStep ==
  ASSUME IInv, NEW cell \in net, on_chan_open_cell(cell)
  PROVE  IInv'
<1> USE DEF history, bounds
<1>1. /\ UNCHANGED <<up, sending, opener, accepts, upgraded, frames, delivered,
                     failed, starts, requests>>
      /\ net' \subseteq net
  BY Zenon DEF on_chan_open_cell, Receive
<1>2. Kept BY <1>1, KeptIfUnchanged, Zenon DEF IInv
<1>3. /\ cell.from \in Nodes /\ cell.to \in Nodes \ {cell.from} /\ cell.id \in Ids
      /\ cell.anon \in AnonLevels /\ opener[cell.id] = cell.from
  BY Zenon DEF IInv, NetInv, CellInv, OpenCellInv, on_chan_open_cell
<1> DEFINE new == [remote |-> None, anon |-> cell.anon, state |-> "OPENING",
                   key |-> HandshakeKey, peer |-> cell.from]
<1>4. channels' = [channels EXCEPT ![cell.to] = [@ EXCEPT ![cell.id] = new]]
  BY Zenon DEF on_chan_open_cell, register_incoming, Put
<1>5. new \in ChannelInfo BY <1>3, Zenon DEF ChannelInfo, Keys
<1>6. opener'[cell.id] # None /\ new.peer # cell.to /\ new.state # "OPEN"
  BY <1>1, <1>3, ChannelAssumption, Zenon DEF ChannelAssumption
<1>7. /\ channels' \in [Nodes -> [Ids -> ChannelInfo \union {None}]]
      /\ \A m \in Nodes : \A j \in Ids : ChannelInv(m, j)'
  <2> HIDE DEF new
  <2> QED BY <1>2, <1>3, <1>4, <1>5, <1>6, Replacing, Zenon
<1>8. Shapes' BY <1>1, <1>7, Zenon DEF IInv, Shapes
<1>9. \A m \in Nodes : SendInv(m)' BY <1>1, <1>2, SendKept, Zenon DEF IInv, Shapes
<1>10. NetInv' BY <1>1, <1>2, NetShrinks, Zenon DEF IInv
<1> QED BY <1>1, <1>2, <1>7, <1>8, <1>9, <1>10, HistoryKept, Zenon DEF IInv

LEMMA AcceptCellStep ==
  ASSUME IInv, NEW cell \in net, on_chan_accept_cell(cell)
  PROVE  IInv'
<1> USE DEF history, bounds
<1>1. /\ UNCHANGED <<up, sending, opener, accepts, upgraded, frames, delivered,
                     failed, starts, requests>>
      /\ net' \subseteq net
      /\ channels' = [channels EXCEPT ![cell.to] = SetOpen(@, cell.id, cell.key)]
  BY Zenon DEF on_chan_accept_cell, Receive, on_chan_accept
<1>2. Kept BY <1>1, KeptIfUnchanged, Zenon DEF IInv
<1>3. cell.to \in Nodes /\ cell.id \in Ids /\ cell.key \in Agreed(cell.id)
  BY Zenon DEF IInv, NetInv, CellInv, AcceptCellInv, on_chan_accept_cell
<1>4. cell.key \in Agreed(cell.id)' /\ cell.key \in Keys
  BY <1>2, <1>3, AgreedAreKeys, Zenon DEF Kept, IInv
<1>5. /\ channels' \in [Nodes -> [Ids -> ChannelInfo \union {None}]]
      /\ \A m \in Nodes : \A j \in Ids : ChannelInv(m, j)'
  BY <1>1, <1>2, <1>3, <1>4, Setting, Zenon
<1>6. Shapes' BY <1>1, <1>5, Zenon DEF IInv, Shapes
<1>7. \A m \in Nodes : SendInv(m)' BY <1>1, <1>2, SendKept, Zenon DEF IInv, Shapes
<1>8. NetInv' BY <1>1, <1>2, NetShrinks, Zenon DEF IInv
<1> QED BY <1>1, <1>2, <1>5, <1>6, <1>7, <1>8, HistoryKept, Zenon DEF IInv

(* A data cell yields at most the payload it was built from, and only if   *)
(* that fits (garlic_encode, garlic_decode).                               *)
LEMMA FramesOfCell ==
  ASSUME NEW cell, NEW p \in Payloads, cell.garlic = garlic_encode(p),
         NEW q \in Frames(cell)
  PROVE  q = p /\ p.size = "fits"
<1>1. cell.garlic.cloves = <<p>> BY DEF garlic_encode
<1>2. cell.garlic.cut = (p.size = "long")
  <2>1. garlic_encode(p) = [cloves |-> <<p>>, cut |-> p.size = "long"]
    BY Zenon DEF garlic_encode
  <2>2. \A b : [cloves |-> <<p>>, cut |-> b].cut = b
    BY Zenon
  <2>3. garlic_encode(p).cut = (p.size = "long") BY <2>1, <2>2, Zenon
  <2> QED BY <2>3, Zenon
<1>3. CASE p.size = "long"
  <2>1. garlic_decode(cell.garlic) = << >> BY <1>2, <1>3, Zenon DEF garlic_decode
  <2> QED BY <2>1 DEF Frames
<1>4. CASE p.size # "long"
  <2>1. garlic_decode(cell.garlic) = <<p>> BY <1>1, <1>2, <1>4, Zenon DEF garlic_decode
  <2>2. q = p /\ p.size # "empty" BY <2>1 DEF Frames
  <2> QED BY <1>4, <2>2, Zenon DEF Payloads, Sizes
<1> QED BY <1>3, <1>4, Zenon

LEMMA OnCellStep ==
  ASSUME IInv, NEW cell \in net, on_cell(cell)
  PROVE  IInv'
<1> USE DEF bounds
<1>1. /\ UNCHANGED <<up, channels, sending, opener, accepts, upgraded, frames,
                     failed, starts, requests>>
      /\ net' \subseteq net
  BY Zenon DEF on_cell, Receive
<1>2. Kept BY <1>1, KeptIfUnchanged, Zenon DEF IInv
<1>3. cell.to \in Nodes /\ cell.id \in Ids
  BY Zenon DEF IInv, NetInv, CellInv, DataCellInv, on_cell
<1>4. PICK n \in Nodes \ {cell.to}, p \in Payloads :
        GivenTo(n, p) /\ cell.garlic = garlic_encode(p)
  BY Zenon DEF IInv, NetInv, CellInv, DataCellInv, on_cell
<1>5. \A m \in Nodes : \A d \in delivered'[m] :
        \/ d \in delivered[m]
        \/ m = cell.to /\ d.id = cell.id /\ d.frame = p /\ p.size = "fits"
           /\ d = [id |-> cell.id, frame |-> p]
  <2>1. delivered \in [Nodes -> SUBSET [id : Ids, frame : Payloads]]
    BY Zenon DEF IInv, Shapes
  <2>2. CASE UNCHANGED delivered BY <2>2, Zenon
  <2>3. CASE delivered' = [delivered EXCEPT ![cell.to] = @ \union
               {[id |-> cell.id, frame |-> q] : q \in Frames(cell)}]
    BY <1>3, <1>4, <2>1, <2>3, FramesOfCell
  <2> QED BY <2>2, <2>3, Zenon DEF on_cell
<1>6. delivered' \in [Nodes -> SUBSET [id : Ids, frame : Payloads]]
  <2>1. delivered \in [Nodes -> SUBSET [id : Ids, frame : Payloads]]
    BY Zenon DEF IInv, Shapes
  <2>2. CASE UNCHANGED delivered BY <2>1, <2>2, Zenon
  <2>3. CASE delivered' = [delivered EXCEPT ![cell.to] = @ \union
               {[id |-> cell.id, frame |-> q] : q \in Frames(cell)}]
    <3>1. \A q \in Frames(cell) : q \in Payloads BY <1>4, FramesOfCell
    <3>2. {[id |-> cell.id, frame |-> q] : q \in Frames(cell)}
            \subseteq [id : Ids, frame : Payloads]
      BY <1>3, <3>1
    <3> QED BY <2>1, <2>3, <3>2, Zenon
  <2> QED BY <2>2, <2>3, Zenon DEF on_cell
<1>7. Shapes' BY <1>1, <1>6, Zenon DEF IInv, Shapes
<1>8. DeliveredWasSent'
  BY <1>1, <1>4, <1>5 DEF IInv, DeliveredWasSent, GivenTo
<1>9. FailsOnlyWhenRekeyed' BY <1>1, Zenon DEF IInv, FailsOnlyWhenRekeyed
<1>10. \A m \in Nodes : SendInv(m)' BY <1>1, <1>2, SendKept, Zenon DEF IInv, Shapes
<1>11. \A m \in Nodes : \A j \in Ids : ChannelInv(m, j)'
  BY <1>1, <1>2, ChannelKept, Zenon DEF IInv
<1>12. NetInv' BY <1>1, <1>2, NetShrinks, Zenon DEF IInv
<1> QED BY <1>7, <1>8, <1>9, <1>10, <1>11, <1>12, Zenon DEF IInv

LEMMA OnCellThrowsStep ==
  ASSUME IInv, NEW cell \in net, on_cellThrows(cell)
  PROVE  IInv'
<1> USE DEF bounds
<1>1. /\ UNCHANGED <<opener, accepts, upgraded, frames, delivered, starts, requests>>
      /\ net' \subseteq net /\ failed' = failed \union {cell.id}
  BY Zenon DEF on_cellThrows, Receive
<1>2. Kept BY <1>1, KeptIfUnchanged, Zenon DEF IInv
<1>3. cell.to \in Nodes /\ cell.id \in Ids /\ cell.enc \in Agreed(cell.id)
  BY Zenon DEF IInv, NetInv, CellInv, DataCellInv, on_cellThrows
<1>4. /\ up' \subseteq Nodes /\ sending' \in [Nodes -> Sends]
      /\ channels' \in [Nodes -> [Ids -> ChannelInfo \union {None}]]
      /\ \A m \in Nodes : SendInv(m)' /\ \A j \in Ids : ChannelInv(m, j)'
  BY <1>2, <1>3, Ending, Zenon DEF on_cellThrows
<1>5. Shapes' BY <1>1, <1>3, <1>4, Zenon DEF IInv, Shapes
<1>6. NetInv' BY <1>1, <1>2, NetShrinks, Zenon DEF IInv
<1>7. DeliveredWasSent' BY <1>1, Zenon DEF IInv, DeliveredWasSent
<1>8. accepts[cell.id] > 1 \/ cell.id \in upgraded
  <2> SUFFICES ASSUME ~(accepts[cell.id] > 1), cell.id \notin upgraded PROVE FALSE
    BY Zenon
  <2>1. channels[cell.to][cell.id].key \in Agreed(cell.id)
    BY <1>3, Zenon DEF on_cellThrows, Matches, IInv, ChannelInv
  <2>2. accepts[cell.id] \in 0 .. 1
    BY <1>3, ChannelAssumption DEF IInv, Shapes, ChannelAssumption
  <2>3. \A key \in Agreed(cell.id) : key = Draw(cell.id, 1)
    BY <2>2 DEF Agreed
  <2> QED BY <1>3, <2>1, <2>3, Zenon DEF on_cellThrows, Decodes
<1>9. FailsOnlyWhenRekeyed' BY <1>1, <1>8, Zenon DEF IInv, FailsOnlyWhenRekeyed
<1> QED BY <1>4, <1>5, <1>6, <1>7, <1>9, Zenon DEF IInv

LEMMA LoseStep ==
  ASSUME IInv, NEW cell \in net, Lose(cell)
  PROVE  IInv'
<1>1. /\ UNCHANGED <<up, channels, sending, opener, accepts, upgraded, frames,
                     delivered, failed, starts, requests>>
      /\ net' \subseteq net
  BY Zenon DEF Lose, history, bounds
<1>2. Kept BY <1>1, KeptIfUnchanged, Zenon DEF IInv
<1>3. Shapes' BY <1>1, Zenon DEF IInv, Shapes
<1>4. \A m \in Nodes : SendInv(m)' BY <1>1, <1>2, SendKept, Zenon DEF IInv, Shapes
<1>5. \A m \in Nodes : \A j \in Ids : ChannelInv(m, j)'
  BY <1>1, <1>2, ChannelKept, Zenon DEF IInv
<1>6. NetInv' BY <1>1, <1>2, NetShrinks, Zenon DEF IInv
<1> QED BY <1>1, <1>2, <1>3, <1>4, <1>5, <1>6, HistoryKept, Zenon DEF IInv

-----------------------------------------------------------------------------
LEMMA BatchesAreSizes == Batches \subseteq Seq(Sizes)
BY DEF Batches, Sizes

LEMMA InitInv == Init => IInv
<1> SUFFICES ASSUME Init PROVE IInv
  BY Zenon
<1> USE DEF Init
<1>1. Idle \in Sends BY EmptySeq, Zenon DEF Idle, Sends
<1>2. frames \in Seq(Payloads) BY EmptySeq, Zenon
<1>3. Shapes
  BY <1>1, <1>2, ChannelAssumption, RouterAssumption
     DEF Shapes, NoChannels, ChannelAssumption, RouterAssumption
<1>4. NetInv BY FS_EmptySet, RouterAssumption DEF NetInv, RouterAssumption
<1>5. \A n \in Nodes : SendInv(n) BY SendIdle, Zenon
<1>6. \A n \in Nodes : \A id \in Ids : ChannelInv(n, id)
  BY Zenon DEF ChannelInv, NoChannels, Has, IsOpen
<1>7. DeliveredWasSent /\ FailsOnlyWhenRekeyed
  BY Zenon DEF DeliveredWasSent, FailsOnlyWhenRekeyed
<1> QED BY <1>3, <1>4, <1>5, <1>6, <1>7, Zenon DEF IInv

LEMMA StepInv == IInv /\ [Next]_vars => IInv'
<1> SUFFICES ASSUME IInv, [Next]_vars PROVE IInv'
  BY Zenon
<1>1. CASE UNCHANGED vars
  <2>0. /\ UNCHANGED <<channels, sending, net>> /\ UNCHANGED <<delivered, failed>>
        /\ UNCHANGED <<opener, accepts, upgraded, frames>>
    BY <1>1, Zenon DEF vars
  <2>1. Shapes /\ Kept BY <2>0, KeptIfUnchanged, Zenon DEF IInv
  <2>2. Shapes' BY <1>1, <2>1, Zenon DEF vars, Shapes
  <2>3. NetInv' BY <2>0, <2>1, NetShrinks, Zenon DEF IInv
  <2>4. \A n \in Nodes : sending[n] \in Sends /\ sending'[n] = sending[n]
    BY <2>0, <2>1, Zenon DEF Shapes
  <2>5. \A n \in Nodes : SendInv(n)' /\ \A id \in Ids : ChannelInv(n, id)'
    BY <2>0, <2>1, <2>4, SendKept, ChannelKept, Zenon DEF IInv
  <2>6. DeliveredWasSent' /\ FailsOnlyWhenRekeyed' BY <2>0, <2>1, <2>2, HistoryKept, Zenon
  <2> QED BY <2>2, <2>3, <2>5, <2>6, Zenon DEF IInv
<1>2. ASSUME NEW n \in Nodes, start(n) PROVE IInv' BY <1>2, StartStep, Zenon
<1>3. ASSUME NEW n \in Nodes, stop(n) PROVE IInv' BY <1>3, StopStep, Zenon
<1>4. ASSUME NEW n \in Nodes, SendCopies(n) PROVE IInv' BY <1>4, SendCopiesStep, Zenon
<1>5. ASSUME NEW n \in Nodes, SendTransmits(n) PROVE IInv'
  BY <1>5, SendTransmitsStep, Zenon
<1>6. ASSUME NEW n \in Nodes, NEW m \in Others(n), NEW anon \in AnonLevels \union {None},
             channel_open(n, m, anon, TRUE)
      PROVE  IInv'
  BY <1>6, ChannelOpenStep, Zenon DEF Others
<1>7. ASSUME NEW n \in Nodes, NEW m \in Others(n), ensure_channel(n, m) PROVE IInv'
  BY <1>7, ChannelOpenStep, Zenon DEF Others, ensure_channel, AnonLevels
<1>8. ASSUME NEW n \in Nodes, NEW id \in Ids, channel_accept(n, id) PROVE IInv'
  BY <1>8, ChannelAcceptStep, Zenon
<1>9. ASSUME NEW n \in Nodes, NEW id \in Ids, channel_upgrade(n, id) PROVE IInv'
  BY <1>9, ChannelUpgradeStep, Zenon
<1>10. ASSUME NEW n \in Nodes, NEW id \in Ids, channel_close(n, id) PROVE IInv'
  BY <1>10, ChannelCloseStep, Zenon
<1>11. ASSUME NEW n \in Nodes, NEW id \in Ids, NEW sizes \in Batches,
              frame_send_batch(n, id, sizes)
       PROVE  IInv'
  BY <1>11, FrameSendStep, BatchesAreSizes, Zenon
<1>12. ASSUME NEW cell \in net, on_datagram(cell) PROVE IInv'
  BY <1>12, OpenCellStep, AcceptCellStep, OnCellStep, OnCellThrowsStep, Zenon DEF on_datagram
<1>13. ASSUME NEW cell \in net, Lose(cell) PROVE IInv' BY <1>13, LoseStep, Zenon
<1> QED
  BY <1>1, <1>2, <1>3, <1>4, <1>5, <1>6, <1>7, <1>8, <1>9, <1>10, <1>11, <1>12, <1>13, Zenon
     DEF Next

LEMMA Invariance == Spec => []IInv
BY InitInv, StepInv, PTL DEF Spec

(* Every variable of the routers keeps its type.                           *)
THEOREM TypeCorrect == Spec => []TypeOK
<1>1. IInv => TypeOK
  <2> SUFFICES ASSUME IInv PROVE TypeOK
    BY Zenon
  <2>1. \A n \in Nodes : \A id \in Ids : channels[n][id] \in ChannelInfo \union {None}
    BY Zenon DEF IInv, ChannelInv
  <2>2. \A n \in Nodes :
          /\ sending[n].id \in Ids \union {None}
          /\ sending[n].copy \in ChannelInfo \union {None}
          /\ \A i \in DOMAIN sending[n].rest : sending[n].rest[i] \in Payloads
          /\ \A d \in delivered[n] : d.id \in Ids /\ d.frame \in Payloads
    <3> SUFFICES ASSUME NEW n \in Nodes
                 PROVE  /\ sending[n].id \in Ids \union {None}
                        /\ sending[n].copy \in ChannelInfo \union {None}
                        /\ \A i \in DOMAIN sending[n].rest : sending[n].rest[i] \in Payloads
                        /\ \A d \in delivered[n] : d.id \in Ids /\ d.frame \in Payloads
      BY Zenon
    <3>1. sending[n] \in Sends BY Zenon DEF IInv, Shapes
    <3>2. delivered[n] \subseteq [id : Ids, frame : Payloads] BY Zenon DEF IInv, Shapes
    <3> QED BY <3>1, <3>2 DEF Sends
  <2> QED BY <2>1, <2>2, Zenon DEF IInv, Shapes, NetInv, TypeOK
<1> QED BY <1>1, Invariance, PTL

(* Whatever cells are lost, repeated or late, an open channel and a send   *)
(* in progress never use the opener's temporary key or the zero key of the *)
(* handshake (ChannelManager::accept, upgrade, on_chan_accept, send).      *)
THEOREM OpenChannelsAgree == Spec => []OpenKeyIsAgreed
<1>1. IInv => OpenKeyIsAgreed
  <2> SUFFICES ASSUME IInv PROVE OpenKeyIsAgreed
    BY Zenon
  <2>1. ASSUME NEW n \in Nodes, NEW id \in Ids
        PROVE  /\ IsOpen(channels[n], id) => channels[n][id].key \in Agreed(id)
               /\ sending[n].copy # None /\ sending[n].id = id
                    => sending[n].copy.key \in Agreed(id)
    BY Zenon DEF IInv, ChannelInv, SendInv
  <2> QED BY <2>1, Zenon DEF OpenKeyIsAgreed, Agreed
<1> QED BY <1>1, Invariance, PTL

(* What frame.recv reports is, whole, what another router was given        *)
(* (send, on_cell, garlic_decode).                                         *)
THEOREM DeliveriesAreGenuine == Spec => []DeliveredWasSent
<1>1. IInv => DeliveredWasSent BY Zenon DEF IInv
<1> QED BY <1>1, Invariance, PTL

(* A router is ended by a cell that does not authenticate only on a        *)
(* channel that was accepted twice or upgraded (on_cell, cell_decode).     *)
THEOREM FailuresAreRekeyings == Spec => []FailsOnlyWhenRekeyed
<1>1. IInv => FailsOnlyWhenRekeyed BY Zenon DEF IInv
<1> QED BY <1>1, Invariance, PTL

(* No late cell revives a channel that its opener has closed or lost       *)
(* (close, on_chan_accept, register_incoming).                             *)
THEOREM ClosedForGood == Spec => CloseIsFinal
<1> DEFINE Final == \A id \in Ids : \A n \in Nodes :
       (opener[id] = n /\ ~Has(channels[n], id)) => ~Has(channels'[n], id)
<1>1. IInv /\ [Next]_vars => [Final]_vars
  <2> SUFFICES ASSUME IInv, Next, NEW id \in Ids, NEW n \in Nodes,
                      opener[id] = n, channels[n][id] = None
               PROVE  channels'[n][id] = None
    BY Zenon DEF Has
  <2>0. channels \in [Nodes -> [Ids -> ChannelInfo \union {None}]]
    BY Zenon DEF IInv, Shapes
  <2>1. CASE UNCHANGED channels BY <2>1, Zenon
  <2>2. ASSUME NEW m \in Nodes, NEW j \in Fresh, NEW remote, NEW anon, NEW peer,
               channels' = [channels EXCEPT ![m] = open(@, j, remote, anon, peer)]
        PROVE  channels'[n][id] = None
    <3>1. j \in Ids /\ j # id BY ChannelAssumption, Zenon DEF Fresh, ChannelAssumption
    <3> QED BY <2>0, <2>2, <3>1, Zenon DEF open, Put
  <2>3. ASSUME NEW m \in Nodes, NEW j \in Ids, NEW key,
               channels' = [channels EXCEPT ![m] = SetOpen(@, j, key)]
        PROVE  channels'[n][id] = None
    BY <2>0, <2>3, Zenon DEF SetOpen, Has
  <2>4. ASSUME NEW m \in Nodes, Gone(m) PROVE channels'[n][id] = None
    BY <2>0, <2>4, Zenon DEF Gone, NoChannels
  <2>5. ASSUME NEW cell \in net, on_chan_open_cell(cell) PROVE channels'[n][id] = None
    <3>1. cell.to \in Nodes /\ cell.id \in Ids /\ opener[cell.id] # cell.to
      BY <2>5, Zenon DEF IInv, NetInv, CellInv, OpenCellInv, on_chan_open_cell
    <3> QED BY <2>0, <2>5, <3>1, Zenon DEF on_chan_open_cell, register_incoming, Put
  <2>6. ASSUME NEW cell \in net, on_cellThrows(cell) PROVE channels'[n][id] = None
    <3>1. cell.to \in Nodes
      BY <2>6, Zenon DEF IInv, NetInv, CellInv, DataCellInv, on_cellThrows
    <3> QED BY <2>4, <2>6, <3>1, Zenon DEF on_cellThrows
  <2>7. ASSUME NEW cell \in net, on_chan_accept_cell(cell) PROVE channels'[n][id] = None
    <3>1. cell.to \in Nodes /\ cell.id \in Ids
      BY <2>7, Zenon DEF IInv, NetInv, CellInv, AcceptCellInv, on_chan_accept_cell
    <3> QED BY <2>3, <2>7, <3>1, Zenon DEF on_chan_accept_cell, on_chan_accept
  <2>8. ASSUME NEW m \in Nodes, start(m) PROVE channels'[n][id] = None
    <3>1. \/ UNCHANGED channels
          \/ \E k \in Nodes, j \in Fresh :
               channels' = [channels EXCEPT ![m] = open(@, j, None, "DIRECT", k)]
      BY <2>8, Zenon DEF start
    <3> QED BY <2>1, <2>2, <3>1
  <2>9. ASSUME NEW m \in Nodes, NEW k, NEW anon, NEW addressed,
               channel_open(m, k, anon, addressed)
        PROVE  channels'[n][id] = None
    <3>1. PICK j \in Fresh :
            channels' = [channels EXCEPT ![m] =
              open(@, j, k, IF anon = None THEN "ANONYMOUS" ELSE anon,
                   IF addressed THEN k ELSE None)]
      BY <2>9, Zenon DEF channel_open
    <3> QED BY <2>2, <3>1, Zenon
  <2>10. ASSUME NEW m \in Nodes, NEW j \in Ids, channel_close(m, j)
         PROVE  channels'[n][id] = None
    BY <2>0, <2>10, Zenon DEF channel_close, close
  <2>11. ASSUME NEW m \in Nodes, NEW j \in Ids, channel_accept(m, j) \/ channel_upgrade(m, j)
         PROVE  channels'[n][id] = None
    BY <2>3, <2>11, Zenon DEF channel_accept, accept, channel_upgrade, upgrade
  <2> QED
    BY <2>1, <2>4, <2>5, <2>6, <2>7, <2>8, <2>9, <2>10, <2>11, Zenon
       DEF Next, stop, SendCopies, SendTransmits, ensure_channel, frame_send_batch,
           on_datagram, on_cell, Lose
<1>2. Spec => [][Final]_vars BY <1>1, Invariance, PTL DEF Spec
<1> QED BY <1>2, Zenon DEF CloseIsFinal
=============================================================================
