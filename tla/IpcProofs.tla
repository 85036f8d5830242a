----------------------------- MODULE IpcProofs ------------------------------
(***************************************************************************)
(* The inductive invariant of Ipc, for any number of client processes,     *)
(* threads and connections and every bound, that every step preserves it,  *)
(* and what follows from it.                                               *)
(*                                                                         *)
(* The invariant says of the sockets that every answer under way names the *)
(* request it was computed for (Answers), and of a client that the calls   *)
(* its threads are in have ids of their own and are pending until they are *)
(* answered (CallInv), and when its receive thread has been left behind    *)
(* (OwnerInv).                                                             *)
(***************************************************************************)
EXTENDS Ipc, FiniteSetTheorems, SequenceTheorems, WellFoundedInduction, TLAPS

Requests  == [id : CallIds, method : {"call"}]
Responses == {m \in [id : CallIds, ok : BOOLEAN, result : CallIds] : m.result = m.id}
Answers   == Responses \cup {PushFrame}

ConnTypes ==
  [st : {"unused", "backlog", "serving", "handling", "closing", "closed", "gone"},
   fd : 0 .. MaxConns, up : Seq(Requests), down : Seq(Answers),
   client_end : BOOLEAN, server_end : BOOLEAN]

(* A request in work is still in its queue, and a connection has a         *)
(* descriptor once it is accepted.                                         *)
ConnInv(r) ==
  /\ r.st = "handling" /\ r.server_end => r.up # << >>
  /\ r.st \in {"unused", "backlog"} => r.fd = 0

SocketInv == conns \in [Conns -> ConnTypes] /\ \A k \in Conns : ConnInv(conns[k])

ServerTypes ==
  /\ server \in {"up", "stopping", "stopped", "killed"}
  /\ fds \in [1 .. MaxConns -> Nat] /\ pushes \in 0 .. MaxPushes
  /\ stops \in 0 .. MaxStops /\ pipe \in {"none", "response", "push"}

Objects ==
  [running : BOOLEAN, conn : 0 .. MaxConns, recv : {"none", "reading", "handling", "ended"},
   pending : SUBSET CallIds, next_id : 1 .. MaxCalls + 1,
   process : {"up", "terminated", "killed"},
   owner : {"disconnected", "connected", "joining"}]

Calls == [pc : {"idle", "registered", "waiting"}, id : 0 .. MaxCalls,
          got : {"none", "disconnected", "error", "ok"}, result : 0 .. MaxCalls]

ClientTypes == client \in [Clients -> Objects] /\ call \in [Clients -> [Callers -> Calls]]

(* Of the object o and the calls f of its threads.                         *)
CallInv(o, f) ==
  /\ \A t \in Callers :
       /\ f[t].pc = "idle" => f[t].id = 0 /\ f[t].got = "none"
       /\ f[t].pc # "idle" => /\ f[t].id \in 1 .. o.next_id - 1
                              /\ f[t].id \in o.pending \/ f[t].got # "none"
       /\ f[t].got = "ok" => f[t].result = f[t].id
  /\ \A t, u \in Callers : t # u /\ f[t].pc # "idle" /\ f[u].pc # "idle" => f[t].id # f[u].id
  /\ f[Recv].pc # "idle" => o.recv = "handling"
  /\ f[Recv].got \notin {"ok", "error"}

(* A receive thread that nobody will join belongs to a lost connection.    *)
OwnerInv(c, o) ==
  /\ o.owner = "disconnected" /\ o.recv # "none" => c \in lost
  /\ o.owner = "connected" /\ ~o.running /\ o.recv # "none" => c \in lost
  /\ o.process = "terminated" => c \in lost

ClientInv ==
  /\ ClientTypes
  /\ \A c \in Clients : CallInv(client[c], call[c]) /\ OwnerInv(c, client[c])

IInv == SocketInv /\ ServerTypes /\ ClientInv

-----------------------------------------------------------------------------
(* Among MaxConns descriptors one is free while a connection has none, and *)
(* accept() returns the lowest.                                            *)
LEMMA FreeDescriptor ==
  ASSUME SocketInv, NEW k \in Conns, conns[k].fd = 0
  PROVE  LowestFd \in 1 .. MaxConns
<1>0. MaxConns \in Nat /\ MaxConns > 0 BY SocketAssumption DEF SocketAssumption
<1> DEFINE J == Conns \ {k}
           f == [j \in J |-> conns[j].fd]
           T == {f[j] : j \in J}
           Free == 1 .. MaxConns \ OpenFds
<1>1. IsFiniteSet(Conns) /\ Cardinality(Conns) = MaxConns
  BY <1>0, FS_Interval DEF Conns
<1>2. IsFiniteSet(J) /\ Cardinality(J) = MaxConns - 1
  BY <1>1, FS_RemoveElement, Zenon
<1>3. IsFiniteSet(T) /\ Cardinality(T) <= MaxConns - 1
  <2>1. f \in Surjection(J, T) BY Zenon DEF Surjection
  <2> HIDE DEF J, f, T
  <2> QED BY <1>2, <2>1, FS_Surjection
<1>4. OpenFds \subseteq T BY Zenon DEF OpenFds
<1>5. Free # {}
  <2> SUFFICES ASSUME Free = {} PROVE FALSE
    BY Zenon
  <2>1. 1 .. MaxConns \in SUBSET T BY <1>4, Zenon
  <2>2. Cardinality(1 .. MaxConns) = MaxConns BY <1>0, FS_Interval
  <2> HIDE DEF T
  <2>3. Cardinality(1 .. MaxConns) <= Cardinality(T) BY <1>3, <2>1, FS_Subset, Zenon
  <2>4. Cardinality(T) \in Nat BY <1>3, FS_CardinalityType, Zenon
  <2> QED BY <1>0, <1>3, <2>2, <2>3, <2>4
<1>6. Free \subseteq Nat OBVIOUS
<1>7. PICK x \in Free : \A y \in Free : ~(<<y, x>> \in OpToRel(<, Nat))
  <2> HIDE DEF Free
  <2> QED BY <1>5, <1>6, NatLessThanWellFounded, WFMin, Zenon
<1>8. \A y \in Free : ~(y < x)
  BY <1>6, <1>7, Zenon DEF OpToRel
<1>9. x \in 1 .. MaxConns /\ x \notin OpenFds /\ \A n \in 1 .. x - 1 : n \in OpenFds
  BY <1>0, <1>8
<1> QED BY <1>9, Zenon DEF LowestFd

(* A step that replaces one connection by a well-formed one, or each.      *)
LEMMA OneConn ==
  ASSUME SocketInv, NEW k \in Conns, NEW r \in ConnTypes, ConnInv(r),
         conns' = [conns EXCEPT ![k] = r]
  PROVE  SocketInv'
BY Zenon DEF SocketInv

LEMMA ClosedServerEnd ==
  ASSUME NEW k \in Conns, conns[k] \in ConnTypes,
         ConnInv(conns[k])
  PROVE  /\ CloseServerEnd(k) \in ConnTypes /\ ConnInv(CloseServerEnd(k))
         /\ CloseServerEnd(k).fd = conns[k].fd /\ ~CloseServerEnd(k).server_end
BY EmptySeq, Zenon DEF CloseServerEnd, ConnTypes, ConnInv

(* A signal ends the daemon.                                               *)
LEMMA KilledStep ==
  ASSUME IInv, NEW writing \in {"response", "push"}, Killed(writing)
  PROVE  SocketInv' /\ server' = "killed" /\ fds' \in [1 .. MaxConns -> Nat]
         /\ pipe' \in {"none", "response", "push"}
<1>1. \A k \in Conns : conns[k] \in ConnTypes /\ ConnInv(conns[k])
  BY Zenon DEF IInv, SocketInv
<1>2. ASSUME NEW k \in Conns PROVE conns'[k] \in ConnTypes /\ ConnInv(conns'[k])
  <2>1. CASE conns[k].st = "unused"
    <3>1. conns'[k] = conns[k] BY <2>1, Zenon DEF Killed
    <3> QED BY <1>1, <3>1, Zenon
  <2>2. CASE conns[k].st # "unused"
    <3>1. conns'[k] = [CloseServerEnd(k) EXCEPT !.st = "gone", !.fd = 0]
      BY <2>2, Zenon DEF Killed
    <3>2. CloseServerEnd(k) \in ConnTypes BY <1>1, ClosedServerEnd, Zenon
    <3>3. 0 \in 0 .. MaxConns BY SocketAssumption DEF SocketAssumption
    <3> QED BY <3>1, <3>2, <3>3, Zenon DEF ConnTypes, ConnInv
  <2> QED BY <2>1, <2>2, Zenon
<1>3. SocketInv'
  <2>1. conns' \in [Conns -> ConnTypes] BY <1>2, Zenon DEF Killed
  <2> QED BY <1>2, <2>1, Zenon DEF SocketInv
<1> QED BY <1>3, Zenon DEF Killed, NoFds

LEMMA ServerStep ==
  ASSUME IInv, ServerNext, UNCHANGED clients
  PROVE  IInv'
<1> SUFFICES SocketInv' /\ ServerTypes'
  BY Zenon DEF IInv, ClientInv, ClientTypes, OwnerInv, clients
<1>0. conns \in [Conns -> ConnTypes] BY Zenon DEF IInv, SocketInv
<1>1. CASE start BY <1>1, Zenon DEF start, IInv, SocketInv, ServerTypes
<1>2. CASE JoinConnThreads
  BY <1>2, Zenon DEF JoinConnThreads, IInv, SocketInv, ServerTypes
<1>3. ASSUME NEW k \in Conns, accept_loop(k) PROVE SocketInv' /\ ServerTypes'
  <2>1. LowestFd \in 1 .. MaxConns
    BY <1>3, FreeDescriptor, Zenon DEF accept_loop, IInv, SocketInv, ConnInv
  <2>2. SocketInv'
    BY <1>0, <1>3, <2>1 DEF accept_loop, IInv, SocketInv, ConnInv, ConnTypes
  <2>3. ServerTypes' BY <1>3, <2>1 DEF accept_loop, IInv, ServerTypes
  <2> QED BY <2>2, <2>3, Zenon
<1>4. ASSUME NEW k \in Conns, ReadRequest(k) PROVE SocketInv' /\ ServerTypes'
  <2>1. ServerTypes' BY <1>4, Zenon DEF ReadRequest, IInv, ServerTypes, servers
  <2>2. SocketInv'
    BY <1>0, <1>4, Zenon DEF ReadRequest, Readable, IInv, SocketInv, ConnInv, ConnTypes
  <2> QED BY <2>1, <2>2, Zenon
<1>5. ASSUME NEW k \in Conns, LeaveConnLoop(k) PROVE SocketInv' /\ ServerTypes'
  <2>1. ServerTypes' BY <1>5, Zenon DEF LeaveConnLoop, IInv, ServerTypes, servers
  <2>2. SocketInv'
    BY <1>0, <1>5, Zenon DEF LeaveConnLoop, IInv, SocketInv, ConnInv, ConnTypes
  <2> QED BY <2>1, <2>2, Zenon
<1>6. ASSUME NEW k \in Conns, CloseFd(k) PROVE SocketInv' /\ ServerTypes'
  <2>1. ServerTypes' BY <1>6, Zenon DEF CloseFd, IInv, ServerTypes, servers
  <2>2. CloseServerEnd(k) \in ConnTypes
    BY <1>0, ClosedServerEnd, Zenon DEF IInv, SocketInv
  <2> DEFINE r == [CloseServerEnd(k) EXCEPT !.st = "closed"]
  <2>3. r \in ConnTypes /\ ConnInv(r) BY <2>2, Zenon DEF ConnTypes, ConnInv
  <2>4. conns' = [conns EXCEPT ![k] = r] BY <1>6, Zenon DEF CloseFd
  <2> HIDE DEF r
  <2> QED BY <2>1, <2>3, <2>4, OneConn, Zenon DEF IInv
<1>7. ASSUME NEW k \in Conns, remove_client(k) PROVE SocketInv' /\ ServerTypes'
  <2>1. SocketInv'
    <3>1. 0 \in 0 .. MaxConns BY SocketAssumption DEF SocketAssumption
    <3> DEFINE r == [conns[k] EXCEPT !.st = "gone", !.fd = 0]
    <3>2. r \in ConnTypes /\ ConnInv(r) BY <1>0, <3>1, Zenon DEF ConnTypes, ConnInv
    <3>3. conns' = [conns EXCEPT ![k] = r]
      BY <1>0, <1>7, Zenon DEF remove_client, ConnTypes
    <3> HIDE DEF r
    <3> QED BY <3>2, <3>3, OneConn, Zenon DEF IInv
  <2>2. ServerTypes' BY <1>7, Zenon DEF remove_client, IInv, ServerTypes
  <2> QED BY <2>1, <2>2, Zenon
<1>8. ASSUME NEW k \in Conns, WriteResponse(k) PROVE SocketInv' /\ ServerTypes'
  <2>1. CASE ~conns[k].server_end /\ conns' = [conns EXCEPT ![k].st = "closing"]
             /\ UNCHANGED <<server, fds, pipe>>
    <3>1. ServerTypes' BY <1>8, <2>1, Zenon DEF WriteResponse, IInv, ServerTypes
    <3>2. SocketInv' BY <1>0, <2>1, Zenon DEF IInv, SocketInv, ConnInv, ConnTypes
    <3> QED BY <3>1, <3>2, Zenon
  <2>2. CASE Killed("response")
    BY <1>8, <2>2, KilledStep, Zenon DEF WriteResponse, IInv, ServerTypes
  <2>3. ASSUME conns[k].server_end, NEW ok \in BOOLEAN,
               conns' = [conns EXCEPT
                 ![k].st = IF server = "up" THEN "serving" ELSE "closing",
                 ![k].up = Tail(@),
                 ![k].down = Append(@, Response(Head(conns[k].up).id, ok))],
               UNCHANGED <<server, fds, pipe>>
        PROVE  SocketInv' /\ ServerTypes'
    <3>1. ServerTypes' BY <1>8, <2>3, Zenon DEF WriteResponse, IInv, ServerTypes
    <3>2. conns[k] \in ConnTypes /\ conns[k].up # << >>
      BY <1>0, <1>8, <2>3, Zenon DEF WriteResponse, IInv, SocketInv, ConnInv
    <3>3. Head(conns[k].up) \in Requests /\ Tail(conns[k].up) \in Seq(Requests)
      BY <3>2, HeadTailProperties, Zenon DEF ConnTypes
    <3> DEFINE m == Response(Head(conns[k].up).id, ok)
    <3>4. m \in Answers BY <3>3, Zenon DEF Answers, Responses, Response, Requests
    <3> HIDE DEF m
    <3>5. Append(conns[k].down, m) \in Seq(Answers) BY <3>2, <3>4 DEF ConnTypes
    <3> DEFINE r == [conns[k] EXCEPT !.st = IF server = "up" THEN "serving" ELSE "closing",
                                     !.up = Tail(conns[k].up),
                                     !.down = Append(conns[k].down, m)]
    <3>6. r \in ConnTypes /\ ConnInv(r) BY <3>2, <3>3, <3>5, Zenon DEF ConnTypes, ConnInv
    <3>7. conns' = [conns EXCEPT ![k] = r] BY <1>0, <2>3, <3>2, Zenon DEF ConnTypes, m
    <3> HIDE DEF r
    <3> QED BY <3>1, <3>6, <3>7, OneConn, Zenon DEF IInv
  <2> QED BY <1>8, <2>1, <2>2, <2>3, Zenon DEF WriteResponse
<1>9. CASE push
  <2>0. pushes' \in 0 .. MaxPushes /\ stops' \in 0 .. MaxStops
    BY <1>9, ServerAssumption DEF push, IInv, ServerTypes, ServerAssumption
  <2>1. CASE Killed("push")
    BY <2>0, <2>1, KilledStep, Zenon DEF IInv, ServerTypes
  <2>2. CASE /\ conns' = [k \in Conns |-> IF k \in Listed THEN Pushed(k) ELSE conns[k]]
             /\ UNCHANGED <<server, fds, pipe>>
    <3>1. ServerTypes' BY <2>0, <2>2, Zenon DEF IInv, ServerTypes
    <3>2. ASSUME NEW k \in Listed
          PROVE  Pushed(k) \in ConnTypes /\ ConnInv(Pushed(k))
      <4> DEFINE pushed == [i \in 1 .. fds[conns[k].fd] |-> PushFrame]
      <4>1. k \in Conns /\ conns[k] \in ConnTypes /\ ConnInv(conns[k])
        BY Zenon DEF IInv, SocketInv, Listed
      <4>2. fds[conns[k].fd] \in Nat
        BY <4>1 DEF ConnTypes, Listed, IInv, ServerTypes
      <4>3. pushed \in Seq(Answers) BY <4>2 DEF Answers
      <4> HIDE DEF pushed
      <4>4. conns[k].down \o pushed \in Seq(Answers) BY <4>1, <4>3 DEF ConnTypes
      <4>5. Pushed(k) = [conns[k] EXCEPT !.down = conns[k].down \o pushed]
        BY Zenon DEF Pushed, pushed
      <4> QED BY <4>1, <4>4, <4>5, Zenon DEF ConnTypes, ConnInv
    <3>3. SocketInv' BY <1>0, <2>2, <3>2, Zenon DEF IInv, SocketInv
    <3> QED BY <3>1, <3>3, Zenon
  <2> QED BY <1>9, <2>1, <2>2, Zenon DEF push
<1>10. CASE stop
  <2>1. ServerTypes'
    BY <1>10, ServerAssumption DEF stop, NoFds, IInv, ServerTypes, ServerAssumption
  <2>2. ASSUME NEW k \in Conns PROVE conns'[k] \in ConnTypes /\ ConnInv(conns'[k])
    <3>1. conns[k] \in ConnTypes /\ ConnInv(conns[k]) BY Zenon DEF IInv, SocketInv
    <3>2. CloseServerEnd(k) \in ConnTypes /\ ConnInv(CloseServerEnd(k))
      BY <3>1, ClosedServerEnd, Zenon
    <3>3. \/ conns'[k] = [CloseServerEnd(k) EXCEPT !.st = "gone"]
          \/ conns'[k] = CloseServerEnd(k) \/ conns'[k] = conns[k]
      BY <1>10, Zenon DEF stop
    <3>4. [CloseServerEnd(k) EXCEPT !.st = "gone"] \in ConnTypes
          /\ ConnInv([CloseServerEnd(k) EXCEPT !.st = "gone"])
      BY <3>2, Zenon DEF ConnTypes, ConnInv
    <3> QED BY <3>1, <3>2, <3>3, <3>4, Zenon
  <2>3. SocketInv'
    <3>1. conns' \in [Conns -> ConnTypes] BY <1>10, <2>2, Zenon DEF stop
    <3> QED BY <2>2, <3>1, Zenon DEF SocketInv
  <2> QED BY <2>1, <2>3, Zenon
<1> QED
  BY <1>1, <1>2, <1>3, <1>4, <1>5, <1>6, <1>7, <1>8, <1>9, <1>10, Zenon DEF ServerNext

-----------------------------------------------------------------------------
(***************************************************************************)
(* The clients preserve the invariant too.                                 *)
(***************************************************************************)

(* A step that replaces one client's object and calls.                     *)
LEMMA OneClient ==
  ASSUME ClientInv, NEW c \in Clients, NEW o \in Objects, NEW f \in [Callers -> Calls],
         client' = [client EXCEPT ![c] = o], call' = [call EXCEPT ![c] = f],
         lost \subseteq lost', CallInv(o, f), OwnerInv(c, o)'
  PROVE  ClientInv'
<1>1. ClientTypes BY Zenon DEF ClientInv
<1>2. ClientTypes' BY <1>1, Zenon DEF ClientTypes
<1>3. ASSUME NEW d \in Clients
      PROVE  (CallInv(client[d], call[d]) /\ OwnerInv(d, client[d]))'
  <2>1. CASE d = c
    <3>1. client'[d] = o /\ call'[d] = f BY <1>1, <2>1, Zenon DEF ClientTypes
    <3> QED BY <2>1, <3>1, Zenon DEF OwnerInv
  <2>2. CASE d # c
    <3>1. client'[d] = client[d] /\ call'[d] = call[d]
      BY <1>1, <2>2, Zenon DEF ClientTypes
    <3>2. CallInv(client[d], call[d]) /\ OwnerInv(d, client[d]) BY Zenon DEF ClientInv
    <3> QED BY <3>1, <3>2, Zenon DEF OwnerInv
  <2> QED BY <2>1, <2>2, Zenon
<1> QED BY <1>2, <1>3, Zenon DEF ClientInv

(* Calls that a step leaves alone.                                         *)
LEMMA CallsKept ==
  ASSUME NEW o \in Objects, NEW p \in Objects, NEW f, CallInv(o, f),
         p.pending = o.pending, p.next_id = o.next_id,
         p.recv = o.recv \/ f[Recv].pc = "idle"
  PROVE  CallInv(p, f)
BY Zenon DEF CallInv

(* A client closes its end of a connection, or dies.                       *)
LEMMA ClosedClientEnd ==
  ASSUME SocketInv, NEW k \in Conns
  PROVE  CloseClientEnd(k) \in ConnTypes /\ ConnInv(CloseClientEnd(k))
<1>1. conns[k] \in ConnTypes /\ ConnInv(conns[k]) BY Zenon DEF SocketInv
<1> QED BY <1>1, EmptySeq, Zenon DEF CloseClientEnd, ConnTypes, ConnInv

LEMMA Dying ==
  ASSUME IInv, NEW c \in Clients, NEW how \in {"terminated", "killed"}, Die(c, how),
         UNCHANGED <<call, lost>>, how = "terminated" => c \in lost
  PROVE  SocketInv' /\ ClientInv'
<1>1. SocketInv'
  <2>1. conns \in [Conns -> ConnTypes] /\ \A k \in Conns : ConnInv(conns[k])
    BY Zenon DEF IInv, SocketInv
  <2> QED BY <2>1, ClosedClientEnd, Zenon DEF Die, SocketInv, IInv
<1>2. ClientInv'
  <2>1. ClientTypes BY Zenon DEF IInv, ClientInv
  <2> SUFFICES ASSUME NEW o \in Objects, o = client[c],
                      NEW f \in [Callers -> Calls], f = call[c]
               PROVE  ClientInv'
    BY <2>1, Zenon DEF ClientTypes
  <2>2. CallInv(o, f) /\ OwnerInv(c, o) BY Zenon DEF IInv, ClientInv
  <2> DEFINE p == [o EXCEPT !.process = how]
  <2>3. p \in Objects /\ p.pending = o.pending /\ p.next_id = o.next_id /\ p.recv = o.recv
        /\ p.owner = o.owner /\ p.running = o.running /\ p.process = how
    BY Zenon DEF Objects
  <2>4. client' = [client EXCEPT ![c] = p] /\ call' = [call EXCEPT ![c] = f]
    BY <2>1, Zenon DEF Die, ClientTypes
  <2> HIDE DEF p
  <2>5. CallInv(p, f) BY <2>2, <2>3, CallsKept, Zenon
  <2>6. OwnerInv(c, p)' BY <2>2, <2>3, Zenon DEF OwnerInv
  <2> QED BY <2>3, <2>4, <2>5, <2>6, OneClient, Zenon DEF IInv
<1> QED BY <1>1, <1>2, Zenon

(* Every step of client c preserves the invariant.                         *)
LEMMA ConnectStep ==
  ASSUME IInv, NEW c \in Clients, connect(c, Listening)
  PROVE  SocketInv' /\ ClientInv'
<1>0. ClientTypes BY Zenon DEF IInv, ClientInv
<1> SUFFICES ASSUME NEW o \in Objects, o = client[c],
                    NEW f \in [Callers -> Calls], f = call[c]
             PROVE  SocketInv' /\ ClientInv'
  BY <1>0, Zenon DEF ClientTypes
<1>1. /\ CallInv(o, f) /\ OwnerInv(c, o)
      /\ o.owner = "disconnected" /\ call' = [call EXCEPT ![c] = f] /\ lost' = lost
  BY <1>0, Zenon DEF IInv, ClientInv, connect, ClientTypes
<1>2. CASE /\ client' = [client EXCEPT ![c].owner = "connected", ![c].conn = 0]
           /\ UNCHANGED conns
  <2> DEFINE p == [o EXCEPT !.owner = "connected", !.conn = 0]
  <2>0. 0 \in 0 .. MaxConns BY SocketAssumption DEF SocketAssumption
  <2>1. /\ p \in Objects /\ p.pending = o.pending /\ p.next_id = o.next_id
        /\ p.recv = o.recv /\ p.process = o.process
    BY <2>0, Zenon DEF Objects
  <2>2. client' = [client EXCEPT ![c] = p] BY <1>0, <1>2, Zenon DEF ClientTypes, Objects
  <2> HIDE DEF p
  <2>3. CallInv(p, f) BY <1>1, <2>1, CallsKept, Zenon
  <2>4. OwnerInv(c, p)' BY <1>1, <2>1, Zenon DEF OwnerInv
  <2>5. ClientInv' BY <1>1, <2>1, <2>2, <2>3, <2>4, OneClient, Zenon DEF IInv
  <2> QED BY <1>2, <2>5, Zenon DEF IInv, SocketInv
<1>3. CASE o.recv # "none" /\ Die(c, "terminated")
  <2>1. c \in lost BY <1>1, <1>3, Zenon DEF OwnerInv
  <2> QED BY <1>1, <1>3, <2>1, Dying, Zenon DEF connect
<1>4. ASSUME o.recv = "none", NEW k \in Conns,
             conns' = [conns EXCEPT ![k] = [Unused EXCEPT
               !.st = "backlog", !.client_end = TRUE, !.server_end = TRUE]],
             client' = [client EXCEPT ![c].running = TRUE, ![c].conn = k,
                                      ![c].recv = "reading", ![c].owner = "connected"]
      PROVE  SocketInv' /\ ClientInv'
  <2> DEFINE r == [Unused EXCEPT !.st = "backlog", !.client_end = TRUE, !.server_end = TRUE]
             p == [o EXCEPT !.running = TRUE, !.conn = k,
                            !.recv = "reading", !.owner = "connected"]
  <2>0. k \in 0 .. MaxConns /\ 0 \in 0 .. MaxConns
    BY SocketAssumption DEF SocketAssumption, Conns
  <2>1. r \in ConnTypes /\ ConnInv(r)
    BY <2>0, EmptySeq, Zenon DEF ConnTypes, ConnInv, Unused
  <2>2. SocketInv'
    <3> HIDE DEF r
    <3>1. conns' = [conns EXCEPT ![k] = r] BY <1>4, Zenon DEF r
    <3> QED BY <2>1, <3>1, OneConn, Zenon DEF IInv
  <2>3. /\ p \in Objects /\ p.pending = o.pending /\ p.next_id = o.next_id
        /\ p.running = TRUE /\ p.owner = "connected" /\ p.process = o.process
    BY <2>0, Zenon DEF Objects
  <2>4. client' = [client EXCEPT ![c] = p] BY <1>0, <1>4, Zenon DEF ClientTypes, Objects
  <2> HIDE DEF p
  <2>5. f[Recv].pc = "idle" BY <1>1, <1>4, Zenon DEF CallInv
  <2>6. CallInv(p, f) BY <1>1, <2>3, <2>5, CallsKept, Zenon
  <2>7. OwnerInv(c, p)' BY <1>1, <2>3, Zenon DEF OwnerInv
  <2> QED BY <1>1, <2>2, <2>3, <2>4, <2>6, <2>7, OneClient, Zenon DEF IInv
<1> QED BY <1>2, <1>3, <1>4, Zenon DEF connect

LEMMA DisconnectStep ==
  ASSUME IInv, NEW c \in Clients, disconnect(c)
  PROVE  SocketInv' /\ ClientInv'
<1>0. ClientTypes BY Zenon DEF IInv, ClientInv
<1> SUFFICES ASSUME NEW o \in Objects, o = client[c],
                    NEW f \in [Callers -> Calls], f = call[c]
             PROVE  SocketInv' /\ ClientInv'
  BY <1>0, Zenon DEF ClientTypes
<1>1. /\ CallInv(o, f) /\ OwnerInv(c, o)
      /\ o.owner = "connected" /\ call' = [call EXCEPT ![c] = f] /\ lost' = lost
  BY <1>0, Zenon DEF IInv, ClientInv, disconnect, ClientTypes
<1>2. CASE o.running
  <2> DEFINE p == [o EXCEPT !.running = FALSE, !.conn = 0, !.owner = "joining"]
  <2>0. 0 \in 0 .. MaxConns BY SocketAssumption DEF SocketAssumption
  <2>1. /\ p \in Objects /\ p.pending = o.pending /\ p.next_id = o.next_id
        /\ p.recv = o.recv /\ p.owner = "joining" /\ p.process = o.process
    BY <2>0, Zenon DEF Objects
  <2>2. client' = [client EXCEPT ![c] = p]
    BY <1>0, <1>2, Zenon DEF disconnect, ClientTypes, Objects
  <2> HIDE DEF p
  <2>3. CallInv(p, f) BY <1>1, <2>1, CallsKept, Zenon
  <2>4. OwnerInv(c, p)' BY <1>1, <2>1, Zenon DEF OwnerInv
  <2>5. ClientInv' BY <1>1, <2>1, <2>2, <2>3, <2>4, OneClient, Zenon DEF IInv
  <2>6. SocketInv'
    <3>1. conns' = [conns EXCEPT ![o.conn] = CloseClientEnd(o.conn)]
      BY <1>2, Zenon DEF disconnect
    <3>2. CASE o.conn \in Conns BY <3>1, <3>2, ClosedClientEnd, OneConn, Zenon DEF IInv
    <3>3. CASE o.conn \notin Conns
      <4>1. conns \in [Conns -> ConnTypes] BY Zenon DEF IInv, SocketInv
      <4>2. conns' = conns BY <3>1, <3>3, <4>1, Zenon
      <4> QED BY <4>2, Zenon DEF IInv, SocketInv
    <3> QED BY <3>2, <3>3, Zenon
  <2> QED BY <2>5, <2>6, Zenon
<1>3. CASE ~o.running
  <2> DEFINE p == [o EXCEPT !.owner = "disconnected"]
  <2>1. /\ p \in Objects /\ p.pending = o.pending /\ p.next_id = o.next_id
        /\ p.recv = o.recv /\ p.owner = "disconnected" /\ p.process = o.process
    BY Zenon DEF Objects
  <2>2. client' = [client EXCEPT ![c] = p] /\ conns' = conns
    BY <1>0, <1>3, Zenon DEF disconnect, ClientTypes
  <2> HIDE DEF p
  <2>3. CallInv(p, f) BY <1>1, <2>1, CallsKept, Zenon
  <2>4. OwnerInv(c, p)' BY <1>1, <1>3, <2>1, Zenon DEF OwnerInv
  <2>5. ClientInv' BY <1>1, <2>1, <2>2, <2>3, <2>4, OneClient, Zenon DEF IInv
  <2> QED BY <2>2, <2>5, Zenon DEF IInv, SocketInv
<1> QED BY <1>2, <1>3, Zenon

LEMMA JoinStep ==
  ASSUME IInv, NEW c \in Clients, JoinRecvThread(c)
  PROVE  SocketInv' /\ ClientInv'
<1>0. ClientTypes BY Zenon DEF IInv, ClientInv
<1> SUFFICES ASSUME NEW o \in Objects, o = client[c],
                    NEW f \in [Callers -> Calls], f = call[c]
             PROVE  SocketInv' /\ ClientInv'
  BY <1>0, Zenon DEF ClientTypes
<1>1. /\ CallInv(o, f) /\ OwnerInv(c, o)
      /\ o.recv = "ended" /\ lost' = lost /\ conns' = conns
  BY Zenon DEF IInv, ClientInv, JoinRecvThread
<1> DEFINE p == [o EXCEPT !.recv = "none", !.pending = {}, !.owner = "disconnected"]
           failed(t) == f[t].pc \in {"registered", "waiting"} /\ f[t].id \in o.pending
           g == [t \in Callers |->
                  IF failed(t) THEN [f[t] EXCEPT !.got = "disconnected"] ELSE f[t]]
<1>2. /\ p \in Objects /\ p.next_id = o.next_id /\ p.recv = "none"
      /\ p.process = o.process /\ p.owner = "disconnected"
  BY Zenon DEF Objects
<1>3. client' = [client EXCEPT ![c] = p]
  BY <1>0, Zenon DEF JoinRecvThread, FailPending, ClientTypes, Objects
<1>4. call' = [call EXCEPT ![c] = g] BY Zenon DEF JoinRecvThread, FailPending, Waiting
<1>5. ASSUME NEW t \in Callers
      PROVE  /\ g[t] \in Calls /\ g[t].pc = f[t].pc /\ g[t].id = f[t].id
             /\ \/ g[t].got = "disconnected" /\ g[t].pc # "idle"
                \/ g[t] = f[t] /\ (f[t].pc = "idle" \/ f[t].id \notin o.pending)
  BY DEF Calls
<1>6. g \in [Callers -> Calls] BY <1>5, Zenon
<1> HIDE DEF p, g
<1>7. Recv \in Callers BY Zenon DEF Callers
<1>8. CallInv(p, g)
  BY <1>1, <1>2, <1>5, <1>7 DEF CallInv
<1>9. OwnerInv(c, p)' BY <1>1, <1>2, Zenon DEF OwnerInv
<1>10. ClientInv' BY <1>1, <1>2, <1>3, <1>4, <1>6, <1>8, <1>9, OneClient, Zenon DEF IInv
<1> QED BY <1>1, <1>10, Zenon DEF IInv, SocketInv

(* A call is given an id that no other call has.                           *)
LEMMA RegisterStep ==
  ASSUME IInv, NEW c \in Clients, NEW t \in Callers, Register(c, t)
  PROVE  SocketInv' /\ ClientInv'
<1>0. ClientTypes BY Zenon DEF IInv, ClientInv
<1> SUFFICES ASSUME NEW o \in Objects, o = client[c],
                    NEW f \in [Callers -> Calls], f = call[c]
             PROVE  SocketInv' /\ ClientInv'
  BY <1>0, Zenon DEF ClientTypes
<1>1. /\ CallInv(o, f) /\ OwnerInv(c, o) /\ f[t].pc = "idle"
      /\ t = Recv => o.recv = "handling"
      /\ o.next_id <= MaxCalls /\ lost' = lost /\ conns' = conns
  BY Zenon DEF IInv, ClientInv, Register
<1>2. /\ o.next_id \in CallIds /\ o.next_id \in 0 .. MaxCalls /\ o.next_id \in Nat
      /\ o.next_id + 1 \in 1 .. MaxCalls + 1 /\ 0 \in 0 .. MaxCalls
  BY <1>1, SocketAssumption DEF Objects, CallIds, SocketAssumption
<1> DEFINE p == [o EXCEPT !.pending = o.pending \cup {o.next_id}, !.next_id = o.next_id + 1]
           v == [NoCall EXCEPT !.pc = "registered", !.id = o.next_id]
           g == [f EXCEPT ![t] = v]
<1>3. /\ p \in Objects /\ p.next_id = o.next_id + 1 /\ p.recv = o.recv
      /\ p.pending = o.pending \cup {o.next_id} /\ p.running = o.running
      /\ p.process = o.process /\ p.owner = o.owner
  BY <1>2, Zenon DEF Objects
<1>4. client' = [client EXCEPT ![c] = p] BY <1>0, Zenon DEF Register, ClientTypes, Objects
<1>5. v \in Calls BY <1>2, Zenon DEF NoCall, Calls
<1>6. call' = [call EXCEPT ![c] = g] BY <1>0, Zenon DEF Register, ClientTypes
<1>7. g \in [Callers -> Calls] BY <1>5, Zenon
<1>8. \A u \in Callers : g[u] = IF u = t THEN v ELSE f[u] BY Zenon
<1>9. v.pc = "registered" /\ v.id = o.next_id /\ v.got = "none" BY Zenon DEF NoCall
<1> HIDE DEF p, g, v
<1>10. Recv \in Callers BY Zenon DEF Callers
<1>11. CallInv(p, g)
  <2>1. \A u \in Callers : g[u].pc # "idle" =>
          g[u].id \in 1 .. o.next_id /\ (u # t => g[u].id # o.next_id)
    <3>1. \A u \in Callers : f[u].pc # "idle" => f[u].id \in 1 .. o.next_id - 1
      BY <1>1, Zenon DEF CallInv
    <3>2. \A i \in 1 .. o.next_id - 1 : i \in 1 .. o.next_id /\ i # o.next_id BY <1>2
    <3>3. o.next_id \in 1 .. o.next_id BY <1>2 DEF CallIds
    <3> QED BY <1>8, <1>9, <3>1, <3>2, <3>3, Zenon
  <2>2. \A u \in Callers :
          /\ g[u].pc = "idle" => g[u].id = 0 /\ g[u].got = "none"
          /\ g[u].pc # "idle" => g[u].id \in p.pending \/ g[u].got # "none"
          /\ g[u].got = "ok" => g[u].result = g[u].id
    BY <1>1, <1>3, <1>8, <1>9 DEF CallInv
  <2>3. \A u, w \in Callers :
          u # w /\ g[u].pc # "idle" /\ g[w].pc # "idle" => g[u].id # g[w].id
    BY <1>1, <1>8, <1>9, <2>1 DEF CallInv
  <2>4. /\ g[Recv].pc # "idle" => p.recv = "handling"
        /\ g[Recv].got \notin {"ok", "error"}
    BY <1>1, <1>3, <1>8, <1>9, <1>10, Zenon DEF CallInv
  <2>5. o.next_id = p.next_id - 1 BY <1>2, <1>3
  <2> QED BY <2>1, <2>2, <2>3, <2>4, <2>5, Zenon DEF CallInv
<1>12. OwnerInv(c, p)' BY <1>1, <1>3, Zenon DEF OwnerInv
<1>13. ClientInv' BY <1>1, <1>3, <1>4, <1>6, <1>7, <1>11, <1>12, OneClient, Zenon DEF IInv
<1> QED BY <1>1, <1>13, Zenon DEF IInv, SocketInv

(* The call of thread t ends: it returns, times out, or could not be sent. *)
LEMMA EndedCall ==
  ASSUME ClientInv, NEW c \in Clients, NEW t \in Callers, lost' = lost,
         call' = [call EXCEPT ![c][t] = NoCall],
         \/ client' = client
         \/ call[c][t].pc # "idle"
            /\ client' = [client EXCEPT ![c].pending = @ \ {call[c][t].id}]
  PROVE  ClientInv'
<1>0. ClientTypes BY Zenon DEF ClientInv
<1> SUFFICES ASSUME NEW o \in Objects, o = client[c],
                    NEW f \in [Callers -> Calls], f = call[c]
             PROVE  ClientInv'
  BY <1>0, Zenon DEF ClientTypes
<1>1. CallInv(o, f) /\ OwnerInv(c, o) BY Zenon DEF ClientInv
<1> DEFINE g == [f EXCEPT ![t] = NoCall]
<1>2. NoCall \in Calls /\ NoCall.pc = "idle" /\ NoCall.id = 0 /\ NoCall.got = "none"
  BY SocketAssumption DEF NoCall, Calls, SocketAssumption
<1>3. call' = [call EXCEPT ![c] = g] /\ g \in [Callers -> Calls]
  BY <1>0, <1>2, Zenon DEF ClientTypes
<1>4. \A u \in Callers : g[u] = IF u = t THEN NoCall ELSE f[u] BY Zenon
<1> HIDE DEF g
<1>5. Recv \in Callers BY Zenon DEF Callers
<1>6. CASE client' = client
  <2>1. CallInv(o, g) BY <1>1, <1>2, <1>4, <1>5 DEF CallInv
  <2>2. client' = [client EXCEPT ![c] = o] BY <1>0, <1>6, Zenon DEF ClientTypes
  <2>3. OwnerInv(c, o)' BY <1>1, Zenon DEF OwnerInv
  <2> QED BY <1>3, <2>1, <2>2, <2>3, OneClient, Zenon
<1>7. CASE /\ f[t].pc # "idle"
           /\ client' = [client EXCEPT ![c].pending = @ \ {f[t].id}]
  <2> DEFINE p == [o EXCEPT !.pending = o.pending \ {f[t].id}]
  <2>1. /\ p \in Objects /\ p.pending = o.pending \ {f[t].id} /\ p.next_id = o.next_id
        /\ p.recv = o.recv /\ p.running = o.running /\ p.process = o.process
        /\ p.owner = o.owner
    BY Zenon DEF Objects
  <2>2. client' = [client EXCEPT ![c] = p] BY <1>0, <1>7, Zenon DEF ClientTypes
  <2> HIDE DEF p
  <2>3. CallInv(p, g) BY <1>1, <1>2, <1>4, <1>5, <1>7, <2>1 DEF CallInv
  <2>4. OwnerInv(c, p)' BY <1>1, <2>1, Zenon DEF OwnerInv
  <2> QED BY <1>3, <2>1, <2>2, <2>3, <2>4, OneClient, Zenon
<1> QED BY <1>6, <1>7, Zenon

LEMMA EndCallStep ==
  ASSUME IInv, NEW c \in Clients, NEW t \in Callers, TimeOut(c, t) \/ Return(c, t)
  PROVE  SocketInv' /\ ClientInv'
<1>1. SocketInv' BY Zenon DEF IInv, SocketInv, TimeOut, Return
<1>2. ClientInv' BY EndedCall, Zenon DEF IInv, TimeOut, Return
<1> QED BY <1>1, <1>2, Zenon

LEMMA WriteStep ==
  ASSUME IInv, NEW c \in Clients, NEW t \in Callers, WriteRequest(c, t)
  PROVE  SocketInv' /\ ClientInv'
<1>0. ClientTypes BY Zenon DEF IInv, ClientInv
<1> SUFFICES ASSUME NEW o \in Objects, o = client[c],
                    NEW f \in [Callers -> Calls], f = call[c]
             PROVE  SocketInv' /\ ClientInv'
  BY <1>0, Zenon DEF ClientTypes
<1>1. CallInv(o, f) /\ OwnerInv(c, o) /\ f[t].pc = "registered" /\ lost' = lost
  BY Zenon DEF IInv, ClientInv, WriteRequest
<1>2. CASE call' = [call EXCEPT ![c][t] = NoCall] /\ UNCHANGED <<conns, client>>
  BY <1>1, <1>2, EndedCall, Zenon DEF IInv, SocketInv
<1>3. CASE Die(c, "killed") /\ UNCHANGED call
  BY <1>1, <1>3, Dying, Zenon
<1>4. CASE /\ o.conn # 0 /\ UNCHANGED client
           /\ conns' = [conns EXCEPT ![o.conn].up = Append(@, Request(f[t].id))]
           /\ call' = [call EXCEPT ![c][t].pc = "waiting"]
  <2> DEFINE k == o.conn
             m == Request(f[t].id)
             q == [conns[k] EXCEPT !.up = Append(conns[k].up, m)]
             v == [f[t] EXCEPT !.pc = "waiting"]
             g == [f EXCEPT ![t] = v]
  <2>1. k \in Conns /\ f[t].id \in CallIds
    BY <1>1, <1>4 DEF Objects, Conns, CallIds, CallInv, Calls
  <2>2. conns[k] \in ConnTypes /\ ConnInv(conns[k]) BY <2>1, Zenon DEF IInv, SocketInv
  <2>3. m \in Requests BY <2>1, Zenon DEF Request, Requests
  <2>4. SocketInv'
    <3> HIDE DEF m, k
    <3>1. /\ Append(conns[k].up, m) \in Seq(Requests) /\ Append(conns[k].up, m) # << >>
      BY <2>2, <2>3 DEF ConnTypes
    <3>2. q \in ConnTypes /\ ConnInv(q) BY <2>2, <3>1, Zenon DEF ConnTypes, ConnInv
    <3>3. conns' = [conns EXCEPT ![k] = q]
      BY <1>4, <2>1, <2>2, Zenon DEF m, k, IInv, SocketInv
    <3> HIDE DEF q
    <3> QED BY <2>1, <3>2, <3>3, OneConn, Zenon DEF IInv
  <2>5. /\ v \in Calls /\ v.pc = "waiting" /\ v.id = f[t].id
        /\ v.got = f[t].got /\ v.result = f[t].result
    BY Zenon DEF Calls
  <2>6. call' = [call EXCEPT ![c] = g] BY <1>0, <1>4, Zenon DEF ClientTypes
  <2>7. g \in [Callers -> Calls] /\ \A u \in Callers : g[u] = IF u = t THEN v ELSE f[u]
    BY <2>5, Zenon
  <2> HIDE DEF v, g
  <2>8. Recv \in Callers BY Zenon DEF Callers
  <2>9. CallInv(o, g) BY <1>1, <2>5, <2>7, <2>8 DEF CallInv
  <2>10. OwnerInv(c, o)' BY <1>1, Zenon DEF OwnerInv
  <2>11. client' = [client EXCEPT ![c] = o] BY <1>0, <1>4, Zenon DEF ClientTypes
  <2> QED BY <1>1, <2>4, <2>6, <2>7, <2>9, <2>10, <2>11, OneClient, Zenon DEF IInv
<1> QED BY <1>2, <1>3, <1>4, Zenon DEF WriteRequest

(* While the receive thread reads it is in no call, so the answer that it  *)
(* takes is for another thread, and is the answer to that thread's request *)
(* because no two calls share an id.                                       *)
LEMMA ReadStep ==
  ASSUME IInv, NEW c \in Clients, ReadFrame(c)
  PROVE  SocketInv' /\ ClientInv'
<1>0. ClientTypes BY Zenon DEF IInv, ClientInv
<1> SUFFICES ASSUME NEW o \in Objects, o = client[c],
                    NEW f \in [Callers -> Calls], f = call[c]
             PROVE  SocketInv' /\ ClientInv'
  BY <1>0, Zenon DEF ClientTypes
<1>1. /\ CallInv(o, f) /\ OwnerInv(c, o) /\ o.recv = "reading" /\ lost' = lost
  BY Zenon DEF IInv, ClientInv, ReadFrame, AtRead
<1> DEFINE k == o.conn
<1>2. k \in Conns /\ conns[k].down # << >>
  BY DEF ReadFrame, Readable, Objects, Conns
<1>3. conns[k] \in ConnTypes /\ ConnInv(conns[k]) BY <1>2, Zenon DEF IInv, SocketInv
<1>4. Tail(conns[k].down) \in Seq(Answers)
  BY <1>2, <1>3, HeadTailProperties, Zenon DEF ConnTypes
<1> SUFFICES ASSUME NEW m \in Answers, m = Head(conns[k].down)
             PROVE  SocketInv' /\ ClientInv'
  BY <1>2, <1>3, HeadTailProperties, Zenon DEF ConnTypes
<1>5. SocketInv'
  <2> DEFINE q == [conns[k] EXCEPT !.down = Tail(conns[k].down)]
  <2>1. q \in ConnTypes /\ ConnInv(q) BY <1>3, <1>4, Zenon DEF ConnTypes, ConnInv
  <2>2. conns' = [conns EXCEPT ![k] = q] BY <1>2, Zenon DEF ReadFrame, IInv, SocketInv
  <2> HIDE DEF q, k
  <2> QED BY <1>2, <2>1, <2>2, OneConn, Zenon DEF IInv
<1>6. f[Recv].pc = "idle" BY <1>1, Zenon DEF CallInv
<1>7. CASE detect(m) = "Push" /\ client' = [client EXCEPT ![c].recv = "handling"]
           /\ UNCHANGED call
  <2> DEFINE p == [o EXCEPT !.recv = "handling"]
  <2>1. /\ p \in Objects /\ p.pending = o.pending /\ p.next_id = o.next_id
        /\ p.recv = "handling" /\ p.running = o.running /\ p.process = o.process
        /\ p.owner = o.owner
    BY Zenon DEF Objects
  <2>2. client' = [client EXCEPT ![c] = p] /\ call' = [call EXCEPT ![c] = f]
    BY <1>0, <1>7, Zenon DEF ClientTypes
  <2> HIDE DEF p
  <2>3. CallInv(p, f) BY <1>1, <1>6, <2>1, CallsKept, Zenon
  <2>4. OwnerInv(c, p)' BY <1>1, <2>1, Zenon DEF OwnerInv
  <2> QED BY <1>1, <1>5, <2>1, <2>2, <2>3, <2>4, OneClient, Zenon DEF IInv
<1>8. CASE detect(m) = "Response" /\ HandleResponse(c, m)
  <2>1. m \in Responses
    BY <1>8, Zenon DEF Answers, detect, PushFrame
  <2>2. m.id \in CallIds /\ m.result = m.id /\ m.result \in 0 .. MaxCalls
    <3>1. m.id \in CallIds /\ m.result = m.id BY <2>1, Zenon DEF Responses
    <3>2. CallIds \subseteq 0 .. MaxCalls
      BY SocketAssumption DEF CallIds, SocketAssumption
    <3> QED BY <3>1, <3>2, Zenon
  <2> DEFINE found == o.pending \cap {m.id}
             p == [o EXCEPT !.pending = o.pending \ found]
             a == IF m.ok THEN "ok" ELSE "error"
             g == [t \in Callers |-> IF f[t].id \in found
                     THEN [f[t] EXCEPT !.got = a, !.result = m.result] ELSE f[t]]
  <2>3. /\ p \in Objects /\ p.pending = o.pending \ found /\ p.next_id = o.next_id
        /\ p.recv = o.recv /\ p.running = o.running /\ p.process = o.process
        /\ p.owner = o.owner
    BY Zenon DEF Objects
  <2>4. client' = [client EXCEPT ![c] = p]
    BY <1>0, <1>8, Zenon DEF HandleResponse, PendingFor, ClientTypes
  <2>5. call' = [call EXCEPT ![c] = g] BY <1>8, Zenon DEF HandleResponse, PendingFor
  <2>6. a \in {"ok", "error"} BY Zenon
  <2> HIDE DEF p, a, k
  <2>7. ASSUME NEW t \in Callers
        PROVE  /\ g[t] \in Calls /\ g[t].pc = f[t].pc /\ g[t].id = f[t].id
               /\ f[t].id \in found => g[t].got = a /\ g[t].result = m.result
               /\ f[t].id \notin found => g[t] = f[t]
    <3> DEFINE w == m.result
    <3>1. w \in 0 .. MaxCalls BY <2>2, Zenon
    <3> HIDE DEF found, w
    <3>2. [f[t] EXCEPT !.got = a, !.result = w] \in Calls BY <2>6, <3>1, Zenon DEF Calls
    <3>3. g[t] = IF f[t].id \in found THEN [f[t] EXCEPT !.got = a, !.result = w] ELSE f[t]
      BY Zenon DEF w
    <3> HIDE DEF g
    <3>4. w = m.result BY Zenon DEF w
    <3> QED BY <3>2, <3>3, <3>4, Zenon DEF Calls
  <2>8. g \in [Callers -> Calls] BY <2>7, Zenon
  <2>9. \A t \in Callers : f[t].pc = "idle" => f[t].id \notin found
    BY <1>1, <2>2 DEF CallInv, CallIds
  <2>10. \A x : x \in found => x = m.id BY Zenon
  <2>11. Recv \in Callers BY Zenon DEF Callers
  <2> HIDE DEF g, found
  <2>12. CallInv(p, g)
    BY <1>1, <1>6, <2>2, <2>3, <2>6, <2>7, <2>9, <2>10, <2>11 DEF CallInv
  <2>13. OwnerInv(c, p)' BY <1>1, <2>3, Zenon DEF OwnerInv
  <2> QED BY <1>1, <1>5, <2>3, <2>4, <2>5, <2>8, <2>12, <2>13, OneClient, Zenon DEF IInv
<1> QED BY <1>7, <1>8, Zenon DEF ReadFrame

LEMMA PushHandledStep ==
  ASSUME IInv, NEW c \in Clients, PushHandled(c)
  PROVE  SocketInv' /\ ClientInv'
<1>0. ClientTypes BY Zenon DEF IInv, ClientInv
<1> SUFFICES ASSUME NEW o \in Objects, o = client[c],
                    NEW f \in [Callers -> Calls], f = call[c]
             PROVE  SocketInv' /\ ClientInv'
  BY <1>0, Zenon DEF ClientTypes
<1>1. /\ CallInv(o, f) /\ OwnerInv(c, o) /\ o.recv = "handling" /\ f[Recv].pc = "idle"
      /\ lost' = lost /\ conns' = conns /\ call' = [call EXCEPT ![c] = f]
  BY <1>0, Zenon DEF IInv, ClientInv, ClientTypes, PushHandled
<1> DEFINE p == [o EXCEPT !.recv = "reading"]
<1>2. /\ p \in Objects /\ p.pending = o.pending /\ p.next_id = o.next_id
      /\ p.running = o.running /\ p.process = o.process /\ p.owner = o.owner
  BY Zenon DEF Objects
<1>3. client' = [client EXCEPT ![c] = p] BY <1>0, Zenon DEF PushHandled, ClientTypes
<1> HIDE DEF p
<1>4. CallInv(p, f) BY <1>1, <1>2, CallsKept, Zenon
<1>5. OwnerInv(c, p)' BY <1>1, <1>2, Zenon DEF OwnerInv
<1>6. ClientInv' BY <1>1, <1>2, <1>3, <1>4, <1>5, OneClient, Zenon DEF IInv
<1> QED BY <1>1, <1>6, Zenon DEF IInv, SocketInv

LEMMA EndLoopStep ==
  ASSUME IInv, NEW c \in Clients, EndRecvLoop(c)
  PROVE  SocketInv' /\ ClientInv'
<1>0. ClientTypes BY Zenon DEF IInv, ClientInv
<1> SUFFICES ASSUME NEW o \in Objects, o = client[c],
                    NEW f \in [Callers -> Calls], f = call[c]
             PROVE  SocketInv' /\ ClientInv'
  BY <1>0, Zenon DEF ClientTypes
<1>1. /\ CallInv(o, f) /\ OwnerInv(c, o) /\ o.recv = "reading"
      /\ conns' = conns /\ call' = [call EXCEPT ![c] = f]
      /\ lost' = IF o.running THEN lost \cup {c} ELSE lost
  BY <1>0, Zenon DEF IInv, ClientInv, ClientTypes, EndRecvLoop
<1> DEFINE p == [o EXCEPT !.running = FALSE, !.recv = "ended"]
<1>2. /\ p \in Objects /\ p.pending = o.pending /\ p.next_id = o.next_id
      /\ p.process = o.process /\ p.owner = o.owner
  BY Zenon DEF Objects
<1>3. client' = [client EXCEPT ![c] = p]
  BY <1>0, Zenon DEF EndRecvLoop, ClientTypes, Objects
<1> HIDE DEF p
<1>4. f[Recv].pc = "idle" BY <1>1, Zenon DEF CallInv
<1>5. CallInv(p, f) BY <1>1, <1>2, <1>4, CallsKept, Zenon
<1>6. OwnerInv(c, p)' BY <1>1, <1>2, Zenon DEF OwnerInv
<1>7. ClientInv' BY <1>1, <1>2, <1>3, <1>5, <1>6, OneClient, Zenon DEF IInv
<1> QED BY <1>1, <1>7, Zenon DEF IInv, SocketInv

-----------------------------------------------------------------------------
LEMMA InitInv == Init => IInv
<1> SUFFICES ASSUME Init PROVE IInv
  BY Zenon
<1>0. /\ 0 \in 0 .. MaxConns /\ 0 \in 0 .. MaxCalls /\ 1 \in 1 .. MaxCalls + 1
      /\ 0 \in 0 .. MaxPushes /\ 0 \in 0 .. MaxStops
  BY SocketAssumption, ServerAssumption DEF SocketAssumption, ServerAssumption
<1>1. SocketInv
  <2>1. Unused \in ConnTypes /\ ConnInv(Unused)
    BY <1>0, EmptySeq, Zenon DEF Unused, ConnTypes, ConnInv
  <2> QED BY <2>1, Zenon DEF Init, SocketInit, SocketInv
<1>2. ServerTypes BY <1>0, Zenon DEF Init, ServerInit, NoFds, ServerTypes
<1>3. ClientTypes
  <2>1. NoCall \in Calls BY <1>0, Zenon DEF NoCall, Calls
  <2>2. [running |-> FALSE, conn |-> 0, recv |-> "none", pending |-> {}, next_id |-> 1,
         process |-> "up", owner |-> "disconnected"] \in Objects
    BY <1>0, Zenon DEF Objects
  <2> QED BY <2>1, <2>2, Zenon DEF Init, ClientInit, ClientTypes
<1>4. ASSUME NEW c \in Clients PROVE CallInv(client[c], call[c]) /\ OwnerInv(c, client[c])
  <2>1. /\ client[c].recv = "none" /\ client[c].process = "up"
        /\ \A t \in Callers : call[c][t] = NoCall
    BY Zenon DEF Init, ClientInit
  <2>2. NoCall.pc = "idle" /\ NoCall.id = 0 /\ NoCall.got = "none" BY Zenon DEF NoCall
  <2>3. Recv \in Callers BY Zenon DEF Callers
  <2> QED BY <2>1, <2>2, <2>3, Zenon DEF CallInv, OwnerInv
<1> QED BY <1>1, <1>2, <1>3, <1>4, Zenon DEF IInv, ClientInv

LEMMA StepInv == IInv /\ [Next]_vars => IInv'
<1> SUFFICES ASSUME IInv, [Next]_vars PROVE IInv'
  BY Zenon
<1>1. ASSUME NEW c \in Clients, UNCHANGED servers,
             \/ connect(c, Listening) \/ disconnect(c) \/ JoinRecvThread(c)
             \/ \E t \in Callers :
                  Register(c, t) \/ WriteRequest(c, t) \/ TimeOut(c, t) \/ Return(c, t)
             \/ ReadFrame(c) \/ PushHandled(c) \/ EndRecvLoop(c)
      PROVE  IInv'
  <2>1. SocketInv' /\ ClientInv'
    BY <1>1, ConnectStep, DisconnectStep, JoinStep, RegisterStep, WriteStep, EndCallStep,
       ReadStep, PushHandledStep, EndLoopStep, Zenon
  <2>2. ServerTypes' BY <1>1, Zenon DEF IInv, ServerTypes, servers
  <2> QED BY <2>1, <2>2, Zenon DEF IInv
<1>2. CASE ServerNext /\ UNCHANGED clients BY <1>2, ServerStep, Zenon
<1>3. CASE UNCHANGED vars
  <2>1. SocketInv' BY <1>3, Zenon DEF IInv, SocketInv, vars
  <2>2. ServerTypes' BY <1>3, Zenon DEF IInv, ServerTypes, vars, servers
  <2>3. ClientInv'
    BY <1>3, Zenon DEF IInv, ClientInv, ClientTypes, OwnerInv, vars, clients
  <2> QED BY <2>1, <2>2, <2>3, Zenon DEF IInv
<1> QED BY <1>1, <1>2, <1>3, Zenon DEF Next, ClientNext

LEMMA Invariance == Spec => []IInv
BY InitInv, StepInv, PTL DEF Spec

-----------------------------------------------------------------------------
(* Every variable of clients, server and sockets has its type, in          *)
(* particular client_fds_ lists only descriptors that accept() can return. *)
THEOREM TypeCorrect == Spec => []TypeOK
<1>1. IInv => TypeOK
  <2> SUFFICES ASSUME IInv PROVE TypeOK
    BY Zenon
  <2>1. Requests \subseteq Frames /\ Answers \subseteq Frames
    BY Zenon DEF Requests, Answers, Responses, Frames
  <2>2. \A k \in Conns : conns[k].up \in Seq(Frames) /\ conns[k].down \in Seq(Frames)
    BY <2>1 DEF IInv, SocketInv, ConnTypes
  <2> QED
    BY <2>2, Zenon DEF IInv, SocketInv, ConnTypes, ServerTypes, ClientInv, ClientTypes, Objects,
                Calls, TypeOK
<1> QED BY <1>1, Invariance, PTL

(* call() returns what the handler computed for its own request, however   *)
(* many clients, threads, timeouts, reconnections and restarts there are:  *)
(* an answer is matched by the id, and ids are not reused in pending_.     *)
THEOREM AnswersAreOwn == Spec => []OwnAnswer
<1>1. IInv => OwnAnswer BY Zenon DEF IInv, ClientInv, CallInv, OwnAnswer
<1> QED BY <1>1, Invariance, PTL

(* A call that a push handler makes on recv_loop's thread is never         *)
(* answered, whatever the server does.                                     *)
THEOREM HandlerCallsStarve == Spec => []HandlerCallUnanswered
<1>1. IInv => HandlerCallUnanswered
  BY Zenon DEF IInv, ClientInv, CallInv, HandlerCallUnanswered
<1> QED BY <1>1, Invariance, PTL

(* A thread that waits in call() is in pending_ or has been answered: no   *)
(* disconnect, late answer or timeout of another call loses its wake-up.   *)
THEOREM NoLostWakeUp == Spec => []WaitingCanWake
<1>1. IInv => WaitingCanWake BY Zenon DEF IInv, ClientInv, CallInv, WaitingCanWake
<1> QED BY <1>1, Invariance, PTL

(* connect() finds an unjoined receive thread, which ends the process,     *)
(* only after recv_loop had ended by itself.                               *)
THEOREM OrderlyReconnect == Spec => []TerminatedOnlyWhenLost
<1>1. IInv => TerminatedOnlyWhenLost
  BY Zenon DEF IInv, ClientInv, OwnerInv, TerminatedOnlyWhenLost
<1> QED BY <1>1, Invariance, PTL
=============================================================================
