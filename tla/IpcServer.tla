----------------------------- MODULE IpcServer -----------------------------
(***************************************************************************)
(* ipc::Server (common/src/ipc/server.cpp) of one daemon: an accept        *)
(* thread, one thread per connection, and pushes from any thread.  The     *)
(* mutex clients_mu_ makes each walk over client_fds_ one step.            *)
(*                                                                         *)
(* server   "up", "stopping" (stop() waits for the connection threads),    *)
(*          "stopped", or "killed" by a signal                             *)
(* fds      client_fds_: how often a descriptor is listed                  *)
(* pushes   pushes so far                                                  *)
(* stops    how often the daemon has ended                                 *)
(* pipe     what the daemon was writing when a signal killed it (history)  *)
(***************************************************************************)
EXTENDS Socket

CONSTANTS
  MaxPushes,   \* bound: pushes
  MaxStops     \* bound: ends of the daemon

ASSUME ServerAssumption == MaxPushes \in Nat /\ MaxStops \in Nat

VARIABLES server, fds, pushes, stops, pipe

servers == <<server, fds, pushes, stops, pipe>>

NoFds == [fd \in 1 .. MaxConns |-> 0]

ServerInit == server = "stopped" /\ fds = NoFds /\ pushes = 0 /\ stops = 0 /\ pipe = "none"

Listening == server = "up"

(* start() removes a stale socket file and listens.                        *)
start ==
  /\ server \in {"stopped", "killed"}
  /\ server' = "up"
  /\ UNCHANGED <<conns, fds, pushes, stops, pipe>>

CloseServerEnd(k) == [conns[k] EXCEPT !.server_end = FALSE, !.up = <<>>]

(* A write to a connection whose client is gone raises SIGPIPE.  No daemon *)
(* handles it: the process ends and all its sockets close.                 *)
Killed(writing) ==
  /\ server' = "killed" /\ fds' = NoFds /\ pipe' = writing
  /\ conns' = [k \in Conns |->
       IF conns[k].st = "unused" THEN conns[k]
       ELSE [CloseServerEnd(k) EXCEPT !.st = "gone", !.fd = 0]]

-----------------------------------------------------------------------------
accept_loop(k) ==
  /\ server = "up" /\ conns[k].st = "backlog"
  /\ conns' = [conns EXCEPT ![k].st = "serving", ![k].fd = LowestFd]
  /\ fds' = [fds EXCEPT ![LowestFd] = @ + 1]
  /\ UNCHANGED <<server, pushes, stops, pipe>>

(* conn_loop: read a request, run the handler, answer under the mutex.     *)
ReadRequest(k) ==
  /\ conns[k].st = "serving" /\ conns[k].server_end /\ Readable(conns[k].up)
  /\ conns' = [conns EXCEPT ![k].st = "handling"]
  /\ UNCHANGED servers

(* The loop is left after the answer if the server has been stopped, and   *)
(* at once if stop() has closed the descriptor.                            *)
WriteResponse(k) ==
  /\ conns[k].st = "handling"
  /\ \/ /\ ~conns[k].server_end
        /\ conns' = [conns EXCEPT ![k].st = "closing"] /\ UNCHANGED <<server, fds, pipe>>
     \/ /\ conns[k].server_end /\ ~conns[k].client_end
        /\ Killed("response")
     \/ /\ conns[k].server_end /\ conns[k].client_end
        /\ \E ok \in BOOLEAN :
             conns' = [conns EXCEPT
               ![k].st = IF server = "up" THEN "serving" ELSE "closing",
               ![k].up = Tail(@),
               ![k].down = Append(@, Response(Head(conns[k].up).id, ok))]
        /\ UNCHANGED <<server, fds, pipe>>
  /\ UNCHANGED <<pushes, stops>>

(* End of file, or stop() has shut the descriptor down.                    *)
LeaveConnLoop(k) ==
  /\ conns[k].st = "serving"
  /\ ~conns[k].server_end \/ EndOfFile(conns[k].up, conns[k].client_end)
  /\ conns' = [conns EXCEPT ![k].st = "closing"]
  /\ UNCHANGED servers

(* close() frees the descriptor before remove_client() takes it from the   *)
(* list; accept() may have returned it again in between.                   *)
CloseFd(k) ==
  /\ conns[k].st = "closing"
  /\ conns' = [conns EXCEPT ![k] = [CloseServerEnd(k) EXCEPT !.st = "closed"]]
  /\ UNCHANGED servers

remove_client(k) ==
  /\ conns[k].st = "closed"
  /\ fds' = [fds EXCEPT ![conns[k].fd] = 0]
  /\ conns' = [conns EXCEPT ![k].st = "gone", ![k].fd = 0]
  /\ UNCHANGED <<server, pushes, stops, pipe>>

-----------------------------------------------------------------------------
(* The connections that a listed descriptor refers to.                     *)
Listed == {k \in Conns : conns[k].server_end /\ conns[k].fd # 0 /\ fds[conns[k].fd] # 0}

(* A push is written once per entry of the list.  Writes to a descriptor   *)
(* that is closed fail and are ignored.                                    *)
Pushed(k) ==
  [conns[k] EXCEPT !.down = @ \o [i \in 1 .. fds[conns[k].fd] |-> PushFrame]]

push ==
  /\ server \in {"up", "stopping"} /\ pushes < MaxPushes
  /\ pushes' = pushes + 1
  /\ \/ /\ \E k \in Listed : ~conns[k].client_end
        /\ Killed("push")
     \/ /\ \A k \in Listed : conns[k].client_end
        /\ conns' = [k \in Conns |-> IF k \in Listed THEN Pushed(k) ELSE conns[k]]
        /\ UNCHANGED <<server, fds, pipe>>
  /\ UNCHANGED stops

(* stop() stops accepting and closes the listed connections, then waits    *)
(* for the threads of all of them.  What nobody accepted is closed too.    *)
stop ==
  /\ server = "up" /\ stops < MaxStops
  /\ server' = "stopping" /\ stops' = stops + 1 /\ fds' = NoFds
  /\ conns' = [k \in Conns |->
       IF conns[k].st = "backlog" THEN [CloseServerEnd(k) EXCEPT !.st = "gone"]
       ELSE IF k \in Listed THEN CloseServerEnd(k) ELSE conns[k]]
  /\ UNCHANGED <<pushes, pipe>>

JoinConnThreads ==
  /\ server = "stopping" /\ \A k \in Conns : conns[k].st \in {"unused", "gone"}
  /\ server' = "stopped"
  /\ UNCHANGED <<conns, fds, pushes, stops, pipe>>

ServerNext ==
  \/ start \/ push \/ stop \/ JoinConnThreads
  \/ \E k \in Conns :
       accept_loop(k) \/ ReadRequest(k) \/ WriteResponse(k) \/ LeaveConnLoop(k)
         \/ CloseFd(k) \/ remove_client(k)
=============================================================================
