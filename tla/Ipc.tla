-------------------------------- MODULE Ipc --------------------------------
(* Calls and pushes between the processes of one user: the clients of one  *)
(* daemon and its server.                                                  *)
EXTENDS IpcClient, IpcServer

vars == <<conns, clients, servers>>

Init == SocketInit /\ ClientInit /\ ServerInit

Next ==
  \/ ClientNext(Listening) /\ UNCHANGED servers
  \/ ServerNext /\ UNCHANGED clients

Spec == Init /\ [][Next]_vars

(* Threads that can go on do, a call has a timeout, and push handlers      *)
(* return when their calls do.                                             *)
Fairness ==
  \A c \in Clients :
    /\ WF_vars(JoinRecvThread(c) /\ UNCHANGED servers)
    /\ WF_vars((ReadFrame(c) \/ PushHandled(c) \/ EndRecvLoop(c)) /\ UNCHANGED servers)
    /\ \A t \in Callers :
         WF_vars((WriteRequest(c, t) \/ TimeOut(c, t) \/ Return(c, t)) /\ UNCHANGED servers)

FairSpec == Spec /\ Fairness

-----------------------------------------------------------------------------
Frames == [id : CallIds, method : {"call"}]
            \cup [id : CallIds, ok : BOOLEAN, result : CallIds] \cup {PushFrame}

(* Every variable of clients, server and sockets has its type.             *)
TypeOK ==
  /\ \A k \in Conns :
       /\ conns[k].st \in {"unused", "backlog", "serving", "handling", "closing", "closed", "gone"}
       /\ conns[k].fd \in 0 .. MaxConns
       /\ conns[k].up \in Seq(Frames) /\ conns[k].down \in Seq(Frames)
       /\ conns[k].client_end \in BOOLEAN /\ conns[k].server_end \in BOOLEAN
  /\ client \in [Clients -> [running : BOOLEAN, conn : 0 .. MaxConns,
                  recv : {"none", "reading", "handling", "ended"},
                  pending : SUBSET CallIds, next_id : 1 .. MaxCalls + 1,
                  process : {"up", "terminated", "killed"},
                  owner : {"disconnected", "connected", "joining"}]]
  /\ call \in [Clients -> [Callers -> [pc : {"idle", "registered", "waiting"},
                id : 0 .. MaxCalls, got : {"none", "disconnected", "error", "ok"},
                result : 0 .. MaxCalls]]]
  /\ server \in {"up", "stopping", "stopped", "killed"}
  /\ fds \in [1 .. MaxConns -> Nat] /\ pushes \in 0 .. MaxPushes /\ stops \in 0 .. MaxStops
  /\ pipe \in {"none", "response", "push"}

-----------------------------------------------------------------------------
(* A call returns what the handler computed for its own request, although  *)
(* answers arrive after timeouts, in place of others, and after a          *)
(* reconnection of the same client object.                                 *)
OwnAnswer ==
  \A c \in Clients, t \in Callers : call[c][t].got = "ok" => call[c][t].result = call[c][t].id

(* A call made from a push handler is never answered: the thread that      *)
(* would read the answer is the one that waits for it.  The models of the  *)
(* Inbox and of the client rely on this.                                   *)
HandlerCallUnanswered == \A c \in Clients : call[c][Recv].got \notin {"ok", "error"}

(* A call that waits can still be woken: its entry is pending, so that the *)
(* answer or a disconnect finds it, or it has been answered.               *)
WaitingCanWake ==
  \A c \in Clients, t \in Callers :
    call[c][t].pc = "waiting" => \/ call[c][t].id \in client[c].pending
                                 \/ call[c][t].got # "none"

(* Connecting again is safe after an orderly disconnect: a process is      *)
(* terminated by connect() only if its receive loop had ended by itself.   *)
TerminatedOnlyWhenLost ==
  \A c \in Clients : client[c].process = "terminated" => c \in lost

(* disconnect() returns, also while the push handler is in a call that     *)
(* nobody will answer.                                                     *)
DisconnectReturns ==
  \A c \in Clients :
    client[c].owner = "joining" ~> (client[c].owner = "disconnected" \/ client[c].process # "up")

-----------------------------------------------------------------------------
(* Claims of the source's comments *)

(* server.cpp: "Best-effort: ignore per-client write errors."  A push to a *)
(* client that has just gone does not end the daemon.                      *)
PushIgnoresWriteErrors == pipe # "push"
=============================================================================
