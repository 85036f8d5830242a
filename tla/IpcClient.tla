----------------------------- MODULE IpcClient -----------------------------
(***************************************************************************)
(* ipc::Client (common/src/ipc/client.cpp) in the processes that use it.   *)
(* A process has caller threads and, for each connection, a receive thread *)
(* that hands answers to the callers and runs the push handler itself.     *)
(*                                                                         *)
(* client[c]    the object: running_, fd_ (as a connection, 0 for -1),     *)
(*              recv_thread_, pending_ and next_id_; whether its process   *)
(*              lives; what its owner is doing with it                     *)
(* call[c][t]   the call that thread t is making                           *)
(* lost         clients whose receive loop ended by itself (history)       *)
(***************************************************************************)
EXTENDS Socket

CONSTANTS
  Clients,   \* the processes
  Threads,   \* the caller threads of a process
  Recv       \* the receive thread, which calls from within a push handler

ASSUME ClientAssumption == Recv \notin Threads

VARIABLES client, call, lost

clients == <<client, call, lost>>

Callers == Threads \cup {Recv}

NoCall == [pc |-> "idle", id |-> 0, got |-> "none", result |-> 0]

ClientInit ==
  /\ client = [c \in Clients |->
       [running |-> FALSE, conn |-> 0, recv |-> "none", pending |-> {}, next_id |-> 1,
        process |-> "up", owner |-> "disconnected"]]
  /\ call = [c \in Clients |-> [t \in Callers |-> NoCall]]
  /\ lost = {}

(* Closing an end discards what it has not read.                           *)
CloseClientEnd(k) == [conns[k] EXCEPT !.client_end = FALSE, !.down = <<>>]

(* A process that dies leaves its sockets closed.                          *)
Die(c, how) ==
  /\ client' = [client EXCEPT ![c].process = how]
  /\ conns' = [k \in Conns |->
       IF k = client[c].conn THEN CloseClientEnd(k) ELSE conns[k]]

-----------------------------------------------------------------------------
(* connect throws while nobody listens.  Assigning over a thread object    *)
(* that has not been joined ends the process (std::terminate).             *)
connect(c, listening) ==
  /\ client[c].process = "up" /\ client[c].owner = "disconnected"
  /\ \/ /\ ~listening
        /\ client' = [client EXCEPT ![c].owner = "connected", ![c].conn = 0]
        /\ UNCHANGED conns
     \/ /\ listening /\ client[c].recv # "none"
        /\ Die(c, "terminated")
     \/ /\ listening /\ client[c].recv = "none"
        /\ \E k \in Conns :
             /\ conns[k].st = "unused" /\ \A j \in 1 .. k - 1 : conns[j].st # "unused"
             /\ conns' = [conns EXCEPT ![k] = [Unused EXCEPT
                  !.st = "backlog", !.client_end = TRUE, !.server_end = TRUE]]
             /\ client' = [client EXCEPT ![c].running = TRUE, ![c].conn = k,
                                         ![c].recv = "reading", ![c].owner = "connected"]
  /\ UNCHANGED <<call, lost>>

\* Mutant: the socket is not shut down.
disconnectOpen(c) ==
  /\ client[c].process = "up" /\ client[c].owner = "connected"
  /\ client' = [client EXCEPT ![c].running = FALSE, ![c].owner =
                  IF client[c].running THEN "joining" ELSE "disconnected"]
  /\ UNCHANGED <<conns, call, lost>>

(* disconnect returns at once when the receive loop has already ended.     *)
disconnect(c) ==
  /\ client[c].process = "up" /\ client[c].owner = "connected"
  /\ IF client[c].running
       THEN /\ client' = [client EXCEPT ![c].running = FALSE, ![c].conn = 0,
                                        ![c].owner = "joining"]
            /\ conns' = [conns EXCEPT ![client[c].conn] = CloseClientEnd(client[c].conn)]
       ELSE /\ client' = [client EXCEPT ![c].owner = "disconnected"]
            /\ UNCHANGED conns
  /\ UNCHANGED <<call, lost>>

Waiting(c, t) == call[c][t].pc \in {"registered", "waiting"} /\ call[c][t].id \in client[c].pending

\* Mutant: the pending calls are dropped and not failed.
FailPendingDrop(c) ==
  /\ client' = [client EXCEPT ![c].recv = "none", ![c].pending = {},
                              ![c].owner = "disconnected"]
  /\ UNCHANGED call

(* Once the receive thread is joined, all pending calls fail.              *)
FailPending(c) ==
  /\ client' = [client EXCEPT ![c].recv = "none", ![c].pending = {},
                              ![c].owner = "disconnected"]
  /\ call' = [call EXCEPT ![c] = [t \in Callers |->
       IF Waiting(c, t) THEN [call[c][t] EXCEPT !.got = "disconnected"] ELSE call[c][t]]]

\* Mutant: the receive thread is not joined.
JoinRecvThreadNot(c) ==
  /\ client[c].process = "up" /\ client[c].owner = "joining"
  /\ client' = [client EXCEPT ![c].pending = {}, ![c].owner = "disconnected"]
  /\ UNCHANGED <<conns, call, lost>>

JoinRecvThread(c) ==
  /\ client[c].process = "up" /\ client[c].owner = "joining"
  /\ client[c].recv = "ended"
  /\ FailPending(c)
  /\ UNCHANGED <<conns, lost>>

-----------------------------------------------------------------------------
(* call() of thread t.  The receive thread calls while in a push handler.  *)
Register(c, t) ==
  /\ client[c].process = "up" /\ client[c].running
  /\ call[c][t].pc = "idle" /\ (t = Recv => client[c].recv = "handling")
  /\ client[c].next_id <= MaxCalls
  /\ call' = [call EXCEPT ![c][t] = [NoCall EXCEPT !.pc = "registered",
                                                    !.id = client[c].next_id]]
  /\ client' = [client EXCEPT ![c].pending = @ \cup {client[c].next_id},
                              ![c].next_id = @ + 1]
  /\ UNCHANGED <<conns, lost>>

(* write_frame throws on a closed descriptor, and the entry stays pending. *)
(* If the server has closed its end, the write raises SIGPIPE, which no    *)
(* process of the system handles.                                          *)
WriteRequest(c, t) ==
  LET k == client[c].conn
  IN  /\ client[c].process = "up" /\ call[c][t].pc = "registered"
      /\ \/ /\ k = 0
            /\ call' = [call EXCEPT ![c][t] = NoCall]
            /\ UNCHANGED <<conns, client>>
         \/ /\ k # 0 /\ ~conns[k].server_end
            /\ Die(c, "killed") /\ UNCHANGED call
         \/ /\ k # 0 /\ conns[k].server_end
            /\ conns' = [conns EXCEPT ![k].up = Append(@, Request(call[c][t].id))]
            /\ call' = [call EXCEPT ![c][t].pc = "waiting"]
            /\ UNCHANGED client
      /\ UNCHANGED <<lost>>

TimeOut(c, t) ==
  /\ client[c].process = "up" /\ call[c][t].pc = "waiting" /\ call[c][t].got = "none"
  /\ client' = [client EXCEPT ![c].pending = @ \ {call[c][t].id}]
  /\ call' = [call EXCEPT ![c][t] = NoCall]
  /\ UNCHANGED <<conns, lost>>

(* call returns the result, or throws on an error.                         *)
Return(c, t) ==
  /\ client[c].process = "up" /\ call[c][t].pc = "waiting" /\ call[c][t].got # "none"
  /\ call' = [call EXCEPT ![c][t] = NoCall]
  /\ UNCHANGED <<conns, client, lost>>

-----------------------------------------------------------------------------
(* recv_loop *)

\* Mutant: an answer goes to the oldest pending call.
PendingForOldest(c, m) ==
  {id \in client[c].pending : \A other \in client[c].pending : id <= other}

(* The pending call that answer m is for, if it is still there.            *)
PendingFor(c, m) == client[c].pending \cap {m.id}

HandleResponse(c, m) ==
  LET found == PendingFor(c, m)
  IN  /\ client' = [client EXCEPT ![c].pending = @ \ found]
      /\ call' = [call EXCEPT ![c] = [t \in Callers |->
           IF call[c][t].id \in found
             THEN [call[c][t] EXCEPT !.got = IF m.ok THEN "ok" ELSE "error",
                                     !.result = m.result]
             ELSE call[c][t]]]

\* Mutant: the receive thread goes on reading while the push handler runs.
AtReadAlways(c) == client[c].process = "up" /\ client[c].recv \in {"reading", "handling"}

AtRead(c) == client[c].process = "up" /\ client[c].recv = "reading"

ReadFrame(c) ==
  LET k == client[c].conn
  IN  /\ AtRead(c) /\ k # 0 /\ Readable(conns[k].down)
      /\ conns' = [conns EXCEPT ![k].down = Tail(@)]
      /\ LET m == Head(conns[k].down)
         IN  \/ detect(m) = "Response" /\ HandleResponse(c, m)
             \/ /\ detect(m) = "Push"
                /\ client' = [client EXCEPT ![c].recv = "handling"]
                /\ UNCHANGED call
      /\ UNCHANGED <<lost>>

(* The push handler returns; what it threw is swallowed.                   *)
PushHandled(c) ==
  /\ client[c].process = "up" /\ client[c].recv = "handling" /\ call[c][Recv].pc = "idle"
  /\ client' = [client EXCEPT ![c].recv = "reading"]
  /\ UNCHANGED <<conns, call, lost>>

(* The loop ends when the server has closed the connection or disconnect   *)
(* has shut it down.                                                       *)
EndRecvLoop(c) ==
  LET k == client[c].conn
  IN  /\ client[c].process = "up" /\ client[c].recv = "reading"
      /\ k # 0 => EndOfFile(conns[k].down, conns[k].server_end)
      /\ client' = [client EXCEPT ![c].running = FALSE, ![c].recv = "ended"]
      /\ lost' = IF client[c].running THEN lost \cup {c} ELSE lost
      /\ UNCHANGED <<conns, call>>

ClientNext(listening) ==
  \E c \in Clients :
    \/ connect(c, listening) \/ disconnect(c) \/ JoinRecvThread(c)
    \/ \E t \in Callers :
         Register(c, t) \/ WriteRequest(c, t) \/ TimeOut(c, t) \/ Return(c, t)
    \/ ReadFrame(c) \/ PushHandled(c) \/ EndRecvLoop(c)
=============================================================================
