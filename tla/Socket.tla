------------------------------- MODULE Socket -------------------------------
(***************************************************************************)
(* The Unix sockets of the daemons and the messages on them                *)
(* (common/src/ipc/codec.cpp).  A connection carries whole frames, in      *)
(* order, both ways.  The buffers are taken to be large enough: a write    *)
(* does not block.                                                         *)
(*                                                                         *)
(* conns[k]   the k-th connection made: its server side state st and file  *)
(*            descriptor fd, the frames under way to the server (up) and   *)
(*            to the client (down), and which ends are open                *)
(***************************************************************************)
EXTENDS Naturals, Sequences

CONSTANTS
  MaxConns,     \* bound: connections made
  MaxCalls      \* bound: calls of a client

ASSUME SocketAssumption == MaxConns \in Nat \ {0} /\ MaxCalls \in Nat

VARIABLE conns

Conns == 1 .. MaxConns
CallIds == 1 .. MaxCalls

\* Mutant: the answer's id is not set.
ResponseNoId(id, ok) == [id |-> 0, ok |-> ok, result |-> id]

(* encode_request, encode_response, encode_push and their decoders.  What  *)
(* the handler computed is named by the request it computed it for.        *)
Request(id)      == [id |-> id, method |-> "call"]
Response(id, ok) == [id |-> id, ok |-> ok, result |-> id]
PushFrame        == [event |-> "push"]

(* The fields tell the kinds of frame apart.                               *)
detect(m) ==
  IF "method" \in DOMAIN m THEN "Request"
  ELSE IF "ok" \in DOMAIN m THEN "Response" ELSE "Push"

Unused == [st |-> "unused", fd |-> 0, up |-> <<>>, down |-> <<>>,
           client_end |-> FALSE, server_end |-> FALSE]

SocketInit == conns = [k \in Conns |-> Unused]

(* read_frame returns the next frame, or nothing once the other end is     *)
(* closed and everything has been read.                                    *)
Readable(queue)          == queue # <<>>
EndOfFile(queue, sender) == queue = <<>> /\ ~sender

(* The server's descriptors; accept() returns the lowest free one.         *)
OpenFds == {conns[k].fd : k \in {j \in Conns : conns[j].server_end}} \ {0}

LowestFd == CHOOSE fd \in 1 .. MaxConns :
              fd \notin OpenFds /\ \A n \in 1 .. fd - 1 : n \in OpenFds
=============================================================================
