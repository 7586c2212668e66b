------------------------------- MODULE Sockets ------------------------------
(***************************************************************************)
(* The TCP connections between the clients and the server, as both use     *)
(* them: each carries one request up and one response down, in order and   *)
(* without loss while both ends are open.  An end that closes leaves what  *)
(* it sent readable by the other, unless it had bytes to read left: then   *)
(* the connection is reset, and the other end may lose what it was sent.   *)
(***************************************************************************)
EXTENDS Protocol, Sequences

CONSTANT Conns

VARIABLES
  conn,
  backlog   \* the connections that wait for accept(), in the order they came

socketVars == <<conn, backlog>>

\* peer: the client's end is open.  end: the server's end.  up: the bytes that
\* the client wrote and the server has not read.  down: the partitions that the
\* server sent and the client has not read.
ConnRecords ==
  [peer: BOOLEAN, end: {"none", "backlog", "accepted", "closed"},
   request: Requests \cup {NoRequest}, up: Int,
   response: Responses \cup {NoResponse}, down: Int]

FreeConn ==
  [peer |-> FALSE, end |-> "none", request |-> NoRequest, up |-> 0,
   response |-> NoResponse, down |-> 0]

SocketsTypeOK == conn \in [Conns -> ConnRecords] /\ backlog \in Seq(Conns)

SocketsInit == conn = [c \in Conns |-> FreeConn] /\ backlog = <<>>

IsFree(c) == conn[c] = FreeConn

\* The server's end is open.
IsOpen(c) == conn[c].end \in {"backlog", "accepted"}

\* What the server's recv() finds: data, or the end of the stream.
Readable(c) == conn[c].up > 0 \/ ~ conn[c].peer

\* The server's end is closed and its bytes to read are not: a reset is sent.
IsReset(c) == conn[c].end = "closed" /\ conn[c].up > 0

\* What each call makes of a connection record k
Connected(r) == [FreeConn EXCEPT !.peer = TRUE, !.end = "backlog", !.request = r]
AcceptedConn(k) == [k EXCEPT !.end = "accepted"]
Written(k)   == [k EXCEPT !.up = @ + BUFFER_PARTITION_SIZE]
Consumed(k, n) == [k EXCEPT !.up = @ - n]
Sent(k, rsp) ==
  IF k.peer THEN [k EXCEPT !.response = rsp, !.down = @ + 1] ELSE k
Read(k)      == [k EXCEPT !.down = @ - 1]

ClosedByClient(k) ==
  IF k.end = "closed"
    THEN FreeConn
    ELSE [k EXCEPT !.peer = FALSE, !.response = NoResponse, !.down = 0]

ClosedByServer(k) ==
  IF k.peer THEN [k EXCEPT !.end = "closed"] ELSE FreeConn
=============================================================================
