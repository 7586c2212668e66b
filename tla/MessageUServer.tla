--------------------------- MODULE MessageUServer ---------------------------
(***************************************************************************)
(* MessageUServer: one thread that waits in select(), then runs a callback *)
(* for each event of the batch in turn.  A session blocks in recv() until  *)
(* the request is complete, handles it, sends the response and closes.     *)
(* Every step that another process or a crash can come before is an action.*)
(***************************************************************************)
EXTENDS MessageUManager, Sockets

CONSTANTS
  Listener,     \* the listening socket
  UINT32_MAX,   \* the largest message id that struct packs as "I"
  ShortReads,   \* sizes below a partition that recv() may return before the end
  MaxRestarts   \* bound on the kills of the server

ASSUME ListenerAssumption == Listener \notin Conns

ASSUME ShortReadsAssumption == ShortReads \subseteq 1 .. (BUFFER_PARTITION_SIZE - 1)

ASSUME ServerBoundsAssumption == UINT32_MAX \in Nat /\ MaxRestarts \in Nat

VARIABLES
  events,    \* the events of the last select() whose callback has not run
  session,   \* the call of _handle_session that is running
  restarts   \* how often the process was killed or ended by an exception

serverVars == <<events, session, restarts>>

Sessions ==
  [pc: {"select", "recv", "pre", "op", "send", "after", "close"},
   conn: Conns \cup {Listener}, payload: Payloads,
   response: Responses \cup {NoResponse}, sent: Nat]

NoSession ==
  [pc |-> "select", conn |-> Listener, payload |-> NoPayload,
   response |-> NoResponse, sent |-> 0]

ServerTypeOK ==
  /\ events \in SUBSET (Conns \cup {Listener})
  /\ session \in Sessions
  /\ restarts \in Nat

ServerInit ==
  /\ events = {}
  /\ session = NoSession
  /\ restarts = 0

Current == session.conn
Request == conn[Current].request

Goto(pc) == session' = [session EXCEPT !.pc = pc]

\* An exception becomes a GENERAL_SERVER_ERROR response.
Respond(rsp) == session' = [session EXCEPT !.pc = "send", !.response = rsp]

-----------------------------------------------------------------------------
\* The event loop

Ready ==
  {c \in Conns : conn[c].end = "accepted" /\ Readable(c)}
    \cup {l \in {Listener} : backlog # <<>>}

Select ==
  /\ session.pc = "select"
  /\ events = {}
  /\ Ready # {}
  /\ events' = Ready
  /\ UNCHANGED <<storageVars, socketVars, session, restarts>>

_accept ==
  /\ session.pc = "select"
  /\ Listener \in events
  /\ backlog # <<>>
  /\ conn' = [conn EXCEPT ![Head(backlog)] = AcceptedConn(@)]
  /\ backlog' = Tail(backlog)
  /\ events' = events \ {Listener}
  /\ UNCHANGED <<storageVars, session, restarts>>

\* Mutant: the event is still there when its callback has begun.
BeginSession_again(c) ==
  /\ session.pc = "select"
  /\ c \in events
  /\ session' = [NoSession EXCEPT !.pc = "recv", !.conn = c]
  /\ UNCHANGED <<storageVars, socketVars, events, restarts>>

BeginSession(c) ==
  /\ session.pc = "select"
  /\ c \in events
  /\ events' = events \ {c}
  /\ session' = [NoSession EXCEPT !.pc = "recv", !.conn = c]
  /\ UNCHANGED <<storageVars, socketVars, restarts>>

-----------------------------------------------------------------------------
\* Receiving the request

ParseStep(size) ==
  session' = [session EXCEPT
    !.payload = _parse_content(Request, @, size),
    !.pc      = IF MoreToRead(Request, session.payload) THEN "recv" ELSE "pre"]

\* What one recv() may return: a partition as far as it is there, or less.
RecvSizes ==
  {AtMost(conn[Current].up, BUFFER_PARTITION_SIZE)}
    \cup {n \in ShortReads : n < conn[Current].up}

\* The first buffer of a request is too short: struct.unpack_from() raises.
LacksFields(size) == session.payload.index = 0 /\ size < FieldsSize(Request)

Parse(size) ==
  \/ LacksFields(size) /\ Respond(ErrorResponse)
  \/ /\ ~ LacksFields(size)
     /\ CASE Request.op = "SEND_MESSAGE" -> ParseStep(size)
          [] Request.op = "REGISTER"     -> Goto("op")
          [] OTHER                       -> Goto("pre")

RecvBuffer ==
  /\ session.pc = "recv"
  /\ conn[Current].up > 0
  /\ \E size \in RecvSizes :
       /\ conn' = [conn EXCEPT ![Current] = Consumed(@, size)]
       /\ Parse(size)
  /\ UNCHANGED <<storageVars, backlog, events, restarts>>

\* recv() returns b"": "no data" for the first buffer of a request; later ones
\* are parsed as if a partition with no content had arrived.
RecvEof ==
  /\ session.pc = "recv"
  /\ conn[Current].up = 0
  /\ ~ conn[Current].peer
  /\ IF session.payload.index = 0 THEN Respond(ErrorResponse) ELSE ParseStep(0)
  /\ UNCHANGED <<storageVars, socketVars, events, restarts>>

\* recv() raises: the client's end is gone and the connection was reset.
RecvError ==
  /\ session.pc = "recv"
  /\ ~ conn[Current].peer
  /\ Respond(ErrorResponse)
  /\ UNCHANGED <<storageVars, socketVars, events, restarts>>

-----------------------------------------------------------------------------
\* Handling the request: _handle_request and the create_response that follows

PreRequest ==
  /\ session.pc = "pre"
  /\ \/ _handle_pre_request(Request.clientId) /\ Goto("op")
     \/ /\ ~ is_client_id_exist(Request.clientId)
        /\ Respond(ErrorResponse)
        /\ UNCHANGED storageVars
  /\ UNCHANGED <<socketVars, events, restarts>>

Handle(op) ==
  /\ session.pc = "op"
  /\ Request.op = op
  /\ ~ Refused(Request, session.payload)
  /\ UNCHANGED <<socketVars, events, restarts>>

HandleRefused ==
  /\ session.pc = "op"
  /\ Refused(Request, session.payload)
  /\ Respond(ErrorResponse)
  /\ UNCHANGED <<storageVars, socketVars, events, restarts>>

HandleRegister ==
  /\ Handle("REGISTER")
  /\ \E id \in FreshIds :
       /\ register_client(Request, id)
       /\ Respond([code |-> "REGISTER_SUCCESS", clientId |-> id])

HandleListClients ==
  /\ Handle("LIST_CLIENTS")
  /\ Respond([code |-> "LIST_CLIENTS_SUCCESS", clients |-> list_clients(Request.clientId)])
  /\ UNCHANGED storageVars

HandleGetPublicKey ==
  /\ Handle("GET_PUBLIC_KEY")
  /\ \E key \in get_client_public_key(Request.destClientId) :
       Respond([code |-> "PUBLIC_KEY_SUCCESS", clientId |-> Request.destClientId,
                publicKey |-> key])
  /\ UNCHANGED storageVars

\* An id that struct cannot pack raises in create_response, after the commit:
\* the connection is closed without a response.
HandleSendMessage ==
  /\ Handle("SEND_MESSAGE")
  /\ send_message(Request, session.payload)
  /\ IF lastRowId + 1 <= UINT32_MAX
       THEN Respond([code |-> "MESSAGE_SENT_SUCCESS",
                     clientId |-> Request.destClientId, messageId |-> lastRowId + 1])
       ELSE Goto("close")

\* Mutant: the messages are deleted when the response is made.
HandlePullMessages_deletes ==
  /\ Handle("PULL_MESSAGES")
  /\ LET rows == pull_messages(Request.clientId)
     IN  /\ Respond([code |-> "MESSAGES_PULLED_SUCCESS", messages |-> rows])
         /\ delete_client_messages({m.id : m \in rows})

HandlePullMessages ==
  /\ Handle("PULL_MESSAGES")
  /\ LET rows == pull_messages(Request.clientId)
     IN  IF \A m \in rows : m.id <= UINT32_MAX
           THEN Respond([code |-> "MESSAGES_PULLED_SUCCESS", messages |-> rows])
           ELSE Goto("close")
  /\ UNCHANGED storageVars

-----------------------------------------------------------------------------
\* Sending the response

SendPartition ==
  /\ session.pc = "send"
  /\ conn' = [conn EXCEPT ![Current] = Sent(@, session.response)]
  /\ session' = [session EXCEPT
       !.sent = @ + 1,
       !.pc   = IF session.sent + 1 = ResponsePartitions(session.response)
                  THEN "after" ELSE "send"]
  /\ UNCHANGED <<storageVars, backlog, events, restarts>>

\* Mutant: the messages are deleted although sendall() raised.
SendError_after ==
  /\ session.pc = "send"
  /\ ~ conn[Current].peer
  /\ Goto("after")
  /\ UNCHANGED <<storageVars, socketVars, events, restarts>>

\* sendall() raises: the client's end is gone.  It need not raise at once.
SendError ==
  /\ session.pc = "send"
  /\ ~ conn[Current].peer
  /\ Goto("close")
  /\ UNCHANGED <<storageVars, socketVars, events, restarts>>

Ids(rows) == {m.id : m \in rows}

_after_send_process ==
  /\ session.pc = "after"
  /\ \/ /\ session.response.code = "MESSAGES_PULLED_SUCCESS"
        /\ delete_client_messages(Ids(session.response.messages))
     \/ /\ session.response.code = "MESSAGES_PULLED_SUCCESS"
        /\ ~ CanDelete(Ids(session.response.messages))
        /\ UNCHANGED storageVars
     \/ /\ session.response.code # "MESSAGES_PULLED_SUCCESS"
        /\ UNCHANGED storageVars
  /\ Goto("close")
  /\ UNCHANGED <<socketVars, events, restarts>>

\* Mutant: the session ends without conn.close().
CloseSession_leaks ==
  /\ session.pc = "close"
  /\ session' = NoSession
  /\ UNCHANGED <<storageVars, socketVars, events, restarts>>

CloseSession ==
  /\ session.pc = "close"
  /\ conn' = [conn EXCEPT ![Current] = ClosedByServer(@)]
  /\ session' = NoSession
  /\ UNCHANGED <<storageVars, backlog, events, restarts>>

-----------------------------------------------------------------------------
\* accept() raises for a connection that was reset while it waited, as its client
\* had died: on some systems, on others it returns that connection.  It is called
\* outside any try, so that the exception ends the server.
AcceptRaises ==
  /\ session.pc = "select"
  /\ Listener \in events
  /\ backlog # <<>>
  /\ ~ conn[Head(backlog)].peer

\* The process ends and is started again: server.db survives, every socket of the
\* server is closed, and what it had sent is still read by the clients.
RestartServer ==
  /\ restarts < MaxRestarts \/ AcceptRaises
  /\ restarts' = restarts + 1
  /\ conn' = [c \in Conns |-> IF IsOpen(c) THEN ClosedByServer(conn[c]) ELSE conn[c]]
  /\ backlog' = <<>>
  /\ events' = {}
  /\ session' = NoSession
  /\ UNCHANGED storageVars

ServerStep ==
  \/ Select \/ _accept \/ \E c \in Conns : BeginSession(c)
  \/ RecvBuffer \/ RecvEof \/ RecvError
  \/ PreRequest \/ HandleRefused
  \/ HandleRegister \/ HandleListClients \/ HandleGetPublicKey
  \/ HandleSendMessage \/ HandlePullMessages
  \/ SendPartition \/ SendError \/ _after_send_process \/ CloseSession
=============================================================================
