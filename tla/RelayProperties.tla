--------------------------- MODULE RelayProperties --------------------------
(***************************************************************************)
(* What the relay promises to the users of its clients.                    *)
(***************************************************************************)
EXTENDS Relay

Delivered(p) == UNION {received[p][i] : i \in DOMAIN received[p]}

Whole(m) == m.carried = m.size /\ m.length = m.size

\* The process that carries the client id
Owner(id) == {p \in Processes : myInfo[p] # NoInfo /\ myInfo[p].clientId = id}

Aborted(id) == \E p \in Owner(id) : aborts[p] > 0

\* accept() finds a connection, and a connection whose event waits is registered,
\* readable and not yet served.
EventsInv ==
  /\ Listener \in events => backlog # <<>>
  /\ \A c \in events \ {Listener} :
       conn[c].end = "accepted" /\ Readable(c) /\ session.conn # c

\* Only a client that died ends the server's loop, and only in accept(), if it was
\* waiting for it: no callback runs for a connection that another one of the batch
\* closed or began, none is unregistered twice, and a client that is answered, or
\* fails, or a crash of the server leaves no connection behind on which accept()
\* raises (server/message_u_server.py, start_server, _accept and the end of
\* _handle_session, all outside any try).
LoopEndsOnlyByAbort ==
  /\ EventsInv
  /\ session.pc # "select" => conn[Current].end = "accepted"
  /\ Listener \in events =>
       conn[Head(backlog)].peer \/ \E p \in Processes : aborts[p] > 0

\* Client and server never wait for each other: while the server's recv() blocks,
\* in a callback that holds up every other connection, the client has partitions
\* of its request left to write.  Each counts the partitions of a content on its
\* own (parseMessageContentIntoBuffer and _parse_content).
NeverBothWait ==
  session.pc = "recv" /\ ~ Readable(Current) =>
    \E p \in Processes : /\ InCall(p)
                         /\ ConnOf(p) = Current
                         /\ call[p].wrote < RequestPartitions(RequestOf(p))

\* Both parties of a stored message are registered, and its sender has been
\* seen, although a client may be in the memory of another, or have a my.info, that
\* this server.db does not know: each check and the write it allows are separate
\* commits, and a crash or another session may come between (_handle_pre_request
\* and send_message).
KnownParties ==
  \A m \in messages : /\ is_client_id_exist(m.toClient)
                      /\ is_client_id_exist(m.fromClient)
                      /\ m.fromClient \in lastSeen

\* No two processes have one client id, and the row of a client carries the name
\* its user chose, whatever registrations were lost, repeated or refused
\* (register_client and RegisterSuccessResponse::handleResponse).
OwnIdentity ==
  \A p \in Processes : myInfo[p] # NoInfo =>
    /\ Owner(myInfo[p].clientId) = {p}
    /\ \A row \in clients :
         row.id = myInfo[p].clientId => row.userName = myInfo[p].userName

\* A client gets the messages addressed to it and no others, even where a
\* connection is used again after another process abandoned it.
OnlyAddressee ==
  \A p \in Processes : \A m \in Delivered(p) : m.toClient = myInfo[p].clientId

\* "Message sent successfully." is true: a message its sender saw acknowledged is
\* stored, on its way to its addressee, or received by it, unless the addressee's
\* process died in a call.  The server deletes what it has handed to a socket,
\* not what a client has read (_handle_session and _after_send_process).
OnItsWay(id, to) ==
  \E p \in Owner(to) : /\ InCall(p)
                       /\ conn[ConnOf(p)].response.code = "MESSAGES_PULLED_SUCCESS"
                       /\ id \in Ids(conn[ConnOf(p)].response.messages)
                       /\ call[p].read + conn[ConnOf(p)].down
                            = ResponsePartitions(conn[ConnOf(p)].response)

NoLoss ==
  \A p \in Processes : \A a \in acked[p] :
    \/ a.id \in Ids(messages)
    \/ OnItsWay(a.id, a.to)
    \/ \E q \in Owner(a.to) : a.id \in Ids(Delivered(q))
    \/ Aborted(a.to)

\* Where an acknowledged message is stored or received, it is the one its sender
\* sent: same parties, type and size, and every byte of its content.
AckedWhole ==
  \A p \in Processes : \A a \in acked[p] :
    \A m \in messages \cup UNION {Delivered(q) : q \in Processes} :
      m.id = a.id =>
        /\ m.fromClient = a.from /\ m.toClient = a.to
        /\ m.type = a.type /\ m.size = a.size
        /\ Whole(m)

\* The acknowledgement of m is on its way to p.
AckTo(m) ==
  [code |-> "MESSAGE_SENT_SUCCESS", clientId |-> m.toClient, messageId |-> m.id]

IsAcknowledging(p, m) ==
  /\ InCall(p)
  /\ \/ conn[ConnOf(p)].response = AckTo(m)
     \/ ConnOf(p) = Current /\ session.pc = "send" /\ session.response = AckTo(m)

\* The sender of m got its acknowledgement, or will, or there is a reason.
IsAccountedFor(m) ==
  \/ \E p \in Processes : \E a \in acked[p] : a.id = m.id
  \/ \E p \in Owner(m.fromClient) : IsAcknowledging(p, m)
  \/ restarts > 0
  \/ Aborted(m.fromClient)
  \/ m.id > UINT32_MAX

\* A user who sees an error, and sends again, sends nothing twice: a message that is
\* stored or received without an acknowledgement is one whose sender died in a call
\* and did not see the error either, or whose response was lost with the server or
\* could not be made (_handle_session and HandleRequest).
UnacknowledgedHasCause ==
  \A m \in messages \cup UNION {Delivered(q) : q \in Processes} : IsAccountedFor(m)

\* A message that is not whole comes from a process that died while it wrote it
\* (SendMessageRequestParser: an end of stream counts as a full partition).
TruncatedOnlyByAbort ==
  \A m \in messages : Whole(m) \/ Aborted(m.fromClient)

\* One DELETE can remove the list, which has that id.
IsDeletable(lot, id) == id \in Ids(lot) /\ CanDelete(Ids(lot))

\* The pulls of p whose DELETE should have removed the message with that id
Pulls(p, id) == {i \in DOMAIN received[p] : IsDeletable(received[p][i], id)}

\* A client gets a message again only if the server ended after sending it and
\* before deleting it, each time anew, or could not delete so many
\* (_after_send_process): the crashes bound how often.
AtMostOnce ==
  \A p \in Processes : \A j \in DOMAIN received[p] : \A id \in Ids(received[p][j]) :
    Cardinality({i \in Pulls(p, id) : i < j}) <= restarts

\* The messages of a client reach it oldest first: one that it gets for the
\* first time is younger than all that it got in earlier pulls, also where the
\* size of a response cuts the list (pull_messages).
InOrder ==
  \A p \in Processes : \A j \in DOMAIN received[p] :
    \A m \in received[p][j] :
      LET earlier == UNION {Ids(received[p][i]) : i \in 1 .. (j - 1)}
      IN  m.id \in earlier \/ \A id \in earlier : id < m.id

\* A row leaves the table only in the step that follows a complete send of the
\* response that holds it to a connection of its addressee; rows never change.
DeleteOnlySent ==
  [][\A m \in messages \ messages' :
       /\ session.pc = "after"
       /\ m \in session.response.messages
       /\ Request.clientId = m.toClient
       /\ session.sent = ResponsePartitions(session.response)]_vars

-----------------------------------------------------------------------------
\* What the proofs of LoopEndsOnlyByAbort and KnownParties need besides.

Answers(rsp, r) ==
  /\ rsp.code = "REGISTER_SUCCESS" => r.op = "REGISTER"
  /\ rsp.code = "MESSAGE_SENT_SUCCESS" => r.op = "SEND_MESSAGE"

\* A connection in use carries a request, and its response answers that request.
RequestAndAnswer(k) ==
  /\ k.end # "none" => k.request \in Requests
  /\ Answers(k.response, k.request)

ConnInv == \A c \in Conns : RequestAndAnswer(conn[c])

\* The connections that wait for accept() are those in the kernel's queue, once.
BacklogInv ==
  /\ \A i \in DOMAIN backlog : conn[backlog[i]].end = "backlog"
  /\ \A i, j \in DOMAIN backlog : backlog[i] = backlog[j] => i = j

\* The session that runs serves an accepted connection; it reaches pre_request
\* with a request that needs it, and the operation with one that passed it
\* ("need to be done before handling a request (except register)").
SessionInv ==
  IF session.pc = "select"
    THEN session = NoSession
    ELSE /\ Current \in Conns
         /\ conn[Current].end = "accepted"
         /\ session.payload.index # 0 => Request.op = "SEND_MESSAGE"
         /\ session.pc = "pre" => Request.op # "REGISTER"
         /\ session.pc = "op" /\ Request.op # "REGISTER" =>
              is_client_id_exist(Request.clientId) /\ Request.clientId \in lastSeen
         /\ session.pc \in {"send", "after"} => Answers(session.response, Request)

\* All that holds together: each operation keeps the types only if the request
\* of the session is the one that its connection carried.
IInv ==
  TypeOK /\ ConnInv /\ BacklogInv /\ SessionInv /\ EventsInv /\ KnownParties

-----------------------------------------------------------------------------
\* Every connection is released in the end: the client gets its answer, or the
\* error of a broken connection, and the server's loop reaches every session,
\* those of clients that died included.
ConnectionsReleased == \A c \in Conns : ~ IsFree(c) ~> IsFree(c)

\* A pull hands over the messages that wait when it is made, as far as they fit:
\* while no process dies, the oldest message of its client is received.
Oldest(m) == m \in messages /\ \A x \in pull_client_messages(m.toClient) : m.id <= x.id

PullBegins(p) ==
  /\ InCall(p)
  /\ RequestOf(p).op = "PULL_MESSAGES"
  /\ call[p].wrote = 0

PullDelivers ==
  \A p \in Processes : \A id \in 1 .. MaxMessages :
    (PullBegins(p) /\ \E m \in messages : /\ m.id = id /\ Oldest(m)
                                          /\ m.toClient = RequestOf(p).clientId)
      ~> (id \in Ids(Delivered(p)) \/ restarts > 0 \/ aborts[p] > 0)

-----------------------------------------------------------------------------
\* README.md:8 says of the database that it "stores unpulled messages".
UnpulledAreStored ==
  \A p \in Processes : \A a \in acked[p] :
    \/ a.id \in Ids(messages)
    \/ OnItsWay(a.id, a.to)
    \/ \E q \in Owner(a.to) : a.id \in Ids(Delivered(q))
=============================================================================
