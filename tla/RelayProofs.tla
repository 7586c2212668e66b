----------------------------- MODULE RelayProofs ----------------------------
(***************************************************************************)
(* Proofs about the relay for all values of the constants: its types, that *)
(* no exception reaches the event loop, and that the parties of a stored   *)
(* message are known.  They hold together: an operation keeps the types    *)
(* only if the request of the session is the one its connection carried.   *)
(***************************************************************************)
EXTENDS RelayProperties, TLAPS

-----------------------------------------------------------------------------
\* A request is known by its op.
LEMMA RequestKinds ==
  ASSUME NEW r \in Requests
  PROVE  /\ r.op \in {"REGISTER", "LIST_CLIENTS", "GET_PUBLIC_KEY", "SEND_MESSAGE",
                      "PULL_MESSAGES"}
         /\ r.op = "REGISTER" => r \in RegisterRequests
         /\ r.op = "LIST_CLIENTS" => r \in ListClientsRequests
         /\ r.op = "GET_PUBLIC_KEY" => r \in GetPublicKeyRequests
         /\ r.op = "SEND_MESSAGE" => r \in SendMessageRequests
         /\ r.op = "PULL_MESSAGES" => r \in PullMessagesRequests
BY DEF Requests, RegisterRequests, ListClientsRequests, GetPublicKeyRequests,
       SendMessageRequests, PullMessagesRequests

\* Every request but REGISTER carries the id of its client.
LEMMA RequestClient ==
  ASSUME NEW r \in Requests, r.op # "REGISTER"
  PROVE  r.clientId \in ClientIds
BY DEF Requests, RegisterRequests, ListClientsRequests, GetPublicKeyRequests,
       SendMessageRequests, PullMessagesRequests

\* A response is known by its code.
LEMMA ResponseKinds ==
  ASSUME NEW rsp \in Responses \cup {NoResponse}
  PROVE  /\ rsp.code = "REGISTER_SUCCESS" => rsp.clientId \in ClientIds
         /\ rsp.code = "MESSAGE_SENT_SUCCESS" => rsp.messageId \in Nat
         /\ rsp.code = "MESSAGES_PULLED_SUCCESS" => rsp.messages \in SUBSET Messages
BY DEF Responses, NoResponse

\* What the parser makes of a payload is a payload.
LEMMA ParseType ==
  ASSUME NEW r \in SendMessageRequests, NEW p \in Payloads, NEW size \in Int
  PROVE  _parse_content(r, p, size) \in Payloads
<1>1. r.contentSize \in Nat /\ p.index \in Int /\ p.length \in Int /\ p.carried \in Int
  <2>1. r.contentSize \in ContentSizes
    BY DEF SendMessageRequests
  <2>2. p.index \in Int /\ p.length \in Int /\ p.carried \in Int
    BY DEF Payloads
  <2>3. QED
    BY <2>1, <2>2, ContentSizesAssumption
<1>2. \A a, b \in Int : AtMost(a, b) \in Int
  BY DEF AtMost
<1>3. request_buffer_start_index(p.index) \in Int /\ Room(p.index) \in Int
  BY DEF request_buffer_start_index, Room, BUFFER_PARTITION_SIZE, SendHeaderSize,
         RequestHeaderSize, CLIENT_ID_BYTE_SIZE
<1>4. number_of_bytes_to_read(r, p) \in Int
  <2>1. r.contentSize - p.index \in Int
    BY <1>1
  <2>2. QED
    BY <2>1, <1>2, <1>3 DEF number_of_bytes_to_read
<1>5. LengthBefore(r, p) \in Int
  BY <1>1 DEF LengthBefore
<1>6. ContentIn(r, p, size) \in Int
  <2>1. size - request_buffer_start_index(p.index) \in Int
    BY <1>3
  <2>2. QED
    BY <1>2, <1>4, <2>1 DEF ContentIn
<1>7. _parse_content(r, p, size) \in Payloads
  <2> DEFINE n   == number_of_bytes_to_read(r, p)
             k   == ContentIn(r, p, size)
             len == LengthBefore(r, p)
  <2>1. AtMost(len, p.index + n) \in Int /\ AtMost(len, p.index) \in Int
    <3>1. p.index + n \in Int
      BY <1>1, <1>4
    <3>2. QED
      BY <1>1, <1>2, <1>5, <3>1
  <2>2. /\ p.index + n \in Int
        /\ len - (AtMost(len, p.index + n) - AtMost(len, p.index)) + k \in Int
        /\ p.carried + k \in Int
    BY <1>1, <1>4, <1>5, <1>6, <2>1
  <2>3. QED
    BY <2>2 DEF _parse_content, Payloads
<1>8. QED
  BY <1>7

\* The calls on a socket keep the type of its record.
LEMMA ConnTypes ==
  ASSUME NEW k \in ConnRecords
  PROVE  /\ FreeConn \in ConnRecords
         /\ \A r \in Requests : Connected(r) \in ConnRecords
         /\ AcceptedConn(k) \in ConnRecords
         /\ Written(k) \in ConnRecords
         /\ \A n \in Int : Consumed(k, n) \in ConnRecords
         /\ \A rsp \in Responses \cup {NoResponse} : Sent(k, rsp) \in ConnRecords
         /\ Read(k) \in ConnRecords
         /\ ClosedByClient(k) \in ConnRecords
         /\ ClosedByServer(k) \in ConnRecords
<1>1. FreeConn \in ConnRecords
  BY DEF FreeConn, ConnRecords
<1>2. \A r \in Requests : Connected(r) \in ConnRecords
  <2> SUFFICES ASSUME NEW r \in Requests PROVE Connected(r) \in ConnRecords
    OBVIOUS
  <2> HIDE DEF FreeConn
  <2>1. FreeConn.up \in Int /\ FreeConn.down \in Int
    BY <1>1 DEF ConnRecords
  <2>2. QED
    BY <1>1, <2>1 DEF Connected, ConnRecords
<1>3. AcceptedConn(k) \in ConnRecords
  BY DEF AcceptedConn, ConnRecords
<1>4. /\ Written(k) \in ConnRecords
      /\ \A n \in Int : Consumed(k, n) \in ConnRecords
      /\ Read(k) \in ConnRecords
  BY DEF Written, Consumed, Read, ConnRecords, BUFFER_PARTITION_SIZE
<1>5. \A rsp \in Responses \cup {NoResponse} : Sent(k, rsp) \in ConnRecords
  <2>1. \A rsp \in Responses \cup {NoResponse} :
          [k EXCEPT !.response = rsp, !.down = @ + 1] \in ConnRecords
    <3>1. k.down + 1 \in Int
      BY DEF ConnRecords
    <3>2. QED
      BY <3>1, Zenon DEF ConnRecords
  <2>2. QED
    BY <2>1 DEF Sent
<1>6. ClosedByClient(k) \in ConnRecords
  <2>1. [k EXCEPT !.peer = FALSE, !.response = NoResponse, !.down = 0] \in ConnRecords
    <3>1. 0 \in Int
      OBVIOUS
    <3>2. QED
      BY <3>1, Zenon DEF ConnRecords
  <2>2. QED
    BY <1>1, <2>1 DEF ClosedByClient
<1>7. ClosedByServer(k) \in ConnRecords
  <2>1. [k EXCEPT !.end = "closed"] \in ConnRecords
    BY DEF ConnRecords
  <2>2. QED
    BY <1>1, <2>1 DEF ClosedByServer
<1>8. QED
  BY <1>1, <1>2, <1>3, <1>4, <1>5, <1>6, <1>7
-----------------------------------------------------------------------------
\* What the two ways a session step ends do to the record of the session.
LEMMA GotoFacts ==
  ASSUME session \in Sessions,
         NEW pc \in {"select", "recv", "pre", "op", "send", "after", "close"}, Goto(pc)
  PROVE  /\ session' \in Sessions
         /\ session'.pc = pc
         /\ session'.conn = session.conn
         /\ session'.payload = session.payload
         /\ session'.response = session.response
BY DEF Goto, Sessions

\* A response takes the session to sendall() and leaves its request alone.
LEMMA RespondFacts ==
  ASSUME session \in Sessions, NEW rsp \in Responses \cup {NoResponse}, Respond(rsp)
  PROVE  /\ session' \in Sessions
         /\ session'.pc = "send"
         /\ session'.conn = session.conn
         /\ session'.payload = session.payload
         /\ session'.response = rsp
<1>1. session' = [session EXCEPT !.pc = "send", !.response = rsp]
  BY DEF Respond
<1>2. [session EXCEPT !.pc = "send", !.response = rsp] \in Sessions
  BY Zenon DEF Sessions
<1>3. QED
  BY <1>1, <1>2 DEF Sessions

\* The session that has not begun is a session.
LEMMA NoSessionType == NoSession \in Sessions
BY DEF NoSession, Sessions, NoPayload, Payloads

\* Replacing one connection by a well-typed one that answers its own request
LEMMA ConnUpdate ==
  ASSUME TypeOK, ConnInv, NEW c \in Conns, NEW k \in ConnRecords, RequestAndAnswer(k),
         conn' = [conn EXCEPT ![c] = k]
  PROVE  /\ conn' \in [Conns -> ConnRecords]
         /\ ConnInv'
         /\ conn'[c] = k
         /\ \A d \in Conns \ {c} : conn'[d] = conn[d]
<1>1. conn \in [Conns -> ConnRecords]
  BY DEF TypeOK, SocketsTypeOK
<1>2. conn' \in [Conns -> ConnRecords] /\ conn'[c] = k
        /\ \A d \in Conns \ {c} : conn'[d] = conn[d]
  BY <1>1
<1>3. \A d \in Conns : RequestAndAnswer(conn'[d])
  BY <1>2 DEF ConnInv
<1>4. ConnInv'
  BY <1>3 DEF ConnInv, RequestAndAnswer, Answers
<1>5. QED
  BY <1>2, <1>4

\* The calls on a socket keep request and response together.
LEMMA CallsKeepAnswer ==
  ASSUME NEW k \in ConnRecords, RequestAndAnswer(k)
  PROVE  /\ \A r \in Requests : RequestAndAnswer(Connected(r))
         /\ k.end # "none" => RequestAndAnswer(AcceptedConn(k))
         /\ RequestAndAnswer(Written(k))
         /\ \A n \in Int : RequestAndAnswer(Consumed(k, n))
         /\ \A rsp \in Responses \cup {NoResponse} :
              Answers(rsp, k.request) => RequestAndAnswer(Sent(k, rsp))
         /\ RequestAndAnswer(Read(k))
         /\ RequestAndAnswer(ClosedByClient(k))
         /\ k.end # "none" => RequestAndAnswer(ClosedByServer(k))
<1>1. \A r \in Requests : RequestAndAnswer(Connected(r))
  BY DEF Connected, FreeConn, NoResponse, RequestAndAnswer, Answers
<1>2. k.end # "none" => RequestAndAnswer(AcceptedConn(k))
  BY DEF AcceptedConn, ConnRecords, RequestAndAnswer, Answers
<1>3. /\ RequestAndAnswer(Written(k))
      /\ \A n \in Int : RequestAndAnswer(Consumed(k, n))
      /\ RequestAndAnswer(Read(k))
  BY DEF Written, Consumed, Read, ConnRecords, RequestAndAnswer, Answers
<1>4. ASSUME NEW rsp \in Responses \cup {NoResponse}, Answers(rsp, k.request)
      PROVE  RequestAndAnswer(Sent(k, rsp))
  BY <1>4 DEF Sent, ConnRecords, RequestAndAnswer, Answers
<1>5. RequestAndAnswer(FreeConn)
  BY DEF FreeConn, NoResponse, RequestAndAnswer, Answers
<1>6. RequestAndAnswer(ClosedByClient(k))
  BY <1>5 DEF ClosedByClient, NoResponse, ConnRecords, RequestAndAnswer, Answers
<1>7. k.end # "none" => RequestAndAnswer(ClosedByServer(k))
  BY <1>5 DEF ClosedByServer, ConnRecords, RequestAndAnswer, Answers
<1>8. QED
  BY <1>1, <1>2, <1>3, <1>4, <1>6, <1>7

\* What is left alone stays as it was.
LEMMA StorageFrame ==
  ASSUME StorageTypeOK, KnownParties, UNCHANGED storageVars
  PROVE  StorageTypeOK' /\ KnownParties'
BY DEF StorageTypeOK, KnownParties, storageVars, is_client_id_exist

\* The types of the client processes hold while none of them takes a step.
LEMMA ClientFrame ==
  ASSUME ClientTypeOK, UNCHANGED clientVars
  PROVE  ClientTypeOK'
BY DEF ClientTypeOK, clientVars

\* The connections keep their types, requests and answers while none is used.
LEMMA SocketFrame ==
  ASSUME SocketsTypeOK, ConnInv, UNCHANGED socketVars
  PROVE  SocketsTypeOK' /\ ConnInv'
BY DEF SocketsTypeOK, ConnInv, socketVars, RequestAndAnswer, Answers

\* A step of a session touches no event that waits: the connection of the session
\* is not among them.
LEMMA LoopFrame ==
  ASSUME IInv, UNCHANGED <<events, backlog>>, session'.conn = session.conn,
         \A d \in Conns \ {Current} : conn'[d] = conn[d]
  PROVE  EventsInv' /\ BacklogInv'
<1>1. events \in SUBSET (Conns \cup {Listener})
  BY DEF IInv, TypeOK, ServerTypeOK
<1>2. \A c \in events \ {Listener} : c \in Conns \ {Current} /\ conn'[c] = conn[c]
  BY <1>1 DEF IInv, EventsInv, Current
<1>3. EventsInv'
  BY <1>2 DEF IInv, EventsInv, Readable, Current
<1>4. \A i \in DOMAIN backlog :
        conn[backlog[i]].end = "backlog" => conn'[backlog[i]].end = "backlog"
  <2> SUFFICES ASSUME NEW i \in DOMAIN backlog, conn[backlog[i]].end = "backlog"
               PROVE  conn'[backlog[i]].end = "backlog"
    OBVIOUS
  <2>1. backlog[i] \in Conns
    BY DEF IInv, TypeOK, SocketsTypeOK
  <2>2. backlog[i] # Current
    BY ListenerAssumption, <2>1 DEF IInv, SessionInv, Current, NoSession
  <2>3. QED
    BY <2>1, <2>2
<1>5. QED
  BY <1>3, <1>4 DEF IInv, BacklogInv

\* A session step that changes neither the sockets nor the storage
LEMMA QuietSessionStep ==
  ASSUME IInv, UNCHANGED <<storageVars, socketVars, events, restarts, clientVars>>,
         session' \in Sessions, session'.conn = session.conn, SessionInv'
  PROVE  IInv'
<1>1. StorageTypeOK' /\ KnownParties'
  BY StorageFrame DEF IInv, TypeOK
<1>2. SocketsTypeOK' /\ ConnInv'
  BY SocketFrame DEF IInv, TypeOK
<1>3. ClientTypeOK'
  BY ClientFrame DEF IInv, TypeOK
<1>4. ServerTypeOK'
  BY DEF IInv, TypeOK, ServerTypeOK
<1>5. EventsInv' /\ BacklogInv'
  BY LoopFrame DEF socketVars
<1>6. QED
  BY <1>1, <1>2, <1>3, <1>4, <1>5 DEF IInv, TypeOK

\* The same for a step that changes the storage and keeps its part of IInv
LEMMA StorageStep ==
  ASSUME IInv, UNCHANGED <<socketVars, events, restarts, clientVars>>,
         session' \in Sessions, session'.conn = session.conn, SessionInv',
         StorageTypeOK', KnownParties'
  PROVE  IInv'
<1>1. SocketsTypeOK' /\ ConnInv'
  BY SocketFrame DEF IInv, TypeOK
<1>2. ClientTypeOK'
  BY ClientFrame DEF IInv, TypeOK
<1>3. ServerTypeOK'
  BY DEF IInv, TypeOK, ServerTypeOK
<1>4. EventsInv' /\ BacklogInv'
  BY LoopFrame DEF socketVars
<1>5. QED
  BY <1>1, <1>2, <1>3, <1>4 DEF IInv, TypeOK

\* The session and its request, as the steps of a running session find them
LEMMA RunningSession ==
  ASSUME IInv, session.pc # "select"
  PROVE  /\ session \in Sessions
         /\ Current \in Conns
         /\ conn[Current] \in ConnRecords
         /\ Request \in Requests
         /\ RequestAndAnswer(conn[Current])
         /\ conn[Current].end = "accepted"
<1>1. session \in Sessions /\ conn \in [Conns -> ConnRecords]
  BY DEF IInv, TypeOK, ServerTypeOK, SocketsTypeOK
<1>2. Current \in Conns /\ conn[Current].end = "accepted"
  BY DEF IInv, SessionInv
<1>3. RequestAndAnswer(conn[Current])
  BY <1>2 DEF IInv, ConnInv
<1>4. QED
  BY <1>1, <1>2, <1>3 DEF RequestAndAnswer, Request

-----------------------------------------------------------------------------
\* Init establishes the invariant.
LEMMA InitIInv == Init => IInv
<1> SUFFICES ASSUME Init PROVE IInv
  OBVIOUS
<1> USE DEF Init
<1>1. StorageTypeOK /\ KnownParties
  BY DatabaseAssumption DEF StorageInit, StorageTypeOK, KnownParties
<1>2. SocketsTypeOK /\ ConnInv /\ BacklogInv
  <2>1. FreeConn \in ConnRecords
    BY DEF FreeConn, ConnRecords
  <2>2. RequestAndAnswer(FreeConn)
    BY DEF FreeConn, NoResponse, RequestAndAnswer, Answers
  <2>3. QED
    BY <2>1, <2>2 DEF SocketsInit, SocketsTypeOK, ConnInv, BacklogInv
<1>3. ServerTypeOK /\ EventsInv /\ SessionInv
  BY NoSessionType DEF ServerInit, ServerTypeOK, EventsInv, SessionInv, NoSession
<1>4. ClientTypeOK
  BY MyInfoAssumption DEF ClientInit, ClientTypeOK, Calls
<1>5. QED
  BY <1>1, <1>2, <1>3, <1>4 DEF IInv, TypeOK

-----------------------------------------------------------------------------
\* The event loop

\* select() reports only connections whose callback can run.
LEMMA SelectStep ==
  ASSUME IInv, Select, UNCHANGED clientVars
  PROVE  IInv'
<1> USE DEF Select
<1>1. StorageTypeOK' /\ KnownParties'
  BY StorageFrame DEF IInv, TypeOK
<1>2. SocketsTypeOK' /\ ConnInv'
  BY SocketFrame DEF IInv, TypeOK
<1>3. ClientTypeOK'
  BY ClientFrame DEF IInv, TypeOK
<1>4. ServerTypeOK'
  BY DEF IInv, TypeOK, ServerTypeOK, Ready
<1>5. SessionInv' /\ BacklogInv'
  BY DEF IInv, SessionInv, BacklogInv, socketVars
<1>6. EventsInv'
  <2>1. session.conn \notin Conns
    BY ListenerAssumption DEF IInv, SessionInv, NoSession
  <2>2. Listener \in events' => backlog' # <<>>
    BY ListenerAssumption DEF Ready, socketVars
  <2>3. \A c \in events' \ {Listener} :
          c \in Conns /\ conn'[c].end = "accepted" /\ Readable(c)' /\ session'.conn # c
    BY <2>1 DEF Ready, Readable, socketVars
  <2>4. QED
    BY <2>2, <2>3 DEF EventsInv
<1>7. QED
  BY <1>1, <1>2, <1>3, <1>4, <1>5, <1>6 DEF IInv, TypeOK

\* accept() takes a connection that no event names yet.
LEMMA AcceptStep ==
  ASSUME IInv, _accept, UNCHANGED clientVars
  PROVE  IInv'
<1> USE DEF _accept
<1>0. PICK c \in Conns : c = Head(backlog)
  BY DEF IInv, TypeOK, SocketsTypeOK
<1>1. c \in Conns /\ backlog' \in Seq(Conns) /\ conn[c] \in ConnRecords
  BY DEF IInv, TypeOK, SocketsTypeOK
<1>2. StorageTypeOK' /\ KnownParties'
  BY StorageFrame DEF IInv, TypeOK
<1>3. ClientTypeOK'
  BY ClientFrame DEF IInv, TypeOK
<1>4. ServerTypeOK'
  BY DEF IInv, TypeOK, ServerTypeOK
<1>5. conn[c].end = "backlog"
  BY <1>0 DEF IInv, BacklogInv, TypeOK, SocketsTypeOK
<1>6. /\ conn' \in [Conns -> ConnRecords]
      /\ ConnInv'
      /\ conn'[c] = AcceptedConn(conn[c])
      /\ \A d \in Conns \ {c} : conn'[d] = conn[d]
  BY <1>0, <1>1, <1>5, ConnTypes, CallsKeepAnswer, ConnUpdate DEF IInv, ConnInv
<1>7. BacklogInv'
  BY <1>0, <1>6 DEF IInv, BacklogInv, TypeOK, SocketsTypeOK
<1>8. \A d \in events \ {Listener} : d \in Conns \ {c} /\ conn'[d] = conn[d]
  BY <1>5, <1>6 DEF IInv, EventsInv, TypeOK, ServerTypeOK
<1>9. EventsInv'
  BY <1>8 DEF IInv, EventsInv, Readable
<1>10. SessionInv'
  BY DEF IInv, SessionInv
<1>11. QED
  BY <1>1, <1>2, <1>3, <1>4, <1>6, <1>7, <1>9, <1>10 DEF IInv, TypeOK, SocketsTypeOK

\* The callback of a connection begins with nothing received.
LEMMA BeginSessionStep ==
  ASSUME IInv, NEW c \in Conns, BeginSession(c), UNCHANGED clientVars
  PROVE  IInv'
<1> USE DEF BeginSession
<1>1. StorageTypeOK' /\ KnownParties'
  BY StorageFrame DEF IInv, TypeOK
<1>2. SocketsTypeOK' /\ ConnInv'
  BY SocketFrame DEF IInv, TypeOK
<1>3. ClientTypeOK'
  BY ClientFrame DEF IInv, TypeOK
<1>4. /\ session' \in Sessions
      /\ session'.pc = "recv"
      /\ session'.conn = c
      /\ session'.payload = NoPayload
  <2>1. [NoSession EXCEPT !.pc = "recv", !.conn = c] \in Sessions
    BY NoSessionType, Zenon DEF Sessions
  <2>2. QED
    BY <2>1 DEF NoSession
<1>5. ServerTypeOK'
  BY <1>4 DEF IInv, TypeOK, ServerTypeOK
<1>6. conn[c].end = "accepted"
  BY ListenerAssumption DEF IInv, EventsInv
<1>7. SessionInv'
  BY <1>4, <1>6 DEF SessionInv, Current, NoPayload, socketVars
<1>8. EventsInv' /\ BacklogInv'
  BY <1>4, ListenerAssumption
     DEF IInv, EventsInv, BacklogInv, Readable, socketVars
<1>9. QED
  BY <1>1, <1>2, <1>3, <1>5, <1>7, <1>8 DEF IInv, TypeOK

-----------------------------------------------------------------------------
\* Receiving the request

\* After a buffer was parsed the session receives the next one or goes on to
\* pre_request.
LEMMA ParseFacts ==
  ASSUME IInv, session.pc = "recv", Request.op = "SEND_MESSAGE", NEW size \in Int,
         ParseStep(size)
  PROVE  /\ session' \in Sessions
         /\ session'.pc \in {"recv", "pre"}
         /\ session'.conn = session.conn
<1> DEFINE payload == _parse_content(Request, session.payload, size)
           pc == IF MoreToRead(Request, session.payload) THEN "recv" ELSE "pre"
<1>1. session \in Sessions /\ Request \in Requests
  BY RunningSession
<1>2. payload \in Payloads
  BY <1>1, RequestKinds, ParseType DEF Sessions
<1>3. session' = [session EXCEPT !.payload = payload, !.pc = pc]
  BY DEF ParseStep
<1>4. pc \in {"recv", "pre"}
  OBVIOUS
<1> HIDE DEF payload, pc
<1>5. [session EXCEPT !.payload = payload, !.pc = pc] \in Sessions
  <2>1. pc \in {"select", "recv", "pre", "op", "send", "after", "close"}
    BY <1>4
  <2>2. QED
    BY <1>1, <1>2, <2>1, Zenon DEF Sessions
<1>6. QED
  BY <1>1, <1>3, <1>4, <1>5 DEF Sessions

\* recv() returns bytes of the request (the recv loop of _handle_session).
LEMMA RecvBufferStep ==
  ASSUME IInv, RecvBuffer, UNCHANGED clientVars
  PROVE  IInv'
<1>1. /\ session \in Sessions
      /\ Current \in Conns
      /\ conn[Current] \in ConnRecords
      /\ Request \in Requests
      /\ RequestAndAnswer(conn[Current])
      /\ conn[Current].end = "accepted"
      /\ session.pc = "recv"
  BY RunningSession DEF RecvBuffer
<1>2. StorageTypeOK' /\ KnownParties'
  BY StorageFrame DEF IInv, TypeOK, RecvBuffer
<1>3. ClientTypeOK'
  BY ClientFrame DEF IInv, TypeOK
<1>4. PICK size \in RecvSizes :
        conn' = [conn EXCEPT ![Current] = Consumed(@, size)] /\ Parse(size)
  BY DEF RecvBuffer
<1>5. size \in Int
  <2>1. conn[Current].up \in Int
    BY <1>1 DEF ConnRecords
  <2>2. \A n \in ShortReads : n \in Int
    BY ShortReadsAssumption
  <2>3. QED
    BY <2>1, <2>2 DEF RecvSizes, AtMost, BUFFER_PARTITION_SIZE
<1>6. /\ conn' \in [Conns -> ConnRecords]
      /\ ConnInv'
      /\ conn'[Current] = Consumed(conn[Current], size)
      /\ \A d \in Conns \ {Current} : conn'[d] = conn[d]
  <2> DEFINE k == Consumed(conn[Current], size)
  <2>1. k \in ConnRecords /\ RequestAndAnswer(k)
    BY <1>1, <1>5, ConnTypes, CallsKeepAnswer
  <2>2. conn' = [conn EXCEPT ![Current] = k]
    BY <1>1, <1>4 DEF IInv, TypeOK, SocketsTypeOK
  <2> HIDE DEF k
  <2>3. conn' \in [Conns -> ConnRecords] /\ ConnInv' /\ conn'[Current] = k
          /\ \A d \in Conns \ {Current} : conn'[d] = conn[d]
    BY <1>1, <2>1, <2>2, ConnUpdate DEF IInv
  <2>4. QED
    BY <2>3 DEF k
<1>7. conn'[Current].end = "accepted" /\ conn'[Current].request = Request
  BY <1>1, <1>6 DEF Consumed, ConnRecords, Request
<1>8. SocketsTypeOK'
  BY <1>6 DEF IInv, TypeOK, SocketsTypeOK, RecvBuffer
<1>9. /\ session' \in Sessions
      /\ session'.conn = session.conn
      /\ \/ session'.pc \in {"recv", "pre"} /\ Request.op = "SEND_MESSAGE"
         \/ /\ session'.payload = session.payload
            /\ \/ session'.pc = "op" /\ Request.op = "REGISTER"
               \/ session'.pc = "pre" /\ Request.op # "REGISTER"
               \/ session'.pc = "send" /\ session'.response = ErrorResponse
  <2>1. CASE LacksFields(size)
    <3>1. Respond(ErrorResponse) /\ ErrorResponse \in Responses
      BY <1>4, <2>1 DEF Parse, ErrorResponse, Responses
    <3>2. QED
      BY <1>1, <3>1, RespondFacts
  <2>2. CASE ~ LacksFields(size) /\ Request.op = "SEND_MESSAGE"
    <3>1. ParseStep(size)
      BY <1>4, <2>2 DEF Parse
    <3>2. QED
      BY <1>1, <1>5, <2>2, <3>1, ParseFacts
  <2>3. CASE ~ LacksFields(size) /\ Request.op = "REGISTER"
    <3>1. Goto("op")
      BY <1>4, <2>3 DEF Parse
    <3>2. QED
      BY <1>1, <2>3, <3>1, GotoFacts
  <2>4. CASE ~ LacksFields(size) /\ Request.op \notin {"SEND_MESSAGE", "REGISTER"}
    <3>1. Goto("pre")
      BY <1>4, <2>4 DEF Parse
    <3>2. QED
      BY <1>1, <2>4, <3>1, GotoFacts
  <2>5. QED
    BY <2>1, <2>2, <2>3, <2>4
<1>10. ServerTypeOK'
  BY <1>9 DEF IInv, TypeOK, ServerTypeOK, RecvBuffer
<1>11. Current' = Current /\ Request' = Request
  BY <1>7, <1>9 DEF Current, Request
<1>12. SessionInv'
  <2>1. session.payload.index # 0 => Request.op = "SEND_MESSAGE"
    BY <1>1 DEF IInv, SessionInv
  <2>2. Answers(ErrorResponse, Request)
    BY DEF Answers, ErrorResponse
  <2>3. QED
    BY <1>1, <1>7, <1>9, <1>11, <2>1, <2>2 DEF SessionInv, Answers
<1>13. EventsInv' /\ BacklogInv'
  BY <1>6, <1>9, LoopFrame DEF RecvBuffer
<1>14. QED
  BY <1>2, <1>3, <1>6, <1>8, <1>10, <1>12, <1>13 DEF IInv, TypeOK

\* A step that answers with GENERAL_SERVER_ERROR
LEMMA ErrorStep ==
  ASSUME IInv, session.pc # "select", Respond(ErrorResponse),
         UNCHANGED <<storageVars, socketVars, events, restarts, clientVars>>
  PROVE  IInv'
<1>1. /\ session \in Sessions
      /\ Current \in Conns
      /\ conn[Current].end = "accepted"
  BY RunningSession
<1>2. ErrorResponse \in Responses
  BY DEF ErrorResponse, Responses
<1>3. /\ session' \in Sessions
      /\ session'.pc = "send"
      /\ session'.conn = session.conn
      /\ session'.payload = session.payload
      /\ session'.response = ErrorResponse
  BY <1>1, <1>2, RespondFacts
<1>4. session.payload.index # 0 => Request.op = "SEND_MESSAGE"
  BY DEF IInv, SessionInv
<1>5. SessionInv'
  BY <1>1, <1>3, <1>4
     DEF SessionInv, Current, Request, socketVars, ErrorResponse, Answers
<1>6. QED
  BY <1>3, <1>5, QuietSessionStep

\* A step that goes on to another part of the session without a response
LEMMA GotoStep ==
  ASSUME IInv, session.pc # "select", Goto("close"),
         UNCHANGED <<storageVars, socketVars, events, restarts, clientVars>>
  PROVE  IInv'
<1>1. /\ session \in Sessions
      /\ Current \in Conns
      /\ conn[Current].end = "accepted"
  BY RunningSession
<1>2. /\ session' \in Sessions
      /\ session'.pc = "close"
      /\ session'.conn = session.conn
      /\ session'.payload = session.payload
  BY <1>1, GotoFacts
<1>3. session.payload.index # 0 => Request.op = "SEND_MESSAGE"
  BY DEF IInv, SessionInv
<1>4. SessionInv'
  BY <1>1, <1>2, <1>3 DEF SessionInv, Current, Request, socketVars
<1>5. QED
  BY <1>2, <1>4, QuietSessionStep

\* A step that answers with rsp, a response to the request of the session
LEMMA AnswerStep ==
  ASSUME IInv, session.pc # "select",
         NEW rsp \in Responses, Answers(rsp, Request), Respond(rsp),
         UNCHANGED <<socketVars, events, restarts, clientVars>>,
         StorageTypeOK', KnownParties'
  PROVE  IInv'
<1>1. /\ session \in Sessions
      /\ Current \in Conns
      /\ conn[Current].end = "accepted"
  BY RunningSession
<1>2. /\ session' \in Sessions
      /\ session'.pc = "send"
      /\ session'.conn = session.conn
      /\ session'.payload = session.payload
      /\ session'.response = rsp
  BY <1>1, RespondFacts
<1>3. session.payload.index # 0 => Request.op = "SEND_MESSAGE"
  BY DEF IInv, SessionInv
<1>4. SessionInv'
  BY <1>1, <1>2, <1>3 DEF SessionInv, Current, Request, socketVars, Answers
<1>5. QED
  BY <1>2, <1>4, StorageStep

\* recv() finds the end of the stream (request_parser_factory, _parse_content).
LEMMA RecvEofStep ==
  ASSUME IInv, RecvEof, UNCHANGED clientVars
  PROVE  IInv'
<1>1. /\ session \in Sessions
      /\ Current \in Conns
      /\ Request \in Requests
      /\ conn[Current].end = "accepted"
      /\ session.pc = "recv"
  BY RunningSession DEF RecvEof
<1>2. CASE session.payload.index = 0
  BY <1>1, <1>2, ErrorStep DEF RecvEof
<1>3. CASE session.payload.index # 0
  <2>1. ParseStep(0) /\ Request.op = "SEND_MESSAGE"
    BY <1>1, <1>3 DEF RecvEof, IInv, SessionInv
  <2>2. /\ session' \in Sessions
        /\ session'.pc \in {"recv", "pre"}
        /\ session'.conn = session.conn
    BY <1>1, <2>1, ParseFacts
  <2>3. SessionInv'
    BY <1>1, <2>1, <2>2 DEF SessionInv, Current, Request, RecvEof, socketVars
  <2>4. QED
    BY <2>2, <2>3, QuietSessionStep DEF RecvEof
<1>4. QED
  BY <1>2, <1>3

\* recv() raises (the except clause of _handle_session).
LEMMA RecvErrorStep ==
  ASSUME IInv, RecvError, UNCHANGED clientVars
  PROVE  IInv'
BY ErrorStep DEF RecvError

-----------------------------------------------------------------------------
\* Handling the request

\* The sender is checked and its LastSeen written (_handle_pre_request).
LEMMA PreRequestStep ==
  ASSUME IInv, PreRequest, UNCHANGED clientVars
  PROVE  IInv'
<1> DEFINE id == Request.clientId
<1>1. /\ session \in Sessions
      /\ Current \in Conns
      /\ Request \in Requests
      /\ conn[Current].end = "accepted"
      /\ session.pc = "pre"
      /\ Request.op # "REGISTER"
  BY RunningSession DEF PreRequest, IInv, SessionInv
<1>2. CASE _handle_pre_request(id) /\ Goto("op")
  <2>1. id \in ClientIds
    BY <1>1, RequestClient
  <2>2. /\ is_client_id_exist(id)
        /\ lastSeen' = lastSeen \cup {id}
        /\ UNCHANGED <<clients, messages, lastRowId>>
    BY <1>2 DEF _handle_pre_request, update_client_last_seen
  <2>3. StorageTypeOK' /\ KnownParties'
    BY <2>1, <2>2 DEF IInv, TypeOK, StorageTypeOK, KnownParties, is_client_id_exist
  <2>4. /\ session' \in Sessions
        /\ session'.pc = "op"
        /\ session'.conn = session.conn
        /\ session'.payload = session.payload
    BY <1>1, <1>2, GotoFacts
  <2>5. session.payload.index # 0 => Request.op = "SEND_MESSAGE"
    BY <1>1 DEF IInv, SessionInv
  <2>6. Request' = Request /\ Current' = Current /\ UNCHANGED conn
    BY <2>4 DEF PreRequest, Request, Current, socketVars
  <2>7. is_client_id_exist(id)' /\ id \in lastSeen'
    BY <2>2, <2>6 DEF is_client_id_exist
  <2>8. SessionInv'
    BY <1>1, <2>4, <2>5, <2>6, <2>7 DEF SessionInv
  <2>9. QED
    BY <2>3, <2>4, <2>8, StorageStep DEF PreRequest
<1>3. CASE Respond(ErrorResponse) /\ UNCHANGED storageVars
  BY <1>1, <1>3, ErrorStep DEF PreRequest
<1>4. QED
  BY <1>2, <1>3 DEF PreRequest

\* The operation raises (the except clause of _handle_session).
LEMMA HandleRefusedStep ==
  ASSUME IInv, HandleRefused, UNCHANGED clientVars
  PROVE  IInv'
BY ErrorStep DEF HandleRefused

\* What every operation finds
LEMMA HandleFacts ==
  ASSUME IInv, NEW op, Handle(op)
  PROVE  /\ session.pc = "op"
         /\ session \in Sessions
         /\ Request \in Requests
         /\ Request.op = op
         /\ op # "REGISTER" =>
              is_client_id_exist(Request.clientId) /\ Request.clientId \in lastSeen
         /\ ~ Refused(Request, session.payload)
         /\ UNCHANGED <<socketVars, events, restarts>>
BY RunningSession DEF Handle, IInv, SessionInv

\* A new row of "clients" keeps the parties of every message known.
LEMMA HandleRegisterStep ==
  ASSUME IInv, HandleRegister, UNCHANGED clientVars
  PROVE  IInv'
<1>1. Handle("REGISTER")
  BY DEF HandleRegister
<1>2. PICK id \in FreshIds :
        /\ register_client(Request, id)
        /\ Respond([code |-> "REGISTER_SUCCESS", clientId |-> id])
  BY DEF HandleRegister
<1> DEFINE row == [id |-> id, userName |-> Request.userName,
                   publicKey |-> Request.publicKey]
           rsp == [code |-> "REGISTER_SUCCESS", clientId |-> id]
<1>3. Request \in RegisterRequests /\ id \in ClientIds
  BY <1>1, HandleFacts, RequestKinds DEF FreshIds
<1>4. clients' = clients \cup {row} /\ UNCHANGED <<lastSeen, messages, lastRowId>>
  BY <1>2 DEF register_client, add_client
<1>5. row \in ClientRows
  BY <1>3 DEF RegisterRequests, ClientRows
<1>6. StorageTypeOK' /\ KnownParties'
  BY <1>4, <1>5 DEF IInv, TypeOK, StorageTypeOK, KnownParties, is_client_id_exist
<1>7. rsp \in Responses /\ Answers(rsp, Request)
  BY <1>3 DEF Responses, Answers, RegisterRequests
<1>8. QED
  BY <1>1, <1>2, <1>6, <1>7, HandleFacts, AnswerStep

\* The list of clients is an answer of its type.
LEMMA HandleListClientsStep ==
  ASSUME IInv, HandleListClients, UNCHANGED clientVars
  PROVE  IInv'
<1> DEFINE rsp == [code |-> "LIST_CLIENTS_SUCCESS",
                   clients |-> list_clients(Request.clientId)]
<1>1. Handle("LIST_CLIENTS") /\ Respond(rsp) /\ UNCHANGED storageVars
  BY DEF HandleListClients
<1>2. list_clients(Request.clientId) \in SUBSET ClientEntries
  BY DEF IInv, TypeOK, StorageTypeOK, list_clients, ClientRows, ClientEntries
<1>3. rsp \in Responses /\ Answers(rsp, Request)
  BY <1>2 DEF Responses, Answers
<1>4. StorageTypeOK' /\ KnownParties'
  BY <1>1, StorageFrame DEF IInv, TypeOK
<1>5. QED
  BY <1>1, <1>3, <1>4, HandleFacts, AnswerStep

\* The key of a client is an answer of its type.
LEMMA HandleGetPublicKeyStep ==
  ASSUME IInv, HandleGetPublicKey, UNCHANGED clientVars
  PROVE  IInv'
<1>1. Handle("GET_PUBLIC_KEY") /\ UNCHANGED storageVars
  BY DEF HandleGetPublicKey
<1>2. PICK key \in get_client_public_key(Request.destClientId) :
        Respond([code |-> "PUBLIC_KEY_SUCCESS", clientId |-> Request.destClientId,
                 publicKey |-> key])
  BY DEF HandleGetPublicKey
<1> DEFINE rsp == [code |-> "PUBLIC_KEY_SUCCESS", clientId |-> Request.destClientId,
                   publicKey |-> key]
<1>3. Request.destClientId \in ClientIds
  BY <1>1, HandleFacts, RequestKinds DEF GetPublicKeyRequests
<1>4. key \in PublicKeys
  BY DEF IInv, TypeOK, StorageTypeOK, get_client_public_key, ClientRows
<1>5. rsp \in Responses /\ Answers(rsp, Request)
  BY <1>3, <1>4 DEF Responses, Answers
<1>6. StorageTypeOK' /\ KnownParties'
  BY <1>1, StorageFrame DEF IInv, TypeOK
<1>7. QED
  BY <1>1, <1>2, <1>5, <1>6, HandleFacts, AnswerStep

\* The row that is stored has both parties known: one passed pre_request, the
\* other is looked up by the operation (send_message).
LEMMA HandleSendMessageStep ==
  ASSUME IInv, HandleSendMessage, UNCHANGED clientVars
  PROVE  IInv'
<1> DEFINE r   == Request
           row == [id |-> lastRowId + 1, toClient |-> r.destClientId,
                   fromClient |-> r.clientId, type |-> r.messageType,
                   size |-> r.contentSize, length |-> session.payload.length,
                   carried |-> session.payload.carried]
           rsp == [code |-> "MESSAGE_SENT_SUCCESS", clientId |-> r.destClientId,
                   messageId |-> lastRowId + 1]
<1>1. Handle("SEND_MESSAGE") /\ send_message(r, session.payload)
  BY DEF HandleSendMessage
<1>2. r \in SendMessageRequests /\ r.op = "SEND_MESSAGE"
  BY <1>1, HandleFacts, RequestKinds
<1>3. /\ lastRowId' = lastRowId + 1
      /\ messages' = messages \cup {row}
      /\ UNCHANGED <<clients, lastSeen>>
  BY <1>1 DEF send_message, save_message
<1>4. lastRowId + 1 \in Nat
  BY DEF IInv, TypeOK, StorageTypeOK
<1>5. row \in Messages
  <2>1. session.payload.length \in Int /\ session.payload.carried \in Int
    BY <1>1, HandleFacts DEF Sessions, Payloads
  <2>2. r.contentSize \in Nat
    <3>1. r.contentSize \in ContentSizes
      BY <1>2 DEF SendMessageRequests
    <3>2. QED
      BY <3>1, ContentSizesAssumption
  <2>3. QED
    BY <1>2, <1>4, <2>1, <2>2 DEF SendMessageRequests, Messages
<1>6. StorageTypeOK'
  BY <1>3, <1>4, <1>5 DEF IInv, TypeOK, StorageTypeOK
<1>7. KnownParties'
  <2>1. /\ is_client_id_exist(r.destClientId)
        /\ is_client_id_exist(r.clientId)
        /\ r.clientId \in lastSeen
    BY <1>1, <1>2, HandleFacts DEF Refused
  <2>2. QED
    BY <1>3, <2>1 DEF IInv, KnownParties, is_client_id_exist
<1>8. rsp \in Responses /\ Answers(rsp, r)
  BY <1>2, <1>4 DEF Responses, Answers, SendMessageRequests
<1>9. CASE Respond(rsp)
  BY <1>1, <1>6, <1>7, <1>8, <1>9, HandleFacts, AnswerStep
<1>10. CASE Goto("close")
  <2>1. /\ session \in Sessions
        /\ Current \in Conns
        /\ conn[Current].end = "accepted"
    BY <1>1, HandleFacts, RunningSession
  <2>2. /\ session' \in Sessions
        /\ session'.pc = "close"
        /\ session'.conn = session.conn
        /\ session'.payload = session.payload
    BY <1>10, <2>1, GotoFacts
  <2>3. SessionInv'
    BY <1>1, <1>2, <2>1, <2>2, HandleFacts DEF SessionInv, Current, Request, socketVars
  <2>4. QED
    BY <1>1, <1>6, <1>7, <2>2, <2>3, HandleFacts, StorageStep
<1>11. QED
  BY <1>9, <1>10 DEF HandleSendMessage

\* The messages pulled are rows of the table.
LEMMA HandlePullMessagesStep ==
  ASSUME IInv, HandlePullMessages, UNCHANGED clientVars
  PROVE  IInv'
<1> DEFINE rows == pull_messages(Request.clientId)
           rsp  == [code |-> "MESSAGES_PULLED_SUCCESS", messages |-> rows]
<1>1. Handle("PULL_MESSAGES") /\ UNCHANGED storageVars
  BY DEF HandlePullMessages
<1>2. rows \in SUBSET Messages
  BY DEF IInv, TypeOK, StorageTypeOK, pull_messages, pull_client_messages
<1>3. rsp \in Responses /\ Answers(rsp, Request)
  BY <1>2 DEF Responses, Answers
<1>4. StorageTypeOK' /\ KnownParties'
  BY <1>1, StorageFrame DEF IInv, TypeOK
<1>5. CASE Respond(rsp)
  BY <1>1, <1>3, <1>4, <1>5, HandleFacts, AnswerStep
<1>6. CASE Goto("close")
  BY <1>1, <1>6, HandleFacts, GotoStep
<1>7. QED
  BY <1>5, <1>6 DEF HandlePullMessages

-----------------------------------------------------------------------------
\* Sending the response

\* A partition of the response is sent to the connection of the session.
LEMMA SendPartitionStep ==
  ASSUME IInv, SendPartition, UNCHANGED clientVars
  PROVE  IInv'
<1> DEFINE pc == IF session.sent + 1 = ResponsePartitions(session.response)
                   THEN "after" ELSE "send"
<1>1. /\ session \in Sessions
      /\ Current \in Conns
      /\ conn[Current] \in ConnRecords
      /\ Request \in Requests
      /\ RequestAndAnswer(conn[Current])
      /\ conn[Current].end = "accepted"
      /\ session.pc = "send"
  BY RunningSession DEF SendPartition
<1>2. session.response \in Responses \cup {NoResponse} /\ Answers(session.response, Request)
  BY <1>1 DEF IInv, SessionInv, Sessions
<1>3. StorageTypeOK' /\ KnownParties'
  BY StorageFrame DEF IInv, TypeOK, SendPartition
<1>4. ClientTypeOK'
  BY ClientFrame DEF IInv, TypeOK
<1>5. /\ conn' \in [Conns -> ConnRecords]
      /\ ConnInv'
      /\ conn'[Current] = Sent(conn[Current], session.response)
      /\ \A d \in Conns \ {Current} : conn'[d] = conn[d]
  <2> DEFINE k == Sent(conn[Current], session.response)
  <2>1. k \in ConnRecords
    BY <1>1, <1>2, ConnTypes
  <2>2. RequestAndAnswer(k)
    BY <1>1, <1>2, CallsKeepAnswer DEF Request
  <2>3. conn' = [conn EXCEPT ![Current] = k]
    BY <1>1 DEF SendPartition, IInv, TypeOK, SocketsTypeOK
  <2> HIDE DEF k
  <2>4. conn' \in [Conns -> ConnRecords] /\ ConnInv' /\ conn'[Current] = k
          /\ \A d \in Conns \ {Current} : conn'[d] = conn[d]
    BY <1>1, <2>1, <2>2, <2>3, ConnUpdate DEF IInv
  <2>5. QED
    BY <2>4 DEF k
<1>6. conn'[Current].end = "accepted" /\ conn'[Current].request = Request
  BY <1>1, <1>5 DEF Sent, ConnRecords, Request
<1>7. SocketsTypeOK'
  BY <1>5 DEF IInv, TypeOK, SocketsTypeOK, SendPartition
<1>8. /\ session' \in Sessions
      /\ session'.pc \in {"send", "after"}
      /\ session'.conn = session.conn
      /\ session'.payload = session.payload
      /\ session'.response = session.response
  <2>1. session' = [session EXCEPT !.sent = session.sent + 1, !.pc = pc]
    BY <1>1 DEF SendPartition, Sessions
  <2>2. pc \in {"send", "after"}
    OBVIOUS
  <2> HIDE DEF pc
  <2>3. [session EXCEPT !.sent = session.sent + 1, !.pc = pc] \in Sessions
    <3>1. session.sent + 1 \in Nat
      BY <1>1 DEF Sessions
    <3>2. pc \in {"select", "recv", "pre", "op", "send", "after", "close"}
      BY <2>2
    <3>3. QED
      BY <1>1, <3>1, <3>2, Zenon DEF Sessions
  <2>4. QED
    BY <1>1, <2>1, <2>2, <2>3 DEF Sessions
<1>9. ServerTypeOK'
  BY <1>8 DEF IInv, TypeOK, ServerTypeOK, SendPartition
<1>10. Current' = Current /\ Request' = Request
  BY <1>6, <1>8 DEF Current, Request
<1>11. SessionInv'
  <2>1. session.payload.index # 0 => Request.op = "SEND_MESSAGE"
    BY <1>1 DEF IInv, SessionInv
  <2>2. Answers(session.response, Request)'
    BY <1>2, <1>8, <1>10 DEF Answers
  <2>3. QED
    BY <1>1, <1>6, <1>8, <1>10, <2>1, <2>2 DEF SessionInv
<1>12. EventsInv' /\ BacklogInv'
  BY <1>5, <1>8, LoopFrame DEF SendPartition
<1>13. QED
  BY <1>3, <1>4, <1>5, <1>7, <1>9, <1>11, <1>12 DEF IInv, TypeOK

\* sendall() raises and the session goes on to its close.
LEMMA SendErrorStep ==
  ASSUME IInv, SendError, UNCHANGED clientVars
  PROVE  IInv'
BY GotoStep DEF SendError

\* What was pulled is deleted: a smaller table has known parties too.
LEMMA AfterSendStep ==
  ASSUME IInv, _after_send_process, UNCHANGED clientVars
  PROVE  IInv'
<1> USE DEF _after_send_process
<1>1. CASE UNCHANGED storageVars
  BY <1>1, GotoStep
<1>2. CASE delete_client_messages(Ids(session.response.messages))
  <2>1. /\ session \in Sessions
        /\ Current \in Conns
        /\ conn[Current].end = "accepted"
    BY RunningSession
  <2>2. messages' \in SUBSET messages /\ UNCHANGED <<clients, lastSeen, lastRowId>>
    BY <1>2 DEF delete_client_messages
  <2>3. StorageTypeOK' /\ KnownParties'
    BY <2>2 DEF IInv, TypeOK, StorageTypeOK, KnownParties, is_client_id_exist
  <2>4. /\ session' \in Sessions
        /\ session'.pc = "close"
        /\ session'.conn = session.conn
        /\ session'.payload = session.payload
    BY <2>1, GotoFacts
  <2>5. SessionInv'
    <3>1. session.payload.index # 0 => Request.op = "SEND_MESSAGE"
      BY DEF IInv, SessionInv
    <3>2. QED
      BY <2>1, <2>4, <3>1 DEF SessionInv, Current, Request, socketVars
  <2>6. QED
    BY <2>3, <2>4, <2>5, StorageStep
<1>3. QED
  BY <1>1, <1>2

\* The connection that closes is not among the events that wait, so that no
\* later callback finds it unregistered.
LEMMA CloseSessionStep ==
  ASSUME IInv, CloseSession, UNCHANGED clientVars
  PROVE  IInv'
<1>1. /\ session \in Sessions
      /\ Current \in Conns
      /\ conn[Current] \in ConnRecords
      /\ RequestAndAnswer(conn[Current])
      /\ conn[Current].end = "accepted"
  BY RunningSession DEF CloseSession
<1>2. StorageTypeOK' /\ KnownParties'
  BY StorageFrame DEF IInv, TypeOK, CloseSession
<1>3. ClientTypeOK'
  BY ClientFrame DEF IInv, TypeOK
<1>4. /\ conn' \in [Conns -> ConnRecords]
      /\ ConnInv'
      /\ \A d \in Conns \ {Current} : conn'[d] = conn[d]
  BY <1>1, ConnTypes, CallsKeepAnswer, ConnUpdate DEF IInv, CloseSession
<1>5. SocketsTypeOK'
  BY <1>4 DEF IInv, TypeOK, SocketsTypeOK, CloseSession
<1>6. ServerTypeOK' /\ SessionInv'
  BY NoSessionType DEF IInv, TypeOK, ServerTypeOK, SessionInv, NoSession, CloseSession
<1>7. \A c \in events \ {Listener} : c \in Conns \ {Current} /\ conn'[c] = conn[c]
  BY <1>4 DEF IInv, TypeOK, ServerTypeOK, EventsInv, Current
<1>8. EventsInv'
  BY <1>7, ListenerAssumption
     DEF IInv, EventsInv, Readable, CloseSession, NoSession
<1>9. BacklogInv'
  BY <1>1, <1>4 DEF IInv, BacklogInv, CloseSession, TypeOK, SocketsTypeOK
<1>10. QED
  BY <1>2, <1>3, <1>4, <1>5, <1>6, <1>8, <1>9 DEF IInv, TypeOK

\* A crash leaves no event and no session, and the table as it was committed.
LEMMA RestartServerStep ==
  ASSUME IInv, RestartServer, UNCHANGED clientVars
  PROVE  IInv'
<1> USE DEF RestartServer
<1>1. StorageTypeOK' /\ KnownParties'
  BY StorageFrame DEF IInv, TypeOK
<1>2. ClientTypeOK'
  BY ClientFrame DEF IInv, TypeOK
<1>3. \A c \in Conns : conn'[c] \in ConnRecords /\ RequestAndAnswer(conn'[c])
  <2> SUFFICES ASSUME NEW c \in Conns
               PROVE  conn'[c] \in ConnRecords /\ RequestAndAnswer(conn'[c])
    OBVIOUS
  <2>1. conn[c] \in ConnRecords /\ RequestAndAnswer(conn[c])
    BY DEF IInv, TypeOK, SocketsTypeOK, ConnInv
  <2>2. CASE IsOpen(c)
    <3>1. conn'[c] = ClosedByServer(conn[c]) /\ conn[c].end # "none"
      BY <2>2 DEF IsOpen
    <3>2. QED
      BY <2>1, <3>1, ConnTypes, CallsKeepAnswer
  <2>3. CASE ~ IsOpen(c)
    BY <2>1, <2>3
  <2>4. QED
    BY <2>2, <2>3
<1>4. SocketsTypeOK'
  BY <1>3 DEF SocketsTypeOK
<1>5. ConnInv'
  BY <1>3 DEF ConnInv, RequestAndAnswer, Answers
<1>6. ServerTypeOK' /\ SessionInv' /\ EventsInv' /\ BacklogInv'
  BY NoSessionType
     DEF IInv, TypeOK, ServerTypeOK, SessionInv, NoSession, EventsInv, BacklogInv
<1>7. QED
  BY <1>1, <1>2, <1>4, <1>5, <1>6 DEF IInv, TypeOK

-----------------------------------------------------------------------------
\* The clients.  A client's call on the connection c keeps what the server relies
\* on: its end of c, the request, and that c stays readable once it is.
LEMMA ClientConnStep ==
  ASSUME IInv, NEW c \in Conns, NEW k \in ConnRecords, RequestAndAnswer(k),
         conn' = [conn EXCEPT ![c] = k],
         IsOpen(c) => /\ k.end = conn[c].end
                      /\ k.request = conn[c].request
                      /\ Readable(c) => k.up > 0 \/ ~ k.peer,
         UNCHANGED <<storageVars, serverVars>>,
         ClientTypeOK'
  PROVE  /\ TypeOK' <=> backlog' \in Seq(Conns)
         /\ ConnInv' /\ SessionInv' /\ KnownParties'
         /\ \A d \in events \ {Listener} :
              conn'[d].end = "accepted" /\ Readable(d)' /\ session'.conn # d
         /\ \A d \in Conns : conn[d].end = "backlog" => conn'[d].end = "backlog"
<1>1. StorageTypeOK' /\ KnownParties'
  BY StorageFrame DEF IInv, TypeOK
<1>2. /\ conn' \in [Conns -> ConnRecords]
      /\ ConnInv'
      /\ conn'[c] = k
      /\ \A d \in Conns \ {c} : conn'[d] = conn[d]
  BY ConnUpdate DEF IInv
<1>3. ServerTypeOK'
  BY DEF IInv, TypeOK, ServerTypeOK, serverVars
<1>4. \A d \in Conns : conn[d].end = "accepted" =>
        /\ conn'[d].end = "accepted"
        /\ conn'[d].request = conn[d].request
        /\ Readable(d) => Readable(d)'
  BY <1>2 DEF IsOpen, Readable
<1>5. SessionInv'
  <2>1. CASE session.pc = "select"
    BY <2>1 DEF IInv, SessionInv, serverVars
  <2>2. CASE session.pc # "select"
    <3>1. Current \in Conns /\ conn[Current].end = "accepted"
      BY <2>2 DEF IInv, SessionInv
    <3>2. Current' = Current /\ Request' = Request /\ conn'[Current].end = "accepted"
      BY <1>4, <3>1 DEF Current, Request, serverVars
    <3>3. session' = session /\ clients' = clients /\ lastSeen' = lastSeen
      BY DEF serverVars, storageVars
    <3>4. QED
      BY <2>2, <3>1, <3>2, <3>3 DEF IInv, SessionInv, Answers, is_client_id_exist
  <2>3. QED
    BY <2>1, <2>2
<1>6. \A d \in events \ {Listener} :
        conn'[d].end = "accepted" /\ Readable(d)' /\ session'.conn # d
  BY <1>4 DEF IInv, EventsInv, TypeOK, ServerTypeOK, serverVars
<1>7. \A d \in Conns : conn[d].end = "backlog" => conn'[d].end = "backlog"
  BY <1>2 DEF IsOpen
<1>8. QED
  BY <1>1, <1>2, <1>3, <1>5, <1>6, <1>7 DEF TypeOK, SocketsTypeOK

\* connect() puts a free connection at the end of the queue for accept().
LEMMA ConnectStep ==
  ASSUME IInv, NEW p \in Processes, NEW r \in Requests, Connect(p, r),
         UNCHANGED <<storageVars, serverVars>>
  PROVE  IInv'
<1>1. PICK c \in Conns :
        /\ IsFree(c)
        /\ conn' = [conn EXCEPT ![c] = Connected(r)]
        /\ backlog' = Append(backlog, c)
        /\ call' = [call EXCEPT ![p] =
                      [phase |-> "open", conn |-> c, wrote |-> 0, read |-> 0]]
  BY DEF Connect
<1>2. conn[c] \in ConnRecords /\ conn[c].end = "none"
  <2>1. conn[c] \in ConnRecords
    BY DEF IInv, TypeOK, SocketsTypeOK
  <2>2. FreeConn.end = "none"
    BY DEF FreeConn
  <2>3. QED
    BY <1>1, <2>1, <2>2 DEF IsFree
<1>3. Connected(r) \in ConnRecords /\ RequestAndAnswer(Connected(r))
  <2>1. RequestAndAnswer(conn[c])
    BY DEF IInv, ConnInv
  <2>2. QED
    BY <1>2, <2>1, ConnTypes, CallsKeepAnswer
<1>4. ClientTypeOK'
  BY <1>1 DEF Connect, IInv, TypeOK, ClientTypeOK, Calls
<1>5. backlog' \in Seq(Conns)
  BY <1>1 DEF IInv, TypeOK, SocketsTypeOK
<1>6. ~ IsOpen(c)
  BY <1>2 DEF IsOpen
<1>7. /\ TypeOK' /\ ConnInv' /\ SessionInv' /\ KnownParties'
      /\ \A d \in events \ {Listener} :
           conn'[d].end = "accepted" /\ Readable(d)' /\ session'.conn # d
      /\ \A d \in Conns : conn[d].end = "backlog" => conn'[d].end = "backlog"
  BY <1>1, <1>3, <1>4, <1>5, <1>6, ClientConnStep
<1>8. EventsInv'
  <2>1. Listener \in events => backlog' # <<>>
    BY <1>1 DEF IInv, TypeOK, SocketsTypeOK
  <2>2. QED
    BY <1>7, <2>1 DEF EventsInv, serverVars
<1>9. BacklogInv'
  <2>1. conn'[c].end = "backlog"
    BY <1>1 DEF IInv, TypeOK, SocketsTypeOK, Connected, FreeConn
  <2>2. \A i \in DOMAIN backlog : backlog[i] \in Conns /\ backlog[i] # c
    BY <1>2 DEF IInv, BacklogInv, TypeOK, SocketsTypeOK
  <2>3. QED
    BY <1>1, <1>7, <2>1, <2>2 DEF IInv, BacklogInv, TypeOK, SocketsTypeOK
<1>10. QED
  BY <1>7, <1>8, <1>9 DEF IInv

\* The steps of a call that is under way leave the backlog as it is.
LEMMA CallConnStep ==
  ASSUME IInv, NEW c \in Conns, NEW k \in ConnRecords, RequestAndAnswer(k),
         conn' = [conn EXCEPT ![c] = k],
         IsOpen(c) => /\ k.end = conn[c].end
                      /\ k.request = conn[c].request
                      /\ Readable(c) => k.up > 0 \/ ~ k.peer,
         UNCHANGED <<storageVars, serverVars, backlog>>,
         ClientTypeOK'
  PROVE  IInv'
<1>1. backlog' \in Seq(Conns)
  BY DEF IInv, TypeOK, SocketsTypeOK
<1>2. /\ TypeOK' /\ ConnInv' /\ SessionInv' /\ KnownParties'
      /\ \A d \in events \ {Listener} :
           conn'[d].end = "accepted" /\ Readable(d)' /\ session'.conn # d
      /\ \A d \in Conns : conn[d].end = "backlog" => conn'[d].end = "backlog"
  BY <1>1, ClientConnStep
<1>3. EventsInv'
  BY <1>2 DEF IInv, EventsInv, serverVars
<1>4. BacklogInv'
  BY <1>2 DEF IInv, BacklogInv, TypeOK, SocketsTypeOK
<1>5. QED
  BY <1>2, <1>3, <1>4 DEF IInv

\* The call of a process, and its connection
LEMMA CallFacts ==
  ASSUME IInv, NEW p \in Processes, InCall(p)
  PROVE  /\ call[p] \in [phase: {"open"}, conn: Conns, wrote: Nat, read: Nat]
         /\ ConnOf(p) \in Conns
         /\ conn[ConnOf(p)] \in ConnRecords
         /\ RequestAndAnswer(conn[ConnOf(p)])
         /\ NoCall \in Calls
<1>1. call[p] \in Calls /\ call[p] # NoCall
  BY DEF IInv, TypeOK, ClientTypeOK, InCall
<1>2. call[p] \in [phase: {"open"}, conn: Conns, wrote: Nat, read: Nat]
  BY <1>1 DEF Calls
<1>3. ConnOf(p) \in Conns
  BY <1>2 DEF ConnOf
<1>4. QED
  BY <1>2, <1>3 DEF IInv, TypeOK, SocketsTypeOK, ConnInv, Calls

\* A client writes a partition: its connection stays readable.
LEMMA WritePartitionStep ==
  ASSUME IInv, NEW p \in Processes, WritePartition(p),
         UNCHANGED <<storageVars, serverVars>>
  PROVE  IInv'
<1>1. PICK d \in Conns : d = ConnOf(p)
  BY CallFacts DEF WritePartition
<1>2. /\ call[p] \in [phase: {"open"}, conn: Conns, wrote: Nat, read: Nat]
      /\ conn[d] \in ConnRecords
      /\ RequestAndAnswer(conn[d])
  BY <1>1, CallFacts DEF WritePartition
<1>3. Written(conn[d]) \in ConnRecords /\ RequestAndAnswer(Written(conn[d]))
  BY <1>2, ConnTypes, CallsKeepAnswer
<1>4. conn' = [conn EXCEPT ![d] = Written(conn[d])]
  BY <1>1 DEF WritePartition, IInv, TypeOK, SocketsTypeOK
<1>5. /\ Written(conn[d]).end = conn[d].end
      /\ Written(conn[d]).request = conn[d].request
      /\ Readable(d) => Written(conn[d]).up > 0 \/ ~ Written(conn[d]).peer
  BY <1>2 DEF Written, ConnRecords, Readable, BUFFER_PARTITION_SIZE
<1>6. ClientTypeOK'
  <2>1. [call[p] EXCEPT !.wrote = @ + 1] \in Calls
    BY <1>2 DEF Calls
  <2>2. call' = [call EXCEPT ![p] = [call[p] EXCEPT !.wrote = @ + 1]]
    BY DEF WritePartition
  <2>3. call' \in [Processes -> Calls]
    BY <2>1, <2>2 DEF IInv, TypeOK, ClientTypeOK
  <2>4. QED
    BY <2>3 DEF WritePartition, IInv, TypeOK, ClientTypeOK
<1>7. UNCHANGED backlog
  BY DEF WritePartition
<1>8. QED
  BY <1>3, <1>4, <1>5, <1>6, <1>7, CallConnStep

\* A client reads a partition: nothing that the server reads changes.
LEMMA ReadPartitionStep ==
  ASSUME IInv, NEW p \in Processes, ReadPartition(p),
         UNCHANGED <<storageVars, serverVars>>
  PROVE  IInv'
<1>1. PICK d \in Conns : d = ConnOf(p)
  BY CallFacts DEF ReadPartition, ResponseArriving
<1>2. /\ call[p] \in [phase: {"open"}, conn: Conns, wrote: Nat, read: Nat]
      /\ conn[d] \in ConnRecords
      /\ RequestAndAnswer(conn[d])
  BY <1>1, CallFacts DEF ReadPartition, ResponseArriving
<1>3. Read(conn[d]) \in ConnRecords /\ RequestAndAnswer(Read(conn[d]))
  BY <1>2, ConnTypes, CallsKeepAnswer
<1>4. conn' = [conn EXCEPT ![d] = Read(conn[d])]
  BY <1>1 DEF ReadPartition, IInv, TypeOK, SocketsTypeOK
<1>5. /\ Read(conn[d]).end = conn[d].end
      /\ Read(conn[d]).request = conn[d].request
      /\ Readable(d) => Read(conn[d]).up > 0 \/ ~ Read(conn[d]).peer
  BY <1>2 DEF Read, ConnRecords, Readable
<1>6. ClientTypeOK'
  <2>1. [call[p] EXCEPT !.read = @ + 1] \in Calls
    BY <1>2 DEF Calls
  <2>2. call' = [call EXCEPT ![p] = [call[p] EXCEPT !.read = @ + 1]]
    BY DEF ReadPartition
  <2>3. call' \in [Processes -> Calls]
    BY <2>1, <2>2 DEF IInv, TypeOK, ClientTypeOK
  <2>4. QED
    BY <2>3 DEF ReadPartition, IInv, TypeOK, ClientTypeOK
<1>7. UNCHANGED backlog
  BY DEF ReadPartition
<1>8. QED
  BY <1>3, <1>4, <1>5, <1>6, <1>7, CallConnStep

\* The three ways a call ends all close the client's end.
LEMMA EndCallStep ==
  ASSUME IInv, NEW p \in Processes, InCall(p),
         conn' = [conn EXCEPT ![ConnOf(p)] = ClosedByClient(@)],
         UNCHANGED <<storageVars, serverVars, backlog>>,
         ClientTypeOK'
  PROVE  IInv'
<1>1. PICK d \in Conns : d = ConnOf(p)
  BY CallFacts
<1>2. conn[d] \in ConnRecords /\ RequestAndAnswer(conn[d])
  BY <1>1, CallFacts
<1>3. ClosedByClient(conn[d]) \in ConnRecords /\ RequestAndAnswer(ClosedByClient(conn[d]))
  BY <1>2, ConnTypes, CallsKeepAnswer
<1>4. conn' = [conn EXCEPT ![d] = ClosedByClient(conn[d])]
  BY <1>1 DEF IInv, TypeOK, SocketsTypeOK
<1>5. IsOpen(d) => /\ ClosedByClient(conn[d]).end = conn[d].end
                   /\ ClosedByClient(conn[d]).request = conn[d].request
                   /\ ~ ClosedByClient(conn[d]).peer
  BY <1>2 DEF ClosedByClient, IsOpen, ConnRecords
<1>6. QED
  BY <1>3, <1>4, <1>5, CallConnStep

\* A client reads the last partition and handles the response, which answers
\* the request it made.
LEMMA ReadLastPartitionStep ==
  ASSUME IInv, NEW p \in Processes, ReadLastPartition(p),
         UNCHANGED <<storageVars, serverVars>>
  PROVE  IInv'
<1> DEFINE r   == RequestOf(p)
           rsp == conn[ConnOf(p)].response
<1> USE DEF ReadLastPartition
<1>1. InCall(p)
  BY DEF ResponseArriving
<1>2. r \in Requests \cup {NoRequest} /\ rsp \in Responses \cup {NoResponse}
        /\ Answers(rsp, r) /\ NoCall \in Calls
  BY <1>1, CallFacts DEF ConnRecords, RequestAndAnswer, RequestOf
<1>3. HandleResponse(p, r, rsp)
  OBVIOUS
<1> HIDE DEF r, rsp
<1>4. (r.op = "REGISTER" => r \in RegisterRequests)
        /\ (r.op = "SEND_MESSAGE" => r \in SendMessageRequests)
  <2>1. CASE r \in Requests
    BY <2>1, RequestKinds
  <2>2. CASE r = NoRequest
    BY <2>2 DEF NoRequest
  <2>3. QED
    BY <1>2, <2>1, <2>2
<1>5. myInfo' \in [Processes -> Identities \cup {NoInfo}]
  <2>1. CASE rsp.code = "REGISTER_SUCCESS"
    <3>1. [clientId |-> rsp.clientId, userName |-> r.userName] \in Identities
      BY <1>2, <1>4, <2>1, ResponseKinds DEF Answers, RegisterRequests, Identities
    <3>2. QED
      BY <1>3, <2>1, <3>1 DEF HandleResponse, IInv, TypeOK, ClientTypeOK
  <2>2. CASE rsp.code # "REGISTER_SUCCESS"
    BY <1>3, <2>2 DEF HandleResponse, IInv, TypeOK, ClientTypeOK
  <2>3. QED
    BY <2>1, <2>2
<1>6. acked' \in [Processes -> SUBSET Acks]
  <2>1. CASE rsp.code = "MESSAGE_SENT_SUCCESS"
    <3>1. r \in SendMessageRequests
      BY <1>2, <1>4, <2>1 DEF Answers
    <3>2. r.contentSize \in Nat
      <4>1. r.contentSize \in ContentSizes
        BY <3>1 DEF SendMessageRequests
      <4>2. QED
        BY <4>1, ContentSizesAssumption
    <3>3. [id |-> rsp.messageId, from |-> r.clientId, to |-> r.destClientId,
           type |-> r.messageType, size |-> r.contentSize] \in Acks
      BY <1>2, <2>1, <3>1, <3>2, ResponseKinds DEF SendMessageRequests, Acks
    <3>4. QED
      BY <1>3, <2>1, <3>3 DEF HandleResponse, IInv, TypeOK, ClientTypeOK
  <2>2. CASE rsp.code # "MESSAGE_SENT_SUCCESS"
    BY <1>3, <2>2 DEF HandleResponse, IInv, TypeOK, ClientTypeOK
  <2>3. QED
    BY <2>1, <2>2
<1>7. received' \in [Processes -> Seq(SUBSET Messages)]
  <2>1. CASE rsp.code = "MESSAGES_PULLED_SUCCESS" /\ rsp.messages # {}
    <3>1. rsp.messages \in SUBSET Messages
      BY <1>2, <2>1, ResponseKinds
    <3>2. Append(received[p], rsp.messages) \in Seq(SUBSET Messages)
      BY <3>1 DEF IInv, TypeOK, ClientTypeOK
    <3>3. QED
      BY <1>3, <2>1, <3>2 DEF HandleResponse, IInv, TypeOK, ClientTypeOK
  <2>2. CASE ~ (rsp.code = "MESSAGES_PULLED_SUCCESS" /\ rsp.messages # {})
    BY <1>3, <2>2 DEF HandleResponse, IInv, TypeOK, ClientTypeOK
  <2>3. QED
    BY <2>1, <2>2
<1>8. ClientTypeOK'
  BY <1>2, <1>5, <1>6, <1>7 DEF IInv, TypeOK, ClientTypeOK
<1>9. QED
  BY <1>1, <1>8, EndCallStep

\* A call fails, or its process dies in it.
LEMMA FailOrAbortStep ==
  ASSUME IInv, NEW p \in Processes, FailCall(p) \/ AbortCall(p),
         UNCHANGED <<storageVars, serverVars>>
  PROVE  IInv'
<1> USE DEF FailCall, AbortCall
<1>1. InCall(p) /\ conn' = [conn EXCEPT ![ConnOf(p)] = ClosedByClient(@)]
        /\ UNCHANGED backlog
  OBVIOUS
<1>2. NoCall \in Calls
  BY DEF Calls
<1>3. aborts' \in [Processes -> Nat]
  BY DEF IInv, TypeOK, ClientTypeOK
<1>4. ClientTypeOK'
  BY <1>2, <1>3 DEF IInv, TypeOK, ClientTypeOK
<1>5. QED
  BY <1>1, <1>4, EndCallStep

\* A command opens a connection with a well-typed request.
LEMMA UserCommandStep ==
  ASSUME IInv, NEW p \in Processes, UserCommand(p),
         UNCHANGED <<storageVars, serverVars>>
  PROVE  IInv'
<1>1. myInfo[p] # NoInfo => myInfo[p].clientId \in ClientIds
  BY DEF IInv, TypeOK, ClientTypeOK, Identities
<1>2. \A to \in Contacts(p) : to \in ClientIds
  BY OldContactsAssumption DEF Contacts, IInv, TypeOK, StorageTypeOK, ClientRows
<1>3. ASSUME RegisterUserCommand(p) PROVE IInv'
  <2>1. PICK name \in UserNames, key \in PublicKeys :
          Connect(p, [op |-> "REGISTER", userName |-> name, publicKey |-> key])
    BY <1>3 DEF RegisterUserCommand
  <2>2. [op |-> "REGISTER", userName |-> name, publicKey |-> key] \in Requests
    BY DEF Requests, RegisterRequests
  <2>3. QED
    BY <2>1, <2>2, ConnectStep
<1>4. ASSUME ClientsListUserCommand(p) PROVE IInv'
  <2>1. [op |-> "LIST_CLIENTS", clientId |-> myInfo[p].clientId] \in Requests
    BY <1>1, <1>4 DEF ClientsListUserCommand, Requests, ListClientsRequests
  <2>2. QED
    BY <1>4, <2>1, ConnectStep DEF ClientsListUserCommand
<1>5. ASSUME RequestPublicKeyUserCommand(p) PROVE IInv'
  <2>1. PICK to \in Contacts(p) :
          Connect(p, [op |-> "GET_PUBLIC_KEY", clientId |-> myInfo[p].clientId,
                      destClientId |-> to])
    BY <1>5 DEF RequestPublicKeyUserCommand
  <2>2. [op |-> "GET_PUBLIC_KEY", clientId |-> myInfo[p].clientId,
         destClientId |-> to] \in Requests
    BY <1>1, <1>2, <1>5 DEF RequestPublicKeyUserCommand, Requests, GetPublicKeyRequests
  <2>3. QED
    BY <2>1, <2>2, ConnectStep
<1>6. ASSUME SendMessageUserCommand(p) PROVE IInv'
  <2>1. PICK to \in Contacts(p), type \in MessageTypes, size \in ContentSizes :
          Connect(p, [op |-> "SEND_MESSAGE", clientId |-> myInfo[p].clientId,
                      destClientId |-> to, messageType |-> type, contentSize |-> size])
    BY <1>6 DEF SendMessageUserCommand
  <2>2. [op |-> "SEND_MESSAGE", clientId |-> myInfo[p].clientId, destClientId |-> to,
         messageType |-> type, contentSize |-> size] \in Requests
    BY <1>1, <1>2, <1>6 DEF SendMessageUserCommand, Requests, SendMessageRequests
  <2>3. QED
    BY <2>1, <2>2, ConnectStep
<1>7. ASSUME RequestWaitingMessagesUserCommand(p) PROVE IInv'
  <2>1. [op |-> "PULL_MESSAGES", clientId |-> myInfo[p].clientId] \in Requests
    BY <1>1, <1>7
       DEF RequestWaitingMessagesUserCommand, Requests, PullMessagesRequests
  <2>2. QED
    BY <1>7, <2>1, ConnectStep DEF RequestWaitingMessagesUserCommand
<1>8. QED
  BY <1>3, <1>4, <1>5, <1>6, <1>7 DEF UserCommand

\* A step that changes nothing keeps the invariant.
LEMMA StutterIInv ==
  ASSUME IInv, UNCHANGED vars
  PROVE  IInv'
<1>1. UNCHANGED <<storageVars, socketVars, serverVars, clientVars>>
  BY DEF vars
<1>2. session' \in Sessions /\ SessionInv'
  BY <1>1 DEF IInv, TypeOK, ServerTypeOK, SessionInv, Current, Request, Answers,
              is_client_id_exist, storageVars, socketVars, serverVars
<1>3. QED
  BY <1>1, <1>2, QuietSessionStep DEF serverVars

\* Every step of the server keeps the invariant.
LEMMA ServerIInv ==
  ASSUME IInv, Server
  PROVE  IInv'
<1>1. UNCHANGED clientVars
  BY DEF Server
<1>2. CASE RestartServer
  BY <1>1, <1>2, RestartServerStep
<1>3. CASE Select \/ _accept \/ \E c \in Conns : BeginSession(c)
  BY <1>1, <1>3, SelectStep, AcceptStep, BeginSessionStep
<1>4. CASE RecvBuffer \/ RecvEof \/ RecvError
  BY <1>1, <1>4, RecvBufferStep, RecvEofStep, RecvErrorStep
<1>5. CASE PreRequest \/ HandleRefused
  BY <1>1, <1>5, PreRequestStep, HandleRefusedStep
<1>6. CASE HandleRegister \/ HandleListClients \/ HandleGetPublicKey
             \/ HandleSendMessage \/ HandlePullMessages
  BY <1>1, <1>6, HandleRegisterStep, HandleListClientsStep, HandleGetPublicKeyStep,
     HandleSendMessageStep, HandlePullMessagesStep
<1>7. CASE SendPartition \/ SendError \/ _after_send_process \/ CloseSession
  BY <1>1, <1>7, SendPartitionStep, SendErrorStep, AfterSendStep, CloseSessionStep
<1>8. QED
  BY <1>2, <1>3, <1>4, <1>5, <1>6, <1>7 DEF Server, ServerStep

\* Every step of a client process keeps the invariant.
LEMMA ClientIInv ==
  ASSUME IInv, NEW p \in Processes, ClientStep(p)
  PROVE  IInv'
<1>1. UNCHANGED <<storageVars, serverVars>>
  BY DEF ClientStep
<1>2. CASE UserCommand(p)
  BY <1>1, <1>2, UserCommandStep
<1>3. CASE CallStep(p)
  BY <1>1, <1>3, WritePartitionStep, ReadPartitionStep, ReadLastPartitionStep,
     FailOrAbortStep DEF CallStep
<1>4. CASE AbortCall(p)
  BY <1>1, <1>4, FailOrAbortStep
<1>5. QED
  BY <1>2, <1>3, <1>4 DEF ClientStep

-----------------------------------------------------------------------------
\* The invariant of the relay: however the sessions of the server, the calls of
\* the clients, their deaths and the crashes of the server interleave, the types
\* hold, a session serves the connection it accepted and the request it carried,
\* and it reaches an operation only through the check that the operation needs.
THEOREM Invariance == Spec => []IInv
<1>1. Init => IInv
  BY InitIInv
<1>2. IInv /\ [Next]_vars => IInv'
  BY StutterIInv, ServerIInv, ClientIInv DEF Next
<1>3. QED
  BY <1>1, <1>2, PTL DEF Spec

\* Every variable keeps its type.
THEOREM TypeCorrect == Spec => []TypeOK
<1>1. IInv => TypeOK
  BY DEF IInv
<1>2. QED
  BY <1>1, Invariance, PTL

\* The parties of every stored message are registered and its sender was seen
\* (_handle_pre_request, send_message), for any interleaving of sessions.
THEOREM PartiesKnown == Spec => []KnownParties
<1>1. IInv => KnownParties
  BY DEF IInv
<1>2. QED
  BY <1>1, Invariance, PTL
=============================================================================
