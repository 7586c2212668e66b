-------------------------- MODULE RelayBytesProofs ---------------------------
(***************************************************************************)
(* Proofs about the bytes of a request, for all values of the constants:   *)
(* how many partitions client and server take it to have, whether the      *)
(* content arrives whole, and what of it is left to read at the end; and   *)
(* that mail which was acknowledged is not changed and not lost.           *)
(***************************************************************************)
EXTENDS RelayInvariants, RelayDeliveryProofs

\* The parser's numbers

LEMMA Sizes ==
  /\ BUFFER_PARTITION_SIZE = 1024 /\ SendHeaderSize = 44
  /\ \A i \in Int : Room(i) = IF i = 0 THEN 980 ELSE 1024
  /\ \A i \in Int : request_buffer_start_index(i) = IF i = 0 THEN 44 ELSE 0
BY DEF BUFFER_PARTITION_SIZE, SendHeaderSize, RequestHeaderSize, CLIENT_ID_BYTE_SIZE, Room,
       request_buffer_start_index

\* The partitions of a request hold its fields and its content.
LEMMA RequestSize ==
  ASSUME NEW r \in Requests
  PROVE  /\ RequestPartitions(r) \in Nat /\ RequestPartitions(r) >= 1
         /\ r.op # "SEND_MESSAGE" => RequestPartitions(r) = 1
         /\ r.op = "SEND_MESSAGE" =>
              /\ r \in SendMessageRequests /\ r.contentSize \in Nat
              /\ r.contentSize + 44 <= 1024 * RequestPartitions(r)
              /\ 1024 * RequestPartitions(r) < r.contentSize + 44 + 1024
<1>1. r.op = "SEND_MESSAGE" => r \in SendMessageRequests /\ r.contentSize \in Nat
  BY RequestKinds, ContentSizesAssumption DEF SendMessageRequests
<1>2. CASE r.op # "SEND_MESSAGE"
  BY <1>2 DEF RequestPartitions
<1>3. CASE r.op = "SEND_MESSAGE"
  <2>1. PICK size \in Nat : size = r.contentSize
    BY <1>1, <1>3
  <2>2. RequestPartitions(r) = IF size > 980 THEN (44 + size + 1023) \div 1024 ELSE 1
    BY <1>3, <2>1, Sizes DEF RequestPartitions, Partitions
  <2>3. QED
    BY <1>1, <1>3, <2>1, <2>2
<1>4. QED
  BY <1>2, <1>3

\* A buffer that is not the last one moves the index by all of its room.
LEMMA ParseGoesOn ==
  ASSUME NEW r \in SendMessageRequests, NEW p \in Payloads, NEW size \in Int, MoreToRead(r, p)
  PROVE  LET q == _parse_content(r, p, size)
         IN  /\ q.index = p.index + Room(p.index)
             /\ q.index < r.contentSize
<1>1. p.index \in Int /\ r.contentSize \in Int /\ r.contentSize - p.index > Room(p.index)
  <2>1. r.contentSize \in ContentSizes
    BY DEF SendMessageRequests
  <2>2. r.contentSize \in Nat
    BY <2>1, ContentSizesAssumption
  <2>3. QED
    BY <2>2 DEF Payloads, MoreToRead
<1>2. number_of_bytes_to_read(r, p) = Room(p.index)
  BY <1>1, Sizes DEF number_of_bytes_to_read, AtMost
<1>3. QED
  BY <1>1, <1>2, Sizes DEF _parse_content

-----------------------------------------------------------------------------
\* How the server takes bytes from a connection

\* What a read that is cut short returns is not empty and leaves room in the partition.
LEMMA ShortReadSize ==
  ASSUME NEW size \in ShortReads
  PROVE  size \in Int /\ 0 < size /\ size < BUFFER_PARTITION_SIZE
<1>1. PICK room \in Int : room = BUFFER_PARTITION_SIZE
  BY Sizes
<1>2. size \in 1 .. (room - 1)
  BY <1>1, ShortReadsAssumption
<1>3. QED
  BY <1>1, <1>2

\* What recv() returns is not empty, fits in a partition and was sent.
LEMMA RecvSize ==
  ASSUME IInv, RecvBuffer, NEW size \in RecvSizes
  PROVE  /\ size \in Int /\ conn[Current].up \in Int
         /\ 0 < size /\ size <= 1024 /\ size <= conn[Current].up
<1>1. conn[Current].up \in Int /\ conn[Current].up > 0
  BY RunningSession DEF RecvBuffer, ConnRecords
<1>2. \/ size = AtMost(conn[Current].up, BUFFER_PARTITION_SIZE)
      \/ size \in ShortReads /\ size < conn[Current].up
  BY DEF RecvSizes
<1>3. CASE size = AtMost(conn[Current].up, BUFFER_PARTITION_SIZE)
  BY <1>1, <1>3, Sizes DEF AtMost
<1>4. CASE size \in ShortReads /\ size < conn[Current].up
  BY <1>1, <1>4, ShortReadSize, Sizes
<1>5. QED
  BY <1>2, <1>3, <1>4

\* Only recv() takes bytes, and those of the session's connection only.
LEMMA ServerBytes ==
  ASSUME IInv, Server, NEW c \in Conns
  PROVE  \/ conn'[c] = FreeConn /\ ~ conn[c].peer
         \/ conn'[c].up = conn[c].up
         \/ RecvBuffer /\ c = Current
<1>1. conn \in [Conns -> ConnRecords] /\ conn[c] \in ConnRecords
  BY DEF IInv, TypeOK, SocketsTypeOK
<1>2. CASE UNCHANGED conn
  BY <1>2
<1>3. ASSUME NEW d \in Conns,
             \/ conn' = [conn EXCEPT ![d] = AcceptedConn(conn[d])]
             \/ conn' = [conn EXCEPT ![d] = ClosedByServer(conn[d])]
      PROVE  conn'[c].up = conn[c].up \/ (conn'[c] = FreeConn /\ ~ conn[c].peer)
  <2>1. CASE c = d
    <3>1. \/ conn'[c] = [conn[c] EXCEPT !.end = "accepted"]
          \/ conn[c].peer /\ conn'[c] = [conn[c] EXCEPT !.end = "closed"]
          \/ ~ conn[c].peer /\ conn'[c] = FreeConn
      BY <1>1, <1>3, <2>1, ConnFields, ClosedFields
    <3>2. QED
      BY <1>1, <3>1 DEF ConnRecords
  <2>2. CASE c # d
    BY <1>1, <1>3, <2>2
  <2>3. QED
    BY <2>1, <2>2
<1>4. CASE _accept
  <2>1. PICK d \in Conns : d = Head(backlog)
    BY <1>4 DEF _accept, IInv, TypeOK, SocketsTypeOK
  <2>2. conn' = [conn EXCEPT ![d] = AcceptedConn(conn[d])]
    BY <1>1, <1>4, <2>1 DEF _accept
  <2>3. QED
    BY <1>3, <2>2
<1>5. CASE CloseSession
  <2>1. Current \in Conns
    BY <1>5, RunningSession DEF CloseSession
  <2>2. conn' = [conn EXCEPT ![Current] = ClosedByServer(conn[Current])]
    BY <1>1, <1>5, <2>1 DEF CloseSession
  <2>3. QED
    BY <1>3, <2>1, <2>2
<1>6. CASE RestartServer
  BY <1>1, <1>6 DEF RestartServer, ClosedByServer, ConnRecords
<1>7. CASE SendPartition
  BY <1>7, SendUses, ConnFields
<1>8. CASE RecvBuffer /\ c # Current
  BY <1>1, <1>8 DEF RecvBuffer
<1>9. CASE RecvBuffer /\ c = Current
  BY <1>9
<1>10. CASE \/ Select \/ \E d \in Conns : BeginSession(d)
            \/ RecvEof \/ RecvError \/ PreRequest \/ HandleRefused
            \/ HandleRegister \/ HandleListClients \/ HandleGetPublicKey
            \/ HandleSendMessage \/ HandlePullMessages
            \/ SendError \/ _after_send_process
  <2>1. UNCHANGED conn
    BY <1>10 DEF Select, BeginSession, RecvEof, RecvError, PreRequest, HandleRefused, Handle,
       HandleRegister, HandleListClients, HandleGetPublicKey, HandleSendMessage,
       HandlePullMessages, SendError, _after_send_process, socketVars
  <2>2. QED
    BY <1>2, <2>1
<1>11. QED
  BY <1>4, <1>5, <1>6, <1>7, <1>8, <1>9, <1>10 DEF Server, ServerStep

\* How a session comes to, or stays in, the states before its response: it has
\* moved the parser only where it read, or found the end of the stream.
LEMMA BeforeMoves ==
  ASSUME IInv, Server, session'.pc \in Before
  PROVE  \/ UNCHANGED session /\ ~ RecvBuffer
         \/ /\ session.pc = "select" /\ session'.payload = NoPayload
            /\ session'.pc = "recv" /\ UNCHANGED conn
         \/ /\ RecvBuffer /\ session.pc = "recv" /\ session'.conn = session.conn
            /\ \E size \in RecvSizes :
                 /\ conn'[Current].up = conn[Current].up - size
                 /\ IF Request.op = "SEND_MESSAGE"
                      THEN ParseStep(size)
                      ELSE session'.pc # "recv" /\ session'.payload = session.payload
         \/ /\ session.pc = "recv" /\ session'.conn = session.conn /\ ~ conn[Current].peer
            /\ UNCHANGED conn
         \/ /\ session.pc = "pre" /\ session'.pc = "op" /\ session'.conn = session.conn
            /\ session'.payload = session.payload /\ UNCHANGED conn
<1>1. session \in Sessions
  BY DEF IInv, TypeOK, ServerTypeOK
<1>2. \A pc : Goto(pc) => /\ session'.pc = pc /\ session'.conn = session.conn
                          /\ session'.payload = session.payload
  BY <1>1 DEF Goto, Sessions
<1>3. \A rsp : Respond(rsp) => session'.pc = "send"
  BY <1>1 DEF Respond, Sessions
<1>4. \A size : ParseStep(size) => session'.conn = session.conn
  BY <1>1 DEF ParseStep, Sessions
<1>5. CASE Select \/ _accept
  BY <1>5 DEF Select, _accept, RecvBuffer
<1>6. CASE CloseSession \/ RestartServer
  BY <1>6 DEF CloseSession, RestartServer, NoSession, Before
<1>7. CASE \E c \in Conns : BeginSession(c)
  BY <1>7 DEF BeginSession, NoSession, socketVars
<1>8. CASE RecvBuffer
  <2>1. PICK size \in RecvSizes :
          conn' = [conn EXCEPT ![Current] = Consumed(@, size)] /\ Parse(size)
    BY <1>8 DEF RecvBuffer
  <2>2. /\ session.pc = "recv" /\ Current \in Conns /\ conn[Current] \in ConnRecords
        /\ conn \in [Conns -> ConnRecords]
    BY <1>8, RunningSession DEF RecvBuffer, IInv, TypeOK, SocketsTypeOK
  <2>3. conn'[Current].up = conn[Current].up - size
    BY <2>1, <2>2 DEF Consumed, ConnRecords
  <2>4. ~ Respond(ErrorResponse)
    BY <1>3 DEF Before
  <2>5. IF Request.op = "SEND_MESSAGE" THEN ParseStep(size) ELSE Goto("op") \/ Goto("pre")
    BY <2>1, <2>4 DEF Parse
  <2>6. QED
    BY <1>2, <1>4, <1>8, <2>2, <2>3, <2>5
<1>9. CASE RecvEof
  <2>1. session.pc = "recv" /\ ~ conn[Current].peer /\ UNCHANGED conn
    BY <1>9 DEF RecvEof, socketVars
  <2>2. session'.conn = session.conn
    BY <1>3, <1>4, <1>9 DEF RecvEof, Before
  <2>3. QED
    BY <2>1, <2>2
<1>10. CASE RecvError \/ HandleRefused
  BY <1>3, <1>10 DEF RecvError, HandleRefused, Before
<1>11. CASE PreRequest
  BY <1>2, <1>3, <1>11 DEF PreRequest, Before, socketVars
<1>12. CASE HandleRegister \/ HandleListClients \/ HandleGetPublicKey
  BY <1>3, <1>12 DEF HandleRegister, HandleListClients, HandleGetPublicKey, Before
<1>13. CASE HandleSendMessage \/ HandlePullMessages
  BY <1>2, <1>3, <1>13 DEF HandleSendMessage, HandlePullMessages, Before
<1>14. CASE SendError \/ _after_send_process
  BY <1>2, <1>14 DEF SendError, _after_send_process, Before
<1>15. CASE SendPartition
  BY <1>15, SendUses DEF Before
<1>16. QED
  BY <1>5, <1>6, <1>7, <1>8, <1>9, <1>10, <1>11, <1>12, <1>13, <1>14, <1>15
     DEF Server, ServerStep

-----------------------------------------------------------------------------
\* Client and server count alike

LEMMA InitBytes == Init => BytesInv
BY DEF Init, ClientInit, InCall, BytesInv

\* CallBytes says something of the call, its connection and the session only.
LEMMA CallBytesFrame ==
  ASSUME NEW p \in Processes, CallBytes(p), UNCHANGED session,
         ConnOf(p)' = ConnOf(p), call'[p].wrote = call[p].wrote,
         conn'[ConnOf(p)].request = conn[ConnOf(p)].request,
         conn'[ConnOf(p)].up = conn[ConnOf(p)].up,
         conn'[ConnOf(p)].end \in Open => conn[ConnOf(p)].end \in Open
  PROVE  CallBytes(p)'
<1>1. PICK c : c = ConnOf(p) /\ c = ConnOf(p)'
  OBVIOUS
<1>2. IsOpen(c)' => IsOpen(c)
  BY <1>1 DEF IsOpen, Open
<1>3. QED
  BY <1>1, <1>2 DEF CallBytes, Current

\* What the server does to the connection of a call under way
LEMMA ServerKeeps ==
  ASSUME IInv, OwnershipInv, Server, NEW p \in Processes, InCall(p)
  PROVE  /\ InCall(p)' /\ ConnOf(p)' = ConnOf(p) /\ call'[p] = call[p]
         /\ ConnOf(p) \in Conns /\ conn[ConnOf(p)] \in ConnRecords
         /\ conn[ConnOf(p)].peer
         /\ conn'[ConnOf(p)].request = conn[ConnOf(p)].request
         /\ conn'[ConnOf(p)].end \in Open => conn[ConnOf(p)].end \in Open
         /\ \/ conn'[ConnOf(p)].up = conn[ConnOf(p)].up
            \/ RecvBuffer /\ ConnOf(p) = Current
<1>1. /\ ConnOf(p) \in Conns /\ conn[ConnOf(p)] \in ConnRecords /\ conn[ConnOf(p)].peer
      /\ InCall(p)' /\ ConnOf(p)' = ConnOf(p) /\ call'[p] = call[p]
  BY CallFacts DEF OwnershipInv, CallsInv, Server, clientVars, InCall, ConnOf
<1>2. /\ conn'[ConnOf(p)].request = conn[ConnOf(p)].request
      /\ conn'[ConnOf(p)].end \in Open => conn[ConnOf(p)].end \in Open
  <2>1. CASE SendPartition
    BY <1>1, <2>1, SendUses, ConnFields
  <2>2. CASE ~ SendPartition
    BY <1>1, <2>2, ServerUses DEF ServerUse
  <2>3. QED
    BY <2>1, <2>2
<1>3. QED
  BY <1>1, <1>2, ServerBytes

\* The parser goes by whole partitions, so it has not gone on while the client
\* had written all of the request.
LEMMA ServerBytesInv ==
  ASSUME IInv, OwnershipInv, BytesInv, Server, NEW p \in Processes, InCall(p)
  PROVE  CallBytes(p)'
<1>1. PICK c \in Conns :
        /\ c = ConnOf(p) /\ c = ConnOf(p)' /\ call'[p] = call[p]
        /\ conn[c] \in ConnRecords /\ conn[c].peer
        /\ conn'[c].request = conn[c].request
        /\ conn'[c].end \in Open => conn[c].end \in Open
        /\ conn'[c].up = conn[c].up \/ (RecvBuffer /\ c = Current)
  BY ServerKeeps
<1>2. CallBytes(p) /\ (IsOpen(c)' => IsOpen(c)) /\ call[p].wrote \in Nat /\ conn[c].up \in Int
  BY <1>1, CallFacts DEF BytesInv, IsOpen, Open, ConnRecords
<1>3. session.pc = "select" => c # Current
  BY ListenerAssumption DEF IInv, SessionInv, NoSession, Current
<1>4. ASSUME c # Current', IsOpen(c)'
      PROVE  conn'[c].up = 1024 * call[p].wrote
  <2>1. c # Current
    <3>1. CASE SendPartition
      BY <1>4, <3>1, SendUses DEF Current
    <3>2. CASE ~ SendPartition
      BY <1>3, <1>4, <3>2, SessionMoves DEF Current
    <3>3. QED
      BY <3>1, <3>2
  <2>2. QED
    BY <1>1, <1>2, <1>4, <2>1, Sizes DEF CallBytes
<1>5. ASSUME c = Current', session'.pc = "recv"
      PROVE  /\ session'.payload.index = 0 /\ IsOpen(c)' =>
                  conn'[c].up = 1024 * call[p].wrote
             /\ session'.payload.index # 0 =>
                  /\ 0 < session'.payload.index
                  /\ session'.payload.index < conn[c].request.contentSize
                  /\ 1024 * call[p].wrote <= conn'[c].up + session'.payload.index + 44
  <2>1. CASE UNCHANGED session /\ ~ RecvBuffer
    BY <1>1, <1>2, <1>5, <2>1, Sizes DEF CallBytes, Current
  <2>2. CASE /\ session.pc = "select" /\ session'.payload = NoPayload
             /\ UNCHANGED conn
    <3>1. session'.payload.index = 0
      BY <2>2 DEF NoPayload
    <3>2. QED
      BY <1>1, <1>2, <1>3, <2>2, <3>1, Sizes DEF CallBytes
  <2>3. ASSUME RecvBuffer, session.pc = "recv", session'.conn = session.conn,
               NEW size \in RecvSizes, conn'[Current].up = conn[Current].up - size,
               Request.op = "SEND_MESSAGE", ParseStep(size)
        PROVE  /\ 0 < session'.payload.index
               /\ session'.payload.index < conn[c].request.contentSize
               /\ 1024 * call[p].wrote <= conn'[c].up + session'.payload.index + 44
    <3>1. session \in Sessions /\ Request \in SendMessageRequests
          /\ c = Current /\ conn[c].request = Request
      BY <1>1, <1>5, <2>3, RunningSession, RequestKinds DEF Current, Request
    <3>2. session'.payload = _parse_content(Request, session.payload, size)
          /\ MoreToRead(Request, session.payload)
      BY <1>5, <2>3, <3>1 DEF ParseStep, Sessions
    <3>3. size \in Int /\ 0 < size /\ size <= 1024
      BY <2>3, RecvSize
    <3>4. session.payload \in Payloads /\ session.payload.index \in Int
      BY <3>1 DEF Sessions, Payloads
    <3>5. /\ session'.payload.index = session.payload.index + Room(session.payload.index)
          /\ session'.payload.index < Request.contentSize
      BY <3>2, <3>3, <3>4, <3>1, ParseGoesOn
    <3>6. Room(session.payload.index) = IF session.payload.index = 0 THEN 980 ELSE 1024
      BY <3>4, Sizes
    <3>7. IF session.payload.index = 0
            THEN conn[c].up = 1024 * call[p].wrote
            ELSE /\ 0 < session.payload.index
                 /\ 1024 * call[p].wrote <= conn[c].up + session.payload.index + 44
      <4>1. IsOpen(c)
        BY <2>3, <3>1, RunningSession DEF IsOpen
      <4>2. QED
        BY <1>1, <1>2, <2>3, <3>1, <4>1, Sizes DEF CallBytes
    <3>8. conn'[c].up = conn[c].up - size
      BY <2>3, <3>1
    <3>9. PICK i \in Int, up \in Int, wrote \in Nat :
            i = session.payload.index /\ up = conn[c].up /\ wrote = call[p].wrote
      BY <1>2, <3>4
    <3>10. /\ 0 < i + (IF i = 0 THEN 980 ELSE 1024)
           /\ 1024 * wrote <= (up - size) + (i + (IF i = 0 THEN 980 ELSE 1024)) + 44
      BY <3>3, <3>7, <3>9
    <3>11. session'.payload.index = i + (IF i = 0 THEN 980 ELSE 1024)
      BY <3>5, <3>6, <3>9
    <3>12. QED
      BY <3>1, <3>5, <3>8, <3>9, <3>10, <3>11
  <2>4. QED
    BY <1>1, <1>5, <2>1, <2>2, <2>3, BeforeMoves DEF Before, Current
<1>6. CallBytes(p)'
  <2>1. /\ call'[p].wrote <= RequestPartitions(conn'[c].request)
        /\ call'[p].wrote = call[p].wrote
    BY <1>1, <1>2 DEF CallBytes
  <2>2. ASSUME IsOpen(c)', c = Current' => session'.pc = "recv" /\ session'.payload.index = 0
        PROVE  conn'[c].up = 1024 * call'[p].wrote
    BY <1>4, <1>5, <2>1, <2>2
  <2>3. ASSUME c = Current', session'.pc = "recv", session'.payload.index # 0
        PROVE  /\ 0 < session'.payload.index
               /\ session'.payload.index < conn'[c].request.contentSize
               /\ 1024 * call'[p].wrote <= conn'[c].up + session'.payload.index + 44
    BY <1>1, <1>5, <2>1, <2>3
  <2>4. QED
    BY <1>1, <2>1, <2>2, <2>3, Sizes DEF CallBytes
<1>7. QED
  BY <1>6

\* A client writes a partition of its request, or none.
LEMMA ClientBytesInv ==
  ASSUME IInv, OwnershipInv, BytesInv, UNCHANGED <<storageVars, serverVars>>,
         NEW p \in Processes,
         \/ \E r \in Requests : Connect(p, r)
         \/ WritePartition(p) \/ ReadPartition(p)
         \/ ReadLastPartition(p) \/ FailCall(p) \/ AbortCall(p)
  PROVE  BytesInv'
<1>1. UNCHANGED session
  BY DEF serverVars
<1>2. ASSUME NEW q \in Processes \ {p}, InCall(q)'
      PROVE  CallBytes(q)'
  <2>1. call'[q] = call[q]
    BY ConnectUses, CallGoesOn, CallEnds
  <2>2. InCall(q) /\ ConnOf(q)' = ConnOf(q) /\ conn'[ConnOf(q)] = conn[ConnOf(q)]
    BY <1>2, <2>1, OtherCalls DEF InCall
  <2>3. QED
    BY <1>1, <2>1, <2>2, CallBytesFrame DEF BytesInv
<1>3. InCall(p)' => CallBytes(p)'
  <2>1. CASE \E r \in Requests : Connect(p, r)
    <3>1. PICK r \in Requests, c \in Conns :
            /\ conn[c] = FreeConn /\ conn'[c] = Connected(r)
            /\ call'[p] = [phase |-> "open", conn |-> c, wrote |-> 0, read |-> 0]
      BY <2>1, ConnectUses
    <3>2. /\ ConnOf(p)' = c /\ call'[p].wrote = 0
          /\ conn'[c].request = r /\ conn'[c].up = 0
      BY <3>1, ConnFields DEF ConnOf, Connected, FreeConn
    <3>3. session.pc = "recv" => c # Current
      <4> HAVE session.pc = "recv"
      <4>1. conn[Current].end = "accepted"
        BY RunningSession
      <4>2. QED
        BY <3>1, <4>1 DEF FreeConn
    <3>4. RequestPartitions(r) >= 0
      <4>1. RequestPartitions(r) \in Nat
        BY RequestSize
      <4>2. QED
        BY <4>1
    <3>5. QED
      BY <1>1, <3>2, <3>3, <3>4, Sizes DEF CallBytes, Current
  <2>2. CASE ReadPartition(p)
    <3>1. PICK c \in Conns : /\ InCall(p) /\ c = ConnOf(p) /\ c = ConnOf(p)'
                             /\ conn[c] \in ConnRecords /\ conn'[c] = Read(conn[c])
                             /\ call'[p].wrote = call[p].wrote
      <4>1. ~ WritePartition(p)
        BY <2>2, CallFacts DEF ReadPartition, WritePartition, ResponseArriving
      <4>2. QED
        BY <2>2, <4>1, CallGoesOn DEF ConnOf
    <3>2. conn'[c].request = conn[c].request /\ conn'[c].up = conn[c].up
          /\ conn'[c].end = conn[c].end
      BY <3>1 DEF Read, ConnRecords
    <3>3. QED
      BY <1>1, <3>1, <3>2, CallBytesFrame DEF BytesInv
  <2>3. CASE WritePartition(p)
    <3>1. PICK c \in Conns : /\ InCall(p) /\ c = ConnOf(p) /\ c = ConnOf(p)'
                             /\ conn[c] \in ConnRecords /\ conn'[c] = Written(conn[c])
                             /\ call'[p].wrote = call[p].wrote + 1
                             /\ call[p].wrote < RequestPartitions(conn[c].request)
                             /\ RequestAndAnswer(conn[c]) /\ call[p].wrote \in Nat
                             /\ conn[c].peer
      <4>1. ~ ReadPartition(p)
        BY <2>3, CallFacts DEF ReadPartition, WritePartition, ResponseArriving
      <4>2. QED
        BY <2>3, <4>1, CallGoesOn, CallFacts
           DEF ConnOf, WritePartition, RequestOf, OwnershipInv, CallsInv
    <3>2. conn'[c].request = conn[c].request /\ conn'[c].up = conn[c].up + 1024
          /\ conn'[c].end = conn[c].end /\ conn[c].up \in Int
      BY <3>1, Sizes DEF Written, ConnRecords
    <3>3. CallBytes(p) /\ (IsOpen(c)' <=> IsOpen(c))
      BY <3>1, <3>2 DEF BytesInv, IsOpen
    <3>4. RequestPartitions(conn[c].request) \in Nat
      <4>1. conn[c].request \in Requests
        BY <3>1 DEF RequestAndAnswer, OwnershipInv, CallsInv
      <4>2. QED
        BY <4>1, RequestSize
    <3>5. call'[p].wrote <= RequestPartitions(conn'[c].request)
      BY <3>1, <3>2, <3>4
    <3>6. session.payload.index \in Int
      BY DEF IInv, TypeOK, ServerTypeOK, Sessions, Payloads
    <3>7. QED
      BY <1>1, <3>1, <3>2, <3>3, <3>5, <3>6, Sizes DEF CallBytes, Current
  <2>4. CASE ReadLastPartition(p) \/ FailCall(p) \/ AbortCall(p)
    BY <2>4, CallEnds DEF InCall
  <2>5. QED
    BY <2>1, <2>2, <2>3, <2>4
<1>4. QED
  BY <1>2, <1>3 DEF BytesInv

\* Client and server count the partitions of a request alike, whatever recv()
\* returns (parseMessageContentIntoBuffer and _parse_content).
THEOREM Counted == Spec => []BytesInv
<1>1. Init => BytesInv
  BY InitBytes
<1>2. IInv /\ OwnershipInv /\ BytesInv /\ [Next]_vars => BytesInv'
  <2> SUFFICES ASSUME IInv, OwnershipInv, BytesInv, [Next]_vars
               PROVE  BytesInv'
    OBVIOUS
  <2>1. CASE Server
    <3>1. \A p \in Processes : InCall(p)' <=> InCall(p)
      BY <2>1 DEF Server, clientVars, InCall
    <3>2. QED
      BY <2>1, <3>1, ServerBytesInv DEF BytesInv
  <2>2. CASE UNCHANGED <<storageVars, socketVars, serverVars, clientVars>>
    BY <2>2 DEF socketVars, serverVars, clientVars, BytesInv, CallBytes, InCall, ConnOf,
       IsOpen, Current
  <2>3. QED
    BY <2>1, <2>2, StepCases, ClientBytesInv
<1>3. QED
  BY <1>1, <1>2, Invariance, Ownership, PTL DEF Spec

\* The server never blocks for bytes that no client will write: while its recv()
\* waits, the client at the other end has partitions left to write.
THEOREM NoDeadlock == Spec => []NeverBothWait
<1>1. IInv /\ OwnershipInv /\ BytesInv => NeverBothWait
  <2> SUFFICES ASSUME IInv, OwnershipInv, BytesInv, session.pc = "recv", ~ Readable(Current)
               PROVE  \E p \in Processes : /\ InCall(p) /\ ConnOf(p) = Current
                                           /\ call[p].wrote < RequestPartitions(RequestOf(p))
    BY DEF NeverBothWait
  <2>1. /\ Current \in Conns /\ conn[Current] \in ConnRecords /\ IsOpen(Current)
        /\ conn[Current].peer /\ conn[Current].up \in Int /\ ~ conn[Current].up > 0
    BY RunningSession DEF Readable, IsOpen, ConnRecords
  <2>2. PICK p \in Processes : InCall(p) /\ ConnOf(p) = Current
    BY <2>1 DEF OwnershipInv, HeldOrAbandoned
  <2>3. /\ call[p].wrote \in Nat /\ Request \in Requests /\ RequestOf(p) = Request
        /\ session.payload.index \in Int
        /\ session.payload.index # 0 => Request.op = "SEND_MESSAGE"
    BY <2>2, CallFacts, RunningSession
       DEF RequestOf, Request, IInv, SessionInv, Sessions, Payloads
  <2>4. IF session.payload.index = 0
          THEN conn[Current].up = 1024 * call[p].wrote
          ELSE /\ session.payload.index < Request.contentSize
               /\ 1024 * call[p].wrote <= conn[Current].up + session.payload.index + 44
    BY <2>1, <2>2, Sizes DEF BytesInv, CallBytes, Request
  <2>5. PICK total \in Nat : total = RequestPartitions(Request)
    BY <2>3, RequestSize
  <2>6. CASE session.payload.index = 0
    <3>1. total >= 1
      BY <2>3, <2>5, RequestSize
    <3>2. QED
      BY <2>1, <2>2, <2>3, <2>4, <2>5, <2>6, <3>1
  <2>7. CASE session.payload.index # 0
    <3>1. Request.contentSize \in Nat /\ Request.contentSize + 44 <= 1024 * total
      BY <2>3, <2>5, <2>7, RequestSize
    <3>2. call[p].wrote < total
      BY <2>1, <2>3, <2>4, <2>7, <3>1
    <3>3. QED
      BY <2>2, <2>3, <2>5, <3>2
  <2>8. QED
    BY <2>6, <2>7
<1>2. QED
  BY <1>1, Counted, Invariance, Ownership, PTL

-----------------------------------------------------------------------------
\* Contents

\* Who was somebody's process stays it, and deaths are not forgotten.
LEMMA OwnersStay ==
  ASSUME IInv, OwnershipInv, [Next]_vars
  PROVE  \A id : Owner(id) \subseteq Owner(id)' /\ (Aborted(id) => Aborted(id)')
<1>1. aborts \in [Processes -> Nat]
  BY DEF IInv, TypeOK, ClientTypeOK
<1>2. \A p \in Processes : aborts[p] > 0 => aborts'[p] > 0
  <2>1. CASE UNCHANGED aborts
    BY <2>1
  <2>2. ASSUME NEW p \in Processes, aborts' = [aborts EXCEPT ![p] = @ + 1]
        PROVE  \A q \in Processes : aborts[q] > 0 => aborts'[q] > 0
    BY <1>1, <2>2
  <2>3. ASSUME NEW p \in Processes,
               \/ \E r \in Requests : Connect(p, r)
               \/ WritePartition(p) \/ ReadPartition(p)
               \/ ReadLastPartition(p) \/ FailCall(p)
        PROVE  UNCHANGED aborts
    BY <2>3, ConnectUses, CallGoesOn DEF ReadLastPartition, FailCall
  <2>4. \A p \in Processes : AbortCall(p) => aborts' = [aborts EXCEPT ![p] = @ + 1]
    BY DEF AbortCall
  <2>5. QED
    BY <2>1, <2>2, <2>3, <2>4, StepCases DEF Server, clientVars
<1>3. \A id : Owner(id) \subseteq Owner(id)'
  <2>1. CASE UNCHANGED myInfo
    BY <2>1 DEF Owner
  <2>2. ASSUME NEW p \in Processes, ReadLastPartition(p) \/ FailCall(p) \/ AbortCall(p)
        PROVE  \A id : Owner(id) \subseteq Owner(id)'
    BY <2>2, IdentityStays DEF Owner
  <2>3. QED
    BY <2>1, <2>2, StepCases, ConnectUses, CallGoesOn DEF Server, clientVars
<1>4. ASSUME NEW id, Aborted(id)
      PROVE  Aborted(id)'
  <2>1. PICK p \in Owner(id) : aborts[p] > 0
    BY <1>4 DEF Aborted
  <2>2. p \in Processes /\ p \in Owner(id)'
    BY <1>3, <2>1 DEF Owner
  <2>3. aborts'[p] > 0
    BY <1>2, <2>1, <2>2
  <2>4. QED
    BY <2>2, <2>3 DEF Aborted
<1>5. QED
  BY <1>3, <1>4

WholeAt(size, upto) == [index |-> upto, length |-> size, carried |-> upto]

\* A whole partition makes the content whole as far as it then goes.
LEMMA WholeParse ==
  ASSUME NEW r \in SendMessageRequests, NEW p \in Payloads,
         p = NoPayload \/ p = WholeAt(r.contentSize, p.index),
         p.index # 0 => 0 < p.index /\ p.index < r.contentSize
  PROVE  _parse_content(r, p, 1024)
           = WholeAt(r.contentSize,
                     IF MoreToRead(r, p) THEN p.index + Room(p.index) ELSE r.contentSize)
<1>1. PICK i \in Nat, size \in Nat :
        /\ i = p.index /\ size = r.contentSize /\ p.carried = i
        /\ i # 0 => p.length = size /\ i < size
  <2>1. r.contentSize \in ContentSizes
    BY DEF SendMessageRequests
  <2>2. r.contentSize \in Nat
    BY <2>1, ContentSizesAssumption
  <2>3. p.index \in Int
    BY DEF Payloads
  <2>4. CASE p = NoPayload
    BY <2>2, <2>4 DEF NoPayload
  <2>5. CASE p = WholeAt(r.contentSize, p.index)
    <3>1. p.carried = p.index /\ p.length = r.contentSize
      BY <2>5 DEF WholeAt
    <3>2. QED
      BY <2>2, <2>3, <2>5, <3>1
  <2>6. QED
    BY <2>4, <2>5
<1>2. PICK room \in Nat, start \in Nat :
        /\ room = Room(p.index) /\ start = request_buffer_start_index(p.index)
        /\ room + start = 1024 /\ start < 1024
  BY <1>1, Sizes
<1>3. PICK n \in Nat : n = IF room <= size - i THEN room ELSE size - i
  BY <1>1, <1>2
<1>4. number_of_bytes_to_read(r, p) = n /\ n <= room /\ i + n <= size
  BY <1>1, <1>2, <1>3 DEF number_of_bytes_to_read, AtMost
<1>5. ContentIn(r, p, 1024) = n
  BY <1>1, <1>2, <1>4 DEF ContentIn, AtMost
<1>6. LengthBefore(r, p) = size
  BY <1>1 DEF LengthBefore
<1>7. AtMost(size, i + n) - AtMost(size, i) = n
  BY <1>1, <1>4 DEF AtMost
<1>8. _parse_content(r, p, 1024) = [index |-> i + n, length |-> size - n + n, carried |-> i + n]
  BY <1>1, <1>4, <1>5, <1>6, <1>7 DEF _parse_content
<1>9. MoreToRead(r, p) <=> size - i > room
  BY <1>1, <1>2 DEF MoreToRead
<1>10. i + n = IF MoreToRead(r, p) THEN i + room ELSE size
  BY <1>1, <1>2, <1>3, <1>9
<1>11. size - n + n = size
  BY <1>1, <1>3
<1>12. QED
  BY <1>1, <1>2, <1>8, <1>10, <1>11 DEF WholeAt

\* While recv() returns no less than there is, it returns whole partitions.
LEMMA WholeRecv ==
  ASSUME ShortReads = {}, IInv, RecvBuffer, NEW size \in RecvSizes,
         conn[Current].up % BUFFER_PARTITION_SIZE = 0
  PROVE  size = 1024
<1>1. PICK up \in Int : up = conn[Current].up /\ up > 0
  BY RunningSession DEF RecvBuffer, ConnRecords
<1>2. BUFFER_PARTITION_SIZE = 1024
  BY Sizes
<1>3. size = IF up <= 1024 THEN up ELSE 1024
  BY <1>1, <1>2 DEF RecvSizes, AtMost
<1>4. up % 1024 = 0
  BY <1>1, <1>2
<1>5. QED
  BY <1>1, <1>3, <1>4

WholeBytes(k) == k.up \in Nat /\ k.up % BUFFER_PARTITION_SIZE = 0

\* A connection carries whole partitions.
LEMMA UpMoves ==
  ASSUME ShortReads = {}, IInv, WholeInv, [Next]_vars, NEW c \in Conns, IsOpen(c)'
  PROVE  WholeBytes(conn'[c])
<1>1. conn \in [Conns -> ConnRecords] /\ conn[c] \in ConnRecords
  BY DEF IInv, TypeOK, SocketsTypeOK
<1>2. IsOpen(c) => WholeBytes(conn[c])
  BY DEF WholeInv, WholeBytes
<1>3. FreeConn.up = 0 /\ conn'[c] # FreeConn
  BY DEF FreeConn, IsOpen
<1>4. CASE IsOpen(c) /\ conn'[c].up = conn[c].up
  BY <1>2, <1>4 DEF WholeBytes
<1>5. CASE IsOpen(c) /\ conn'[c] = Written(conn[c])
  <2>1. conn'[c].up = conn[c].up + 1024
    BY <1>1, <1>5, Sizes DEF Written, ConnRecords
  <2>2. PICK up \in Nat : up = conn[c].up /\ up % 1024 = 0
    BY <1>2, <1>5, Sizes DEF WholeBytes
  <2>3. (up + 1024) % 1024 = 0
    BY <2>2
  <2>4. QED
    BY <2>1, <2>2, <2>3, Sizes DEF WholeBytes
<1>6. CASE Server
  <2>1. IsOpen(c)
    <3>1. CASE SendPartition
      BY <1>1, <3>1, SendUses, ConnFields DEF IsOpen
    <3>2. CASE ~ SendPartition
      BY <1>6, <3>2, ServerUses DEF ServerUse, IsOpen, Open
    <3>3. QED
      BY <3>1, <3>2
  <2>2. ASSUME RecvBuffer, c = Current
        PROVE  WholeBytes(conn'[c])
    <3>1. PICK size \in RecvSizes : conn' = [conn EXCEPT ![Current] = Consumed(@, size)]
      BY <2>2 DEF RecvBuffer
    <3>2. conn[c].up % BUFFER_PARTITION_SIZE = 0 /\ conn[c].up \in Nat
      BY <1>2, <2>1 DEF WholeBytes
    <3>3. size = 1024 /\ size <= conn[c].up
      BY <2>2, <3>2, WholeRecv, RecvSize
    <3>4. conn'[c].up = conn[c].up - 1024
      BY <1>1, <2>2, <3>1, <3>3 DEF Consumed, ConnRecords
    <3>5. PICK up \in Nat : up = conn[c].up /\ up % 1024 = 0 /\ 1024 <= up
      BY <3>2, <3>3, Sizes
    <3>6. (up - 1024) % 1024 = 0 /\ up - 1024 \in Nat
      BY <3>5
    <3>7. QED
      BY <3>4, <3>5, <3>6, Sizes DEF WholeBytes
  <2>3. QED
    BY <1>3, <1>4, <1>6, <2>1, <2>2, ServerBytes
<1>7. ASSUME NEW p \in Processes,
             \/ \E r \in Requests : Connect(p, r)
             \/ WritePartition(p) \/ ReadPartition(p)
             \/ ReadLastPartition(p) \/ FailCall(p) \/ AbortCall(p)
      PROVE  WholeBytes(conn'[c])
  <2>1. CASE conn'[c] = conn[c]
    BY <1>4, <2>1 DEF IsOpen
  <2>2. ASSUME NEW r \in Requests, conn'[c] = Connected(r)
        PROVE  WholeBytes(conn'[c])
    <3>1. conn'[c].up = 0
      BY <1>1, <2>2, ConnFields
    <3>2. 0 % 1024 = 0
      OBVIOUS
    <3>3. QED
      BY <3>1, <3>2, Sizes DEF WholeBytes
  <2>3. CASE conn'[c] = Written(conn[c])
    BY <1>1, <1>5, <2>3 DEF Written, IsOpen, ConnRecords
  <2>4. CASE conn'[c] = Read(conn[c])
    <3>1. conn'[c].up = conn[c].up /\ conn'[c].end = conn[c].end
      BY <1>1, <2>4 DEF Read, ConnRecords
    <3>2. QED
      BY <1>4, <3>1 DEF IsOpen
  <2>5. CASE conn'[c] = ClosedByClient(conn[c])
    <3>1. conn'[c].up = conn[c].up /\ conn'[c].end = conn[c].end
      BY <1>1, <1>3, <2>5, ClosedFields
    <3>2. QED
      BY <1>4, <3>1 DEF IsOpen
  <2>6. ASSUME NEW r \in Requests, Connect(p, r)
        PROVE  conn'[c] \in {conn[c], Connected(r)}
    BY <2>6, ConnectUses
  <2>7. CASE WritePartition(p) \/ ReadPartition(p)
    BY <2>1, <2>3, <2>4, <2>7, CallGoesOn
  <2>8. CASE ReadLastPartition(p) \/ FailCall(p) \/ AbortCall(p)
    BY <2>1, <2>5, <2>8, CallEnds
  <2>9. QED
    BY <1>7, <2>1, <2>2, <2>6, <2>7, <2>8
<1>8. CASE UNCHANGED <<storageVars, socketVars, serverVars, clientVars>>
  BY <1>4, <1>8 DEF socketVars, IsOpen
<1>9. QED
  BY <1>6, <1>7, <1>8, StepCases
\* The server has not answered on c, and its client is gone.
Unanswered(c) ==
  /\ IsOpen(c) /\ ~ conn[c].peer /\ conn[c].request.op # "REGISTER"
  /\ c = Current => session.pc \in {"recv", "pre", "op", "send"}

ClientDied(c) == Aborted(conn[c].request.clientId)

\* A client that has died in the call of a connection stays one that has.
LEMMA DeathsStay ==
  ASSUME IInv, OwnershipInv, [Next]_vars, NEW c, ClientDied(c),
         conn'[c].request = conn[c].request
  PROVE  ClientDied(c)'
<1>1. PICK id : id = conn[c].request.clientId
  OBVIOUS
<1>2. Aborted(id)'
  BY <1>1, OwnersStay DEF ClientDied
<1>3. conn'[c].request.clientId = id
  BY <1>1
<1>4. QED
  BY <1>2, <1>3 DEF ClientDied, Aborted, Owner

\* What the server has not answered was abandoned only by a death: no client
\* reads the last partition of a response before it has been sent, or sees the
\* connection end before it is closed.
LEMMA AbandonedMoves ==
  ASSUME IInv, OwnershipInv, SentInv, WholeInv, [Next]_vars
  PROVE  AbandonedOnlyByAbort'
<1> SUFFICES ASSUME NEW c \in Conns, Unanswered(c)'
             PROVE  ClientDied(c)'
  BY DEF AbandonedOnlyByAbort, Unanswered, ClientDied
<1>1. conn[c] \in ConnRecords
  BY DEF IInv, TypeOK, SocketsTypeOK
<1>2. /\ conn'[c].end \in Open /\ ~ conn'[c].peer /\ conn'[c].request.op # "REGISTER"
      /\ c = session'.conn => session'.pc \in {"recv", "pre", "op", "send"}
  BY DEF Unanswered, IsOpen, Open, Current
<1>3. ASSUME Unanswered(c), conn'[c].request = conn[c].request
      PROVE  ClientDied(c)'
  <2>1. ClientDied(c)
    BY <1>3 DEF WholeInv, AbandonedOnlyByAbort, Unanswered, ClientDied
  <2>2. QED
    BY <1>3, <2>1, DeathsStay
<1>4. CASE SendPartition
  <2>1. conn'[c].peer = conn[c].peer /\ conn'[c].end = conn[c].end
        /\ conn'[c].request = conn[c].request
    <3>1. CASE c = Current
      BY <1>1, <1>4, <3>1, SendUses, ConnFields
    <3>2. CASE c # Current
      BY <1>4, <3>2, SendUses
    <3>3. QED
      BY <3>1, <3>2
  <2>2. Unanswered(c)
    BY <1>2, <1>4, <2>1, SendUses DEF IsOpen, Open, Unanswered
  <2>3. QED
    BY <1>3, <2>1, <2>2
<1>5. CASE Server /\ ~ SendPartition
  <2>1. /\ conn[c].end \in Open /\ ~ conn[c].peer
        /\ conn'[c].request = conn[c].request
    <3>1. ServerUse(conn[c], conn'[c])
      BY <1>5, ServerUses
    <3>2. FreeConn.end \notin Open
      BY DEF FreeConn, Open
    <3>3. QED
      BY <1>2, <3>1, <3>2 DEF ServerUse
  <2>2. c = Current => session.pc \in {"recv", "pre", "op", "send"}
    <3>1. session.pc = "select" => c # Current
      BY ListenerAssumption DEF IInv, SessionInv, NoSession, Current
    <3>2. IsOpen(c)'
      BY DEF Unanswered
    <3>3. QED
      BY <1>2, <1>5, <3>1, <3>2, SessionMoves DEF Before, Current
  <2>3. QED
    BY <1>2, <1>3, <2>1, <2>2 DEF Unanswered, IsOpen, Open
<1>6. CASE UNCHANGED session /\ conn'[c].end = conn[c].end /\ conn'[c].peer = conn[c].peer
           /\ conn'[c].request = conn[c].request
  BY <1>2, <1>3, <1>6 DEF Unanswered, IsOpen, Open, Current
<1>7. ASSUME NEW p \in Processes, UNCHANGED serverVars,
             \/ \E r \in Requests : Connect(p, r)
             \/ WritePartition(p) \/ ReadPartition(p)
             \/ ReadLastPartition(p) \/ FailCall(p) \/ AbortCall(p)
      PROVE  ClientDied(c)'
  <2>1. UNCHANGED session
    BY <1>7 DEF serverVars
  <2>2. CASE conn'[c] = conn[c]
    BY <1>6, <2>1, <2>2
  <2>3. CASE \E r \in Requests : Connect(p, r)
    <3>1. PICK r \in Requests : Connect(p, r)
      BY <2>3
    <3>2. PICK d \in Conns : conn'[d] = Connected(r) /\ \A e \in Conns \ {d} : conn'[e] = conn[e]
      BY <3>1, ConnectUses
    <3>3. c # d
      BY <1>1, <1>2, <3>2, ConnFields
    <3>4. QED
      BY <2>2, <3>2, <3>3
  <2>4. CASE WritePartition(p) \/ ReadPartition(p)
    <3>1. CASE c = ConnOf(p)
      <4>1. conn'[c] = Written(conn[c]) \/ conn'[c] = Read(conn[c])
        BY <2>4, <3>1, CallGoesOn
      <4>2. QED
        BY <1>1, <1>6, <2>1, <4>1 DEF Written, Read, ConnRecords
    <3>2. QED
      BY <2>2, <2>4, <3>1, CallGoesOn
  <2>5. CASE c = ConnOf(p) /\ (ReadLastPartition(p) \/ FailCall(p) \/ AbortCall(p))
    <3>1. InCall(p) /\ conn'[c] = ClosedByClient(conn[c])
      BY <2>5, CallEnds
    <3>2. conn[c].end \in Open /\ conn'[c].request = conn[c].request
      BY <1>1, <1>2, <3>1, ClosedFields DEF Open
    <3>3. CASE AbortCall(p)
      <4>1. PICK id : id = conn[c].request.clientId
        OBVIOUS
      <4>2. p \in Owner(id)
        BY <1>2, <2>5, <3>1, <3>2, <4>1 DEF OwnershipInv, CallsInv, RequestOf, Owner
      <4>3. aborts' = [aborts EXCEPT ![p] = @ + 1] /\ UNCHANGED myInfo
        BY <3>3 DEF AbortCall
      <4>4. aborts'[p] > 0
        BY <4>3 DEF IInv, TypeOK, ClientTypeOK
      <4>5. p \in Owner(id)'
        BY <4>2, <4>3 DEF Owner
      <4>6. conn'[c].request.clientId = id
        BY <3>2, <4>1
      <4>7. QED
        BY <4>4, <4>5, <4>6 DEF ClientDied, Aborted, Owner
    <3>4. CASE FailCall(p)
      BY <2>5, <3>2, <3>4 DEF FailCall, Open
    <3>5. ASSUME ReadLastPartition(p) PROVE FALSE
      <4>1. PICK read \in Nat, down \in Nat :
              /\ read = call[p].read /\ down = conn[c].down /\ down > 0
              /\ ResponsePartitions(conn[c].response) = read + 1
        BY <2>5, <3>1, <3>5, SentToNat DEF ReadLastPartition, ResponseArriving, IsLastPartition
      <4>2. SentTo(p) = read + down /\ CallSent(p)
        BY <2>5, <3>1, <4>1, SentToNat DEF SentTo
      <4>3. IsOpen(c)
        BY <3>2 DEF IsOpen, Open
      <4>4. c = Current /\ session.pc = "send"
        <5>1. SentTo(p) # 0
          BY <4>1, <4>2
        <5>2. c = Current => session.pc \in {"recv", "pre", "op", "send"}
          BY <1>2, <2>1 DEF Current
        <5>3. QED
          BY <2>5, <4>2, <4>3, <5>1, <5>2 DEF CallSent
      <4>5. session.sent = read + down /\ conn[c].response = session.response
        BY <2>5, <4>1, <4>2, <4>4 DEF CallSent
      <4>6. read + 1 \notin 1 .. (read + down)
        BY <4>1, <4>4, <4>5 DEF SentInv
      <4>7. QED
        BY <4>1, <4>6
    <3>6. QED
      BY <2>5, <3>3, <3>4, <3>5
  <2>6. CASE c # ConnOf(p) /\ (ReadLastPartition(p) \/ FailCall(p) \/ AbortCall(p))
    BY <2>2, <2>6, CallEnds
  <2>7. QED
    BY <1>7, <2>3, <2>4, <2>5, <2>6
<1>8. CASE UNCHANGED <<storageVars, socketVars, serverVars, clientVars>>
  BY <1>6, <1>8 DEF socketVars, serverVars
<1>9. QED
  BY <1>4, <1>5, <1>7, <1>8, StepCases

-----------------------------------------------------------------------------
\* The payload of the session that runs is whole as far as it goes.

\* Of a client that lives, the session knows the request it made.
LEMMA SessionPeer ==
  ASSUME IInv, IInv', OwnershipInv, [Next]_vars, session.pc # "select",
         session'.pc # "select", session'.conn = session.conn, conn'[Current].peer
  PROVE  conn[Current].peer /\ Request' = Request
<1>1. Current \in Conns /\ conn[Current] \in ConnRecords /\ conn[Current].end = "accepted"
  BY RunningSession
<1>2. Request' = Request
  BY RequestStays
<1>3. CASE SendPartition
  BY <1>1, <1>2, <1>3, SendUses, ConnFields
<1>4. CASE Server /\ ~ SendPartition
  BY <1>1, <1>2, <1>4, ServerUses DEF ServerUse, FreeConn
<1>5. ASSUME NEW p \in Processes,
             \/ \E r \in Requests : Connect(p, r)
             \/ WritePartition(p) \/ ReadPartition(p)
             \/ ReadLastPartition(p) \/ FailCall(p) \/ AbortCall(p)
      PROVE  conn[Current].peer
  <2>1. CASE \E r \in Requests : Connect(p, r)
    <3>1. PICK d \in Conns : conn[d] = FreeConn /\ \A e \in Conns \ {d} : conn'[e] = conn[e]
      BY <2>1, ConnectUses
    <3>2. Current # d
      BY <1>1, <3>1 DEF FreeConn
    <3>3. QED
      BY <1>1, <3>1, <3>2
  <2>2. CASE WritePartition(p) \/ ReadPartition(p)
    BY <1>1, <2>2, CallGoesOn, ConnFields DEF ConnRecords
  <2>3. CASE ReadLastPartition(p) \/ FailCall(p) \/ AbortCall(p)
    BY <1>1, <2>3, CallEnds, ClosedFields
  <2>4. QED
    BY <1>5, <2>1, <2>2, <2>3
<1>6. CASE UNCHANGED <<storageVars, socketVars, serverVars, clientVars>>
  BY <1>2, <1>6 DEF socketVars
<1>7. QED
  BY <1>2, <1>3, <1>4, <1>5, <1>6, StepCases

PayloadWhole(s, size) ==
  IF s.pc = "recv"
    THEN s.payload = NoPayload \/ s.payload = WholeAt(size, s.payload.index)
    ELSE s.payload = WholeAt(size, size)

\* Every step keeps the content under construction whole as far as it goes.
LEMMA SessionWholeMoves ==
  ASSUME ShortReads = {}, IInv, IInv', OwnershipInv, BytesInv, WholeInv, [Next]_vars
  PROVE  SessionWhole'
<1>1. SUFFICES ASSUME session'.pc \in Before, Request'.op = "SEND_MESSAGE",
                      conn'[session'.conn].peer
               PROVE  PayloadWhole(session', Request'.contentSize)
  BY DEF SessionWhole, PayloadWhole, WholePayload, WholeAt, Before, Current
<1>2. ASSUME session.pc \in Before, session'.conn = session.conn
      PROVE  /\ conn[Current].peer /\ Request' = Request
             /\ PayloadWhole(session, Request.contentSize)
  <2>1. conn[Current].peer /\ Request' = Request
    BY <1>1, <1>2, SessionPeer DEF Before, Current
  <2>2. QED
    BY <1>1, <1>2, <2>1 DEF WholeInv, SessionWhole, PayloadWhole, WholePayload, WholeAt, Before, Current
<1>3. CASE UNCHANGED session
  BY <1>1, <1>2, <1>3
<1>4. CASE Server /\ session.pc = "select" /\ session'.payload = NoPayload
           /\ session'.pc = "recv"
  BY <1>4 DEF PayloadWhole
<1>5. CASE session.pc = "pre" /\ session'.pc = "op" /\ session'.conn = session.conn
           /\ session'.payload = session.payload
  BY <1>2, <1>5 DEF PayloadWhole, Before
<1>6. CASE session.pc = "recv" /\ session'.conn = session.conn /\ ~ conn[Current].peer
  BY <1>2, <1>6 DEF Before
<1>7. ASSUME RecvBuffer, session.pc = "recv", session'.conn = session.conn,
             NEW size \in RecvSizes, Request.op = "SEND_MESSAGE" => ParseStep(size)
      PROVE  PayloadWhole(session', Request'.contentSize)
  <2> DEFINE r == Request
             p == session.payload
             q == _parse_content(r, p, 1024)
  <2>1. conn[Current].peer /\ Request' = r /\ r.op = "SEND_MESSAGE"
    BY <1>1, <1>2, <1>7 DEF Before
  <2>2. r \in SendMessageRequests /\ p \in Payloads /\ Current \in Conns /\ IsOpen(Current)
    BY <1>7, <2>1, RunningSession, RequestKinds DEF Sessions, IsOpen
  <2>3. p = NoPayload \/ p = WholeAt(r.contentSize, p.index)
    BY <1>2, <1>7 DEF PayloadWhole, Before
  <2>4. p.index # 0 => 0 < p.index /\ p.index < r.contentSize
    <3>1. PICK caller \in Processes : InCall(caller) /\ ConnOf(caller) = Current
      BY <2>1, <2>2 DEF OwnershipInv, HeldOrAbandoned
    <3>2. QED
      BY <1>7, <3>1 DEF BytesInv, CallBytes, Request
  <2>5. size = 1024
    BY <1>7, <2>2, WholeRecv DEF WholeInv
  <2>6. /\ session'.payload = q
        /\ session'.pc = IF MoreToRead(r, p) THEN "recv" ELSE "pre"
    <3>1. session \in Sessions /\ ParseStep(1024)
      BY <1>7, <2>1, <2>5, RunningSession
    <3>2. session' = [session EXCEPT !.payload = q,
                                     !.pc = IF MoreToRead(r, p) THEN "recv" ELSE "pre"]
      BY <3>1 DEF ParseStep
    <3> HIDE DEF q, r, p
    <3>3. QED
      BY <3>1, <3>2 DEF Sessions
  <2>7. q = WholeAt(r.contentSize,
                    IF MoreToRead(r, p) THEN p.index + Room(p.index) ELSE r.contentSize)
    BY <2>2, <2>3, <2>4, WholeParse
  <2> HIDE DEF q, p, r
  <2>8. CASE MoreToRead(r, p)
    <3>1. q = WholeAt(r.contentSize, q.index)
      BY <2>7, <2>8 DEF WholeAt
    <3>2. QED
      BY <2>1, <2>6, <2>8, <3>1 DEF PayloadWhole
  <2>9. CASE ~ MoreToRead(r, p)
    BY <2>1, <2>6, <2>7, <2>9 DEF PayloadWhole
  <2>10. QED
    BY <2>8, <2>9
<1>8. CASE Server
  BY <1>1, <1>3, <1>4, <1>5, <1>6, <1>7, <1>8, BeforeMoves
<1>9. QED
  BY <1>3, <1>8, StepCases DEF serverVars

\* A row that is not whole was written for a client that died meanwhile.
LEMMA RowsWhole ==
  ASSUME IInv, OwnershipInv, WholeInv, [Next]_vars
  PROVE  TruncatedOnlyByAbort'
<1>1. SUFFICES ASSUME NEW m \in messages'
               PROVE  Whole(m) \/ Aborted(m.fromClient)'
  BY DEF TruncatedOnlyByAbort, Whole
<1>2. CASE m \in messages
  BY <1>2, OwnersStay DEF WholeInv, TruncatedOnlyByAbort
<1>3. CASE m \notin messages
  <2>1. HandleSendMessage
    <3>1. CASE UNCHANGED storageVars
      BY <1>3, <3>1 DEF storageVars
    <3>2. CASE Server
      BY <1>3, <3>2, StorageMoves DEF _after_send_process, delete_client_messages, storageVars
    <3>3. QED
      BY <3>1, <3>2, StepCases
  <2>2. /\ session.pc = "op" /\ Request \in Requests /\ Request.op = "SEND_MESSAGE"
        /\ Current \in Conns /\ IsOpen(Current)
    BY <2>1, RunningSession DEF HandleSendMessage, Handle, IsOpen
  <2>3. /\ m.fromClient = Request.clientId /\ m.size = Request.contentSize
        /\ m.length = session.payload.length /\ m.carried = session.payload.carried
    BY <1>3, <2>1 DEF HandleSendMessage, send_message, save_message
  <2>4. CASE conn[Current].peer
    BY <2>2, <2>3, <2>4 DEF WholeInv, SessionWhole, WholePayload, Whole
  <2>5. CASE ~ conn[Current].peer
    <3>1. Aborted(m.fromClient)
      BY <2>2, <2>3, <2>5 DEF WholeInv, AbandonedOnlyByAbort, Request
    <3>2. QED
      BY <3>1, OwnersStay
  <2>6. QED
    BY <2>4, <2>5
<1>4. QED
  BY <1>2, <1>3

LEMMA InitWhole == Init => WholeInv
<1> SUFFICES ASSUME Init PROVE WholeInv
  OBVIOUS
<1>2. TruncatedOnlyByAbort
  BY DEF Init, StorageInit, TruncatedOnlyByAbort
<1>3. \A c \in Conns : ~ IsOpen(c)
  BY DEF Init, SocketsInit, IsOpen, FreeConn
<1>4. SessionWhole
  BY DEF Init, ServerInit, NoSession, SessionWhole
<1>5. QED
  BY <1>2, <1>3, <1>4 DEF WholeInv, AbandonedOnlyByAbort

\* Every step keeps contents whole while recv() returns whole partitions.
LEMMA NextWhole ==
  ASSUME ShortReads = {}, IInv, IInv', OwnershipInv, SentInv, BytesInv, WholeInv, [Next]_vars
  PROVE  WholeInv'
BY RowsWhole, UpMoves, AbandonedMoves, SessionWholeMoves DEF WholeInv, WholeBytes

\* The payload under construction is whole as far as it goes, and what waits for
\* the server on each connection is whole partitions.
THEOREM Contents ==
  ASSUME ShortReads = {}
  PROVE  Spec => []WholeInv
<1>1. WholeInv /\ IInv /\ IInv' /\ OwnershipInv /\ SentInv /\ BytesInv /\ [Next]_vars
        => WholeInv'
  BY NextWhole
<1>2. QED
  BY <1>1, InitWhole, Invariance, Ownership, Partitioned, Counted, PTL DEF Spec

\* Where recv() returns no less than it can, a stored message is whole or its
\* sender's process died in a call (SendMessageRequestParser).
THEOREM Truncation ==
  ASSUME ShortReads = {}
  PROVE  Spec => []TruncatedOnlyByAbort
<1>1. WholeInv => TruncatedOnlyByAbort
  BY DEF WholeInv
<1>2. QED
  BY <1>1, Contents, PTL
-----------------------------------------------------------------------------
\* What is left to read of a request

\* The server stops reading a request only by reading, or because its client is gone.
LEMMA RecvMoves ==
  ASSUME IInv, Server, session.pc = "recv", ~ RecvBuffer
  PROVE  UNCHANGED session \/ session' = NoSession \/ ~ conn[Current].peer
BY DEF Server, ServerStep, Select, _accept, BeginSession, RecvEof, RecvError, PreRequest,
       HandleRefused, Handle, HandleRegister, HandleListClients, HandleGetPublicKey,
       HandleSendMessage, HandlePullMessages, SendPartition, SendError,
       _after_send_process, CloseSession, RestartServer

\* The connection of a call that the server has begun to answer, or read
SeenBy(p) == SentTo(p) # 0 \/ (ConnOf(p) = Current /\ session.pc \notin {"select", "recv"})

\* The connection of a call whose content is being read
ReadingOf(p) == ConnOf(p) = Current /\ session.pc = "recv" /\ session.payload.index # 0

LEMMA ReadUpFrame ==
  ASSUME NEW p \in Processes, ReadUp(p),
         SeenBy(p)' => SeenBy(p),
         ReadingOf(p)' => ReadingOf(p) /\ UNCHANGED session,
         ConnOf(p)' = ConnOf(p), call'[p].wrote = call[p].wrote,
         conn'[ConnOf(p)].request = conn[ConnOf(p)].request,
         conn'[ConnOf(p)].up = conn[ConnOf(p)].up
  PROVE  ReadUp(p)'
BY DEF ReadUp, SeenBy, ReadingOf

\* A partition that is read moves the parser on, or is the last one of the request.
LEMMA RecvReadUp ==
  ASSUME ShortReads = {}, IInv, IInv', OwnershipInv, BytesInv, WholeInv, ReadUpInv, Server,
         NEW p \in Processes, InCall(p), RecvBuffer, ConnOf(p) = Current
  PROVE  ReadUp(p)'
<1>1. PICK c \in Conns :
        /\ c = ConnOf(p) /\ c = ConnOf(p)' /\ call'[p] = call[p]
        /\ conn[c] \in ConnRecords /\ conn[c].peer
        /\ conn'[c].request = conn[c].request
  BY ServerKeeps
<1>2. /\ ReadUp(p) /\ CallBytes(p)
      /\ session.pc = "recv" /\ IsOpen(c) /\ conn[c].request \in Requests
      /\ session \in Sessions /\ conn \in [Conns -> ConnRecords]
  BY <1>1, RunningSession
     DEF ReadUpInv, BytesInv, RecvBuffer, IsOpen, Request, IInv, TypeOK, SocketsTypeOK
<1>3. PICK size \in RecvSizes : conn' = [conn EXCEPT ![Current] = Consumed(@, size)] /\ Parse(size)
  BY DEF RecvBuffer
<1>4. size = 1024 /\ size <= conn[c].up
  BY <1>1, <1>2, WholeRecv, RecvSize DEF WholeInv
<1>5. PICK wrote \in Nat, up \in Int, i \in Int, total \in Nat :
        /\ wrote = call[p].wrote /\ up = conn[c].up /\ i = session.payload.index
        /\ total = RequestPartitions(conn[c].request)
        /\ wrote <= total /\ 1024 <= up
  BY <1>1, <1>2, <1>4, CallFacts, RequestSize
     DEF ConnRecords, Sessions, Payloads, CallBytes
<1>6. conn'[c].up = up - 1024 /\ conn'[c].down = conn[c].down
  <2>1. conn'[c] = Consumed(conn[c], size)
    BY <1>1, <1>2, <1>3
  <2>2. conn'[c].up = conn[c].up - size /\ conn'[c].down = conn[c].down
    BY <1>1, <2>1 DEF Consumed, ConnRecords
  <2>3. QED
    BY <1>4, <1>5, <2>2
<1>7. IF i = 0 THEN up = 1024 * wrote ELSE 1024 * wrote = up + i + 44
  BY <1>1, <1>2, <1>5, Sizes DEF CallBytes, ReadUp
<1>8. SentTo(p)' = 0
  BY <1>1, <1>2, <1>5, <1>6 DEF ReadUp, SentTo
<1>9. CASE conn[c].request.op # "SEND_MESSAGE"
  <2>1. total = 1 /\ i = 0
    BY <1>1, <1>2, <1>5, <1>9, RequestSize DEF IInv, SessionInv, Request
  <2>2. up - 1024 = 0 /\ wrote = total
    BY <1>5, <1>7, <2>1
  <2>3. ~ ReadingOf(p)'
    BY <1>1, <1>9 DEF ReadingOf, IInv, SessionInv, Request, Current
  <2>4. QED
    BY <1>1, <1>5, <1>6, <2>2, <2>3 DEF ReadUp, ReadingOf
<1>10. CASE conn[c].request.op = "SEND_MESSAGE"
  <2>1. /\ Request \in SendMessageRequests /\ Request = conn[c].request
        /\ Request.op = "SEND_MESSAGE"
    BY <1>1, <1>2, <1>10, RequestKinds DEF Request
  <2>2. PICK content \in Nat :
          /\ content = Request.contentSize
          /\ content + 44 <= 1024 * total /\ 1024 * total < content + 44 + 1024
    BY <1>2, <1>5, <1>10, <2>1, RequestSize
  <2>3. ~ LacksFields(size)
    BY <1>4, <2>1, Sizes DEF LacksFields, FieldsSize
  <2>4. ParseStep(size)
    BY <1>3, <2>1, <2>3 DEF Parse
  <2>5. MoreToRead(Request, session.payload) <=> content - i > (IF i = 0 THEN 980 ELSE 1024)
    BY <1>5, <2>2, Sizes DEF MoreToRead
  <2>6. CASE MoreToRead(Request, session.payload)
    <3>1. /\ session'.pc = "recv"
          /\ session'.payload = _parse_content(Request, session.payload, size)
      BY <1>2, <2>4, <2>6 DEF ParseStep, Sessions
    <3>2. session'.payload.index = i + (IF i = 0 THEN 980 ELSE 1024)
      BY <1>2, <1>4, <1>5, <2>1, <2>6, <3>1, ParseGoesOn, Sizes DEF Sessions
    <3>3. 1024 * wrote = (up - 1024) + (i + (IF i = 0 THEN 980 ELSE 1024)) + 44
      BY <1>5, <1>7
    <3>4. QED
      BY <1>1, <1>5, <1>6, <1>8, <3>1, <3>2, <3>3, Sizes DEF ReadUp
  <2>7. CASE ~ MoreToRead(Request, session.payload)
    <3>1. session'.pc = "pre"
      BY <1>2, <2>4, <2>7 DEF ParseStep, Sessions
    <3>2. content - i <= (IF i = 0 THEN 980 ELSE 1024)
      BY <1>5, <2>2, <2>5, <2>7
    <3>3. up - 1024 = 0 /\ wrote = total
      <4>1. CASE i = 0
        BY <1>5, <1>7, <2>2, <3>2, <4>1
      <4>2. CASE i # 0
        <5>1. up = 1024 * wrote - i - 44 /\ content <= i + 1024
          BY <1>7, <3>2, <4>2
        <5>2. 1024 * total < i + 1024 + 44 + 1024
          BY <2>2, <5>1
        <5>3. 1024 * total < (1024 * wrote - up) + 2048
          BY <1>5, <5>1, <5>2
        <5>4. 1024 * total < 1024 * wrote + 1024
          BY <1>5, <5>3
        <5>5. total = wrote
          BY <1>5, <5>4
        <5>6. i < content
          BY <1>1, <1>2, <1>5, <2>1, <2>2, <4>2 DEF CallBytes
        <5>7. up < 2048
          BY <1>5, <5>3, <5>5
        <5>8. up % 1024 = 0
          BY <1>2, <1>5, Sizes DEF WholeInv
        <5>9. QED
          BY <1>5, <5>5, <5>7, <5>8
      <4>3. QED
        BY <4>1, <4>2
    <3>4. QED
      BY <1>1, <1>5, <1>6, <3>1, <3>3 DEF ReadUp
  <2>8. QED
    BY <2>6, <2>7
<1>11. QED
  BY <1>9, <1>10

\* A server's step leaves the request that it has parsed read up.
LEMMA ServerReadUp ==
  ASSUME ShortReads = {}, IInv, IInv', OwnershipInv, BytesInv, WholeInv, ReadUpInv, Server,
         NEW p \in Processes, InCall(p)
  PROVE  ReadUp(p)'
<1>1. PICK c \in Conns :
        /\ c = ConnOf(p) /\ c = ConnOf(p)' /\ call'[p] = call[p]
        /\ conn[c] \in ConnRecords /\ conn[c].peer
        /\ conn'[c].request = conn[c].request
        /\ conn'[c].up = conn[c].up \/ (RecvBuffer /\ c = Current)
  BY ServerKeeps
<1>2. ReadUp(p)
  BY DEF ReadUpInv
<1>3. CASE RecvBuffer /\ c = Current
  BY <1>1, <1>3, RecvReadUp
<1>4. ASSUME ~ (RecvBuffer /\ c = Current), ReadingOf(p)'
      PROVE  ReadingOf(p) /\ UNCHANGED session
  <2>1. c = session'.conn /\ session'.pc = "recv" /\ session'.payload.index # 0
    BY <1>1, <1>4 DEF ReadingOf, Current
  <2>2. UNCHANGED session
    BY <1>1, <1>4, <2>1, BeforeMoves DEF Before, NoPayload, Current
  <2>3. QED
    BY <1>1, <2>1, <2>2 DEF ReadingOf, Current
<1>5. ASSUME ~ (RecvBuffer /\ c = Current), SeenBy(p)'
      PROVE  SeenBy(p)
  <2>1. CASE SendPartition /\ c = Current
    BY <1>1, <2>1, SendUses DEF SeenBy
  <2>2. CASE conn'[c].down = conn[c].down
    <3>1. SentTo(p)' = SentTo(p)
      BY <1>1, <2>2 DEF SentTo
    <3>2. CASE SentTo(p)' # 0
      BY <3>1, <3>2 DEF SeenBy
    <3>3. CASE c = session'.conn /\ session'.pc \notin {"select", "recv"}
      <4>1. CASE SendPartition
        BY <1>1, <3>3, <4>1, SendUses DEF SeenBy, Current
      <4>2. CASE ~ SendPartition /\ session'.conn = session.conn /\ session.pc # "recv"
        <5>1. session.pc = "select" => c # Current
          BY ListenerAssumption DEF IInv, SessionInv, NoSession, Current
        <5>2. QED
          BY <1>1, <3>3, <4>2, <5>1 DEF SeenBy, Current
      <4>3. CASE session'.conn = session.conn /\ session.pc = "recv"
        BY <1>1, <1>5, <3>3, <4>3, RecvMoves DEF NoSession, Current
      <4>4. CASE ~ SendPartition /\ session'.conn # session.conn
        BY <3>3, <4>4, SessionMoves
      <4>5. QED
        BY <4>1, <4>2, <4>3, <4>4
    <3>4. QED
      BY <1>1, <1>5, <3>2, <3>3 DEF SeenBy, Current
  <2>3. (SendPartition /\ c = Current) \/ conn'[c].down = conn[c].down
    <3>1. CASE SendPartition
      BY <1>1, <3>1, SendUses
    <3>2. CASE ~ SendPartition
      BY <1>1, <3>2, ServerUses DEF ServerUse
    <3>3. QED
      BY <3>1, <3>2
  <2>4. QED
    BY <2>1, <2>2, <2>3
<1>6. CASE ~ (RecvBuffer /\ c = Current)
  BY <1>1, <1>2, <1>4, <1>5, <1>6, ReadUpFrame
<1>7. QED
  BY <1>3, <1>6

\* A client's step leaves the request that the server has parsed read up.
LEMMA ClientReadUp ==
  ASSUME IInv, OwnershipInv, SentInv, ReadUpInv, UNCHANGED <<storageVars, serverVars>>,
         NEW p \in Processes,
         \/ \E r \in Requests : Connect(p, r)
         \/ WritePartition(p) \/ ReadPartition(p)
         \/ ReadLastPartition(p) \/ FailCall(p) \/ AbortCall(p)
  PROVE  ReadUpInv'
<1>1. UNCHANGED session
  BY DEF serverVars
<1>2. SUFFICES ASSUME NEW q \in Processes, call'[q] # NoCall
               PROVE  ReadUp(q)'
  BY DEF ReadUpInv, InCall
<1>3. CASE q # p
  <2>1. call'[q] = call[q]
    BY <1>3, ConnectUses, CallGoesOn, CallEnds
  <2>2. InCall(q)
    BY <1>2, <2>1 DEF InCall
  <2>3. ConnOf(q)' = ConnOf(q) /\ conn'[ConnOf(q)] = conn[ConnOf(q)]
    BY <1>2, <1>3, <2>2, OtherCalls
  <2>4. ReadUp(q)
    BY <1>2, <2>2 DEF ReadUpInv
  <2>5. QED
    BY <1>1, <2>1, <2>3, <2>4 DEF ReadUp, SentTo, Current
<1>4. ASSUME q = p, NEW r \in Requests, Connect(p, r)
      PROVE  ReadUp(q)'
  <2>1. PICK c \in Conns :
          /\ conn[c] = FreeConn /\ conn'[c] = Connected(r)
          /\ call'[p] = [phase |-> "open", conn |-> c, wrote |-> 0, read |-> 0]
    BY <1>4, ConnectUses
  <2>2. conn'[c].down = 0
    BY <2>1 DEF Connected, FreeConn
  <2>3. SentTo(p)' = 0
    BY <2>1, <2>2 DEF SentTo, ConnOf
  <2>4. session.pc # "select" => c # Current
    BY <2>1, RunningSession DEF FreeConn
  <2>5. QED
    BY <1>1, <1>4, <2>1, <2>3, <2>4 DEF ReadUp, ConnOf, Current
<1>5. CASE q = p /\ (WritePartition(p) \/ ReadPartition(p))
  <2>1. PICK c \in Conns :
          /\ c = ConnOf(p) /\ c = ConnOf(p)' /\ conn[c] \in ConnRecords /\ InCall(p)
          /\ \/ /\ WritePartition(p) /\ conn'[c] = Written(conn[c])
                /\ call'[p].read = call[p].read
                /\ call'[p].wrote = call[p].wrote + 1
             \/ /\ conn'[c] = Read(conn[c]) /\ call'[p].read = call[p].read + 1
                /\ call'[p].wrote = call[p].wrote
    BY <1>5, CallGoesOn DEF ConnOf
  <2>2. ReadUp(p)
    BY <2>1 DEF ReadUpInv
  <2>3. CASE /\ WritePartition(p) /\ conn'[c] = Written(conn[c])
             /\ call'[p].read = call[p].read /\ call'[p].wrote = call[p].wrote + 1
    <3>1. /\ conn'[c].down = conn[c].down /\ conn'[c].request = conn[c].request
          /\ conn'[c].up = conn[c].up + 1024
      BY <2>1, <2>3, Sizes DEF Written, ConnRecords
    <3>2. SentTo(p)' = SentTo(p)
      BY <2>1, <2>3, <3>1 DEF SentTo
    <3>3. ~ SeenBy(p)
      <4>1. PICK wrote \in Nat, total \in Nat :
              /\ wrote = call[p].wrote /\ total = RequestPartitions(conn[c].request)
              /\ wrote < total
        <5>1. conn[c].request \in Requests
          BY <2>1 DEF OwnershipInv, CallsInv, IInv, ConnInv, RequestAndAnswer
        <5>2. QED
          BY <2>1, <2>3, <5>1, CallFacts, RequestSize DEF WritePartition, RequestOf
      <4>2. QED
        BY <2>1, <2>2, <4>1 DEF ReadUp, SeenBy
    <3>4. /\ call[p].wrote \in Nat /\ conn[c].up \in Int /\ session.payload.index \in Int
      BY <2>1, CallFacts DEF ConnRecords, IInv, TypeOK, ServerTypeOK, Sessions, Payloads
    <3>5. \A wrote, up, i \in Int :
            1024 * wrote = up + i + 44 => 1024 * (wrote + 1) = (up + 1024) + i + 44
      OBVIOUS
    <3>6. QED
      BY <1>1, <1>5, <2>1, <2>2, <2>3, <3>1, <3>2, <3>3, <3>4, <3>5, Sizes
         DEF ReadUp, SeenBy, Current
  <2>4. CASE conn'[c] = Read(conn[c]) /\ call'[p].read = call[p].read + 1
             /\ call'[p].wrote = call[p].wrote
    <3>1. /\ conn'[c].down = conn[c].down - 1 /\ conn'[c].request = conn[c].request
          /\ conn'[c].up = conn[c].up
      BY <2>1, <2>4 DEF Read, ConnRecords
    <3>2. PICK read \in Nat, down \in Nat : read = call[p].read /\ down = conn[c].down
      BY <2>1, SentToNat
    <3>3. SentTo(p)' = read + 1 + (down - 1) /\ SentTo(p) = read + down
      BY <2>1, <2>4, <3>1, <3>2 DEF SentTo
    <3>4. SentTo(p)' = SentTo(p)
      BY <3>2, <3>3
    <3>5. QED
      BY <1>1, <1>5, <2>1, <2>2, <2>4, <3>1, <3>4 DEF ReadUp, Current
  <2>5. QED
    BY <2>1, <2>3, <2>4
<1>6. CASE q = p /\ (ReadLastPartition(p) \/ FailCall(p) \/ AbortCall(p))
  BY <1>2, <1>6, CallEnds
<1>7. QED
  BY <1>3, <1>4, <1>5, <1>6

\* Once the server has read a request, nothing of it is left: the
\* connection is closed in order and not reset.
THEOREM ReadOut ==
  ASSUME ShortReads = {}
  PROVE  Spec => []ReadUpInv
<1>1. Init => ReadUpInv
  BY DEF Init, ClientInit, ReadUpInv, InCall
<1>2. IInv /\ IInv' /\ OwnershipInv /\ SentInv /\ BytesInv /\ WholeInv /\ ReadUpInv /\ [Next]_vars
        => ReadUpInv'
  <2> SUFFICES ASSUME IInv, IInv', OwnershipInv, SentInv, BytesInv, WholeInv, ReadUpInv, [Next]_vars
               PROVE  ReadUpInv'
    OBVIOUS
  <2>1. CASE Server
    <3>1. \A p \in Processes : InCall(p)' <=> InCall(p)
      BY <2>1 DEF Server, clientVars, InCall
    <3>2. QED
      BY <2>1, <3>1, ServerReadUp DEF ReadUpInv
  <2>2. CASE UNCHANGED <<storageVars, socketVars, serverVars, clientVars>>
    BY <2>2 DEF socketVars, serverVars, clientVars, ReadUpInv, ReadUp, SentTo,
       InCall, ConnOf, Current
  <2>3. QED
    BY <2>1, <2>2, StepCases, ClientReadUp
<1>3. QED
  BY <1>1, <1>2, Invariance, Ownership, Partitioned, Counted, Contents, PTL DEF Spec

-----------------------------------------------------------------------------
\* Acknowledgements

IsAck(rsp) == rsp.code = "MESSAGE_SENT_SUCCESS"

\* The responses that a call may get change only where the server sends them on,
\* or makes one.
LEMMA ResponsesMove ==
  ASSUME IInv, IInv', OwnershipInv, SentInv, [Next]_vars,
         NEW p \in Processes, InCall(p)', NEW rsp \in ResponsesTo(p)', IsAck(rsp)
  PROVE  /\ InCall(p) /\ conn'[ConnOf(p)'].request = RequestOf(p)
         /\ \/ rsp \in ResponsesTo(p)
            \/ /\ Server /\ HandleSendMessage /\ ConnOf(p) = Current /\ conn[Current].peer
               /\ rsp.messageId = lastRowId + 1
<1>1. NoResponse.code # "MESSAGE_SENT_SUCCESS"
  BY DEF NoResponse
<1>2. CASE Server
  <2>1. InCall(p)
    BY <1>2 DEF Server, clientVars, InCall
  <2>2. PICK c \in Conns :
          /\ c = ConnOf(p) /\ c = ConnOf(p)' /\ conn[c].peer /\ conn[c] \in ConnRecords
          /\ conn'[c].request = conn[c].request
    BY <1>2, <2>1, ServerKeeps
  <2>3. CASE SendPartition
    <3>1. \/ conn'[c].response = conn[c].response
          \/ c = Current /\ conn'[c].response = session.response
      BY <2>2, <2>3, SendUses, ConnFields
    <3>2. session'.conn = session.conn /\ session'.response = session.response
          /\ session.pc = "send"
      BY <2>3, SendUses
    <3>3. rsp \in ResponsesTo(p)
      BY <2>2, <3>1, <3>2 DEF ResponsesTo, Current
    <3>4. QED
      BY <2>1, <2>2, <3>3 DEF RequestOf
  <2>4. CASE ~ SendPartition
    <3>1. conn'[c].response = conn[c].response
      BY <1>2, <2>2, <2>4, ServerUses DEF ServerUse
    <3>2. CASE rsp = conn'[c].response
      BY <2>1, <2>2, <3>1, <3>2 DEF RequestOf, ResponsesTo
    <3>3. CASE rsp = session'.response /\ c = Current' /\ session'.pc \in {"send", "after"}
      <4>1. CASE UNCHANGED session
        BY <2>1, <2>2, <3>3, <4>1 DEF RequestOf, ResponsesTo, Current
      <4>2. CASE ~ UNCHANGED session
        <5>1. session'.conn = session.conn /\ HandleSendMessage /\ session.pc \in Before
          BY <1>2, <2>4, <3>3, <4>2, SessionMoves DEF IsAck, Before
        <5>2. session \in Sessions
          BY DEF IInv, TypeOK, ServerTypeOK
        <5>3. session'.response = [code |-> "MESSAGE_SENT_SUCCESS",
                 clientId |-> Request.destClientId, messageId |-> lastRowId + 1]
          BY <3>3, <5>1, <5>2 DEF HandleSendMessage, Respond, Goto, Sessions
        <5>4. QED
          BY <1>2, <2>1, <2>2, <3>3, <5>1, <5>3 DEF RequestOf, Current
      <4>3. QED
        BY <4>1, <4>2
    <3>4. QED
      BY <2>2, <3>2, <3>3 DEF ResponsesTo
  <2>5. QED
    BY <2>3, <2>4
<1>3. CASE UNCHANGED <<storageVars, socketVars, serverVars, clientVars>>
  <2>1. UNCHANGED <<conn, call, session>>
    BY <1>3 DEF socketVars, clientVars, serverVars
  <2>2. QED
    BY <2>1 DEF RequestOf, ResponsesTo, InCall, ConnOf, Current
<1>4. ASSUME UNCHANGED <<storageVars, serverVars>>, NEW q \in Processes,
             \/ \E r \in Requests : Connect(q, r)
             \/ WritePartition(q) \/ ReadPartition(q)
             \/ ReadLastPartition(q) \/ FailCall(q) \/ AbortCall(q)
      PROVE  InCall(p) /\ conn'[ConnOf(p)'].request = RequestOf(p) /\ rsp \in ResponsesTo(p)
  <2>1. UNCHANGED session
    BY <1>4 DEF serverVars
  <2>2. CASE p # q
    <3>1. InCall(p)
      <4>1. call'[p] = call[p]
        BY <1>4, <2>2, ConnectUses, CallGoesOn, CallEnds
      <4>2. QED
        BY <4>1 DEF InCall
    <3>2. ConnOf(p)' = ConnOf(p) /\ conn'[ConnOf(p)] = conn[ConnOf(p)]
      BY <1>4, <2>2, <3>1, OtherCalls
    <3>3. rsp \in ResponsesTo(p)
      BY <2>1, <3>2 DEF ResponsesTo, Current
    <3>4. QED
      BY <3>1, <3>2, <3>3 DEF RequestOf
  <2>3. ASSUME p = q, NEW r \in Requests, Connect(p, r) PROVE FALSE
    <3>1. PICK c \in Conns :
            /\ conn[c] = FreeConn /\ conn'[c] = Connected(r)
            /\ call'[p] = [phase |-> "open", conn |-> c, wrote |-> 0, read |-> 0]
      BY <2>3, ConnectUses
    <3>2. session.pc # "select" => c # Current
      BY <3>1, RunningSession DEF FreeConn
    <3>3. conn'[c].response = NoResponse
      BY <3>1 DEF Connected, FreeConn
    <3>4. QED
      BY <1>1, <2>1, <3>1, <3>2, <3>3 DEF ResponsesTo, ConnOf, Current, IsAck
  <2>4. CASE p = q /\ (WritePartition(p) \/ ReadPartition(p))
    <3>1. PICK c \in Conns :
            /\ c = ConnOf(p) /\ c = ConnOf(p)' /\ conn[c] \in ConnRecords /\ InCall(p)
            /\ conn'[c] = Written(conn[c]) \/ conn'[c] = Read(conn[c])
      BY <2>4, CallGoesOn DEF ConnOf
    <3>2. conn'[c].response = conn[c].response /\ conn'[c].request = conn[c].request
      BY <3>1 DEF Written, Read, ConnRecords
    <3>3. QED
      BY <2>1, <3>1, <3>2 DEF RequestOf, ResponsesTo, Current
  <2>5. CASE p = q /\ (ReadLastPartition(p) \/ FailCall(p) \/ AbortCall(p))
    BY <2>5, CallEnds DEF InCall
  <2>6. QED
    BY <1>4, <2>2, <2>3, <2>4, <2>5
<1>5. QED
  BY <1>2, <1>3, <1>4, StepCases

\* What a client has seen acknowledged, it was sent.
LEMMA AckedMove ==
  ASSUME IInv, [Next]_vars, NEW p \in Processes, NEW a \in acked'[p]
  PROVE  a \in acked[p] \cup AcksTo(p)
<1>1. ASSUME NEW q \in Processes, ReadLastPartition(q)
      PROVE  a \in acked[p] \cup AcksTo(p)
  <2> DEFINE rsp == conn[ConnOf(q)].response
  <2>1. CASE UNCHANGED acked
    BY <2>1
  <2>2. CASE IsAck(rsp) /\ acked' = [acked EXCEPT ![q] = @ \cup {AckOf(RequestOf(q), rsp)}]
    <3>1. acked \in [Processes -> SUBSET Acks]
      BY DEF IInv, TypeOK, ClientTypeOK
    <3>2. a \in acked[p] \/ (p = q /\ a = AckOf(RequestOf(q), rsp))
      BY <2>2, <3>1
    <3>3. InCall(q) /\ rsp \in ResponsesTo(q)
      BY <1>1, CallEnds DEF ResponsesTo
    <3>4. QED
      BY <2>2, <3>2, <3>3 DEF AcksTo, IsAck
  <2>3. QED
    BY <1>1, <2>1, <2>2 DEF ReadLastPartition, HandleResponse, IsAck, AckOf
<1>2. ASSUME ~ \E q \in Processes : ReadLastPartition(q)
      PROVE  UNCHANGED acked
  BY <1>2, StepCases, ConnectUses, CallGoesOn DEF Server, clientVars, FailCall, AbortCall
<1>3. QED
  BY <1>1, <1>2

\* A new acknowledgement is of the row that is written in the same step.
LEMMA AcksMove ==
  ASSUME IInv, IInv', OwnershipInv, SentInv, [Next]_vars, NEW a \in Acked'
  PROVE  \/ a \in Acked
         \/ /\ Server /\ HandleSendMessage /\ conn[Current].peer
            /\ a = [id |-> lastRowId + 1, from |-> Request.clientId,
                    to |-> Request.destClientId, type |-> Request.messageType,
                    size |-> Request.contentSize]
<1>1. PICK p \in Processes : a \in acked'[p] \cup AcksTo(p)'
  BY DEF Acked
<1>2. CASE a \in acked'[p]
  BY <1>2, AckedMove DEF Acked
<1>3. CASE a \in AcksTo(p)'
  <2>1. InCall(p)'
    BY <1>3 DEF AcksTo
  <2>2. PICK rsp \in ResponsesTo(p)' : IsAck(rsp) /\ a = AckOf(RequestOf(p)', rsp)
    BY <1>3, <2>1 DEF AcksTo, IsAck
  <2>3. InCall(p) /\ RequestOf(p)' = RequestOf(p)
    BY <2>1, <2>2, ResponsesMove DEF RequestOf
  <2>4. CASE rsp \in ResponsesTo(p)
    BY <2>2, <2>3, <2>4 DEF Acked, AcksTo, IsAck
  <2>5. CASE rsp \notin ResponsesTo(p)
    <3>1. /\ Server /\ HandleSendMessage /\ ConnOf(p) = Current /\ conn[Current].peer
          /\ rsp.messageId = lastRowId + 1
      BY <2>1, <2>2, <2>5, ResponsesMove
    <3>2. QED
      BY <2>2, <2>3, <3>1 DEF AckOf, RequestOf, Request
  <2>6. QED
    BY <2>4, <2>5
<1>4. QED
  BY <1>1, <1>2, <1>3

\* Acknowledgements have ids.
LEMMA AckIds ==
  ASSUME IInv, NEW a \in Acked
  PROVE  a.id \in Nat
<1>1. PICK p \in Processes : a \in acked[p] \cup AcksTo(p)
  BY DEF Acked
<1>2. CASE a \in acked[p]
  BY <1>2 DEF IInv, TypeOK, ClientTypeOK, Acks
<1>3. CASE a \in AcksTo(p)
  <2>1. InCall(p)
    BY <1>3 DEF AcksTo
  <2>2. PICK rsp \in ResponsesTo(p) : IsAck(rsp) /\ a = AckOf(RequestOf(p), rsp)
    BY <1>3, <2>1 DEF AcksTo, IsAck
  <2>3. rsp \in Responses \cup {NoResponse}
    BY <2>1, CallFacts DEF ResponsesTo, ConnRecords, IInv, TypeOK, ServerTypeOK, Sessions
  <2>4. QED
    BY <2>2, <2>3, ResponseKinds DEF AckOf, IsAck
<1>4. QED
  BY <1>1, <1>2, <1>3

\* Mail is moved, and new only where a row is written.
LEMMA MailMoves ==
  ASSUME IInv, IInv', OwnershipInv, SentInv, [Next]_vars, NEW m \in AllMail'
  PROVE  m \in AllMail \/ m \in messages'
<1>1. SUFFICES ASSUME m \notin messages' PROVE m \in AllMail
  OBVIOUS
<1>2. PICK p \in Processes : m \in Delivered(p)' \/ \E lot \in Lots(p)' : m \in lot
  BY <1>1 DEF AllMail
<1>3. ASSUME NEW lot \in Lots(p), m \in lot
      PROVE  m \in AllMail
  BY <1>3 DEF AllMail
<1>4. ASSUME NEW lot \in Lots(p)', m \in lot
      PROVE  m \in AllMail
  <2>1. CASE lot \in Lots(p)
    BY <1>3, <1>4, <2>1
  <2>2. CASE lot = pull_messages(Request.clientId)
    BY <1>4, <2>2 DEF pull_messages, pull_client_messages, AllMail
  <2>3. QED
    BY <1>4, <2>1, <2>2, LotsMove
<1>5. CASE m \in Delivered(p)'
  <2>1. CASE received'[p] = received[p]
    BY <1>5, <2>1 DEF Delivered, AllMail
  <2>2. ASSUME NEW lot \in Lots(p), lot \in SUBSET Messages,
               received'[p] = Append(received[p], lot)
        PROVE  m \in AllMail
    <3>1. Delivered(p)' = lot \cup Delivered(p)
      BY <2>2, EarlierIds DEF IInv, TypeOK, ClientTypeOK
    <3>2. QED
      BY <1>3, <1>5, <2>2, <3>1 DEF AllMail
  <2>3. QED
    BY <2>1, <2>2, ReceivedMove
<1>6. QED
  BY <1>2, <1>4, <1>5

\* Mail, wherever it is, has an id that save_message has given out.
LEMMA MailIds ==
  ASSUME IInv, OwnershipInv, MailInv, OrderInv, NEW m \in AllMail
  PROVE  m.id \in Nat /\ m.id <= lastRowId
<1>1. CASE m \in messages
  BY <1>1, RowsMove DEF MailInv, RowsInv, IInv, TypeOK, StorageTypeOK, Messages
<1>2. ASSUME NEW p \in Processes, m \in Delivered(p)
      PROVE  m.id \in Nat /\ m.id <= lastRowId
  <2>1. m \in Messages
    BY <1>2 DEF Delivered, IInv, TypeOK, ClientTypeOK
  <2>2. QED
    BY <1>2, <2>1 DEF OrderInv, ReceivedOrder, Messages
<1>3. ASSUME NEW p \in Processes, NEW lot \in Lots(p), m \in lot
      PROVE  m.id \in Nat /\ m.id <= lastRowId
  <2>1. m \in Messages
    BY <1>3, LotsAddressed
  <2>2. QED
    BY <1>3, <2>1 DEF OrderInv, LotOrder, Messages
<1>4. QED
  BY <1>1, <1>2, <1>3 DEF AllMail

\* What is acknowledged is not changed any more, and no other mail gets its id.
LEMMA NextAcks ==
  ASSUME IInv, IInv', OwnershipInv, MailInv, SentInv, OrderInv, WholeInv, AcksInv, [Next]_vars
  PROVE  AcksInv'
<1>1. SUFFICES ASSUME NEW a \in Acked'
               PROVE  /\ a.id <= lastRowId'
                      /\ \A m \in AllMail' : m.id = a.id => IsAckOf(a, m) /\ Whole(m)
  BY DEF AcksInv, IsAckOf, Whole
<1>2. lastRowId \in Nat /\ lastRowId' \in Nat /\ lastRowId <= lastRowId'
  BY RowsMove
<1>3. ASSUME NEW m \in AllMail'
      PROVE  m \in AllMail \/ (m \in messages' \ messages /\ m.id = lastRowId + 1)
  BY <1>3, MailMoves, RowsMove DEF AllMail
<1>4. CASE a \in Acked
  <2>1. a.id \in Nat /\ a.id <= lastRowId
    BY <1>4, AckIds DEF AcksInv
  <2>2. a.id <= lastRowId' /\ a.id # lastRowId + 1
    BY <1>2, <2>1
  <2>3. QED
    BY <1>3, <1>4, <2>2 DEF AcksInv
<1>5. CASE a \notin Acked
  <2>1. /\ Server /\ HandleSendMessage /\ conn[Current].peer
        /\ a = [id |-> lastRowId + 1, from |-> Request.clientId,
                to |-> Request.destClientId, type |-> Request.messageType,
                size |-> Request.contentSize]
    BY <1>1, <1>5, AcksMove
  <2>2. PICK row :
          /\ row = [id |-> lastRowId + 1, toClient |-> Request.destClientId,
                    fromClient |-> Request.clientId, type |-> Request.messageType,
                    size |-> Request.contentSize, length |-> session.payload.length,
                    carried |-> session.payload.carried]
          /\ messages' = messages \cup {row} /\ lastRowId' = lastRowId + 1
    BY <2>1 DEF HandleSendMessage, send_message, save_message
  <2>3. session.pc = "op" /\ Request.op = "SEND_MESSAGE"
    BY <2>1 DEF HandleSendMessage, Handle
  <2>4. Whole(row)
    BY <2>1, <2>2, <2>3 DEF WholeInv, SessionWhole, WholePayload, Whole
  <2>5. ASSUME NEW m \in AllMail', m.id = a.id
        PROVE  m = row
    <3>1. m \in AllMail => m.id \in Nat /\ m.id <= lastRowId
      BY MailIds
    <3>2. m \notin AllMail
      BY <1>2, <2>1, <2>5, <3>1
    <3>3. QED
      BY <1>3, <2>2, <2>5, <3>2
  <2>6. IsAckOf(a, row)
    BY <2>1, <2>2 DEF IsAckOf
  <2>7. a.id <= lastRowId'
    BY <1>2, <2>1, <2>2
  <2>8. QED
    BY <2>4, <2>5, <2>6, <2>7
<1>6. QED
  BY <1>4, <1>5

LEMMA InitAcks == Init => AcksInv
<1> SUFFICES ASSUME Init PROVE AcksInv
  OBVIOUS
<1>1. \A p \in Processes : ~ InCall(p) /\ acked[p] = {}
  BY DEF Init, ClientInit, InCall
<1>2. Acked = {}
  BY <1>1 DEF Acked, AcksTo
<1>3. QED
  BY <1>2 DEF AcksInv

\* What an acknowledgement says is what was stored: client, type, size and every byte
\* (save_message and MessageSentSuccessResponse, while recv() returns whole partitions).
THEOREM Acknowledgements ==
  ASSUME ShortReads = {}
  PROVE  Spec => []AcksInv
<1>1. /\ IInv /\ IInv' /\ OwnershipInv /\ MailInv /\ SentInv /\ OrderInv /\ WholeInv
      /\ AcksInv /\ [Next]_vars
      => AcksInv'
  BY NextAcks
<1>2. QED
  BY <1>1, InitAcks, Invariance, Ownership, MailOfClients, Partitioned, Ordered, Contents,
     PTL DEF Spec

\* An acknowledged message is, wherever it is, the one its sender sent, with every
\* byte of its content.
THEOREM Faithful ==
  ASSUME ShortReads = {}
  PROVE  Spec => []AckedWhole
<1>1. AcksInv => AckedWhole
  <2> SUFFICES ASSUME AcksInv, NEW p \in Processes, NEW a \in acked[p],
                      NEW m \in messages \cup UNION {Delivered(q) : q \in Processes},
                      m.id = a.id
               PROVE  IsAckOf(a, m) /\ Whole(m)
    BY DEF AckedWhole, IsAckOf
  <2>1. a \in Acked /\ m \in AllMail
    BY DEF Acked, AllMail
  <2>2. QED
    BY <2>1 DEF AcksInv
<1>2. QED
  BY <1>1, Acknowledgements, PTL
-----------------------------------------------------------------------------
\* Nothing acknowledged is lost

\* No step takes back what a client has received.
LEMMA DeliveredStays ==
  ASSUME IInv, OwnershipInv, SentInv, [Next]_vars, NEW p \in Processes
  PROVE  Delivered(p) \subseteq Delivered(p)'
<1>1. CASE received'[p] = received[p]
  BY <1>1 DEF Delivered
<1>2. ASSUME NEW lot \in SUBSET Messages, received'[p] = Append(received[p], lot)
      PROVE  Delivered(p) \subseteq Delivered(p)'
  <2>1. received[p] \in Seq(SUBSET Messages)
    BY DEF IInv, TypeOK, ClientTypeOK
  <2>2. Delivered(p)' = lot \cup Delivered(p)
    BY <1>2, <2>1, EarlierIds
  <2>3. QED
    BY <2>2
<1>3. QED
  BY <1>1, <1>2, ReceivedMove

\* What a response has to say has not been said before all of it is read.
ReadOn(p) == ResponsePartitions(conn[ConnOf(p)].response) \notin 1 .. call[p].read

\* No step lets a call read on after the last partition of its response.
LEMMA ReadsGoOn ==
  ASSUME IInv, OwnershipInv, SentInv, KeptInv, [Next]_vars,
         NEW p \in Processes, InCall(p)'
  PROVE  ReadOn(p)'
<1>1. CASE Server
  <2>1. InCall(p)
    BY <1>1 DEF Server, clientVars, InCall
  <2>2. PICK c \in Conns :
          /\ c = ConnOf(p) /\ c = ConnOf(p)' /\ call'[p] = call[p]
          /\ conn[c].peer /\ conn[c] \in ConnRecords
    BY <1>1, <2>1, ServerKeeps
  <2>3. ReadOn(p)
    BY <2>1 DEF KeptInv, ReadOn
  <2>4. CASE conn'[c].response = conn[c].response
    BY <2>2, <2>3, <2>4 DEF ReadOn
  <2>5. CASE SendPartition /\ c = Current
    <3>1. conn'[c].response = session.response /\ session.pc = "send"
      BY <2>2, <2>5, SendUses, ConnFields
    <3>2. CallSent(p) /\ call[p].read \in Nat /\ conn[c].down \in Nat
      BY <2>1, <2>2, SentToNat
    <3>3. CASE session.sent # 0
      BY <2>2, <2>4, <2>5, <3>1, <3>2, <3>3 DEF CallSent
    <3>4. CASE session.sent = 0
      <4>1. call[p].read + conn[c].down = 0
        BY <2>2, <2>5, <3>1, <3>2, <3>4 DEF CallSent, SentTo
      <4>2. call[p].read = 0
        BY <3>2, <4>1
      <4>3. QED
        BY <2>2, <4>2 DEF ReadOn
    <3>5. QED
      BY <3>3, <3>4
  <2>6. QED
    BY <1>1, <2>2, <2>4, <2>5, ServerUses, SendUses DEF ServerUse
<1>2. CASE UNCHANGED <<storageVars, socketVars, serverVars, clientVars>>
  BY <1>2 DEF socketVars, clientVars, KeptInv, ReadOn, InCall, ConnOf
<1>3. ASSUME NEW q \in Processes,
             \/ \E r \in Requests : Connect(q, r)
             \/ WritePartition(q) \/ ReadPartition(q)
             \/ ReadLastPartition(q) \/ FailCall(q) \/ AbortCall(q)
      PROVE  ReadOn(p)'
  <2>1. CASE p # q
    <3>1. call'[p] = call[p]
      BY <1>3, <2>1, ConnectUses, CallGoesOn, CallEnds
    <3>2. InCall(p)
      BY <3>1 DEF InCall
    <3>3. ConnOf(p)' = ConnOf(p) /\ conn'[ConnOf(p)] = conn[ConnOf(p)]
      BY <1>3, <2>1, <3>2, OtherCalls
    <3>4. ReadOn(p)
      BY <3>2 DEF KeptInv, ReadOn
    <3>5. QED
      BY <3>1, <3>3, <3>4 DEF ReadOn
  <2>2. CASE p = q /\ \E r \in Requests : Connect(p, r)
    <3>1. PICK c \in Conns :
            call'[p] = [phase |-> "open", conn |-> c, wrote |-> 0, read |-> 0]
      BY <2>2, ConnectUses
    <3>2. QED
      BY <3>1 DEF ReadOn
  <2>3. CASE p = q /\ (WritePartition(p) \/ ReadPartition(p))
    <3>1. PICK c \in Conns :
            /\ c = ConnOf(p) /\ c = ConnOf(p)' /\ conn[c] \in ConnRecords /\ InCall(p)
            /\ conn'[c] = Written(conn[c]) \/ conn'[c] = Read(conn[c])
      BY <2>3, CallGoesOn DEF ConnOf
    <3>2. conn'[c].response = conn[c].response
      BY <3>1 DEF Written, Read, ConnRecords
    <3>3. ReadOn(p)
      BY <3>1 DEF KeptInv, ReadOn
    <3>4. CASE call'[p].read = call[p].read
      BY <3>1, <3>2, <3>3, <3>4 DEF ReadOn
    <3>5. CASE ReadPartition(p) /\ call'[p].read = call[p].read + 1
      <4>1. ResponsePartitions(conn[c].response) # call[p].read + 1
        BY <3>1, <3>5 DEF ReadPartition, IsLastPartition
      <4>2. PICK read \in Nat : read = call[p].read
        BY <3>1, CallFacts
      <4>3. ResponsePartitions(conn[c].response) \notin 1 .. (read + 1)
        BY <3>1, <3>3, <4>1, <4>2 DEF ReadOn
      <4>4. QED
        BY <3>1, <3>2, <3>5, <4>2, <4>3 DEF ReadOn
    <3>6. QED
      BY <2>3, <3>4, <3>5, CallGoesOn
  <2>4. CASE p = q /\ (ReadLastPartition(p) \/ FailCall(p) \/ AbortCall(p))
    BY <2>4, CallEnds DEF InCall
  <2>5. QED
    BY <1>3, <2>1, <2>2, <2>3, <2>4
<1>4. QED
  BY <1>1, <1>2, <1>3, StepCases

\* What is on its way is received, unless the process dies: the response is there
\* as far as it was sent, and the connection is not reset.
LEMMA WholeFails ==
  ASSUME IInv, OwnershipInv, MailInv, SentInv, ReadUpInv, KeptInv,
         NEW p \in Processes, IsSentWhole(p), FailCall(p)
  PROVE  FALSE
<1>1. PICK c \in Conns : /\ c = ConnOf(p) /\ InCall(p) /\ conn[c] \in ConnRecords
                         /\ IsPull(conn[c].response)
  BY CallFacts DEF IsSentWhole
<1>2. CallSent(p) /\ SentTo(p) \in Nat /\ call[p].read \in Nat /\ conn[c].down \in Nat
  BY <1>1, SentToNat
<1>3. SentTo(p) # 0
  BY <1>1, <1>2 DEF CallSent, IsPull, NoResponse
<1>4. SentTo(p) = ResponsePartitions(conn[c].response)
  BY <1>1 DEF IsSentWhole, SentTo
<1>5. CASE conn[c].down = 0
  <2>1. SentTo(p) = call[p].read
    BY <1>1, <1>2, <1>5 DEF SentTo
  <2>2. ResponsePartitions(conn[c].response) \in 1 .. call[p].read
    BY <1>2, <1>3, <1>4, <2>1
  <2>3. QED
    BY <1>1, <2>2 DEF KeptInv
<1>6. CASE IsReset(c)
  <2>1. conn[c].up = 0
    BY <1>1, <1>3 DEF ReadUpInv, ReadUp
  <2>2. QED
    BY <1>6, <2>1 DEF IsReset
<1>7. QED
  BY <1>1, <1>5, <1>6 DEF FailCall

\* Mail on its way stays there until it is received, or its addressee's process dies.
LEMMA OnTheWayStays ==
  ASSUME IInv, OwnershipInv, MailInv, SentInv, ReadUpInv, KeptInv, [Next]_vars,
         NEW p \in Processes, NEW id \in Ids(onTheWayBar[p])
  PROVE  id \in Ids(onTheWayBar'[p]) \cup Ids(Delivered(p)') \/ aborts'[p] > 0
<1>1. PICK lot : /\ lot = conn[ConnOf(p)].response.messages /\ lot = onTheWayBar[p]
                 /\ IsSentWhole(p) /\ id \in Ids(lot)
  BY BarFields DEF Ids
<1>2. CASE onTheWayBar'[p] = onTheWayBar[p]
  BY <1>2
<1>3. CASE Server
  <2>1. CASE ~ SendPartition
    BY <1>2, <1>3, <2>1, ServerOnTheWay
  <2>2. CASE SendPartition
    <3>1. PICK c \in Conns : /\ c = ConnOf(p) /\ c = ConnOf(p)' /\ InCall(p) /\ InCall(p)'
                             /\ call'[p] = call[p]
      BY <1>1, <1>3, ServerKeeps DEF IsSentWhole
    <3>2. ASSUME c = Current PROVE FALSE
      <4>1. CallSent(p) /\ SentTo(p) \in Nat /\ session.sent \in Nat /\ session.pc = "send"
        BY <2>2, <3>1, SentToNat, SendUses
      <4>2. SentTo(p) = session.sent /\ SentTo(p) # 0
            /\ conn[c].response = session.response
        BY <1>1, <3>1, <3>2, <4>1 DEF CallSent, IsSentWhole, IsPull, NoResponse
      <4>3. SentTo(p) = ResponsePartitions(session.response)
        BY <1>1, <3>1, <4>2 DEF IsSentWhole, SentTo
      <4>4. ResponsePartitions(session.response) \in 1 .. session.sent
        BY <4>1, <4>2, <4>3
      <4>5. QED
        BY <4>1, <4>4 DEF SentInv
    <3>3. conn'[c] = conn[c]
      BY <2>2, <3>2, SendUses
    <3>4. IsSentWhole(p)' /\ conn'[ConnOf(p)'].response.messages = lot
      BY <1>1, <3>1, <3>3 DEF IsSentWhole
    <3>5. onTheWayBar'[p] = lot
      BY <3>4, BarFields
    <3>6. QED
      BY <1>1, <1>2, <3>5
  <2>3. QED
    BY <2>1, <2>2
<1>4. CASE UNCHANGED <<storageVars, socketVars, serverVars, clientVars>>
  <2>1. UNCHANGED onTheWayBar
    BY <1>4 DEF socketVars, clientVars, onTheWayBar, IsSentWhole, InCall, ConnOf
  <2>2. QED
    BY <1>2, <2>1
<1>5. ASSUME NEW q \in Processes, UNCHANGED <<storageVars, serverVars>>,
             \/ \E r \in Requests : Connect(q, r)
             \/ WritePartition(q) \/ ReadPartition(q)
             \/ ReadLastPartition(q) \/ FailCall(q) \/ AbortCall(q)
      PROVE  id \in Ids(onTheWayBar'[p]) \cup Ids(Delivered(p)') \/ aborts'[p] > 0
  <2>1. CASE p # q
    BY <1>2, <1>5, <2>1, OtherOnTheWay
  <2>2. CASE \/ \E r \in Requests : Connect(q, r)
             \/ WritePartition(q) \/ ReadPartition(q)
    BY <1>2, <1>5, <2>2, CallMailbox DEF M!mailVars
  <2>3. CASE p = q /\ FailCall(p)
    BY <1>1, <2>3, WholeFails
  <2>4. CASE p = q /\ AbortCall(p)
    <3>1. aborts' = [aborts EXCEPT ![p] = @ + 1]
      BY <2>4 DEF AbortCall
    <3>2. QED
      BY <3>1 DEF IInv, TypeOK, ClientTypeOK
  <2>5. CASE p = q /\ ReadLastPartition(p)
    <3>1. conn[ConnOf(p)].response.code = "MESSAGES_PULLED_SUCCESS" /\ lot # {}
      BY <1>1 DEF IsSentWhole, IsPull, Ids
    <3>2. received' = [received EXCEPT ![p] = Append(@, lot)]
      BY <1>1, <2>5, <3>1 DEF ReadLastPartition, HandleResponse
    <3>3. lot \in SUBSET Messages
      <4>1. InCall(p)
        BY <1>1 DEF IsSentWhole
      <4>2. conn[ConnOf(p)].response \in Responses \cup {NoResponse}
        BY <4>1, CallFacts DEF ConnRecords
      <4>3. QED
        BY <1>1, <3>1, <4>2, ResponseKinds
    <3>4. received[p] \in Seq(SUBSET Messages) /\ received'[p] = Append(received[p], lot)
      BY <3>2 DEF IInv, TypeOK, ClientTypeOK
    <3>5. Delivered(p)' = lot \cup Delivered(p)
      BY <3>3, <3>4, EarlierIds
    <3>6. QED
      BY <1>1, <3>5 DEF Ids
  <2>6. QED
    BY <1>5, <2>1, <2>2, <2>3, <2>4, <2>5
<1>6. QED
  BY <1>3, <1>4, <1>5, StepCases

\* A row that is deleted is on its way to its addressee, or was received, or its
\* addressee died.
LEMMA DeletedKept ==
  ASSUME IInv, IInv', OwnershipInv, MailInv, SentInv, KeptInv, [Next]_vars,
         NEW m \in messages \ messages'
  PROVE  \/ Aborted(m.toClient)
         \/ \E q \in Owner(m.toClient) :
              m.id \in Ids(onTheWayBar[q]) \cup Ids(Delivered(q))
<1>1. /\ session.pc = "after"
      /\ m \in session.response.messages
      /\ Request.clientId = m.toClient
      /\ session.sent = ResponsePartitions(session.response)
  BY DeletedRows
<1>2. IsPull(session.response)
  <2>1. Server
    BY StepCases DEF storageVars
  <2>2. _after_send_process
    BY <1>1, <2>1, StorageMoves DEF HandleSendMessage, Handle
  <2>3. QED
    BY <2>2 DEF _after_send_process, IsPull, storageVars
<1>3. m.id \in Ids(session.response.messages)
  BY <1>1 DEF Ids
<1>4. CASE ~ conn[Current].peer
  BY <1>1, <1>2, <1>3, <1>4 DEF KeptInv, AfterKept
<1>5. CASE conn[Current].peer
  <2>1. PICK p \in Processes : InCall(p) /\ ConnOf(p) = Current
    BY <1>1, <1>5, RunningSession DEF OwnershipInv, HeldOrAbandoned
  <2>2. CallSent(p)
    BY <2>1 DEF SentInv
  <2>3. SentTo(p) = session.sent /\ conn[Current].response = session.response
    BY <1>1, <2>1, <2>2 DEF SentInv, CallSent
  <2>4. IsSentWhole(p)
    BY <1>1, <1>2, <2>1, <2>3 DEF IsSentWhole, SentTo
  <2>5. onTheWayBar[p] = session.response.messages
    BY <2>1, <2>3, <2>4, BarFields
  <2>6. Request.op = "PULL_MESSAGES"
    BY <1>1, <1>2 DEF MailInv, SessionLot, LotFits
  <2>7. p \in Owner(m.toClient)
    BY <1>1, <2>1, <2>6 DEF OwnershipInv, CallsInv, RequestOf, Request, Owner
  <2>8. QED
    BY <1>3, <2>5, <2>7
<1>6. QED
  BY <1>4, <1>5

\* What is kept is kept.
LEMMA KeptStays ==
  ASSUME IInv, IInv', OwnershipInv, MailInv, SentInv, ReadUpInv, AcksInv, KeptInv,
         [Next]_vars, NEW a \in Acked
  PROVE  IsKept(a.id, a.to)'
<1> DEFINE Has(q) == a.id \in Ids(onTheWayBar[q]) \cup Ids(Delivered(q))
<1>1. ASSUME NEW q \in Owner(a.to), a.id \in Ids(onTheWayBar[q]) \cup Ids(Delivered(q))
      PROVE  IsKept(a.id, a.to)'
  <2>1. q \in Processes /\ q \in Owner(a.to)'
    BY OwnersStay DEF Owner
  <2>2. CASE a.id \in Ids(onTheWayBar'[q]) \cup Ids(Delivered(q)')
    BY <2>1, <2>2 DEF IsKept, Ids
  <2>3. CASE a.id \in Ids(Delivered(q))
    BY <2>1, <2>2, <2>3, DeliveredStays DEF Ids
  <2>4. CASE aborts'[q] > 0
    BY <2>1, <2>4 DEF IsKept, Aborted
  <2>5. QED
    BY <1>1, <2>1, <2>2, <2>3, <2>4, OnTheWayStays
<1>2. CASE Aborted(a.to)
  BY <1>2, OwnersStay DEF IsKept
<1>3. ASSUME NEW m \in messages, m.id = a.id
      PROVE  IsKept(a.id, a.to)'
  <2>1. CASE m \in messages'
    BY <1>3, <2>1 DEF IsKept, Ids
  <2>2. CASE m \notin messages'
    <3>1. m.toClient = a.to
      BY <1>3 DEF AcksInv, AllMail, IsAckOf
    <3>2. QED
      BY <1>1, <1>2, <1>3, <2>2, <3>1, DeletedKept
  <2>3. QED
    BY <2>1, <2>2
<1>4. QED
  BY <1>1, <1>2, <1>3 DEF KeptInv, IsKept, Ids

\* A response that was sent to nobody was for a process that died, or one that has
\* read it.
LEMMA AfterKeptMoves ==
  ASSUME IInv, IInv', OwnershipInv, MailInv, SentInv, WholeInv, KeptInv, [Next]_vars
  PROVE  AfterKept'
<1> SUFFICES ASSUME session'.pc = "after", IsPull(session'.response),
                    ~ conn'[session'.conn].peer
             PROVE  \/ Aborted(Request.clientId)'
                    \/ \E q \in Owner(Request.clientId)' :
                         Ids(session'.response.messages) \subseteq Ids(Delivered(q)')
  BY DEF AfterKept, Current, Ids
<1> DEFINE rows == session'.response.messages
<1>1. ASSUME NEW id, id = Request.clientId, Request' = Request,
             \/ Aborted(id)'
             \/ \E q \in Owner(id)' : Ids(rows) \subseteq Ids(Delivered(q)')
      PROVE  \/ Aborted(Request.clientId)'
             \/ \E q \in Owner(Request.clientId)' : Ids(rows) \subseteq Ids(Delivered(q)')
  BY <1>1 DEF Aborted, Owner
<1>2. PICK id : id = Request.clientId
  OBVIOUS
<1>3. CASE SendPartition
  <2>1. session'.conn = session.conn /\ session.pc = "send"
        /\ session'.response = session.response
    BY <1>3, SendUses
  <2>2. Request' = Request
    BY <2>1, RequestStays
  <2>3. ~ conn[Current].peer /\ IsOpen(Current) /\ Current \in Conns
    <3>1. ~ conn'[Current].peer
      BY <2>1 DEF Current
    <3>2. QED
      BY <1>3, <3>1, SendUses, ConnFields DEF IsOpen
  <2>4. Request.op = "PULL_MESSAGES"
    BY <2>1 DEF MailInv, SessionLot, LotFits
  <2>5. Aborted(id)
    BY <1>2, <2>1, <2>3, <2>4 DEF WholeInv, AbandonedOnlyByAbort, Request
  <2>6. QED
    BY <1>1, <1>2, <2>2, <2>5, OwnersStay
<1>4. CASE UNCHANGED session
  <2>1. Request' = Request
    BY <1>4, RequestStays
  <2>2. CASE ~ conn[Current].peer
    <3>1. \/ Aborted(id)
          \/ \E q \in Owner(id) : Ids(rows) \subseteq Ids(Delivered(q))
      BY <1>2, <1>4, <2>2 DEF KeptInv, AfterKept
    <3>2. \A q \in Owner(id) : q \in Owner(id)' /\ Ids(Delivered(q)) \subseteq Ids(Delivered(q)')
      BY OwnersStay, DeliveredStays DEF Owner, Ids
    <3>3. QED
      BY <1>1, <1>2, <2>1, <3>1, <3>2, OwnersStay
  <2>3. CASE conn[Current].peer
    <3>1. /\ Current \in Conns /\ conn[Current] \in ConnRecords
          /\ conn[Current].end = "accepted" /\ ~ conn'[Current].peer
      BY <1>4, RunningSession DEF Current
    <3>2. PICK p \in Processes : InCall(p) /\ ConnOf(p) = Current
      BY <2>3, <3>1 DEF OwnershipInv, HeldOrAbandoned
    <3>3. AbortCall(p) \/ ReadLastPartition(p)
      <4>1. ~ Server
        <5>1. CASE SendPartition
          BY <2>3, <3>1, <5>1, SendUses, ConnFields
        <5>2. CASE ~ SendPartition /\ Server
          <6>1. ServerUse(conn[Current], conn'[Current])
            BY <3>1, <5>2, ServerUses
          <6>2. QED
            BY <2>3, <3>1, <6>1 DEF ServerUse, FreeConn
        <5>3. QED
          BY <5>1, <5>2
      <4>2. conn'[Current] # conn[Current]
        BY <2>3, <3>1
      <4>3. PICK q \in Processes :
              \/ \E r \in Requests : Connect(q, r)
              \/ WritePartition(q) \/ ReadPartition(q)
              \/ ReadLastPartition(q) \/ FailCall(q) \/ AbortCall(q)
        BY <4>1, <4>2, StepCases DEF socketVars
      <4>4. q = p
        BY <3>2, <4>2, <4>3, OtherCalls
      <4>5. ~ \E r \in Requests : Connect(p, r)
        BY <3>2, ConnectUses
      <4>6. ~ (WritePartition(p) \/ ReadPartition(p))
        BY <2>3, <3>1, <3>2, CallGoesOn DEF Written, Read, ConnRecords
      <4>7. ~ FailCall(p)
        BY <3>1, <3>2 DEF FailCall
      <4>8. QED
        BY <4>3, <4>4, <4>5, <4>6, <4>7
    <3>4. Request.op = "PULL_MESSAGES"
      BY <1>4 DEF MailInv, SessionLot, LotFits
    <3>5. p \in Owner(id)
      BY <1>2, <3>2, <3>4 DEF OwnershipInv, CallsInv, RequestOf, Request, Owner
    <3>6. CASE AbortCall(p)
      <4>1. aborts' = [aborts EXCEPT ![p] = @ + 1] /\ UNCHANGED myInfo
        BY <3>6 DEF AbortCall
      <4>2. aborts'[p] > 0
        BY <4>1 DEF IInv, TypeOK, ClientTypeOK
      <4>3. Aborted(id)'
        BY <3>5, <4>1, <4>2 DEF Aborted, Owner
      <4>4. QED
        BY <1>1, <1>2, <2>1, <4>3
    <3>7. CASE ReadLastPartition(p)
      <4>1. conn[Current].response = session.response
        BY <1>4, <3>2 DEF SentInv, CallSent
      <4>2. p \in Owner(id)'
        BY <3>5, OwnersStay
      <4>3. CASE rows = {}
        BY <1>1, <1>2, <2>1, <4>2, <4>3 DEF Ids
      <4>4. CASE rows # {}
        <5>1. received' = [received EXCEPT ![p] = Append(@, rows)]
          BY <1>4, <3>2, <3>7, <4>1, <4>4 DEF ReadLastPartition, HandleResponse, IsPull
        <5>2. rows \in SUBSET Messages
          BY <1>4, ResponseKinds DEF IsPull, IInv, TypeOK, ServerTypeOK, Sessions
        <5>3. received[p] \in Seq(SUBSET Messages) /\ received'[p] = Append(received[p], rows)
          BY <5>1 DEF IInv, TypeOK, ClientTypeOK
        <5>4. Delivered(p)' = rows \cup Delivered(p)
          BY <5>2, <5>3, EarlierIds
        <5>5. QED
          BY <1>1, <1>2, <2>1, <4>2, <5>4 DEF Ids
      <4>5. QED
        BY <4>3, <4>4
    <3>8. QED
      BY <3>3, <3>6, <3>7
  <2>4. QED
    BY <2>2, <2>3
<1>5. QED
  BY <1>3, <1>4, StepCases, SessionMoves DEF serverVars, Before

\* Every step keeps acknowledged mail somewhere.
LEMMA NextKept ==
  ASSUME IInv, IInv', OwnershipInv, MailInv, SentInv, WholeInv, ReadUpInv, AcksInv, KeptInv,
         [Next]_vars
  PROVE  KeptInv'
<1>1. ASSUME NEW a \in Acked' PROVE IsKept(a.id, a.to)'
  <2>1. CASE a \in Acked
    BY <2>1, KeptStays
  <2>2. CASE HandleSendMessage /\ a.id = lastRowId + 1
    <3>1. PICK row : row.id = lastRowId + 1 /\ messages' = messages \cup {row}
      <4> DEFINE written == [id |-> lastRowId + 1, toClient |-> Request.destClientId,
                             fromClient |-> Request.clientId, type |-> Request.messageType,
                             size |-> Request.contentSize, length |-> session.payload.length,
                             carried |-> session.payload.carried]
      <4>1. messages' = messages \cup {written}
        BY <2>2 DEF HandleSendMessage, send_message, save_message
      <4>2. written.id = lastRowId + 1
        OBVIOUS
      <4> HIDE DEF written
      <4>3. QED
        BY <4>1, <4>2
    <3>2. QED
      BY <2>2, <3>1 DEF IsKept, Ids
  <2>3. QED
    BY <1>1, <2>1, <2>2, AcksMove
<1>2. ASSUME NEW p \in Processes, InCall(p)'
      PROVE  ReadOn(p)'
  BY <1>2, ReadsGoOn
<1>3. QED
  BY <1>1, <1>2, AfterKeptMoves DEF KeptInv, ReadOn

LEMMA InitKept == Init => KeptInv
<1> SUFFICES ASSUME Init PROVE KeptInv
  OBVIOUS
<1>1. \A p \in Processes : ~ InCall(p) /\ acked[p] = {}
  BY DEF Init, ClientInit, InCall
<1>2. Acked = {}
  BY <1>1 DEF Acked, AcksTo
<1>3. AfterKept
  BY DEF Init, ServerInit, NoSession, AfterKept
<1>4. QED
  BY <1>1, <1>2, <1>3 DEF KeptInv

\* Acknowledged mail is in the table, in a response on its way, or received, unless the
\* process of its addressee died in a call (_after_send_process, HandleRequest).
THEOREM Kept ==
  ASSUME ShortReads = {}
  PROVE  Spec => []KeptInv
<1>1. /\ IInv /\ IInv' /\ OwnershipInv /\ MailInv /\ SentInv /\ WholeInv /\ ReadUpInv
      /\ AcksInv /\ KeptInv /\ [Next]_vars
      => KeptInv'
  BY NextKept
<1>2. QED
  BY <1>1, InitKept, Invariance, Ownership, MailOfClients, Partitioned, Contents, ReadOut,
     Acknowledgements, PTL DEF Spec

\* "Message sent successfully." is true: a message whose sender saw it acknowledged
\* is stored, on its way, or received, unless its addressee's process died in a call.
THEOREM Delivery ==
  ASSUME ShortReads = {}
  PROVE  Spec => []NoLoss
<1>1. IInv /\ KeptInv => NoLoss
  <2> SUFFICES ASSUME IInv, KeptInv, NEW p \in Processes, NEW a \in acked[p]
               PROVE  \/ a.id \in Ids(messages)
                      \/ OnItsWay(a.id, a.to)
                      \/ \E q \in Owner(a.to) : a.id \in Ids(Delivered(q))
                      \/ Aborted(a.to)
    BY DEF NoLoss
  <2>1. IsKept(a.id, a.to)
    BY DEF KeptInv, Acked
  <2>2. ASSUME NEW q \in Owner(a.to), a.id \in Ids(onTheWayBar[q])
        PROVE  OnItsWay(a.id, a.to)
    <3>1. q \in Processes
      BY DEF Owner
    <3>2. IsSentWhole(q) /\ a.id \in Ids(conn[ConnOf(q)].response.messages)
      BY <2>2, <3>1, BarFields DEF Ids
    <3>3. QED
      BY <3>2 DEF OnItsWay, IsSentWhole, IsPull
  <2>3. QED
    BY <2>1, <2>2 DEF IsKept
<1>2. QED
  BY <1>1, Invariance, Kept, PTL
-----------------------------------------------------------------------------
\* Nothing is sent twice after an error

\* An acknowledgement has one partition.
LEMMA AckFacts ==
  ASSUME NEW m
  PROVE  /\ ResponsePartitions(AckTo(m)) = 1
         /\ AckTo(m).code = "MESSAGE_SENT_SUCCESS" /\ AckTo(m).messageId = m.id
         /\ AckTo(m) # NoResponse
<1>1. AckTo(m).code = "MESSAGE_SENT_SUCCESS" /\ AckTo(m).messageId = m.id
  BY DEF AckTo
<1>2. PayloadSize(AckTo(m)) = 20
  BY <1>1 DEF PayloadSize, CLIENT_ID_BYTE_SIZE, MESSAGE_ID_BYTE_SIZE
<1>3. ResponsePartitions(AckTo(m)) = 1
  BY <1>2 DEF ResponsePartitions, Partitions, ResponseHeaderSize, BUFFER_PARTITION_SIZE
<1>4. QED
  BY <1>1, <1>3 DEF NoResponse

\* A session that sends goes on sending, fails, or ends with the server.
LEMMA SendGoesOn ==
  ASSUME Server, session.pc = "send"
  PROVE  SendPartition \/ SendError \/ RestartServer
BY DEF Server, ServerStep, Select, _accept, BeginSession, RecvBuffer, RecvEof, RecvError,
       PreRequest, HandleRefused, Handle, HandleRegister, HandleListClients,
       HandleGetPublicKey, HandleSendMessage, HandlePullMessages, _after_send_process,
       CloseSession

\* The acknowledgement of a message goes on to its sender, and reaches it.
LEMMA AcknowledgingStays ==
  ASSUME IInv, OwnershipInv, SentInv, ReadUpInv, KeptInv, [Next]_vars, ~ RestartServer,
         NEW p \in Processes, NEW m, IsAcknowledging(p, m)
  PROVE  IsAcknowledging(p, m)' \/ aborts'[p] > 0 \/ \E a \in acked'[p] : a.id = m.id
<1>1. PICK c \in Conns :
        /\ c = ConnOf(p) /\ InCall(p) /\ conn[c] \in ConnRecords /\ conn[c].peer
        /\ CallSent(p) /\ SentTo(p) \in Nat
        /\ conn[c].down \in Nat /\ call[p].read \in Nat
  BY SentToNat DEF IsAcknowledging, OwnershipInv, CallsInv
<1>2. SentTo(p) # 0 => conn[c].response = AckTo(m)
  BY <1>1 DEF IsAcknowledging, CallSent
<1>3. conn[c].response = AckTo(m) => SentTo(p) # 0
  BY <1>1, AckFacts DEF CallSent
<1>4. CASE Server
  <2>1. c = ConnOf(p)' /\ InCall(p)'
    BY <1>1, <1>4, ServerKeeps DEF Server, clientVars, InCall
  <2>2. CASE SendPartition
    <3>1. CASE c = Current
      <4>1. session.pc = "send" /\ SentTo(p) = session.sent
            /\ (session.sent # 0 => conn[c].response = session.response)
        BY <1>1, <2>2, <3>1, SendUses DEF CallSent
      <4>2. session.response = AckTo(m)
        BY <1>1, <1>2, <1>3, <4>1 DEF IsAcknowledging
      <4>3. conn'[c].response = session.response
        BY <1>1, <2>2, <3>1, SendUses, ConnFields
      <4>4. QED
        BY <2>1, <4>2, <4>3 DEF IsAcknowledging
    <3>2. CASE c # Current
      <4>1. conn'[c] = conn[c] /\ conn[c].response = AckTo(m)
        BY <1>1, <2>2, <3>2, SendUses DEF IsAcknowledging
      <4>2. QED
        BY <2>1, <4>1 DEF IsAcknowledging
    <3>3. QED
      BY <3>1, <3>2
  <2>3. CASE ~ SendPartition
    <3>1. conn'[c].response = conn[c].response
      <4>1. ServerUse(conn[c], conn'[c])
        BY <1>4, <2>3, ServerUses
      <4>2. QED
        BY <1>1, <4>1 DEF ServerUse
    <3>2. CASE conn[c].response = AckTo(m)
      BY <2>1, <3>1, <3>2 DEF IsAcknowledging
    <3>3. ASSUME c = Current, session.pc = "send" PROVE FALSE
      BY <1>1, <1>4, <2>3, <3>3, SendGoesOn DEF SendError
    <3>4. QED
      BY <1>1, <3>2, <3>3 DEF IsAcknowledging
  <2>4. QED
    BY <2>2, <2>3
<1>5. CASE UNCHANGED <<storageVars, socketVars, serverVars, clientVars>>
  BY <1>5 DEF socketVars, serverVars, clientVars, IsAcknowledging, InCall, ConnOf, Current
<1>6. ASSUME NEW q \in Processes, UNCHANGED <<storageVars, serverVars>>,
             \/ \E r \in Requests : Connect(q, r)
             \/ WritePartition(q) \/ ReadPartition(q)
             \/ ReadLastPartition(q) \/ FailCall(q) \/ AbortCall(q)
      PROVE  IsAcknowledging(p, m)' \/ aborts'[p] > 0 \/ \E a \in acked'[p] : a.id = m.id
  <2>1. UNCHANGED session
    BY <1>6 DEF serverVars
  <2>2. CASE p # q
    <3>1. call'[p] = call[p] /\ c = ConnOf(p)' /\ conn'[c] = conn[c]
      BY <1>1, <1>6, <2>2, OtherCalls
    <3>2. QED
      BY <1>1, <2>1, <3>1 DEF IsAcknowledging, InCall, Current
  <2>3. ASSUME p = q, NEW r \in Requests, Connect(p, r) PROVE FALSE
    BY <1>1, <2>3, ConnectUses
  <2>4. CASE p = q /\ (WritePartition(p) \/ ReadPartition(p))
    <3>1. /\ InCall(p)' /\ c = ConnOf(p)'
          /\ conn'[c] = Written(conn[c]) \/ conn'[c] = Read(conn[c])
      BY <1>1, <2>4, CallGoesOn DEF InCall, ConnOf
    <3>2. conn'[c].response = conn[c].response
      BY <1>1, <3>1 DEF Written, Read, ConnRecords
    <3>3. QED
      BY <1>1, <2>1, <3>1, <3>2 DEF IsAcknowledging, Current
  <2>5. CASE p = q /\ ReadLastPartition(p)
    <3>1. SentTo(p) # 0
      BY <1>1, <2>5 DEF ReadLastPartition, ResponseArriving, SentTo
    <3>2. conn[c].response = AckTo(m)
      BY <1>2, <3>1
    <3>3. acked' = [acked EXCEPT ![p] = @ \cup {AckOf(RequestOf(p), AckTo(m))}]
      BY <1>1, <2>5, <3>2, AckFacts DEF ReadLastPartition, HandleResponse, AckOf
    <3>4. acked \in [Processes -> SUBSET Acks]
      BY DEF IInv, TypeOK, ClientTypeOK
    <3>5. AckOf(RequestOf(p), AckTo(m)).id = m.id
      BY AckFacts DEF AckOf
    <3>6. QED
      BY <3>3, <3>4, <3>5
  <2>6. CASE p = q /\ FailCall(p)
    <3>1. conn[c].end = "closed" /\ (conn[c].down = 0 \/ IsReset(c))
      BY <1>1, <2>6 DEF FailCall
    <3>2. conn[c].response = AckTo(m) /\ SentTo(p) # 0
      <4>1. ~ (c = Current /\ session.pc = "send")
        BY <3>1, RunningSession
      <4>2. QED
        BY <1>1, <1>3, <4>1 DEF IsAcknowledging
    <3>3. conn[c].up = 0
      BY <1>1, <3>2 DEF ReadUpInv, ReadUp
    <3>4. conn[c].down = 0
      BY <3>1, <3>3 DEF IsReset
    <3>5. call[p].read >= 1
      BY <1>1, <3>2, <3>4 DEF SentTo
    <3>6. 1 \notin 1 .. call[p].read
      BY <1>1, <3>2, AckFacts DEF KeptInv
    <3>7. QED
      BY <1>1, <3>5, <3>6
  <2>7. CASE p = q /\ AbortCall(p)
    <3>1. aborts' = [aborts EXCEPT ![p] = @ + 1]
      BY <2>7 DEF AbortCall
    <3>2. QED
      BY <3>1 DEF IInv, TypeOK, ClientTypeOK
  <2>8. QED
    BY <1>6, <2>2, <2>3, <2>4, <2>5, <2>6, <2>7
<1>7. QED
  BY <1>4, <1>5, <1>6, StepCases

\* No step takes back what a client has seen acknowledged.
LEMMA AckedStays ==
  ASSUME IInv, [Next]_vars, NEW p \in Processes
  PROVE  acked[p] \subseteq acked'[p]
<1>1. acked \in [Processes -> SUBSET Acks]
  BY DEF IInv, TypeOK, ClientTypeOK
<1>2. ASSUME NEW q \in Processes, ReadLastPartition(q)
      PROVE  acked[p] \subseteq acked'[p]
  <2>1. \/ UNCHANGED acked
        \/ \E a : acked' = [acked EXCEPT ![q] = @ \cup {a}]
    BY <1>2 DEF ReadLastPartition, HandleResponse
  <2>2. QED
    BY <1>1, <2>1
<1>3. ASSUME ~ \E q \in Processes : ReadLastPartition(q)
      PROVE  UNCHANGED acked
  BY <1>3, StepCases, ConnectUses, CallGoesOn DEF Server, clientVars, FailCall, AbortCall
<1>4. QED
  BY <1>2, <1>3

\* A new row is acknowledged next, if its sender has not died and its id can be packed.
LEMMA NewRowAccounted ==
  ASSUME IInv, IInv', OwnershipInv, WholeInv, [Next]_vars,
         NEW m \in messages', m \notin messages
  PROVE  IsAccountedFor(m)'
<1>1. Server /\ HandleSendMessage
  <2>1. Server
    BY StepCases DEF storageVars
  <2>2. ASSUME _after_send_process PROVE FALSE
    BY <2>2 DEF _after_send_process, delete_client_messages, storageVars
  <2>3. QED
    BY <2>1, <2>2, StorageMoves
<1>2. /\ m.id = lastRowId + 1 /\ m.toClient = Request.destClientId
      /\ m.fromClient = Request.clientId
  BY <1>1 DEF HandleSendMessage, send_message, save_message
<1>3. /\ session.pc = "op" /\ Request.op = "SEND_MESSAGE" /\ UNCHANGED <<conn, clientVars>>
      /\ Current \in Conns /\ conn[Current].end = "accepted" /\ session \in Sessions
  BY <1>1, RunningSession DEF HandleSendMessage, Handle, Server, socketVars
<1>4. CASE m.id > UINT32_MAX
  BY <1>4 DEF IsAccountedFor
<1>5. CASE m.id <= UINT32_MAX /\ conn[Current].peer
  <2>1. PICK p \in Processes : InCall(p) /\ ConnOf(p) = Current
    BY <1>3, <1>5 DEF OwnershipInv, HeldOrAbandoned
  <2>2. p \in Owner(m.fromClient)'
    BY <1>2, <1>3, <2>1 DEF OwnershipInv, CallsInv, RequestOf, Request, Owner, clientVars
  <2>3. session' = [session EXCEPT !.pc = "send", !.response = AckTo(m)]
    BY <1>1, <1>2, <1>5 DEF HandleSendMessage, Respond, AckTo
  <2>4. session'.pc = "send" /\ session'.response = AckTo(m) /\ session'.conn = Current
    BY <1>3, <2>3 DEF Sessions, Current
  <2>5. IsAcknowledging(p, m)'
    BY <1>3, <2>1, <2>4 DEF IsAcknowledging, InCall, ConnOf, Current, clientVars
  <2>6. QED
    BY <2>2, <2>5 DEF IsAccountedFor
<1>6. CASE ~ conn[Current].peer
  <2>1. Aborted(m.fromClient)
    BY <1>2, <1>3, <1>6 DEF WholeInv, AbandonedOnlyByAbort, IsOpen, Request
  <2>2. QED
    BY <2>1, OwnersStay DEF IsAccountedFor
<1>7. m.id \in Nat /\ UINT32_MAX \in Nat
  BY <1>2, RowsMove, ServerBoundsAssumption
<1>8. QED
  BY <1>4, <1>5, <1>6, <1>7

LEMMA NextCause ==
  ASSUME IInv, IInv', OwnershipInv, SentInv, WholeInv, ReadUpInv, KeptInv, CauseInv,
         [Next]_vars
  PROVE  CauseInv'
<1> SUFFICES ASSUME NEW m \in AllMail' PROVE IsAccountedFor(m)'
  BY DEF CauseInv
<1>1. CASE m \notin AllMail
  <2>1. m \in messages' /\ m \notin messages
    BY <1>1, MailMoves DEF AllMail
  <2>2. QED
    BY <2>1, NewRowAccounted
<1>2. CASE m \in AllMail
  <2>1. IsAccountedFor(m)
    BY <1>2 DEF CauseInv
  <2>2. CASE \E p \in Processes : \E a \in acked[p] : a.id = m.id
    BY <2>2, AckedStays DEF IsAccountedFor
  <2>3. CASE restarts > 0 \/ RestartServer
    <3>1. restarts' > 0
      BY <2>3, RestartsGrow
    <3>2. QED
      BY <3>1 DEF IsAccountedFor
  <2>4. ASSUME NEW p \in Owner(m.fromClient), IsAcknowledging(p, m), ~ RestartServer
        PROVE  IsAccountedFor(m)'
    <3>1. p \in Processes /\ p \in Owner(m.fromClient)'
      BY OwnersStay DEF Owner
    <3>2. IsAcknowledging(p, m)' \/ aborts'[p] > 0 \/ \E a \in acked'[p] : a.id = m.id
      BY <2>4, <3>1, AcknowledgingStays
    <3>3. QED
      BY <3>1, <3>2 DEF IsAccountedFor, Aborted
  <2>5. CASE Aborted(m.fromClient)
    BY <2>5, OwnersStay DEF IsAccountedFor
  <2>6. CASE m.id > UINT32_MAX
    BY <2>6 DEF IsAccountedFor
  <2>7. QED
    BY <2>1, <2>2, <2>3, <2>4, <2>5, <2>6 DEF IsAccountedFor
<1>3. QED
  BY <1>1, <1>2

LEMMA InitCause == Init => CauseInv
<1> SUFFICES ASSUME Init PROVE CauseInv
  OBVIOUS
<1>1. /\ messages = {}
      /\ \A p \in Processes : Delivered(p) = {} /\ Lots(p) = {}
  BY DEF Init, StorageInit, ClientInit, Delivered, Lots, InCall
<1>2. QED
  BY <1>1 DEF CauseInv, AllMail

\* A message that is stored or received was acknowledged, or is being acknowledged, or
\* its sender died in a call, the server ended, or its id could not be packed: a user
\* who sees an error of a server that runs sends nothing twice by sending it again.
THEOREM Unacknowledged ==
  ASSUME ShortReads = {}
  PROVE  Spec => []UnacknowledgedHasCause
<1>1. /\ IInv /\ IInv' /\ OwnershipInv /\ SentInv /\ WholeInv /\ ReadUpInv /\ KeptInv
      /\ CauseInv /\ [Next]_vars
      => CauseInv'
  BY NextCause
<1>2. CauseInv => UnacknowledgedHasCause
  BY DEF CauseInv, UnacknowledgedHasCause, AllMail
<1>3. QED
  BY <1>1, <1>2, InitCause, Invariance, Ownership, Partitioned, Contents, ReadOut, Kept,
     PTL DEF Spec
=============================================================================
