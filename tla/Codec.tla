-------------------------------- MODULE Codec -------------------------------
(***************************************************************************)
(* One call byte by byte: how the client lays a request out in partitions  *)
(* and the server takes it apart, how the server packs a response and the  *)
(* client puts it together.  Ids are 16 bytes on the wire and a string of  *)
(* hexadecimal digits in the client.  Every recv() returns a whole         *)
(* partition here; Relay has the short ones.  Constants are those of       *)
(* Protocol, with bytes for their elements.                                *)
(***************************************************************************)
EXTENDS RequestParser, SequencesExt

CONSTANTS
  Contents,      \* the contents that clients send, as sequences of bytes
  MessageIds,    \* the ids that the server gives to messages
  ClientLists,   \* the lists of clients that the server may have to send
  MessageLists   \* the lists of messages that it may have to send

Bytes == 0 .. 255

\* The largest int: the client has the size of a request's payload in one, and shifts
\* the bytes that it receives as ints.  Above it the code is not modelled.
MaxNumber == 2147483647

\* An id in binary form, as UUID.bytes has it
IdBytes == [1 .. CLIENT_ID_BYTE_SIZE -> Bytes]

\* assertUserName: the byte after the name is a zero.  UserNames are those of them that
\* are UTF-8: decode() refuses others.
Names == {name \in Seq(1 .. 255) : Len(name) < USER_NAME_BYTE_SIZE}

ASSUME CodecAssumption ==
  /\ ClientIds \subseteq IdBytes
  /\ UserNames \subseteq Names
  /\ PublicKeys \subseteq [1 .. PUBLIC_KEY_BYTE_SIZE -> Bytes]
  /\ MessageTypes \subseteq Bytes
  /\ \A content \in Contents : content \in Seq(Bytes) /\ Len(content) + SendHeaderSize <= MaxNumber
  /\ MessageIds \subseteq 0 .. MaxNumber

VARIABLES
  request,       \* what the user's command asks for
  sent,          \* sentMessageContentPayload
  prepared,      \* the last call of prepareRequestBuffer was DONE
  up,            \* the partitions on their way to the server
  parsed,        \* the request as far as the server has parsed it
  served,        \* what the server answers, once it has parsed the request
  down,          \* the bytes on their way to the client
  response       \* the response as far as the client has parsed it

requestVars  == <<request, sent, prepared, up>>
responseVars == <<down, response>>
vars == <<requestVars, parsed, served, responseVars>>

CLIENT_VERSION == 2
SERVER_VERSION == 2

Zeros(n) == [i \in 1 .. n |-> 0]
Get(buffer, offset, n) == SubSeq(buffer, offset + 1, offset + n)

RequestCode ==
  [REGISTER |-> 1100, LIST_CLIENTS |-> 1101, GET_PUBLIC_KEY |-> 1102,
   SEND_MESSAGE |-> 1103, PULL_MESSAGES |-> 1104]

ResponseCode ==
  [REGISTER_SUCCESS |-> 2100, LIST_CLIENTS_SUCCESS |-> 2101,
   PUBLIC_KEY_SUCCESS |-> 2102, MESSAGE_SENT_SUCCESS |-> 2103,
   MESSAGES_PULLED_SUCCESS |-> 2104, GENERAL_SERVER_ERROR |-> 9000]

\* The offsets in a buffer, as the client counts them
VERSION_OFFSET      == CLIENT_ID_BYTE_SIZE
REQUEST_CODE_OFFSET == VERSION_OFFSET + 1
PAYLOAD_SIZE_OFFSET == REQUEST_CODE_OFFSET + 2
PAYLOAD_OFFSET      == PAYLOAD_SIZE_OFFSET + 4
PUBLIC_KEY_OFFSET   == PAYLOAD_OFFSET + USER_NAME_BYTE_SIZE
MESSAGE_TYPE_OFFSET == PAYLOAD_OFFSET + CLIENT_ID_BYTE_SIZE
CONTENT_SIZE_OFFSET == MESSAGE_TYPE_OFFSET + 1
CONTENT_OFFSET      == CONTENT_SIZE_OFFSET + 4
RESPONSE_PAYLOAD_OFFSET == 7

-----------------------------------------------------------------------------
\* The numbers and ids of both directions

\* What the bytes of a number are worth, the low one first: 8 bits more each
Weight == <<1, 256, 65536, 16777216>>

\* Mutant: the bytes are not masked.
parseNumIntoBuffer_unmasked(num, n) == [i \in 1 .. n |-> num \div Weight[i]]

parseNumIntoBuffer(num, n) == [i \in 1 .. n |-> (num \div Weight[i]) % 256]

\* No number has more than four bytes.
getNumFromBuffer(bytes) ==
  LET value(i) == IF i <= Len(bytes) THEN bytes[i] * Weight[i] ELSE 0
  IN  value(1) + value(2) + value(3) + value(4)

\* An id is the string of its digits.
parseClientId(id) == [i \in 1 .. CLIENT_ID_BYTE_SIZE |-> 16 * id[2 * i - 1] + id[2 * i]]

\* Mutant: a byte below 16 gets one digit.
getClientIdFromBuffer_bare(bytes) ==
  FlattenSeq([i \in 1 .. CLIENT_ID_BYTE_SIZE |->
    IF bytes[i] > 15 THEN <<bytes[i] \div 16, bytes[i] % 16>> ELSE <<bytes[i]>>])

getClientIdFromBuffer(bytes) ==
  FlattenSeq([i \in 1 .. CLIENT_ID_BYTE_SIZE |->
    IF bytes[i] > 15 THEN <<bytes[i] \div 16, bytes[i] % 16>> ELSE <<0, bytes[i]>>])

\* The reference: the 32 digits of an id
IdString(id) == [j \in 1 .. 2 * CLIENT_ID_BYTE_SIZE |->
  IF j % 2 = 1 THEN id[(j + 1) \div 2] \div 16 ELSE id[j \div 2] % 16]

-----------------------------------------------------------------------------
\* The client's requests

\* A client that registers has no id and sends this one.
fakeId ==
  <<12, 11, 1, 0, 13, 6, 15, 11, 5, 15, 13, 7, 4, 1, 15, 3,
    9, 11, 14, 4, 3, 11, 12, 3, 15, 0, 11, 7, 5, 6, 4, 12>>

Strings == {IdString(id) : id \in ClientIds}

MadeRequests ==
  [op: {"REGISTER"}, clientId: {fakeId}, userName: UserNames, publicKey: PublicKeys]
    \cup [op: {"LIST_CLIENTS", "PULL_MESSAGES"}, clientId: Strings]
    \cup [op: {"GET_PUBLIC_KEY"}, clientId: Strings, destClientId: Strings]
    \cup [op: {"SEND_MESSAGE"}, clientId: Strings, destClientId: Strings,
          messageType: MessageTypes, content: Contents]

payloadSize(r) ==
  CASE r.op = "REGISTER" -> USER_NAME_BYTE_SIZE + PUBLIC_KEY_BYTE_SIZE
    [] r.op = "GET_PUBLIC_KEY" -> CLIENT_ID_BYTE_SIZE
    [] r.op = "SEND_MESSAGE" -> CLIENT_ID_BYTE_SIZE + 1 + 4 + Len(r.content)
    [] OTHER -> 0

\* Bytes that are copied to an offset
At(offset, bytes) == [offset |-> offset, bytes |-> bytes]

Covers(f, i) == i > f.offset /\ i <= f.offset + Len(f.bytes)

\* A cleared buffer after the fields were copied into it one by one
Filled(fields) ==
  [i \in 1 .. BUFFER_PARTITION_SIZE |->
     LET last == SelectLastInSeq(fields, LAMBDA f : Covers(f, i))
     IN  IF last = 0 THEN 0 ELSE fields[last].bytes[i - fields[last].offset]]

parseHeaderIntoBuffer(r) ==
  <<At(0, parseClientId(r.clientId)),
    At(VERSION_OFFSET, parseNumIntoBuffer(CLIENT_VERSION, 1)),
    At(REQUEST_CODE_OFFSET, parseNumIntoBuffer(RequestCode[r.op], 2)),
    At(PAYLOAD_SIZE_OFFSET, parseNumIntoBuffer(payloadSize(r), 4))>>

bufferStartIndex(copied, offset) == IF copied # 0 THEN 0 ELSE offset

\* Mutant: the fields before the content are forgotten.
numOfBytesToWrite_whole(r) == AtMost(Len(r.content) - sent, BUFFER_PARTITION_SIZE)

\* Whole partitions while more is left than fits
numOfBytesToWrite(r) ==
  AtMost(Len(r.content) - sent, BUFFER_PARTITION_SIZE - bufferStartIndex(sent, CONTENT_OFFSET))

parseMessageContentIntoBuffer(r) ==
  <<At(bufferStartIndex(sent, CONTENT_OFFSET), Get(r.content, sent, numOfBytesToWrite(r)))>>

\* The fields that one call of prepareRequestBuffer writes
Fields(r) ==
  CASE r.op = "REGISTER" ->
         parseHeaderIntoBuffer(r) \o
         <<At(PAYLOAD_OFFSET, r.userName), At(PUBLIC_KEY_OFFSET, r.publicKey)>>
    [] r.op = "GET_PUBLIC_KEY" ->
         Append(parseHeaderIntoBuffer(r), At(PAYLOAD_OFFSET, parseClientId(r.destClientId)))
    [] r.op = "SEND_MESSAGE" /\ sent = 0 ->
         parseHeaderIntoBuffer(r) \o
         <<At(PAYLOAD_OFFSET, parseClientId(r.destClientId)),
           At(MESSAGE_TYPE_OFFSET, parseNumIntoBuffer(r.messageType, 1)),
           At(CONTENT_SIZE_OFFSET, parseNumIntoBuffer(Len(r.content), 4))>> \o
         parseMessageContentIntoBuffer(r)
    [] r.op = "SEND_MESSAGE" /\ sent > 0 -> parseMessageContentIntoBuffer(r)
    [] OTHER -> parseHeaderIntoBuffer(r)

\* The loop of HandleRequest that writes
prepareRequestBuffer ==
  /\ ~ prepared
  /\ up' = Append(up, Filled(Fields(request)))
  /\ IF request.op = "SEND_MESSAGE"
       THEN /\ sent' = sent + numOfBytesToWrite(request)
            /\ prepared' = (sent' = Len(request.content))
       ELSE prepared' = TRUE /\ UNCHANGED sent
  /\ UNCHANGED <<request, parsed, served, responseVars>>

-----------------------------------------------------------------------------
\* The server's parsers.  They add up the sizes of the fields themselves.

unpack(buffer, offset, n) == getNumFromBuffer(Get(buffer, offset, n))

\* user_name.decode().rstrip("\x00")
rstrip(bytes) == SubSeq(bytes, 1, SelectLastInSeq(bytes, LAMBDA x : x # 0))

InvalidRequest == [op |-> "INVALID"]

parse_header(b) ==
  [code |-> unpack(b, CLIENT_ID_BYTE_SIZE + 1, 2),
   payloadSize |-> unpack(b, CLIENT_ID_BYTE_SIZE + 1 + 2, 4)]

_content(b, q) ==
  LET n == number_of_bytes_to_read(q, q)
  IN  [q EXCEPT !.content = @ \o Get(b, request_buffer_start_index(q.index), n),
                !.index = @ + n]

\* The first buffer.  The size of the payload of SEND_MESSAGE is not checked.
parse_request(b) ==
  LET h      == parse_header(b)
      from   == Get(b, 0, CLIENT_ID_BYTE_SIZE)
      fields == RequestHeaderSize
  IN  CASE h.code = 1100 /\ h.payloadSize = USER_NAME_BYTE_SIZE + PUBLIC_KEY_BYTE_SIZE ->
             [op |-> "REGISTER", clientId |-> from,
              userName |-> rstrip(Get(b, fields, USER_NAME_BYTE_SIZE)),
              publicKey |-> Get(b, fields + USER_NAME_BYTE_SIZE, PUBLIC_KEY_BYTE_SIZE)]
        [] h.code = 1101 /\ h.payloadSize = 0 -> [op |-> "LIST_CLIENTS", clientId |-> from]
        [] h.code = 1102 /\ h.payloadSize = CLIENT_ID_BYTE_SIZE ->
             [op |-> "GET_PUBLIC_KEY", clientId |-> from,
              destClientId |-> Get(b, fields, CLIENT_ID_BYTE_SIZE)]
        [] h.code = 1103 ->
             _content(b, [op |-> "SEND_MESSAGE", clientId |-> from,
                          destClientId |-> Get(b, fields, CLIENT_ID_BYTE_SIZE),
                          messageType |-> unpack(b, fields + CLIENT_ID_BYTE_SIZE, 1),
                          contentSize |-> unpack(b, fields + CLIENT_ID_BYTE_SIZE + 1, 4),
                          index |-> 0, content |-> <<>>])
        [] h.code = 1104 /\ h.payloadSize = 0 -> [op |-> "PULL_MESSAGES", clientId |-> from]
        [] OTHER -> InvalidRequest

IsParsed(q) == q.op = "SEND_MESSAGE" => q.index = q.contentSize

\* What the server may answer
Answers(q) ==
  CASE q.op = "REGISTER" -> [code: {"REGISTER_SUCCESS"}, clientId: ClientIds]
    [] q.op = "LIST_CLIENTS" -> [code: {"LIST_CLIENTS_SUCCESS"}, clients: ClientLists]
    [] q.op = "GET_PUBLIC_KEY" ->
         [code: {"PUBLIC_KEY_SUCCESS"}, clientId: {q.destClientId}, publicKey: PublicKeys]
    [] q.op = "SEND_MESSAGE" ->
         [code: {"MESSAGE_SENT_SUCCESS"}, clientId: {q.destClientId}, messageId: MessageIds]
    [] q.op = "PULL_MESSAGES" -> [code: {"MESSAGES_PULLED_SUCCESS"}, messages: MessageLists]
    [] OTHER -> {}

\* The format "255s"
Padded(name) == name \o Zeros(USER_NAME_BYTE_SIZE - Len(name))

pack(num, n) == [i \in 1 .. n |-> (num \div Weight[i]) % 256]

_get_pack_data(rsp) ==
  CASE rsp.code = "REGISTER_SUCCESS" -> rsp.clientId
    [] rsp.code = "LIST_CLIENTS_SUCCESS" ->
         FlattenSeq([i \in DOMAIN rsp.clients |->
           rsp.clients[i].id \o Padded(rsp.clients[i].userName)])
    [] rsp.code = "PUBLIC_KEY_SUCCESS" -> rsp.clientId \o rsp.publicKey
    [] rsp.code = "MESSAGE_SENT_SUCCESS" -> rsp.clientId \o pack(rsp.messageId, 4)
    [] rsp.code = "MESSAGES_PULLED_SUCCESS" ->
         FlattenSeq([i \in DOMAIN rsp.messages |->
           LET m == rsp.messages[i]
           IN  m.fromClient \o pack(m.id, 4) \o pack(m.type, 1)
                 \o pack(Len(m.content), 4) \o m.content])
    [] OTHER -> <<>>

\* The rows of tables with a primary key
ListEntries == [id: IdBytes, userName: Names]
MailEntries ==
  [id: 0 .. MaxNumber, fromClient: IdBytes, type: Bytes, content: Seq(Bytes)]
HasKeys(rows) == \A i, j \in DOMAIN rows : rows[i].id = rows[j].id => i = j

ASSUME ListsAssumption ==
  /\ \A rows \in ClientLists :
       /\ rows \in Seq(ListEntries) /\ HasKeys(rows)
       /\ Len(_get_pack_data([code |-> "LIST_CLIENTS_SUCCESS", clients |-> rows])) <= MaxNumber
  /\ \A rows \in MessageLists :
       /\ rows \in Seq(MailEntries) /\ HasKeys(rows)
       /\ Len(_get_pack_data([code |-> "MESSAGES_PULLED_SUCCESS", messages |-> rows])) <= MaxNumber

_format_response(rsp) ==
  LET payload == _get_pack_data(rsp)
      data == pack(SERVER_VERSION, 1) \o pack(ResponseCode[rsp.code], 2)
                \o pack(Len(payload), 4) \o payload
  IN  data \o Zeros(BUFFER_PARTITION_SIZE * Partitions(Len(data)) - Len(data))

\* One recv(), and the response as soon as the request is complete.  What is done
\* with it in between may fail, which is answered by an error.
Recv ==
  /\ up # <<>> /\ served = NoResponse
  /\ up' = Tail(up)
  /\ parsed' = IF parsed = NoRequest THEN parse_request(Head(up)) ELSE _content(Head(up), parsed)
  /\ \/ ~ IsParsed(parsed') /\ UNCHANGED <<served, down>>
     \/ /\ IsParsed(parsed')
        /\ served' \in Answers(parsed') \cup {ErrorResponse}
        /\ down' = _format_response(served')
  /\ UNCHANGED <<request, sent, prepared, response>>

-----------------------------------------------------------------------------
\* The client's responses

NotCreated == [status |-> "none"]
Raised == [status |-> "raised"]

\* CreateServerResponseInstance
Created(b) ==
  LET code == getNumFromBuffer(Get(b, 1, 2))
      size == getNumFromBuffer(Get(b, 3, 4))
      Is(name) == ResponseCode[name] = code
      entry == CLIENT_ID_BYTE_SIZE + USER_NAME_BYTE_SIZE
  IN  IF \/ \A name \in DOMAIN ResponseCode : ~ Is(name)
         \/ Is("LIST_CLIENTS_SUCCESS") /\ size % entry # 0
        THEN Raised
        ELSE [status |-> "partitions", size |-> size, payload |-> <<>>, list |-> <<>>,
              code |-> CHOOSE name \in DOMAIN ResponseCode : Is(name)]

IsBig(rsp) == rsp.code \in {"LIST_CLIENTS_SUCCESS", "MESSAGES_PULLED_SUCCESS"}

\* The sizes that assertPayloadSize expects
ExpectedSize ==
  [REGISTER_SUCCESS |-> CLIENT_ID_BYTE_SIZE,
   PUBLIC_KEY_SUCCESS |-> CLIENT_ID_BYTE_SIZE + PUBLIC_KEY_BYTE_SIZE,
   MESSAGE_SENT_SUCCESS |-> CLIENT_ID_BYTE_SIZE + MESSAGE_ID_BYTE_SIZE,
   GENERAL_SERVER_ERROR |-> 0]

\* The item that the only buffer of a small response holds
SmallItem(rsp, b) ==
  LET id    == getClientIdFromBuffer(Get(b, RESPONSE_PAYLOAD_OFFSET, CLIENT_ID_BYTE_SIZE))
      after == RESPONSE_PAYLOAD_OFFSET + CLIENT_ID_BYTE_SIZE
  IN  CASE rsp.code = "REGISTER_SUCCESS" -> <<id>>
        [] rsp.code = "PUBLIC_KEY_SUCCESS" -> <<id, Get(b, after, PUBLIC_KEY_BYTE_SIZE)>>
        [] rsp.code = "MESSAGE_SENT_SUCCESS" ->
             <<id, getNumFromBuffer(Get(b, after, MESSAGE_ID_BYTE_SIZE))>>
        [] OTHER -> <<>>

\* Mutant: every buffer is taken to have a header.
numOfBytesToCopy_header(rsp) ==
  AtMost(rsp.size - Len(rsp.payload), BUFFER_PARTITION_SIZE - RESPONSE_PAYLOAD_OFFSET)

numOfBytesToCopy(rsp) ==
  AtMost(rsp.size - Len(rsp.payload),
         BUFFER_PARTITION_SIZE - bufferStartIndex(Len(rsp.payload), RESPONSE_PAYLOAD_OFFSET))

BigPayload(rsp, b) ==
  LET start == bufferStartIndex(Len(rsp.payload), RESPONSE_PAYLOAD_OFFSET)
      copied == rsp.payload \o Get(b, start, numOfBytesToCopy(rsp))
  IN  [rsp EXCEPT !.payload = copied,
                  !.status = CASE rsp.size = 0 -> "done"
                               [] rsp.size # 0 /\ Len(copied) = rsp.size -> "list"
                               [] OTHER -> "partitions"]

parsePayload(rsp, b) ==
  CASE rsp = Raised -> Raised
    [] rsp # Raised /\ IsBig(rsp) -> BigPayload(rsp, b)
    [] rsp # Raised /\ ~ IsBig(rsp) ->
         IF rsp.size = ExpectedSize[rsp.code]
           THEN [rsp EXCEPT !.status = "done", !.list = SmallItem(rsp, b)]
           ELSE Raised

\* The loop of HandleRequest that reads
ReadPartition ==
  /\ prepared /\ down # <<>>
  /\ response.status \in {"none", "partitions"}
  /\ LET b == Get(down, 0, BUFFER_PARTITION_SIZE)
     IN  response' = parsePayload(IF response = NotCreated THEN Created(b) ELSE response, b)
  /\ down' = SubSeq(down, BUFFER_PARTITION_SIZE + 1, Len(down))
  /\ UNCHANGED <<requestVars, parsed, served>>

\* clientName.c_str(): what comes before the first zero
CString(bytes) ==
  LET zero == SelectInSeq(bytes, LAMBDA x : x = 0)
  IN  IF zero = 0 THEN bytes ELSE SubSeq(bytes, 1, zero - 1)

\* The payload that is not parsed yet stays in the record.
Item(item, n) ==
  LET rest == SubSeq(response.payload, n + 1, Len(response.payload))
  IN  response' = [response EXCEPT !.list = Append(@, item), !.payload = rest,
                                   !.status = IF rest = <<>> THEN "done" ELSE "list"]

\* One turn of parseDataList of ListClientsSuccessResponse
ParseClient ==
  /\ response.status = "list"
  /\ response.code = "LIST_CLIENTS_SUCCESS"
  /\ Item([clientId |-> getClientIdFromBuffer(response.payload),
           clientName |-> CString(Get(response.payload, CLIENT_ID_BYTE_SIZE, USER_NAME_BYTE_SIZE))],
          CLIENT_ID_BYTE_SIZE + USER_NAME_BYTE_SIZE)
  /\ UNCHANGED <<requestVars, parsed, served, down>>

\* One turn of parseDataList of PullMessagesSuccessResponse
ParseMessage ==
  /\ response.status = "list"
  /\ response.code = "MESSAGES_PULLED_SUCCESS"
  /\ LET p == response.payload
         size == getNumFromBuffer(Get(p, CLIENT_ID_BYTE_SIZE + MESSAGE_ID_BYTE_SIZE + 1, 4))
     IN  IF Len(p) < MessageHeaderSize \/ Len(p) < MessageHeaderSize + size
           THEN response' = Raised
           ELSE Item([clientId |-> getClientIdFromBuffer(p),
                      messageId |-> getNumFromBuffer(Get(p, CLIENT_ID_BYTE_SIZE, MESSAGE_ID_BYTE_SIZE)),
                      messageType |-> getNumFromBuffer(
                        Get(p, CLIENT_ID_BYTE_SIZE + MESSAGE_ID_BYTE_SIZE, 1)),
                      content |-> Get(p, MessageHeaderSize, size)],
                     MessageHeaderSize + size)
  /\ UNCHANGED <<requestVars, parsed, served, down>>

-----------------------------------------------------------------------------
Init ==
  /\ request \in MadeRequests
  /\ sent = 0 /\ prepared = FALSE /\ up = <<>>
  /\ parsed = NoRequest /\ served = NoResponse
  /\ down = <<>> /\ response = NotCreated

Next == prepareRequestBuffer \/ Recv \/ ReadPartition \/ ParseClient \/ ParseMessage

Spec == Init /\ [][Next]_vars

-----------------------------------------------------------------------------
TypeOK ==
  /\ request \in MadeRequests
  /\ sent \in Nat /\ prepared \in BOOLEAN
  /\ \A i \in DOMAIN up : up[i] \in [1 .. BUFFER_PARTITION_SIZE -> Bytes]
  /\ Range(down) \subseteq Bytes

\* The request that the server has parsed is the one that the client made: no
\* field is cut, shifted or filled from its neighbour, and no byte of a content is
\* lost or repeated where one partition ends and the next begins.
RequestIntact ==
  served # NoResponse =>
    /\ parsed.op = request.op
    /\ IdString(parsed.clientId) = request.clientId
    /\ "userName" \in DOMAIN request =>
         parsed.userName = request.userName /\ parsed.publicKey = request.publicKey
    /\ "destClientId" \in DOMAIN request => IdString(parsed.destClientId) = request.destClientId
    /\ "content" \in DOMAIN request =>
         parsed.messageType = request.messageType /\ parsed.content = request.content

\* The list, or the item, that the user is shown for an answer of the server
Shown(rsp) ==
  CASE rsp.code = "REGISTER_SUCCESS" -> <<IdString(rsp.clientId)>>
    [] rsp.code = "PUBLIC_KEY_SUCCESS" -> <<IdString(rsp.clientId), rsp.publicKey>>
    [] rsp.code = "MESSAGE_SENT_SUCCESS" -> <<IdString(rsp.clientId), rsp.messageId>>
    [] rsp.code = "LIST_CLIENTS_SUCCESS" ->
         [i \in DOMAIN rsp.clients |->
            [clientId |-> IdString(rsp.clients[i].id), clientName |-> rsp.clients[i].userName]]
    [] rsp.code = "MESSAGES_PULLED_SUCCESS" ->
         [i \in DOMAIN rsp.messages |->
            [clientId |-> IdString(rsp.messages[i].fromClient), messageId |-> rsp.messages[i].id,
             messageType |-> rsp.messages[i].type, content |-> rsp.messages[i].content]]
    [] OTHER -> <<>>

\* The client never throws a response of the server away, and what it has parsed in
\* the end is what the server answered, wherever the partitions cut it.
ResponseIntact ==
  response # NotCreated =>
    /\ response # Raised
    /\ response.code = served.code
    /\ response.status = "done" => response.list = Shown(served)

\* The call as Relay knows it
RelayRequest ==
  IF request.op = "SEND_MESSAGE"
    THEN [op |-> "SEND_MESSAGE", contentSize |-> Len(request.content)]
    ELSE [op |-> request.op]

RelayResponse ==
  CASE served.code = "LIST_CLIENTS_SUCCESS" ->
         [code |-> served.code, clients |-> Range(served.clients)]
    [] served.code = "MESSAGES_PULLED_SUCCESS" ->
         [code |-> served.code,
          messages |-> {[id |-> m.id, length |-> Len(m.content)] : m \in Range(served.messages)}]
    [] OTHER -> served

\* Client and server agree on the number of partitions of each message, although
\* each counts for itself, and Relay counts as they do: the server has parsed the
\* request with the last partition that the client prepares, and the client the
\* response with the last one that the server sends.
PartitionsAgree ==
  /\ served # NoResponse => prepared /\ up = <<>>
  /\ prepared /\ served = NoResponse => up # <<>>
  /\ Len(up) <= RequestPartitions(RelayRequest)
  /\ served # NoResponse /\ response = NotCreated =>
       Len(down) = BUFFER_PARTITION_SIZE * ResponsePartitions(RelayResponse)
  /\ response \notin {NotCreated, Raised} =>
       (response.status = "partitions" <=> down # <<>>)
=============================================================================
