------------------------------ MODULE Protocol ------------------------------
(***************************************************************************)
(* The requests and responses that a MessageU client and the MessageU      *)
(* server exchange, and how many partitions of BUFFER_PARTITION_SIZE bytes *)
(* each of them occupies on the wire (server/common.py, server/request.py, *)
(* server/response_handler.py and their C++ counterparts).  User names,    *)
(* keys and message contents are opaque values; a content is known by its  *)
(* length in bytes.                                                        *)
(***************************************************************************)
EXTENDS Integers, FiniteSetsExt, Ciphers

CONSTANTS
  ClientIds,      \* the UUIDs a client may carry
  UserNames,
  PublicKeys,
  MessageTypes,
  ContentSizes    \* lengths of the message contents that users send

ASSUME ContentSizesAssumption == ContentSizes \subseteq Nat

ASSUME CiphersAssumption == \A n \in ContentSizes : IsContentSize(n)

CLIENT_ID_BYTE_SIZE   == 16
USER_NAME_BYTE_SIZE   == 255
PUBLIC_KEY_BYTE_SIZE  == 160
MESSAGE_ID_BYTE_SIZE  == 4
BUFFER_PARTITION_SIZE == 1024

\* client id, version, request code and payload size
RequestHeaderSize == CLIENT_ID_BYTE_SIZE + 1 + 2 + 4

\* version, response code and payload size
ResponseHeaderSize == 1 + 2 + 4

\* the fields of SEND_MESSAGE that precede the content: client id, type, size
SendHeaderSize == RequestHeaderSize + CLIENT_ID_BYTE_SIZE + 1 + 4

\* The bytes that a parser unpacks from the first buffer of a request, at least
FieldsSize(r) ==
  CASE r.op = "REGISTER" ->
         RequestHeaderSize + USER_NAME_BYTE_SIZE + PUBLIC_KEY_BYTE_SIZE
    [] r.op = "GET_PUBLIC_KEY" -> RequestHeaderSize + CLIENT_ID_BYTE_SIZE
    [] r.op = "SEND_MESSAGE" -> SendHeaderSize
    [] OTHER -> RequestHeaderSize

\* const_size_of_message: client id, message id, type and content size
MessageHeaderSize == CLIENT_ID_BYTE_SIZE + MESSAGE_ID_BYTE_SIZE + 1 + 4

Partitions(bytes) ==
  (bytes + BUFFER_PARTITION_SIZE - 1) \div BUFFER_PARTITION_SIZE

-----------------------------------------------------------------------------
RegisterRequests ==
  [op: {"REGISTER"}, userName: UserNames, publicKey: PublicKeys]
ListClientsRequests == [op: {"LIST_CLIENTS"}, clientId: ClientIds]
GetPublicKeyRequests ==
  [op: {"GET_PUBLIC_KEY"}, clientId: ClientIds, destClientId: ClientIds]
SendMessageRequests ==
  [op: {"SEND_MESSAGE"}, clientId: ClientIds, destClientId: ClientIds,
   messageType: MessageTypes, contentSize: ContentSizes]
PullMessagesRequests == [op: {"PULL_MESSAGES"}, clientId: ClientIds]

Requests ==
  RegisterRequests \cup ListClientsRequests \cup GetPublicKeyRequests
    \cup SendMessageRequests \cup PullMessagesRequests

NoRequest == [op |-> "NONE"]

\* Mutant: the fields before the content are forgotten.
RequestPartitions_content(r) ==
  IF r.op = "SEND_MESSAGE" /\ r.contentSize > BUFFER_PARTITION_SIZE
    THEN Partitions(r.contentSize)
    ELSE 1

\* Only the content of a message makes a request longer than one partition.
RequestPartitions(r) ==
  IF r.op = "SEND_MESSAGE" /\ r.contentSize > BUFFER_PARTITION_SIZE - SendHeaderSize
    THEN Partitions(SendHeaderSize + r.contentSize)
    ELSE 1

-----------------------------------------------------------------------------
\* A row of the table "messages".  Its sender announced a content of size
\* bytes; the stored content is length bytes long, carried of them received
\* from the sender and the rest the zeros the buffer was created with.
Messages ==
  [id: Nat, toClient: ClientIds, fromClient: ClientIds, type: MessageTypes,
   size: Nat, length: Int, carried: Int]

ClientEntries == [id: ClientIds, userName: UserNames]

Responses ==
  [code: {"REGISTER_SUCCESS"}, clientId: ClientIds]
    \cup [code: {"LIST_CLIENTS_SUCCESS"}, clients: SUBSET ClientEntries]
    \cup [code: {"PUBLIC_KEY_SUCCESS"}, clientId: ClientIds, publicKey: PublicKeys]
    \cup [code: {"MESSAGE_SENT_SUCCESS"}, clientId: ClientIds, messageId: Nat]
    \cup [code: {"MESSAGES_PULLED_SUCCESS"}, messages: SUBSET Messages]
    \cup [code: {"GENERAL_SERVER_ERROR"}]

NoResponse == [code |-> "NONE"]
ErrorResponse == [code |-> "GENERAL_SERVER_ERROR"]

size_of_message(m) == m.length + MessageHeaderSize

SizeOf(rows) == MapThenSumSet(size_of_message, rows)

PayloadSize(rsp) ==
  CASE rsp.code = "REGISTER_SUCCESS" -> CLIENT_ID_BYTE_SIZE
    [] rsp.code = "LIST_CLIENTS_SUCCESS" ->
         Cardinality(rsp.clients) * (CLIENT_ID_BYTE_SIZE + USER_NAME_BYTE_SIZE)
    [] rsp.code = "PUBLIC_KEY_SUCCESS" -> CLIENT_ID_BYTE_SIZE + PUBLIC_KEY_BYTE_SIZE
    [] rsp.code = "MESSAGE_SENT_SUCCESS" -> CLIENT_ID_BYTE_SIZE + MESSAGE_ID_BYTE_SIZE
    [] rsp.code = "MESSAGES_PULLED_SUCCESS" -> SizeOf(rsp.messages)
    [] OTHER -> 0

ResponsePartitions(rsp) == Partitions(ResponseHeaderSize + PayloadSize(rsp))
=============================================================================
