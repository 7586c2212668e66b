------------------------ MODULE RelayOwnershipProofs ------------------------
(***************************************************************************)
(* Proofs about calls, connections and accounts for all values of the      *)
(* constants: a connection belongs to one call, whoever abandoned it       *)
(* before, and an account to one process.                                  *)
(***************************************************************************)
EXTENDS RelayInvariants, RelayProofs

\* What each use of a socket does to its record
LEMMA ConnFields ==
  ASSUME NEW k \in ConnRecords
  PROVE  /\ \A r \in Requests :
              /\ Connected(r).peer /\ Connected(r).end = "backlog"
              /\ Connected(r).request = r /\ Connected(r).up = 0
              /\ Connected(r).response = NoResponse /\ Connected(r).down = 0
         /\ AcceptedConn(k) = [k EXCEPT !.end = "accepted"]
         /\ Written(k) = [k EXCEPT !.up = k.up + 1024]
         /\ \A n \in Int : Consumed(k, n) = [k EXCEPT !.up = k.up - n]
         /\ Read(k) = [k EXCEPT !.down = k.down - 1]
         /\ \A rsp \in Responses \cup {NoResponse} :
              /\ ~ k.peer => Sent(k, rsp) = k
              /\ k.peer => /\ Sent(k, rsp).response = rsp
                           /\ Sent(k, rsp).down = k.down + 1
              /\ Sent(k, rsp).peer = k.peer /\ Sent(k, rsp).end = k.end
              /\ Sent(k, rsp).request = k.request /\ Sent(k, rsp).up = k.up
<1>1. \A r \in Requests :
              /\ Connected(r).peer /\ Connected(r).end = "backlog"
              /\ Connected(r).request = r /\ Connected(r).up = 0
              /\ Connected(r).response = NoResponse /\ Connected(r).down = 0
  BY DEF Connected, FreeConn
<1>2. /\ AcceptedConn(k) = [k EXCEPT !.end = "accepted"]
      /\ Written(k) = [k EXCEPT !.up = k.up + 1024]
      /\ \A n \in Int : Consumed(k, n) = [k EXCEPT !.up = k.up - n]
      /\ Read(k) = [k EXCEPT !.down = k.down - 1]
  BY DEF AcceptedConn, Written, Consumed, Read, BUFFER_PARTITION_SIZE, ConnRecords
<1>3. \A rsp \in Responses \cup {NoResponse} :
              /\ ~ k.peer => Sent(k, rsp) = k
              /\ k.peer => /\ Sent(k, rsp).response = rsp
                           /\ Sent(k, rsp).down = k.down + 1
              /\ Sent(k, rsp).peer = k.peer /\ Sent(k, rsp).end = k.end
              /\ Sent(k, rsp).request = k.request /\ Sent(k, rsp).up = k.up
  BY DEF Sent, ConnRecords
<1>4. QED
  BY <1>1, <1>2, <1>3

\* What either end's close() leaves
LEMMA ClosedFields ==
  ASSUME NEW k \in ConnRecords
  PROVE  /\ FreeConn.end = "none" /\ ~ FreeConn.peer /\ FreeConn.request = NoRequest
         /\ FreeConn.response = NoResponse /\ FreeConn.down = 0 /\ FreeConn.up = 0
         /\ ~ ClosedByClient(k).peer
         /\ ClosedByClient(k).response = NoResponse /\ ClosedByClient(k).down = 0
         /\ IF k.end = "closed"
              THEN ClosedByClient(k) = FreeConn
              ELSE /\ ClosedByClient(k).end = k.end
                   /\ ClosedByClient(k).request = k.request
                   /\ ClosedByClient(k).up = k.up
         /\ IF k.peer
              THEN ClosedByServer(k) = [k EXCEPT !.end = "closed"]
              ELSE ClosedByServer(k) = FreeConn
<1>1. /\ FreeConn.end = "none" /\ ~ FreeConn.peer /\ FreeConn.request = NoRequest
      /\ FreeConn.response = NoResponse /\ FreeConn.down = 0 /\ FreeConn.up = 0
  BY DEF FreeConn
<1>2. CASE k.end = "closed"
  BY <1>1, <1>2 DEF ClosedByClient, ClosedByServer
<1>3. CASE k.end # "closed"
  BY <1>1, <1>3 DEF ClosedByClient, ClosedByServer, ConnRecords
<1>4. QED
  BY <1>1, <1>2, <1>3

-----------------------------------------------------------------------------
\* The server's use of a connection, other than sending: k becomes j.
Open == {"backlog", "accepted"}

ServerUse(k, j) ==
  /\ \/ j = k
     \/ j = FreeConn /\ ~ k.peer
     \/ /\ k.end # "none" /\ j.end # "none"
        /\ j.peer = k.peer /\ j.request = k.request
        /\ j.response = k.response /\ j.down = k.down
  /\ j.end \in Open => k.end \in Open
  /\ j.end = "backlog" => k.end = "backlog"

\* Every step of the server but a send leaves each connection as it was, frees it
\* once both ends are closed, or changes its own end and what it has read only.
LEMMA ServerUses ==
  ASSUME IInv, Server, ~ SendPartition, NEW c \in Conns
  PROVE  ServerUse(conn[c], conn'[c])
<1>1. conn \in [Conns -> ConnRecords] /\ conn[c] \in ConnRecords
  BY DEF IInv, TypeOK, SocketsTypeOK
<1>2. CASE UNCHANGED conn
  BY <1>2 DEF ServerUse
<1>3. ASSUME NEW d \in Conns, conn[d].end \in Open,
             \/ conn' = [conn EXCEPT ![d] = AcceptedConn(conn[d])]
             \/ \E n \in Int : conn' = [conn EXCEPT ![d] = Consumed(conn[d], n)]
             \/ conn' = [conn EXCEPT ![d] = ClosedByServer(conn[d])]
      PROVE  ServerUse(conn[c], conn'[c])
  <2>1. CASE c = d
    <3>1. \/ conn'[c] = [conn[c] EXCEPT !.end = "accepted"]
          \/ \E n \in Int : conn'[c] = [conn[c] EXCEPT !.up = conn[c].up - n]
          \/ conn[c].peer /\ conn'[c] = [conn[c] EXCEPT !.end = "closed"]
          \/ ~ conn[c].peer /\ conn'[c] = FreeConn
      BY <1>1, <1>3, <2>1, ConnFields, ClosedFields
    <3>2. QED
      BY <1>1, <1>3, <2>1, <3>1, ClosedFields DEF ServerUse, Open, ConnRecords
  <2>2. CASE c # d
    BY <1>1, <1>3, <2>2 DEF ServerUse
  <2>3. QED
    BY <2>1, <2>2
<1>4. CASE _accept
  <2>1. PICK d \in Conns : d = Head(backlog) /\ conn[d].end = "backlog"
    BY <1>4 DEF _accept, IInv, BacklogInv, TypeOK, SocketsTypeOK
  <2>2. conn' = [conn EXCEPT ![d] = AcceptedConn(conn[d])]
    BY <1>1, <1>4, <2>1 DEF _accept
  <2>3. QED
    BY <1>3, <2>1, <2>2 DEF Open
<1>5. CASE RecvBuffer
  <2>1. Current \in Conns /\ conn[Current].end = "accepted" /\ conn[Current] \in ConnRecords
    BY <1>5, RunningSession DEF RecvBuffer
  <2>2. PICK size \in RecvSizes : conn' = [conn EXCEPT ![Current] = Consumed(@, size)]
    BY <1>5 DEF RecvBuffer
  <2>3. size \in Int
    <3>1. conn[Current].up \in Int
      BY <2>1 DEF ConnRecords
    <3>2. \A n \in ShortReads : n \in Int
      BY ShortReadsAssumption
    <3>3. QED
      BY <3>1, <3>2 DEF RecvSizes, AtMost, BUFFER_PARTITION_SIZE
  <2>4. conn' = [conn EXCEPT ![Current] = Consumed(conn[Current], size)]
    BY <1>1, <2>1, <2>2
  <2>5. QED
    BY <1>3, <2>1, <2>3, <2>4 DEF Open
<1>6. CASE CloseSession
  <2>1. Current \in Conns /\ conn[Current].end = "accepted"
    BY <1>6, RunningSession DEF CloseSession
  <2>2. conn' = [conn EXCEPT ![Current] = ClosedByServer(conn[Current])]
    BY <1>1, <1>6, <2>1 DEF CloseSession
  <2>3. QED
    BY <1>3, <2>1, <2>2 DEF Open
<1>7. CASE RestartServer
  <2>1. CASE IsOpen(c)
    <3>1. \/ conn[c].peer /\ conn'[c] = [conn[c] EXCEPT !.end = "closed"]
          \/ ~ conn[c].peer /\ conn'[c] = FreeConn
      BY <1>1, <1>7, <2>1, ClosedFields DEF RestartServer
    <3>2. QED
      BY <1>1, <2>1, <3>1, ClosedFields DEF ServerUse, Open, IsOpen, ConnRecords
  <2>2. CASE ~ IsOpen(c)
    BY <1>7, <2>2 DEF RestartServer, ServerUse
  <2>3. QED
    BY <2>1, <2>2
<1>8. CASE \/ Select \/ \E d \in Conns : BeginSession(d)
           \/ RecvEof \/ RecvError \/ PreRequest \/ HandleRefused
           \/ HandleRegister \/ HandleListClients \/ HandleGetPublicKey
           \/ HandleSendMessage \/ HandlePullMessages
           \/ SendError \/ _after_send_process
  <2>1. UNCHANGED conn
    BY <1>8 DEF Select, BeginSession, RecvEof, RecvError, PreRequest, HandleRefused, Handle,
       HandleRegister, HandleListClients, HandleGetPublicKey, HandleSendMessage,
       HandlePullMessages, SendError, _after_send_process, socketVars
  <2>2. QED
    BY <1>2, <2>1
<1>9. QED
  BY <1>4, <1>5, <1>6, <1>7, <1>8 DEF Server, ServerStep

\* A send changes the connection of the session only.
LEMMA SendUses ==
  ASSUME IInv, SendPartition
  PROVE  /\ session.pc = "send" /\ Current \in Conns /\ conn[Current] \in ConnRecords
         /\ conn[Current].end = "accepted"
         /\ session.response \in Responses \cup {NoResponse}
         /\ conn'[Current] = Sent(conn[Current], session.response)
         /\ \A c \in Conns \ {Current} : conn'[c] = conn[c]
         /\ session'.conn = session.conn /\ session'.response = session.response
         /\ session.sent \in Nat /\ session'.sent = session.sent + 1
         /\ session'.pc = IF session.sent + 1 = ResponsePartitions(session.response)
                            THEN "after" ELSE "send"
         /\ UNCHANGED storageVars
<1>1. conn \in [Conns -> ConnRecords] /\ session \in Sessions
  BY DEF IInv, TypeOK, SocketsTypeOK, ServerTypeOK
<1>2. /\ session.pc = "send" /\ Current \in Conns
      /\ conn[Current].end = "accepted"
  BY RunningSession DEF SendPartition
<1>3. session.response \in Responses \cup {NoResponse} /\ session.sent \in Nat
  BY <1>1 DEF Sessions
<1>4. /\ session'.conn = session.conn /\ session'.response = session.response
      /\ session'.sent = session.sent + 1
      /\ session'.pc = IF session.sent + 1 = ResponsePartitions(session.response)
                         THEN "after" ELSE "send"
  BY <1>1 DEF SendPartition, Sessions
<1>5. conn' = [conn EXCEPT ![Current] = Sent(conn[Current], session.response)]
  BY <1>1, <1>2 DEF SendPartition
<1>6. QED
  BY <1>1, <1>2, <1>3, <1>4, <1>5 DEF SendPartition

-----------------------------------------------------------------------------
\* The request r that p may make: to register, or in its own name
OwnRequest(p, r) ==
  IF r.op = "REGISTER"
    THEN myInfo[p] = NoInfo
    ELSE myInfo[p] # NoInfo /\ r.clientId = myInfo[p].clientId

\* Every command of a user connects with a request of its own.
LEMMA CommandConnects ==
  ASSUME IInv, NEW p \in Processes, UserCommand(p)
  PROVE  \E r \in Requests : OwnRequest(p, r) /\ Connect(p, r)
<1>1. myInfo[p] # NoInfo => myInfo[p].clientId \in ClientIds
  BY DEF IInv, TypeOK, ClientTypeOK, Identities
<1>2. \A to \in Contacts(p) : to \in ClientIds
  BY OldContactsAssumption DEF Contacts, IInv, TypeOK, StorageTypeOK, ClientRows
<1>3. CASE RegisterUserCommand(p)
  <2>1. PICK name \in UserNames, key \in PublicKeys :
          Connect(p, [op |-> "REGISTER", userName |-> name, publicKey |-> key])
    BY <1>3 DEF RegisterUserCommand
  <2> DEFINE r == [op |-> "REGISTER", userName |-> name, publicKey |-> key]
  <2>2. r \in Requests /\ OwnRequest(p, r)
    BY <1>3 DEF RegisterUserCommand, Requests, RegisterRequests, OwnRequest
  <2>3. QED
    BY <2>1, <2>2
<1>4. CASE ClientsListUserCommand(p)
  <2> DEFINE r == [op |-> "LIST_CLIENTS", clientId |-> myInfo[p].clientId]
  <2>1. r \in Requests /\ OwnRequest(p, r)
    BY <1>1, <1>4 DEF ClientsListUserCommand, Requests, ListClientsRequests, OwnRequest
  <2>2. QED
    BY <1>4, <2>1 DEF ClientsListUserCommand
<1>5. CASE RequestPublicKeyUserCommand(p)
  <2>1. PICK to \in Contacts(p) :
          Connect(p, [op |-> "GET_PUBLIC_KEY", clientId |-> myInfo[p].clientId,
                      destClientId |-> to])
    BY <1>5 DEF RequestPublicKeyUserCommand
  <2> DEFINE r == [op |-> "GET_PUBLIC_KEY", clientId |-> myInfo[p].clientId,
                   destClientId |-> to]
  <2>2. r \in Requests /\ OwnRequest(p, r)
    BY <1>1, <1>2, <1>5
       DEF RequestPublicKeyUserCommand, Requests, GetPublicKeyRequests, OwnRequest
  <2>3. QED
    BY <2>1, <2>2
<1>6. CASE SendMessageUserCommand(p)
  <2>1. PICK to \in Contacts(p), type \in MessageTypes, size \in ContentSizes :
          Connect(p, [op |-> "SEND_MESSAGE", clientId |-> myInfo[p].clientId,
                      destClientId |-> to, messageType |-> type, contentSize |-> size])
    BY <1>6 DEF SendMessageUserCommand
  <2> DEFINE r == [op |-> "SEND_MESSAGE", clientId |-> myInfo[p].clientId,
                   destClientId |-> to, messageType |-> type, contentSize |-> size]
  <2>2. r \in Requests /\ OwnRequest(p, r)
    BY <1>1, <1>2, <1>6
       DEF SendMessageUserCommand, Requests, SendMessageRequests, OwnRequest
  <2>3. QED
    BY <2>1, <2>2
<1>7. CASE RequestWaitingMessagesUserCommand(p)
  <2> DEFINE r == [op |-> "PULL_MESSAGES", clientId |-> myInfo[p].clientId]
  <2>1. r \in Requests /\ OwnRequest(p, r)
    BY <1>1, <1>7
       DEF RequestWaitingMessagesUserCommand, Requests, PullMessagesRequests, OwnRequest
  <2>2. QED
    BY <1>7, <2>1 DEF RequestWaitingMessagesUserCommand
<1>8. QED
  BY <1>3, <1>4, <1>5, <1>6, <1>7 DEF UserCommand

\* connect() takes a free connection, and leaves the other calls alone.
LEMMA ConnectUses ==
  ASSUME IInv, NEW p \in Processes, NEW r \in Requests, Connect(p, r)
  PROVE  /\ ~ InCall(p)
         /\ UNCHANGED <<myInfo, acked, received, aborts>>
         /\ \A q \in Processes \ {p} : call'[q] = call[q]
         /\ \E c \in Conns :
              /\ conn[c] = FreeConn
              /\ conn'[c] = Connected(r)
              /\ \A d \in Conns \ {c} : conn'[d] = conn[d]
              /\ call'[p] = [phase |-> "open", conn |-> c, wrote |-> 0, read |-> 0]
              /\ backlog' = Append(backlog, c)
<1>1. conn \in [Conns -> ConnRecords] /\ call \in [Processes -> Calls]
  BY DEF IInv, TypeOK, SocketsTypeOK, ClientTypeOK
<1>2. QED
  BY <1>1 DEF Connect, IsFree

\* A call that writes, or reads a partition that is not the last, keeps its
\* connection; what it reads no longer waits.
LEMMA CallGoesOn ==
  ASSUME IInv, NEW p \in Processes, WritePartition(p) \/ ReadPartition(p)
  PROVE  /\ InCall(p) /\ ConnOf(p) \in Conns /\ conn[ConnOf(p)] \in ConnRecords
         /\ call'[p] # NoCall /\ call'[p].conn = ConnOf(p)
         /\ call[p].read \in Nat /\ call'[p].read \in Nat
         /\ \/ WritePartition(p) /\ conn'[ConnOf(p)] = Written(conn[ConnOf(p)])
               /\ call'[p].read = call[p].read /\ call'[p].wrote = call[p].wrote + 1
            \/ ReadPartition(p) /\ conn'[ConnOf(p)] = Read(conn[ConnOf(p)])
               /\ call'[p].read = call[p].read + 1 /\ call'[p].wrote = call[p].wrote
               /\ conn[ConnOf(p)].down > 0
         /\ \A d \in Conns \ {ConnOf(p)} : conn'[d] = conn[d]
         /\ \A q \in Processes \ {p} : call'[q] = call[q]
         /\ UNCHANGED <<backlog, myInfo, acked, received, aborts>>
<1>1. conn \in [Conns -> ConnRecords] /\ call \in [Processes -> Calls]
  BY DEF IInv, TypeOK, SocketsTypeOK, ClientTypeOK
<1>2. InCall(p)
  BY DEF WritePartition, ReadPartition, ResponseArriving
<1>3. /\ call[p] \in [phase: {"open"}, conn: Conns, wrote: Nat, read: Nat]
      /\ ConnOf(p) \in Conns /\ conn[ConnOf(p)] \in ConnRecords
  BY <1>2, CallFacts
<1>4. PICK c \in Conns : c = ConnOf(p) /\ c = call[p].conn
  BY <1>3 DEF ConnOf
<1>5. CASE WritePartition(p)
  <2>1. call'[p] = [call[p] EXCEPT !.wrote = call[p].wrote + 1]
    BY <1>1, <1>3, <1>5 DEF WritePartition
  <2>2. conn'[c] = Written(conn[c]) /\ \A d \in Conns \ {c} : conn'[d] = conn[d]
    BY <1>1, <1>4, <1>5 DEF WritePartition
  <2>3. call'[p].phase = "open" /\ call'[p].conn = c /\ call'[p].read = call[p].read
          /\ call'[p].wrote = call[p].wrote + 1
    BY <1>3, <1>4, <2>1
  <2>4. UNCHANGED <<backlog, myInfo, acked, received, aborts>>
          /\ \A q \in Processes \ {p} : call'[q] = call[q]
    BY <1>1, <1>5 DEF WritePartition
  <2>5. QED
    BY <1>2, <1>3, <1>4, <1>5, <2>2, <2>3, <2>4 DEF NoCall
<1>6. CASE ReadPartition(p)
  <2>1. call'[p] = [call[p] EXCEPT !.read = call[p].read + 1]
    BY <1>1, <1>3, <1>6 DEF ReadPartition
  <2>2. conn'[c] = Read(conn[c]) /\ \A d \in Conns \ {c} : conn'[d] = conn[d]
    BY <1>1, <1>4, <1>6 DEF ReadPartition
  <2>3. call'[p].phase = "open" /\ call'[p].conn = c /\ call'[p].read = call[p].read + 1
          /\ call'[p].wrote = call[p].wrote
    BY <1>3, <1>4, <2>1
  <2>4. UNCHANGED <<backlog, myInfo, acked, received, aborts>> /\ conn[c].down > 0
          /\ \A q \in Processes \ {p} : call'[q] = call[q]
    BY <1>1, <1>4, <1>6 DEF ReadPartition, ResponseArriving
  <2>5. QED
    BY <1>2, <1>3, <1>4, <1>6, <2>2, <2>3, <2>4 DEF NoCall
<1>7. QED
  BY <1>5, <1>6

\* A call ends by closing the client's end of its connection.
LEMMA CallEnds ==
  ASSUME IInv, NEW p \in Processes,
         ReadLastPartition(p) \/ FailCall(p) \/ AbortCall(p)
  PROVE  /\ InCall(p) /\ ConnOf(p) \in Conns /\ conn[ConnOf(p)] \in ConnRecords
         /\ call'[p] = NoCall
         /\ conn'[ConnOf(p)] = ClosedByClient(conn[ConnOf(p)])
         /\ \A d \in Conns \ {ConnOf(p)} : conn'[d] = conn[d]
         /\ \A q \in Processes \ {p} : call'[q] = call[q]
<1>1. conn \in [Conns -> ConnRecords] /\ call \in [Processes -> Calls]
  BY DEF IInv, TypeOK, SocketsTypeOK, ClientTypeOK
<1>2. InCall(p)
  BY DEF ReadLastPartition, FailCall, AbortCall, ResponseArriving
<1>3. ConnOf(p) \in Conns /\ conn[ConnOf(p)] \in ConnRecords
  BY <1>2, CallFacts
<1>4. /\ conn' = [conn EXCEPT ![ConnOf(p)] = ClosedByClient(@)]
      /\ call' = [call EXCEPT ![p] = NoCall]
  BY DEF ReadLastPartition, FailCall, AbortCall
<1>5. QED
  BY <1>1, <1>2, <1>3, <1>4

\* Any step is one of the server's, one of a client's, or none.
LEMMA StepCases ==
  ASSUME IInv, [Next]_vars
  PROVE  \/ Server
         \/ \E p \in Processes :
              /\ UNCHANGED <<storageVars, serverVars>>
              /\ \/ \E r \in Requests : OwnRequest(p, r) /\ Connect(p, r)
                 \/ WritePartition(p) \/ ReadPartition(p)
                 \/ ReadLastPartition(p) \/ FailCall(p) \/ AbortCall(p)
         \/ UNCHANGED <<storageVars, socketVars, serverVars, clientVars>>
BY CommandConnects DEF Next, ClientStep, CallStep, vars

-----------------------------------------------------------------------------
\* Whose a connection is

LEMMA InitOwnership == Init => OwnershipInv
<1> SUFFICES ASSUME Init PROVE OwnershipInv
  OBVIOUS
<1>1. \A c \in Conns : conn[c] = FreeConn
  BY DEF Init, SocketsInit
<1>2. \A c \in Conns : HeldOrAbandoned(c) /\ FromOwner(conn[c])
  BY <1>1 DEF HeldOrAbandoned, FromOwner, FreeConn
<1>3. \A p \in Processes : ~ InCall(p)
  BY DEF Init, ClientInit, InCall
<1>4. QED
  BY <1>2, <1>3 DEF OwnershipInv, CallsInv

\* The server keeps its end of a connection whose client has not closed, and
\* its request; what it does with an abandoned one is read by nobody.
LEMMA ServerOwnership ==
  ASSUME IInv, OwnershipInv, Server
  PROVE  OwnershipInv'
<1> DEFINE Kept(k, j) ==
             IF k.peer
               THEN j.peer /\ j.end # "none" /\ j.request = k.request
               ELSE /\ ~ j.peer /\ j.response = NoResponse /\ j.down = 0
                    /\ j.end # "none" => k.end # "none" /\ j.request = k.request
<1>1. UNCHANGED <<myInfo, call>> /\ \A id : Owner(id)' = Owner(id)
  BY DEF Server, clientVars, Owner
<1>2. \A c \in Conns : conn[c] \in ConnRecords
  BY DEF IInv, TypeOK, SocketsTypeOK
<1>3. \A c \in Conns : conn[c].peer => conn[c].end # "none"
  BY DEF OwnershipInv, HeldOrAbandoned, CallsInv
<1>4. \A c \in Conns : ~ conn[c].peer => conn[c].response = NoResponse /\ conn[c].down = 0
  BY DEF OwnershipInv, HeldOrAbandoned
<1>5. ASSUME NEW c \in Conns PROVE Kept(conn[c], conn'[c])
  <2>1. CASE SendPartition
    BY <1>2, <1>3, <1>4, <2>1, SendUses, ConnFields
  <2>2. CASE ~ SendPartition
    <3>1. ServerUse(conn[c], conn'[c])
      BY <2>2, ServerUses
    <3>2. QED
      BY <1>3, <1>4, <3>1, <1>2, ClosedFields DEF ServerUse
  <2>3. QED
    BY <2>1, <2>2
<1>6. CallsInv'
  <2>1. \A p \in Processes : InCall(p) =>
          /\ ConnOf(p) \in Conns
          /\ conn'[ConnOf(p)].peer /\ conn'[ConnOf(p)].end # "none"
          /\ conn'[ConnOf(p)].request = RequestOf(p)
    BY <1>5, CallFacts DEF OwnershipInv, CallsInv, RequestOf
  <2>2. QED
    BY <1>1, <2>1 DEF OwnershipInv, CallsInv, InCall, ConnOf, RequestOf
<1>7. \A c \in Conns : HeldOrAbandoned(c)'
  BY <1>1, <1>5 DEF OwnershipInv, HeldOrAbandoned, InCall, ConnOf
<1>8. \A c \in Conns : FromOwner(conn[c])'
  BY <1>1, <1>3, <1>5 DEF OwnershipInv, FromOwner
<1>9. QED
  BY <1>6, <1>7, <1>8 DEF OwnershipInv

\* A connection that connect() finds free belongs to no call.
LEMMA ConnectOwnership ==
  ASSUME IInv, OwnershipInv, NEW p \in Processes, NEW r \in Requests,
         OwnRequest(p, r), Connect(p, r)
  PROVE  OwnershipInv'
<1>1. PICK c \in Conns :
        /\ conn[c] = FreeConn
        /\ conn'[c] = Connected(r)
        /\ \A d \in Conns \ {c} : conn'[d] = conn[d]
        /\ call'[p] = [phase |-> "open", conn |-> c, wrote |-> 0, read |-> 0]
  BY ConnectUses
<1>2. ~ InCall(p) /\ UNCHANGED myInfo /\ \A q \in Processes \ {p} : call'[q] = call[q]
  BY ConnectUses
<1>3. \A id : Owner(id)' = Owner(id)
  BY <1>2 DEF Owner
<1>4. /\ conn'[c].peer /\ conn'[c].end = "backlog" /\ conn'[c].request = r
      /\ ~ conn[c].peer
  <2>1. conn[c] \in ConnRecords
    BY DEF IInv, TypeOK, SocketsTypeOK
  <2>2. QED
    BY <1>1, <2>1, ConnFields, ClosedFields
<1>5. InCall(p)' /\ ConnOf(p)' = c
  BY <1>1 DEF InCall, ConnOf, NoCall
<1>6. \A q \in Processes \ {p} : InCall(q)' = InCall(q) /\ ConnOf(q)' = ConnOf(q)
  BY <1>2 DEF InCall, ConnOf
<1>7. \A q \in Processes \ {p} : InCall(q) => ConnOf(q) \in Conns \ {c}
  BY <1>4, CallFacts DEF OwnershipInv, CallsInv
<1>8. CallsInv'
  <2>1. \A q \in Processes : InCall(q)' =>
          /\ conn'[ConnOf(q)'].peer /\ conn'[ConnOf(q)'].end # "none"
          /\ OwnRequest(q, conn'[ConnOf(q)'].request)
    <3>1. \A q \in Processes \ {p} : InCall(q) =>
            /\ conn'[ConnOf(q)].peer /\ conn'[ConnOf(q)].end # "none"
            /\ OwnRequest(q, conn'[ConnOf(q)].request)
      BY <1>1, <1>7 DEF OwnershipInv, CallsInv, RequestOf, OwnRequest
    <3>2. QED
      BY <1>4, <1>5, <1>6, <3>1
  <2>2. \A q, s \in Processes :
          InCall(q)' /\ InCall(s)' /\ ConnOf(q)' = ConnOf(s)' => q = s
    BY <1>5, <1>6, <1>7 DEF OwnershipInv, CallsInv
  <2>3. QED
    BY <1>2, <2>1, <2>2 DEF CallsInv, RequestOf, OwnRequest
<1>9. \A d \in Conns : HeldOrAbandoned(d)'
  BY <1>1, <1>2, <1>4, <1>5, <1>6, <1>7 DEF OwnershipInv, HeldOrAbandoned
<1>10. r.op # "REGISTER" => Owner(r.clientId) # {}
  BY DEF Owner, OwnRequest
<1>11. \A d \in Conns : FromOwner(conn[d])'
  BY <1>1, <1>3, <1>4, <1>10 DEF OwnershipInv, FromOwner
<1>12. QED
  BY <1>8, <1>9, <1>11 DEF OwnershipInv

\* Writing and reading change no end of a connection.
LEMMA CallGoesOnOwnership ==
  ASSUME IInv, OwnershipInv, NEW p \in Processes, WritePartition(p) \/ ReadPartition(p)
  PROVE  OwnershipInv'
<1> DEFINE k == conn[ConnOf(p)]
           j == conn'[ConnOf(p)]
<1>1. /\ InCall(p) /\ ConnOf(p) \in Conns /\ k \in ConnRecords
      /\ \A d \in Conns \ {ConnOf(p)} : conn'[d] = conn[d]
      /\ UNCHANGED myInfo
  BY CallGoesOn
<1>2. \A q \in Processes : InCall(q)' = InCall(q) /\ (InCall(q) => ConnOf(q)' = ConnOf(q))
  BY CallGoesOn DEF InCall, ConnOf
<1>3. j.peer = k.peer /\ j.end = k.end /\ j.request = k.request
  <2>1. j = Written(k) \/ j = Read(k)
    BY CallGoesOn
  <2>2. QED
    BY <1>1, <2>1 DEF Written, Read, ConnRecords
<1>4. k.peer
  BY <1>1 DEF OwnershipInv, CallsInv
<1>5. \A d \in Conns : /\ conn'[d].peer = conn[d].peer
                       /\ conn'[d].end = conn[d].end
                       /\ conn'[d].request = conn[d].request
  BY <1>1, <1>3
<1>6. \A id : Owner(id)' = Owner(id)
  BY <1>1 DEF Owner
<1>7. CallsInv'
  <2>1. \A q \in Processes : InCall(q) => ConnOf(q) \in Conns
    BY CallFacts
  <2>2. QED
    BY <1>1, <1>2, <1>5, <2>1 DEF OwnershipInv, CallsInv, RequestOf
<1>8. \A d \in Conns : HeldOrAbandoned(d)'
  BY <1>1, <1>2, <1>3, <1>4 DEF OwnershipInv, HeldOrAbandoned
<1>9. \A d \in Conns : FromOwner(conn[d])'
  BY <1>5, <1>6 DEF OwnershipInv, FromOwner
<1>10. QED
  BY <1>7, <1>8, <1>9 DEF OwnershipInv

\* The identity of a process changes only where a registration ends, and a process
\* that has one keeps it.
LEMMA IdentityStays ==
  ASSUME IInv, OwnershipInv, NEW p \in Processes,
         ReadLastPartition(p) \/ FailCall(p) \/ AbortCall(p)
  PROVE  /\ \A q \in Processes \ {p} : myInfo'[q] = myInfo[q]
         /\ \/ myInfo' = myInfo
            \/ /\ ReadLastPartition(p)
               /\ RequestOf(p).op = "REGISTER"
               /\ conn[ConnOf(p)].response.code = "REGISTER_SUCCESS"
               /\ myInfo[p] = NoInfo /\ myInfo'[p] # NoInfo
               /\ myInfo'[p].clientId = conn[ConnOf(p)].response.clientId
               /\ myInfo'[p].userName = RequestOf(p).userName
<1>1. myInfo \in [Processes -> Identities \cup {NoInfo}]
  BY DEF IInv, TypeOK, ClientTypeOK
<1>2. CASE FailCall(p) \/ AbortCall(p)
  BY <1>2 DEF FailCall, AbortCall
<1>3. CASE ReadLastPartition(p)
  <2> DEFINE r   == RequestOf(p)
             rsp == conn[ConnOf(p)].response
             new == [clientId |-> rsp.clientId, userName |-> r.userName]
  <2>1. CASE rsp.code # "REGISTER_SUCCESS"
    BY <1>3, <2>1 DEF ReadLastPartition, HandleResponse
  <2>2. CASE rsp.code = "REGISTER_SUCCESS"
    <3>1. InCall(p) /\ conn[ConnOf(p)] \in ConnRecords /\ Answers(rsp, r)
            /\ conn[ConnOf(p)].end # "none" /\ r \in Requests
      BY <1>3, CallEnds, CallFacts
         DEF RequestAndAnswer, RequestOf, OwnershipInv, CallsInv
    <3>2. r.op = "REGISTER" /\ rsp.clientId \in ClientIds /\ r.userName \in UserNames
      BY <2>2, <3>1, ResponseKinds, RequestKinds DEF Answers, ConnRecords, RegisterRequests
    <3>3. myInfo[p] = NoInfo
      BY <3>1, <3>2 DEF OwnershipInv, CallsInv
    <3>4. myInfo' = [myInfo EXCEPT ![p] = new]
      BY <1>3, <2>2 DEF ReadLastPartition, HandleResponse
    <3>5. new \in Identities
      BY <3>2 DEF Identities
    <3>6. new # NoInfo
      BY <3>5, NoInfoAssumption
    <3>7. QED
      BY <1>1, <1>3, <2>2, <3>2, <3>3, <3>4, <3>6
  <2>3. QED
    BY <2>1, <2>2
<1>4. QED
  BY <1>2, <1>3

\* A call that ends abandons its connection, and may give its process an id.
LEMMA CallEndsOwnership ==
  ASSUME IInv, OwnershipInv, NEW p \in Processes,
         ReadLastPartition(p) \/ FailCall(p) \/ AbortCall(p)
  PROVE  OwnershipInv'
<1> DEFINE k == conn[ConnOf(p)]
           j == conn'[ConnOf(p)]
<1>1. /\ InCall(p) /\ ConnOf(p) \in Conns /\ k \in ConnRecords
      /\ j = ClosedByClient(k)
      /\ \A d \in Conns \ {ConnOf(p)} : conn'[d] = conn[d]
      /\ ~ InCall(p)'
      /\ \A q \in Processes \ {p} : InCall(q)' = InCall(q) /\ ConnOf(q)' = ConnOf(q)
  BY CallEnds DEF InCall, ConnOf
<1>2. \A id : Owner(id) \subseteq Owner(id)'
  BY IdentityStays DEF Owner
<1>3. /\ ~ j.peer /\ j.response = NoResponse /\ j.down = 0
      /\ j.end # "none" => k.end # "none" /\ j.request = k.request
  BY <1>1, ClosedFields
<1>4. \A q \in Processes \ {p} : InCall(q) => ConnOf(q) \in Conns \ {ConnOf(p)}
  BY <1>1, CallFacts DEF OwnershipInv, CallsInv
<1>5. CallsInv'
  <2>1. \A q \in Processes \ {p} : InCall(q) =>
          /\ conn'[ConnOf(q)] = conn[ConnOf(q)] /\ myInfo'[q] = myInfo[q]
    BY <1>1, <1>4, IdentityStays
  <2>2. QED
    BY <1>1, <2>1 DEF OwnershipInv, CallsInv, RequestOf
<1>6. \A d \in Conns : HeldOrAbandoned(d)'
  BY <1>1, <1>3, <1>4 DEF OwnershipInv, HeldOrAbandoned
<1>7. \A d \in Conns : FromOwner(conn[d])'
  BY <1>1, <1>2, <1>3 DEF OwnershipInv, FromOwner
<1>8. QED
  BY <1>5, <1>6, <1>7 DEF OwnershipInv

LEMMA StutterOwnership ==
  ASSUME OwnershipInv, UNCHANGED <<socketVars, clientVars>>
  PROVE  OwnershipInv'
BY DEF OwnershipInv, CallsInv, HeldOrAbandoned, FromOwner, Owner, InCall, ConnOf, RequestOf,
       socketVars, clientVars

\* Each connection whose client's end is open belongs to one call, which asks in
\* the name of its process; what is left of an abandoned one reaches nobody, also
\* where the connection is used again (HandleRequest, _handle_session).
THEOREM Ownership == Spec => []OwnershipInv
<1>1. Init => OwnershipInv
  BY InitOwnership
<1>2. IInv /\ OwnershipInv /\ [Next]_vars => OwnershipInv'
  BY StepCases, ServerOwnership, ConnectOwnership, CallGoesOnOwnership,
     CallEndsOwnership, StutterOwnership
<1>3. QED
  BY <1>1, <1>2, Invariance, PTL DEF Spec

-----------------------------------------------------------------------------
\* How a session moves

Before == {"recv", "pre", "op"}

\* Every step of the server but a send leaves the session alone, ends it, begins
\* one, moves it on before its response, gives it the response, or closes.
LEMMA SessionMoves ==
  ASSUME IInv, Server, ~ SendPartition
  PROVE  \/ UNCHANGED session
         \/ session'.pc = "select" /\ \A c \in Conns : IsOpen(c)' => c # Current
         \/ /\ session.pc = "select" /\ session'.pc = "recv" /\ session'.sent = 0
            /\ session'.payload = NoPayload
         \/ /\ session.pc \in Before /\ session'.pc \in Before
            /\ session'.conn = session.conn /\ session'.sent = session.sent
         \/ /\ session.pc \in Before /\ session'.pc = "send"
            /\ session'.conn = session.conn /\ session'.sent = session.sent
            /\ session'.response.code = "REGISTER_SUCCESS" => HandleRegister
            /\ session'.response.code = "MESSAGE_SENT_SUCCESS" => HandleSendMessage
            /\ session'.response.code = "MESSAGES_PULLED_SUCCESS" => HandlePullMessages
         \/ /\ session.pc # "select" /\ session'.pc = "close"
            /\ session'.conn = session.conn /\ session'.sent = session.sent
<1>1. session \in Sessions
  BY DEF IInv, TypeOK, ServerTypeOK
<1>2. \A pc : Goto(pc) => /\ session'.pc = pc /\ session'.conn = session.conn
                          /\ session'.sent = session.sent
  BY <1>1 DEF Goto, Sessions
<1>3. \A rsp : Respond(rsp) => /\ session'.pc = "send" /\ session'.response = rsp
                               /\ session'.conn = session.conn /\ session'.sent = session.sent
  BY <1>1 DEF Respond, Sessions
<1> DEFINE telling == {"REGISTER_SUCCESS", "MESSAGE_SENT_SUCCESS", "MESSAGES_PULLED_SUCCESS"}
<1>4. ErrorResponse.code \notin telling
  BY DEF ErrorResponse
<1>5. \A size : ParseStep(size) => /\ session'.pc \in Before
                                   /\ session'.conn = session.conn
                                   /\ session'.sent = session.sent
  BY <1>1 DEF ParseStep, Sessions, Before
<1>6. CASE Select \/ _accept \/ CloseSession \/ RestartServer
  <2>1. CASE Select \/ _accept
    BY <2>1 DEF Select, _accept
  <2>2. CASE CloseSession
    <3>1. Current \in Conns /\ conn \in [Conns -> ConnRecords]
      BY <2>2, RunningSession DEF CloseSession, IInv, TypeOK, SocketsTypeOK
    <3>2. conn'[Current] = ClosedByServer(conn[Current])
      BY <2>2, <3>1 DEF CloseSession
    <3>3. conn'[Current].end \in {"none", "closed"}
      BY <3>1, <3>2 DEF ClosedByServer, FreeConn, ConnRecords
    <3>4. QED
      BY <2>2, <3>3 DEF CloseSession, NoSession, IsOpen
  <2>3. CASE RestartServer
    <3>1. ASSUME NEW c \in Conns PROVE ~ IsOpen(c)'
      <4>1. conn[c] \in ConnRecords
        BY DEF IInv, TypeOK, SocketsTypeOK
      <4>2. conn'[c] = IF IsOpen(c) THEN ClosedByServer(conn[c]) ELSE conn[c]
        BY <2>3 DEF RestartServer
      <4>3. QED
        BY <4>1, <4>2 DEF IsOpen, ClosedByServer, FreeConn, ConnRecords
    <3>2. QED
      BY <2>3, <3>1 DEF RestartServer, NoSession
  <2>4. QED
    BY <1>6, <2>1, <2>2, <2>3
<1>7. CASE \E c \in Conns : BeginSession(c)
  BY <1>7 DEF BeginSession, NoSession
<1>8. CASE RecvBuffer
  <2>1. PICK size \in RecvSizes : Parse(size)
    BY <1>8 DEF RecvBuffer
  <2>2. \/ Respond(ErrorResponse) \/ ParseStep(size) \/ Goto("op") \/ Goto("pre")
    BY <2>1 DEF Parse
  <2>3. QED
    BY <1>2, <1>3, <1>4, <1>5, <1>8, <2>2 DEF RecvBuffer, Before
<1>9. CASE RecvEof
  BY <1>3, <1>4, <1>5, <1>9 DEF RecvEof, Before
<1>10. CASE RecvError \/ HandleRefused
  BY <1>3, <1>4, <1>10 DEF RecvError, HandleRefused, Before
<1>11. CASE PreRequest
  BY <1>2, <1>3, <1>4, <1>11 DEF PreRequest, Before
<1>12. CASE HandleListClients \/ HandleGetPublicKey
  <2>1. \E rsp : Respond(rsp) /\ rsp.code \notin telling
    <3>1. CASE HandleListClients
      BY <3>1 DEF HandleListClients
    <3>2. CASE HandleGetPublicKey
      BY <3>2 DEF HandleGetPublicKey
    <3>3. QED
      BY <1>12, <3>1, <3>2
  <2>2. QED
    BY <1>3, <1>12, <2>1 DEF HandleListClients, HandleGetPublicKey, Handle, Before
<1>13. CASE HandleRegister
  BY <1>3, <1>13 DEF HandleRegister, Handle, Before
<1>14. CASE HandleSendMessage
  BY <1>2, <1>3, <1>14 DEF HandleSendMessage, Handle, Before
<1>15. CASE HandlePullMessages
  BY <1>2, <1>3, <1>15 DEF HandlePullMessages, Handle, Before
<1>16. CASE SendError \/ _after_send_process
  BY <1>2, <1>16 DEF SendError, _after_send_process
<1>17. QED
  BY <1>6, <1>7, <1>8, <1>9, <1>10, <1>11, <1>12, <1>13, <1>14, <1>15, <1>16
     DEF Server, ServerStep

\* Which steps of the server write to the tables
LEMMA StorageMoves ==
  ASSUME Server
  PROVE  /\ HandleRegister \/ UNCHANGED clients
         /\ HandleSendMessage \/ _after_send_process \/ UNCHANGED messages
         /\ HandleSendMessage \/ UNCHANGED lastRowId
<1>1. CASE \/ Select \/ _accept \/ \E c \in Conns : BeginSession(c)
           \/ RecvBuffer \/ RecvEof \/ RecvError \/ HandleRefused \/ SendPartition
           \/ SendError \/ CloseSession \/ RestartServer
  BY <1>1 DEF Select, _accept, BeginSession, RecvBuffer, RecvEof, RecvError, HandleRefused,
              SendPartition, SendError, CloseSession, RestartServer, storageVars
<1>2. CASE PreRequest \/ HandleListClients \/ HandleGetPublicKey \/ HandlePullMessages
  BY <1>2 DEF PreRequest, HandleListClients, HandleGetPublicKey, HandlePullMessages,
              _handle_pre_request, update_client_last_seen, storageVars
<1>3. CASE HandleRegister
  BY <1>3 DEF HandleRegister, register_client, add_client
<1>4. CASE HandleSendMessage
  BY <1>4 DEF HandleSendMessage, send_message, save_message
<1>5. CASE _after_send_process
  BY <1>5 DEF _after_send_process, delete_client_messages, storageVars
<1>6. QED
  BY <1>1, <1>2, <1>3, <1>4, <1>5 DEF Server, ServerStep

\* The connection of a running session carries the same request after any step.
LEMMA RequestStays ==
  ASSUME IInv, IInv', OwnershipInv, [Next]_vars,
         session.pc # "select", session'.pc # "select", session'.conn = session.conn
  PROVE  Request' = Request
<1>1. /\ Current \in Conns /\ conn[Current].end = "accepted"
      /\ conn[Current] \in ConnRecords
  BY RunningSession
<1>2. conn'[Current].end = "accepted"
  BY DEF IInv, SessionInv, Current
<1>3. CASE Server
  <2>1. CASE SendPartition
    <3>1. conn'[Current].request = conn[Current].request
      BY <2>1, SendUses, ConnFields
    <3>2. QED
      BY <3>1 DEF Request, Current
  <2>2. CASE ~ SendPartition
    <3>1. ServerUse(conn[Current], conn'[Current])
      BY <1>1, <1>3, <2>2, ServerUses
    <3>2. conn'[Current].request = conn[Current].request
      BY <1>1, <1>2, <3>1, ClosedFields DEF ServerUse
    <3>3. QED
      BY <3>2 DEF Request, Current
  <2>3. QED
    BY <2>1, <2>2
<1>4. ASSUME NEW p \in Processes, NEW r \in Requests, Connect(p, r)
      PROVE  Request' = Request
  <2>1. PICK c \in Conns : conn[c] = FreeConn /\ \A d \in Conns \ {c} : conn'[d] = conn[d]
    BY <1>4, ConnectUses
  <2>2. c # Current
    BY <1>1, <2>1, ClosedFields
  <2>3. QED
    BY <1>1, <2>1, <2>2 DEF Request, Current
<1>5. ASSUME NEW p \in Processes, WritePartition(p) \/ ReadPartition(p)
      PROVE  Request' = Request
  <2>1. conn'[Current].request = conn[Current].request
    <3>1. CASE Current = ConnOf(p)
      <4>1. conn'[Current] = Written(conn[Current]) \/ conn'[Current] = Read(conn[Current])
        BY <1>5, <3>1, CallGoesOn
      <4>2. QED
        BY <1>1, <4>1 DEF Written, Read, ConnRecords
    <3>2. CASE Current # ConnOf(p)
      BY <1>1, <1>5, <3>2, CallGoesOn
    <3>3. QED
      BY <3>1, <3>2
  <2>2. QED
    BY <2>1 DEF Request, Current
<1>6. ASSUME NEW p \in Processes, ReadLastPartition(p) \/ FailCall(p) \/ AbortCall(p)
      PROVE  Request' = Request
  <2>1. conn'[Current].request = conn[Current].request
    <3>1. CASE Current = ConnOf(p)
      <4>1. conn'[Current] = ClosedByClient(conn[Current])
        BY <1>6, <3>1, CallEnds
      <4>2. QED
        BY <1>1, <4>1, ClosedFields
    <3>2. CASE Current # ConnOf(p)
      BY <1>1, <1>6, <3>2, CallEnds
    <3>3. QED
      BY <3>1, <3>2
  <2>2. QED
    BY <2>1 DEF Request, Current
<1>7. CASE UNCHANGED socketVars
  BY <1>7 DEF Request, Current, socketVars
<1>8. QED
  BY <1>3, <1>4, <1>5, <1>6, <1>7, StepCases
-----------------------------------------------------------------------------
\* Whose an account is

LEMMA InitIdentity == Init => IdentityInv
<1> SUFFICES ASSUME Init PROVE IdentityInv
  OBVIOUS
<1>1. myInfo = MyInfo /\ clients = Database /\ session = NoSession
  BY DEF Init, ClientInit, StorageInit, ServerInit
<1>2. OwnIdentity
  BY <1>1, MyInfoAssumption, MyInfoOriginAssumption DEF OwnIdentity, Owner
<1>3. \A p \in Processes : myInfo[p] # NoInfo => IsUsed(myInfo[p].clientId)
  BY <1>1, MyInfoOriginAssumption DEF IsUsed, is_client_id_exist
<1>4. \A c \in Conns : ~ IsGrant(conn[c].response)
  BY DEF Init, SocketsInit, FreeConn, NoResponse, IsGrant
<1>5. ConnGrants
  BY <1>4 DEF ConnGrants, GrantFits
<1>6. SessionGrant
  BY <1>1 DEF SessionGrant, NoSession
<1>7. QED
  BY <1>2, <1>3, <1>5, <1>6 DEF IdentityInv

\* No connection has a grant that it did not have, with the same request, before.
GrantsKept ==
  \A c \in Conns : IsGrant(conn[c].response)' =>
    /\ conn'[c].response = conn[c].response
    /\ conn'[c].request = conn[c].request

LEMMA GrantsFrame ==
  ASSUME IdentityInv, GrantsKept, UNCHANGED <<clients, myInfo>>
  PROVE  /\ OwnIdentity'
         /\ (\A p \in Processes : myInfo[p] # NoInfo => IsUsed(myInfo[p].clientId))'
         /\ ConnGrants'
<1>1. /\ \A id : Owner(id)' = Owner(id)
      /\ \A id : is_client_id_exist(id)' = is_client_id_exist(id)
  BY DEF Owner, is_client_id_exist
<1>2. ConnGrants'
  BY <1>1 DEF IdentityInv, ConnGrants, GrantsKept, GrantFits, IsGrant
<1>3. QED
  BY <1>1, <1>2 DEF IdentityInv, OwnIdentity, IsUsed

\* A step that leaves the session alone
LEMMA QuietIdentity ==
  ASSUME IInv, IInv', OwnershipInv, IdentityInv, [Next]_vars, GrantsKept,
         UNCHANGED <<clients, myInfo, session>>
  PROVE  IdentityInv'
<1>1. SessionGrant'
  <2>1. session.pc = "send" => Request' = Request
    BY RequestStays
  <2>2. /\ \A id : Owner(id)' = Owner(id)
        /\ \A id : is_client_id_exist(id)' = is_client_id_exist(id)
    BY DEF Owner, is_client_id_exist
  <2>3. QED
    BY <2>1, <2>2 DEF IdentityInv, SessionGrant, GrantsKept, GrantFits, IsGrant
<1>2. QED
  BY <1>1, GrantsFrame DEF IdentityInv

\* A grant is sent in one partition: then it is that of its connection alone.
LEMMA SendIdentity ==
  ASSUME IInv, IdentityInv, SendPartition, UNCHANGED clientVars
  PROVE  IdentityInv'
<1> DEFINE k   == conn[Current]
           rsp == session.response
<1>1. /\ session.pc = "send" /\ Current \in Conns /\ k \in ConnRecords
      /\ conn'[Current] = Sent(k, rsp)
      /\ \A c \in Conns \ {Current} : conn'[c] = conn[c]
      /\ rsp \in Responses \cup {NoResponse}
      /\ UNCHANGED <<storageVars, myInfo>>
  BY SendUses DEF clientVars
<1>2. \/ conn'[Current].response = k.response
      \/ conn'[Current].response = rsp
  BY <1>1, ConnFields
<1>3. conn'[Current].request = k.request
  BY <1>1, ConnFields
<1>4. SessionGrant'
  <2>1. session'.pc \in {"send", "after"} /\ session'.response = rsp
    BY SendUses
  <2>2. IsGrant(rsp) => session'.pc = "after"
    <3>1. IsGrant(rsp) => ResponsePartitions(rsp) = 1
      BY DEF IsGrant, ResponsePartitions, PayloadSize, Partitions, ResponseHeaderSize,
             CLIENT_ID_BYTE_SIZE, BUFFER_PARTITION_SIZE
    <3>2. IsGrant(rsp) => session.sent = 0
      BY <1>1 DEF IdentityInv, SessionGrant
    <3>3. QED
      BY <3>1, <3>2, SendUses
  <2>3. QED
    BY <2>1, <2>2 DEF SessionGrant, IsGrant
<1>5. CASE ~ IsGrant(rsp) \/ conn'[Current].response = k.response
  <2>1. GrantsKept
    BY <1>1, <1>2, <1>3, <1>5 DEF GrantsKept, IsGrant
  <2>2. QED
    BY <1>1, <1>4, <2>1, GrantsFrame DEF IdentityInv, storageVars
<1>6. CASE IsGrant(rsp) /\ conn'[Current].response = rsp
  <2>1. /\ \A id : Owner(id)' = Owner(id)
        /\ \A id : is_client_id_exist(id)' = is_client_id_exist(id)
    BY <1>1 DEF Owner, is_client_id_exist, storageVars
  <2>2. GrantFits(rsp, k.request)
    BY <1>1, <1>6 DEF IdentityInv, SessionGrant, Request
  <2>3. \A c \in Conns : GrantFits(conn[c].response, conn[c].request)'
    <3>1. ASSUME NEW c \in Conns, c = Current
          PROVE  GrantFits(conn[c].response, conn[c].request)'
      BY <1>1, <1>3, <1>6, <2>1, <2>2, <3>1 DEF GrantFits, IsGrant, storageVars
    <3>2. ASSUME NEW c \in Conns, c # Current
          PROVE  GrantFits(conn[c].response, conn[c].request)'
      BY <1>1, <2>1, <3>2 DEF IdentityInv, ConnGrants, GrantFits, IsGrant, storageVars
    <3>3. QED
      BY <3>1, <3>2
  <2>4. \A c \in Conns \ {Current} : IsGrant(conn'[c].response) =>
          conn'[c].response.clientId # rsp.clientId
    BY <1>1, <1>6 DEF IdentityInv, SessionGrant
  <2>5. ConnGrants'
    BY <1>1, <1>6, <2>3, <2>4 DEF IdentityInv, ConnGrants, IsGrant
  <2>6. OwnIdentity' /\ (\A p \in Processes : myInfo[p] # NoInfo => IsUsed(myInfo[p].clientId))'
    BY <1>1, <2>1 DEF IdentityInv, OwnIdentity, IsUsed, storageVars
  <2>7. QED
    BY <1>4, <2>5, <2>6 DEF IdentityInv
<1>7. QED
  BY <1>2, <1>5, <1>6

\* A registration gets an id that no row, no my.info and no other response has.
LEMMA RegisterIdentity ==
  ASSUME IInv, IdentityInv, HandleRegister, UNCHANGED clientVars
  PROVE  IdentityInv'
<1>1. PICK id \in FreshIds :
        /\ register_client(Request, id)
        /\ Respond([code |-> "REGISTER_SUCCESS", clientId |-> id])
  BY DEF HandleRegister
<1> DEFINE row == [id |-> id, userName |-> Request.userName,
                   publicKey |-> Request.publicKey]
<1>2. ~ IsUsed(id)
  BY DEF FreshIds, IsUsed
<1>3. clients' = clients \cup {row}
  BY <1>1 DEF register_client, add_client
<1>4. UNCHANGED <<conn, myInfo>> /\ session.pc = "op"
  BY DEF HandleRegister, Handle, socketVars, clientVars
<1>5. /\ session'.pc = "send" /\ session'.conn = session.conn
      /\ session'.response = [code |-> "REGISTER_SUCCESS", clientId |-> id]
      /\ session'.sent = 0
  <2>1. session \in Sessions
    BY DEF IInv, TypeOK, ServerTypeOK
  <2>2. session.sent = 0
    BY <1>4 DEF IdentityInv, SessionGrant
  <2>3. QED
    BY <1>1, <2>1, <2>2 DEF Respond, Sessions
<1>6. row.id = id /\ row.userName = Request.userName
  OBVIOUS
<1> HIDE DEF row
<1>7. /\ \A x : is_client_id_exist(x)' <=> (is_client_id_exist(x) \/ x = id)
      /\ \A x : Owner(x)' = Owner(x)
  BY <1>3, <1>4, <1>6 DEF is_client_id_exist, Owner
<1>8. \A p \in Processes : myInfo[p] # NoInfo => myInfo[p].clientId # id
  BY <1>2 DEF IdentityInv
<1>9. \A c \in Conns : IsGrant(conn[c].response) => conn[c].response.clientId # id
  BY <1>2 DEF IdentityInv, ConnGrants, GrantFits, IsUsed
<1>10. OwnIdentity'
  BY <1>3, <1>4, <1>6, <1>7, <1>8 DEF IdentityInv, OwnIdentity
<1>11. (\A p \in Processes : myInfo[p] # NoInfo => IsUsed(myInfo[p].clientId))'
  BY <1>4, <1>7 DEF IdentityInv, IsUsed
<1>12. ConnGrants'
  BY <1>3, <1>4, <1>6, <1>7, <1>9 DEF IdentityInv, ConnGrants, GrantFits, IsGrant
<1>13. SessionGrant'
  <2>1. Owner(id)' = {}
    BY <1>7, <1>8 DEF Owner
  <2>2. \A r \in clients' : r.id = id => r.userName = Request.userName
    BY <1>2, <1>3, <1>6 DEF IsUsed, is_client_id_exist
  <2>3. Request' = Request
    BY <1>4, <1>5 DEF Request, Current
  <2>4. GrantFits(session.response, Request)'
    BY <1>5, <1>7, <2>1, <2>2, <2>3 DEF GrantFits
  <2>5. QED
    BY <1>4, <1>5, <1>9, <2>4 DEF SessionGrant
<1>14. QED
  BY <1>10, <1>11, <1>12, <1>13 DEF IdentityInv

\* The other steps of the server grant nothing.
LEMMA ServerIdentity ==
  ASSUME IInv, IInv', OwnershipInv, IdentityInv, Server, [Next]_vars
  PROVE  IdentityInv'
<1>0. UNCHANGED clientVars
  BY DEF Server
<1>1. CASE SendPartition
  BY <1>0, <1>1, SendIdentity
<1>2. CASE HandleRegister
  BY <1>0, <1>2, RegisterIdentity
<1>3. CASE ~ SendPartition /\ ~ HandleRegister
  <2>1. UNCHANGED <<clients, myInfo>>
    BY <1>0, <1>3, StorageMoves DEF clientVars
  <2>2. GrantsKept
    <3> SUFFICES ASSUME NEW c \in Conns, IsGrant(conn'[c].response)
                 PROVE  /\ conn'[c].response = conn[c].response
                        /\ conn'[c].request = conn[c].request
      BY DEF GrantsKept
    <3>1. ServerUse(conn[c], conn'[c])
      BY <1>3, ServerUses
    <3>2. conn'[c] # FreeConn
      BY DEF FreeConn, NoResponse, IsGrant
    <3>3. QED
      BY <3>1, <3>2 DEF ServerUse
  <2>3. CASE UNCHANGED session
    BY <2>1, <2>2, <2>3, QuietIdentity
  <2>4. CASE ~ UNCHANGED session
    <3>1. SessionGrant'
      <4>1. session'.pc \in Before => session'.sent = 0
        BY <1>3, <2>4, SessionMoves DEF IdentityInv, SessionGrant, Before
      <4>2. session'.pc = "send" => ~ IsGrant(session'.response)
        BY <1>3, <2>4, SessionMoves DEF IsGrant, Before
      <4>3. QED
        BY <4>1, <4>2 DEF SessionGrant, Before
    <3>2. QED
      BY <2>1, <2>2, <3>1, GrantsFrame DEF IdentityInv
  <2>5. QED
    BY <2>3, <2>4
<1>4. QED
  BY <1>1, <1>2, <1>3

\* A process that reads a grant becomes the only owner of its id.
LEMMA CallEndsIdentity ==
  ASSUME IInv, IInv', OwnershipInv, IdentityInv, [Next]_vars,
         UNCHANGED <<storageVars, serverVars>>, NEW p \in Processes,
         ReadLastPartition(p) \/ FailCall(p) \/ AbortCall(p)
  PROVE  IdentityInv'
<1> DEFINE k == conn[ConnOf(p)]
<1>1. /\ ConnOf(p) \in Conns /\ k \in ConnRecords
      /\ conn'[ConnOf(p)] = ClosedByClient(k)
      /\ \A d \in Conns \ {ConnOf(p)} : conn'[d] = conn[d]
  BY CallEnds
<1>2. \A d \in Conns : IsGrant(conn'[d].response) => d # ConnOf(p) /\ conn'[d] = conn[d]
  BY <1>1, ClosedFields DEF NoResponse, IsGrant
<1>3. GrantsKept
  BY <1>2 DEF GrantsKept
<1>4. UNCHANGED <<clients, session>>
  BY DEF storageVars, serverVars
<1>5. CASE UNCHANGED myInfo
  BY <1>3, <1>4, <1>5, QuietIdentity
<1>6. CASE ~ UNCHANGED myInfo
  <2>0. PICK id : id = k.response.clientId
    OBVIOUS
  <2>1. /\ \A q \in Processes \ {p} : myInfo'[q] = myInfo[q]
        /\ IsGrant(k.response)
        /\ myInfo[p] = NoInfo /\ myInfo'[p] # NoInfo
        /\ myInfo'[p].clientId = id
        /\ myInfo'[p].userName = k.request.userName
    BY <1>6, <2>0, IdentityStays DEF IsGrant, RequestOf
  <2>2. /\ Owner(id) = {} /\ is_client_id_exist(id)
        /\ \A row \in clients : row.id = id => row.userName = k.request.userName
    BY <1>1, <2>0, <2>1 DEF IdentityInv, ConnGrants, GrantFits
  <2>3. Owner(id)' = {p} /\ \A x : x # id => Owner(x)' = Owner(x)
    BY <2>1, <2>2 DEF Owner
  <2>4. \A x : is_client_id_exist(x)' = is_client_id_exist(x)
    BY <1>4 DEF is_client_id_exist
  <2>5. \A q \in Processes \ {p} : myInfo[q] # NoInfo => myInfo[q].clientId # id
    BY <2>2 DEF Owner
  <2>6. OwnIdentity'
    <3>1. ASSUME NEW q \in Processes, q # p, myInfo[q] # NoInfo, NEW x, x = myInfo[q].clientId
          PROVE  /\ Owner(x)' = {q}
                 /\ \A row \in clients : row.id = x => row.userName = myInfo[q].userName
      BY <2>3, <2>5, <3>1 DEF IdentityInv, OwnIdentity
    <3>2. ASSUME NEW q \in Processes, myInfo'[q] # NoInfo, NEW x, x = myInfo'[q].clientId
          PROVE  /\ Owner(x)' = {q}
                 /\ \A row \in clients' : row.id = x => row.userName = myInfo'[q].userName
      BY <1>4, <2>1, <2>2, <2>3, <3>1, <3>2
    <3>3. QED
      BY <3>2 DEF OwnIdentity
  <2>7. (\A q \in Processes : myInfo[q] # NoInfo => IsUsed(myInfo[q].clientId))'
    BY <2>1, <2>2, <2>4 DEF IdentityInv, IsUsed
  <2>8. \A d \in Conns : IsGrant(conn'[d].response) => conn'[d].response.clientId # id
    BY <1>1, <1>2, <2>0, <2>1 DEF IdentityInv, ConnGrants
  <2>9. ConnGrants'
    BY <1>2, <1>4, <2>3, <2>4, <2>8 DEF IdentityInv, ConnGrants, GrantFits
  <2>10. SessionGrant'
    <3>1. session.pc = "send" => Request' = Request
      BY <1>4, RequestStays
    <3>2. session.pc = "send" /\ IsGrant(session.response) => session.response.clientId # id
      BY <1>1, <2>0, <2>1 DEF IdentityInv, SessionGrant
    <3>3. QED
      BY <1>2, <1>4, <2>3, <2>4, <3>1, <3>2 DEF IdentityInv, SessionGrant, GrantFits
  <2>11. QED
    BY <2>6, <2>7, <2>9, <2>10 DEF IdentityInv
<1>7. QED
  BY <1>5, <1>6

\* A call that begins or goes on grants nothing.
LEMMA CallIdentity ==
  ASSUME IInv, IInv', OwnershipInv, IdentityInv, [Next]_vars,
         UNCHANGED <<storageVars, serverVars>>, NEW p \in Processes,
         \/ \E r \in Requests : Connect(p, r)
         \/ WritePartition(p) \/ ReadPartition(p)
  PROVE  IdentityInv'
<1>1. UNCHANGED <<clients, myInfo, session>>
  BY ConnectUses, CallGoesOn DEF storageVars, serverVars
<1>2. GrantsKept
  <2>1. CASE \E r \in Requests : Connect(p, r)
    <3>1. PICK r \in Requests, c \in Conns :
            conn'[c] = Connected(r) /\ \A d \in Conns \ {c} : conn'[d] = conn[d]
      BY <2>1, ConnectUses
    <3>2. ~ IsGrant(conn'[c].response)
      BY <3>1 DEF Connected, FreeConn, NoResponse, IsGrant
    <3>3. QED
      BY <3>1, <3>2 DEF GrantsKept
  <2>2. CASE WritePartition(p) \/ ReadPartition(p)
    <3>1. /\ ConnOf(p) \in Conns /\ conn[ConnOf(p)] \in ConnRecords
          /\ \/ conn'[ConnOf(p)] = Written(conn[ConnOf(p)])
             \/ conn'[ConnOf(p)] = Read(conn[ConnOf(p)])
          /\ \A d \in Conns \ {ConnOf(p)} : conn'[d] = conn[d]
      BY <2>2, CallGoesOn
    <3>2. /\ conn'[ConnOf(p)].response = conn[ConnOf(p)].response
          /\ conn'[ConnOf(p)].request = conn[ConnOf(p)].request
      BY <3>1 DEF Written, Read, ConnRecords
    <3>3. QED
      BY <3>1, <3>2 DEF GrantsKept
  <2>3. QED
    BY <2>1, <2>2
<1>3. QED
  BY <1>1, <1>2, QuietIdentity

\* The accounts that responses grant are nobody's yet, and each is granted once.
THEOREM Accounts == Spec => []IdentityInv
<1>1. Init => IdentityInv
  BY InitIdentity
<1>2. /\ IInv /\ IInv' /\ OwnershipInv /\ IdentityInv /\ [Next]_vars
      => IdentityInv'
  <2> SUFFICES ASSUME IInv, IInv', OwnershipInv, IdentityInv, [Next]_vars
               PROVE  IdentityInv'
    OBVIOUS
  <2>1. CASE UNCHANGED <<storageVars, socketVars, serverVars, clientVars>>
    <3>1. UNCHANGED <<clients, myInfo, session>> /\ GrantsKept
      BY <2>1 DEF storageVars, socketVars, serverVars, clientVars, GrantsKept
    <3>2. QED
      BY <3>1, QuietIdentity
  <2>2. QED
    BY <2>1, StepCases, ServerIdentity, CallIdentity, CallEndsIdentity
<1>3. QED
  BY <1>1, <1>2, Invariance, Ownership, PTL DEF Spec

\* No two processes have one client id, and the row of a client carries the name
\* that its user chose (register_client, RegisterSuccessResponse::handleResponse).
THEOREM OneOwner == Spec => []OwnIdentity
BY Accounts, PTL DEF IdentityInv
=============================================================================
