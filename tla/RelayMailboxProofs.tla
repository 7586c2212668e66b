------------------------- MODULE RelayMailboxProofs --------------------------
(***************************************************************************)
(* Proofs about mail for all values of the constants: a client receives    *)
(* its own only, a row is deleted only once it has been sent, and the      *)
(* relay implements a mailbox.                                             *)
(***************************************************************************)
EXTENDS RelayInvariants, RelayOwnershipProofs

\* What one more lot adds to what a client has received
LEMMA DeliveredAppend ==
  ASSUME NEW s \in Seq(SUBSET Messages), NEW lot \in SUBSET Messages
  PROVE  LET t == Append(s, lot)
         IN  /\ Len(t) = Len(s) + 1 /\ t[Len(s) + 1] = lot
             /\ \A i \in 1 .. Len(s) : t[i] = s[i]
             /\ UNION {t[i] : i \in DOMAIN t} = lot \cup UNION {s[i] : i \in DOMAIN s}
<1> DEFINE t == Append(s, lot)
<1>1. /\ DOMAIN t = 1 .. (Len(s) + 1) /\ DOMAIN s = 1 .. Len(s) /\ Len(s) \in Nat
      /\ Len(t) = Len(s) + 1
      /\ t[Len(s) + 1] = lot /\ \A i \in 1 .. Len(s) : t[i] = s[i]
  OBVIOUS
<1> HIDE DEF t
<1>2. PICK n \in Nat : n = Len(s)
  BY <1>1
<1>3. DOMAIN t = DOMAIN s \cup {n + 1} /\ n + 1 \notin DOMAIN s
  BY <1>1, <1>2
<1>4. t[n + 1] = lot /\ \A i \in DOMAIN s : t[i] = s[i]
  BY <1>1, <1>2
<1>5. UNION {t[i] : i \in DOMAIN t} = lot \cup UNION {s[i] : i \in DOMAIN s}
  BY <1>3, <1>4, Zenon
<1>6. QED
  BY <1>1, <1>5 DEF t

\* The loop of pull_messages leaves out nothing older than what it takes.
LEMMA PulledAreOldest ==
  ASSUME StorageTypeOK, NEW id
  PROVE  IsOldestStored(pull_messages(id), id)
<1>1. \A m \in messages : m.id \in Nat
  BY DEF StorageTypeOK, Messages
<1>2. \A m, x, y \in messages : y.id <= x.id /\ x.id < m.id => y.id <= m.id
  BY <1>1
<1>3. QED
  BY <1>2 DEF IsOldestStored, pull_messages, pull_client_messages

LEMMA InitMail == Init => MailInv
<1> SUFFICES ASSUME Init PROVE MailInv
  OBVIOUS
<1>1. messages = {} /\ session = NoSession
  BY DEF Init, StorageInit, ServerInit
<1>2. \A c \in Conns : LotFits(conn[c].response, conn[c].request)
  BY DEF Init, SocketsInit, FreeConn, NoResponse, LotFits, IsPull
<1>3. \A p \in Processes : received[p] = <<>>
  BY DEF Init, ClientInit
<1>4. ReceivedInv
  BY <1>3 DEF ReceivedInv, Delivered
<1>5. QED
  BY <1>1, <1>2, <1>4 DEF MailInv, RowsInv, SessionLot, NoSession

\* An id names one row: the counter is written with the row (save_message).
LEMMA RowsStep ==
  ASSUME IInv, RowsInv, Server
  PROVE  RowsInv'
<1>1. lastRowId \in Nat /\ \A m \in messages : m.id \in Nat
  BY DEF IInv, TypeOK, StorageTypeOK, Messages
<1>2. CASE HandleSendMessage
  <2>1. PICK m : messages' = messages \cup {m} /\ m.id = lastRowId + 1
                   /\ lastRowId' = lastRowId + 1
    BY <1>2 DEF HandleSendMessage, send_message, save_message
  <2>2. QED
    BY <1>1, <2>1 DEF RowsInv
<1>3. CASE _after_send_process
  BY <1>3 DEF _after_send_process, delete_client_messages, storageVars, RowsInv
<1>4. CASE UNCHANGED <<messages, lastRowId>>
  BY <1>4 DEF RowsInv
<1>5. QED
  BY <1>2, <1>3, <1>4, StorageMoves DEF _after_send_process, delete_client_messages, storageVars

\* A session gives its connection the response that it has itself.
LEMMA ServerLots ==
  ASSUME IInv, MailInv, Server, NEW c \in Conns
  PROVE  LotFits(conn'[c].response, conn'[c].request)
<1>1. conn[c] \in ConnRecords /\ LotFits(conn[c].response, conn[c].request)
  BY DEF IInv, TypeOK, SocketsTypeOK, MailInv
<1>2. CASE SendPartition
  <2>1. CASE c = Current
    <3>1. /\ conn'[c] = Sent(conn[c], session.response)
          /\ session.response \in Responses \cup {NoResponse}
          /\ LotFits(session.response, conn[c].request)
      BY <1>2, <2>1, SendUses DEF MailInv, SessionLot, Request
    <3>2. conn'[c].request = conn[c].request
            /\ conn'[c].response \in {conn[c].response, session.response}
      BY <1>1, <3>1, ConnFields
    <3>3. QED
      BY <1>1, <3>1, <3>2
  <2>2. CASE c # Current
    BY <1>1, <1>2, <2>2, SendUses
  <2>3. QED
    BY <2>1, <2>2
<1>3. CASE ~ SendPartition
  <2>1. ServerUse(conn[c], conn'[c])
    BY <1>3, ServerUses
  <2>2. CASE conn'[c] = FreeConn
    BY <2>2 DEF FreeConn, NoResponse, LotFits, IsPull
  <2>3. CASE conn'[c] # FreeConn
    BY <1>1, <2>1, <2>3 DEF ServerUse
  <2>4. QED
    BY <2>2, <2>3
<1>4. QED
  BY <1>2, <1>3

\* A response that the step leaves to the session still fits.
LEMMA SessionLotStays ==
  ASSUME SessionLot, UNCHANGED messages, Request' = Request,
         session.pc \in {"send", "after"}, session'.response = session.response,
         session'.pc = "after" => session'.sent = ResponsePartitions(session.response)
  PROVE  SessionLot'
BY DEF SessionLot, IsOldestStored

LEMMA ServerSessionLot ==
  ASSUME IInv, IInv', OwnershipInv, MailInv, Server, [Next]_vars
  PROVE  SessionLot'
<1>1. CASE session'.pc \notin {"send", "after"}
  BY <1>1 DEF SessionLot
<1>2. CASE SendPartition
  <2>1. /\ session.pc = "send" /\ session'.response = session.response
        /\ session'.pc \in {"send", "after"}
        /\ session'.pc = "after" => session'.sent = ResponsePartitions(session.response)
        /\ session'.conn = session.conn /\ UNCHANGED messages
    BY <1>2, SendUses DEF storageVars
  <2>2. Request' = Request
    BY <2>1, RequestStays
  <2>3. QED
    BY <2>1, <2>2, SessionLotStays DEF MailInv
<1>3. CASE ~ SendPartition /\ session'.pc \in {"send", "after"} /\ UNCHANGED session
  <2>1. Request' = Request
    BY <1>3, RequestStays
  <2>2. UNCHANGED messages
    <3>1. ~ HandleSendMessage /\ ~ _after_send_process
      BY <1>3 DEF HandleSendMessage, Handle, _after_send_process, Goto, IInv, TypeOK,
                  ServerTypeOK, Sessions
    <3>2. QED
      BY <3>1, StorageMoves
  <2>3. QED
    BY <1>3, <2>1, <2>2 DEF SessionLot, IsOldestStored, MailInv
<1>4. CASE ~ SendPartition /\ session'.pc \in {"send", "after"} /\ ~ UNCHANGED session
  <2>1. /\ session.pc \in Before /\ session'.pc = "send"
        /\ session'.response.code = "MESSAGES_PULLED_SUCCESS" => HandlePullMessages
    BY <1>4, SessionMoves DEF Before
  <2>2. CASE HandlePullMessages
    <3> DEFINE lot == pull_messages(Request.clientId)
    <3>1. /\ Request.op = "PULL_MESSAGES"
          /\ UNCHANGED <<messages, conn>>
          /\ Respond([code |-> "MESSAGES_PULLED_SUCCESS", messages |-> lot])
      BY <2>1, <2>2 DEF HandlePullMessages, Handle, Goto, storageVars, socketVars,
                        IInv, TypeOK, ServerTypeOK, Sessions
    <3>2. /\ session'.response = [code |-> "MESSAGES_PULLED_SUCCESS", messages |-> lot]
          /\ session'.pc = "send" /\ session'.conn = session.conn
      BY <3>1 DEF Respond, IInv, TypeOK, ServerTypeOK, Sessions
    <3>3. Request' = Request
      BY <3>1, <3>2 DEF Request, Current
    <3>4. IsOldestStored(lot, Request.clientId)
      BY PulledAreOldest DEF IInv, TypeOK
    <3>5. \A m \in lot : m.toClient = Request.clientId
      BY DEF pull_messages, pull_client_messages
    <3> HIDE DEF lot
    <3>6. QED
      BY <3>1, <3>2, <3>3, <3>4, <3>5 DEF SessionLot, LotFits, IsOldestStored
  <2>3. CASE ~ HandlePullMessages
    BY <2>1, <2>3 DEF SessionLot, LotFits, IsPull
  <2>4. QED
    BY <2>2, <2>3
<1>5. QED
  BY <1>1, <1>2, <1>3, <1>4

LEMMA ServerMail ==
  ASSUME IInv, IInv', OwnershipInv, MailInv, Server, [Next]_vars
  PROVE  MailInv'
<1>1. ReceivedInv'
  BY DEF MailInv, ReceivedInv, Delivered, Server, clientVars
<1>2. QED
  BY <1>1, RowsStep, ServerLots, ServerSessionLot DEF MailInv

\* No connection has a lot that it did not have, with the same request, before.
LotsKept ==
  \A c \in Conns : IsPull(conn[c].response)' =>
    /\ conn'[c].response = conn[c].response
    /\ conn'[c].request = conn[c].request

\* A step of a client changes nothing that the server has.
LEMMA ClientMail ==
  ASSUME IInv, IInv', OwnershipInv, MailInv, [Next]_vars,
         UNCHANGED <<storageVars, serverVars>>, LotsKept, ReceivedInv'
  PROVE  MailInv'
<1>1. UNCHANGED <<messages, lastRowId, session>>
  BY DEF storageVars, serverVars
<1>2. session.pc \in {"send", "after"} => Request' = Request
  BY <1>1, RequestStays
<1>3. SessionLot'
  BY <1>1, <1>2 DEF MailInv, SessionLot, IsOldestStored
<1>4. RowsInv'
  BY <1>1 DEF MailInv, RowsInv
<1>5. \A c \in Conns : LotFits(conn'[c].response, conn'[c].request)
  BY DEF MailInv, LotsKept, LotFits, IsPull
<1>6. QED
  BY <1>3, <1>4, <1>5 DEF MailInv

\* A call that begins or goes on keeps the lot of each connection.
LEMMA CallLots ==
  ASSUME IInv, NEW p \in Processes,
         \/ \E r \in Requests : Connect(p, r)
         \/ WritePartition(p) \/ ReadPartition(p)
  PROVE  LotsKept /\ UNCHANGED <<myInfo, received>>
<1>1. CASE \E r \in Requests : Connect(p, r)
  <2>1. PICK r \in Requests, c \in Conns :
          conn'[c] = Connected(r) /\ \A d \in Conns \ {c} : conn'[d] = conn[d]
    BY <1>1, ConnectUses
  <2>2. ~ IsPull(conn'[c].response)
    BY <2>1 DEF Connected, FreeConn, NoResponse, IsPull
  <2>3. QED
    BY <1>1, <2>1, <2>2, ConnectUses DEF LotsKept
<1>2. CASE WritePartition(p) \/ ReadPartition(p)
  <2>1. /\ ConnOf(p) \in Conns /\ conn[ConnOf(p)] \in ConnRecords
        /\ \/ conn'[ConnOf(p)] = Written(conn[ConnOf(p)])
           \/ conn'[ConnOf(p)] = Read(conn[ConnOf(p)])
        /\ \A d \in Conns \ {ConnOf(p)} : conn'[d] = conn[d]
        /\ UNCHANGED <<myInfo, received>>
    BY <1>2, CallGoesOn
  <2>2. /\ conn'[ConnOf(p)].response = conn[ConnOf(p)].response
        /\ conn'[ConnOf(p)].request = conn[ConnOf(p)].request
    BY <2>1 DEF Written, Read, ConnRecords
  <2>3. QED
    BY <2>1, <2>2 DEF LotsKept
<1>3. QED
  BY <1>1, <1>2

\* What a call that ends adds to what its process has received
LEMMA CallEndsReceived ==
  ASSUME IInv, NEW p \in Processes,
         ReadLastPartition(p) \/ FailCall(p) \/ AbortCall(p)
  PROVE  /\ \A q \in Processes \ {p} : received'[q] = received[q]
         /\ \/ received' = received
            \/ LET rsp == conn[ConnOf(p)].response
               IN  /\ ReadLastPartition(p)
                   /\ IsPull(rsp) /\ rsp.messages # {}
                   /\ rsp.messages \in SUBSET Messages
                   /\ received'[p] = Append(received[p], rsp.messages)
                   /\ myInfo' = myInfo
<1> DEFINE rsp == conn[ConnOf(p)].response
<1>1. CASE FailCall(p) \/ AbortCall(p)
  BY <1>1 DEF FailCall, AbortCall
<1>2. CASE ReadLastPartition(p)
  <2>1. received \in [Processes -> Seq(SUBSET Messages)]
    BY DEF IInv, TypeOK, ClientTypeOK
  <2>2. rsp \in Responses \cup {NoResponse}
    BY <1>2, CallEnds DEF ConnRecords
  <2>3. CASE IsPull(rsp) /\ rsp.messages # {}
    <3>1. rsp.messages \in SUBSET Messages
      BY <2>2, <2>3, ResponseKinds DEF IsPull
    <3>2. myInfo' = myInfo
      BY <1>2, <2>3 DEF ReadLastPartition, HandleResponse, IsPull
    <3>3. received' = [received EXCEPT ![p] = Append(received[p], rsp.messages)]
      BY <1>2, <2>3 DEF ReadLastPartition, HandleResponse, IsPull
    <3>4. QED
      BY <1>2, <2>1, <2>3, <3>1, <3>2, <3>3
  <2>4. CASE ~ (IsPull(rsp) /\ rsp.messages # {})
    BY <1>2, <2>4 DEF ReadLastPartition, HandleResponse, IsPull
  <2>5. QED
    BY <2>3, <2>4
<1>3. QED
  BY <1>1, <1>2

\* A process that ends a pull gets what is addressed to it.
LEMMA CallEndsMail ==
  ASSUME IInv, OwnershipInv, MailInv, NEW p \in Processes,
         ReadLastPartition(p) \/ FailCall(p) \/ AbortCall(p)
  PROVE  LotsKept /\ ReceivedInv'
<1> DEFINE k == conn[ConnOf(p)]
<1>1. /\ InCall(p) /\ ConnOf(p) \in Conns /\ k \in ConnRecords
      /\ conn'[ConnOf(p)] = ClosedByClient(k)
      /\ \A d \in Conns \ {ConnOf(p)} : conn'[d] = conn[d]
  BY CallEnds
<1>2. LotsKept
  BY <1>1, ClosedFields DEF LotsKept, NoResponse, IsPull
<1>3. \A q \in Processes : myInfo[q] # NoInfo => myInfo'[q] = myInfo[q]
  BY IdentityStays
<1>4. CASE received' = received
  <2>1. \A q \in Processes : Delivered(q)' = Delivered(q)
    BY <1>4 DEF Delivered
  <2>2. ASSUME NEW q \in Processes, NEW m \in Delivered(q)
        PROVE  myInfo'[q] # NoInfo /\ m.toClient = myInfo'[q].clientId
    BY <1>3, <2>2 DEF MailInv, ReceivedInv
  <2>3. QED
    BY <1>2, <2>1, <2>2 DEF ReceivedInv
<1>5. CASE received' # received
  <2>1. PICK lot \in SUBSET Messages :
          /\ IsPull(k.response) /\ lot = k.response.messages
          /\ received'[p] = Append(received[p], lot)
          /\ myInfo' = myInfo
          /\ \A q \in Processes \ {p} : received'[q] = received[q]
    BY <1>5, CallEndsReceived
  <2>2. /\ k.request.op = "PULL_MESSAGES"
        /\ \A m \in lot : m.toClient = k.request.clientId
    BY <1>1, <2>1 DEF MailInv, LotFits
  <2>3. myInfo[p] # NoInfo /\ k.request.clientId = myInfo[p].clientId
    BY <1>1, <2>2 DEF OwnershipInv, CallsInv, RequestOf
  <2>4. received[p] \in Seq(SUBSET Messages)
    BY DEF IInv, TypeOK, ClientTypeOK
  <2>5. Delivered(p)' = lot \cup Delivered(p)
    BY <2>1, <2>4, DeliveredAppend DEF Delivered
  <2>6. \A q \in Processes \ {p} : Delivered(q)' = Delivered(q)
    BY <2>1 DEF Delivered
  <2>7. ASSUME NEW q \in Processes, NEW m \in Delivered(q)'
        PROVE  myInfo[q] # NoInfo /\ m.toClient = myInfo[q].clientId
    <3>1. CASE q = p /\ m \in lot
      BY <2>2, <2>3, <3>1
    <3>2. CASE m \in Delivered(q)
      BY <3>2 DEF MailInv, ReceivedInv
    <3>3. QED
      BY <2>5, <2>6, <2>7, <3>1, <3>2
  <2>8. QED
    BY <1>2, <2>1, <2>7 DEF ReceivedInv
<1>6. QED
  BY <1>2, <1>4, <1>5

\* A response to a pull holds rows of the client that asked, which are stored
\* until they have been sent (pull_messages and _after_send_process).
THEOREM MailOfClients == Spec => []MailInv
<1>1. Init => MailInv
  BY InitMail
<1>2. IInv /\ IInv' /\ OwnershipInv /\ MailInv /\ [Next]_vars => MailInv'
  <2> SUFFICES ASSUME IInv, IInv', OwnershipInv, MailInv, [Next]_vars
               PROVE  MailInv'
    OBVIOUS
  <2>1. CASE UNCHANGED <<storageVars, socketVars, serverVars, clientVars>>
    <3>1. UNCHANGED <<conn, myInfo, received>>
      BY <2>1 DEF socketVars, clientVars
    <3>2. LotsKept /\ ReceivedInv'
      BY <3>1 DEF LotsKept, MailInv, ReceivedInv, Delivered
    <3>3. QED
      BY <2>1, <3>2, ClientMail
  <2>2. ASSUME NEW p \in Processes, UNCHANGED <<storageVars, serverVars>>,
               \/ \E r \in Requests : Connect(p, r)
               \/ WritePartition(p) \/ ReadPartition(p)
        PROVE  MailInv'
    <3>1. LotsKept /\ UNCHANGED <<myInfo, received>>
      BY <2>2, CallLots
    <3>2. ReceivedInv'
      BY <3>1 DEF MailInv, ReceivedInv, Delivered
    <3>3. QED
      BY <2>2, <3>1, <3>2, ClientMail
  <2>3. ASSUME NEW p \in Processes, UNCHANGED <<storageVars, serverVars>>,
               ReadLastPartition(p) \/ FailCall(p) \/ AbortCall(p)
        PROVE  MailInv'
    BY <2>3, CallEndsMail, ClientMail
  <2>4. QED
    BY <2>1, <2>2, <2>3, StepCases, ServerMail
<1>3. QED
  BY <1>1, <1>2, Invariance, Ownership, PTL DEF Spec

\* A client gets the messages addressed to it and no others, whoever used its
\* connection before (HandleRequest, pull_messages).
THEOREM Addressed == Spec => []OnlyAddressee
<1>1. MailInv => OnlyAddressee
  BY DEF MailInv, ReceivedInv, OnlyAddressee
<1>2. QED
  BY <1>1, MailOfClients, PTL

\* A row leaves the table only in the step that follows a complete send of the
\* response that holds it, to a connection of its addressee (_after_send_process).
LEMMA DeletedRows ==
  ASSUME IInv, MailInv, [Next]_vars, NEW m \in messages \ messages'
  PROVE  /\ session.pc = "after"
         /\ m \in session.response.messages
         /\ Request.clientId = m.toClient
         /\ session.sent = ResponsePartitions(session.response)
<1>1. _after_send_process
  <2>1. Server
    BY StepCases DEF storageVars
  <2>2. CASE HandleSendMessage
    BY <2>2 DEF HandleSendMessage, send_message, save_message
  <2>3. QED
    BY <2>1, <2>2, StorageMoves
<1>2. /\ session.pc = "after" /\ IsPull(session.response)
      /\ m.id \in Ids(session.response.messages)
  BY <1>1 DEF _after_send_process, delete_client_messages, storageVars, IsPull
<1>3. PICK x \in session.response.messages : x.id = m.id
  BY <1>2 DEF Ids
<1>4. x = m
  BY <1>2, <1>3 DEF MailInv, RowsInv, SessionLot, IsOldestStored
<1>5. QED
  BY <1>2, <1>3, <1>4 DEF MailInv, SessionLot, LotFits

\* Rows are deleted only after a complete send to their addressee; they never change.
THEOREM Deletion == Spec => DeleteOnlySent
<1>1. IInv /\ MailInv /\ [Next]_vars =>
        [\A m \in messages \ messages' :
           /\ session.pc = "after"
           /\ m \in session.response.messages
           /\ Request.clientId = m.toClient
           /\ session.sent = ResponsePartitions(session.response)]_vars
  BY DeletedRows
<1>2. QED
  BY <1>1, Invariance, MailOfClients, PTL DEF Spec, DeleteOnlySent

-----------------------------------------------------------------------------
\* How much of a response has been sent

LEMMA InitSent == Init => SentInv
BY DEF Init, ServerInit, ClientInit, NoSession, SentInv, InCall

\* CallSent says something of the call, its connection and the session only.
LEMMA CallSentFrame ==
  ASSUME NEW p \in Processes, CallSent(p), UNCHANGED session,
         conn'[ConnOf(p)'].down \in Nat,
         conn'[ConnOf(p)'].response = conn[ConnOf(p)].response,
         conn'[ConnOf(p)'].end \in Open => conn[ConnOf(p)].end \in Open,
         ConnOf(p)' = ConnOf(p), SentTo(p)' = SentTo(p)
  PROVE  CallSent(p)'
<1>1. IsOpen(ConnOf(p))' => IsOpen(ConnOf(p))
  BY DEF IsOpen, Open
<1>2. PICK c : c = ConnOf(p) /\ c = ConnOf(p)'
  OBVIOUS
<1>3. QED
  BY <1>1, <1>2 DEF CallSent, Current

\* What a client has read and what waits for it are numbers.
LEMMA SentToNat ==
  ASSUME IInv, SentInv, NEW p \in Processes, InCall(p)
  PROVE  /\ CallSent(p) /\ SentTo(p) \in Nat
         /\ ConnOf(p) \in Conns /\ conn[ConnOf(p)] \in ConnRecords
         /\ conn[ConnOf(p)].down \in Nat /\ call[p].read \in Nat
<1>1. CallSent(p)
  BY DEF SentInv
<1>2. ConnOf(p) \in Conns /\ conn[ConnOf(p)] \in ConnRecords /\ call[p].read \in Nat
  BY CallFacts
<1>3. conn[ConnOf(p)].down \in Nat
  BY <1>1 DEF CallSent
<1>4. QED
  BY <1>1, <1>2, <1>3 DEF SentTo

\* A send adds one partition to what the session sent and to what waits.
LEMMA SendSent ==
  ASSUME IInv, OwnershipInv, SentInv, SendPartition, UNCHANGED clientVars
  PROVE  SentInv'
<1> DEFINE rsp == session.response
<1>1. /\ session.pc = "send" /\ Current \in Conns
      /\ rsp \in Responses \cup {NoResponse}
      /\ conn[Current] \in ConnRecords
      /\ conn'[Current] = Sent(conn[Current], rsp)
      /\ \A c \in Conns \ {Current} : conn'[c] = conn[c]
      /\ session'.conn = session.conn /\ session'.response = rsp
      /\ session.sent \in Nat /\ session'.sent = session.sent + 1
      /\ session'.pc = IF session.sent + 1 = ResponsePartitions(rsp) THEN "after" ELSE "send"
  BY SendUses
<1>2. PICK n \in Nat : n = session.sent
  BY <1>1
<1>3. PICK total : total = ResponsePartitions(rsp)
  OBVIOUS
<1>4. total \notin 1 .. n
  BY <1>1, <1>2, <1>3 DEF SentInv
<1>5. session'.pc = "send" => total \notin 1 .. (n + 1)
  BY <1>1, <1>2, <1>3, <1>4
<1>6. (n + 1) - 1 = n /\ n + 1 # 0
  OBVIOUS
<1>7. ASSUME NEW p \in Processes, InCall(p)
      PROVE  CallSent(p)'
  <2>1. /\ CallSent(p) /\ ConnOf(p) \in Conns /\ ConnOf(p)' = ConnOf(p)
        /\ conn[ConnOf(p)].peer /\ SentTo(p) \in Nat
        /\ call'[p] = call[p] /\ call[p].read \in Nat
        /\ conn[ConnOf(p)].down \in Nat
    BY <1>7, SentToNat DEF OwnershipInv, CallsInv, clientVars, ConnOf
  <2>2. CASE ConnOf(p) # Current
    <3>1. conn'[ConnOf(p)] = conn[ConnOf(p)] /\ SentTo(p)' = SentTo(p)
      BY <1>1, <2>1, <2>2 DEF SentTo
    <3>2. PICK c : c = ConnOf(p) /\ c = ConnOf(p)' /\ conn'[c] = conn[c] /\ c # session'.conn
                /\ c # session.conn
      BY <1>1, <2>1, <2>2, <3>1 DEF Current
    <3>3. QED
      BY <2>1, <2>2, <3>1, <3>2 DEF CallSent, Current, IsOpen
  <2>3. CASE ConnOf(p) = Current
    <3>1. PICK c \in Conns : c = ConnOf(p) /\ c = ConnOf(p)' /\ c = session.conn /\ c = session'.conn
      BY <1>1, <2>1, <2>3 DEF Current
    <3>2. conn'[c].response = rsp /\ conn'[c].down = conn[c].down + 1
      BY <1>1, <2>1, <2>3, <3>1, ConnFields
    <3>3. SentTo(p) = n
      BY <1>1, <1>2, <2>1, <2>3 DEF CallSent
    <3>4. SentTo(p)' = n + 1
      BY <2>1, <3>1, <3>2, <3>3 DEF SentTo
    <3>5. conn'[c].down \in Nat
      BY <2>1, <3>1, <3>2
    <3>6. session'.pc \in {"send", "after"} /\ session'.sent = n + 1
      BY <1>1, <1>2
    <3>7. QED
      BY <1>1, <1>3, <1>4, <1>6, <3>1, <3>2, <3>4, <3>5, <3>6 DEF CallSent, Current
  <2>4. QED
    BY <2>2, <2>3
<1>8. \A p \in Processes : InCall(p)' = InCall(p)
  BY DEF InCall, clientVars
<1>9. QED
  BY <1>1, <1>2, <1>3, <1>4, <1>5, <1>6, <1>7, <1>8 DEF SentInv

\* A session starts to send on a connection that has been sent nothing.
LEMMA ServerSent ==
  ASSUME IInv, IInv', OwnershipInv, IdentityInv, SentInv, Server
  PROVE  SentInv'
<1>0. UNCHANGED clientVars
  BY DEF Server
<1>1. CASE SendPartition
  BY <1>0, <1>1, SendSent
<1>2. CASE ~ SendPartition
  <2>1. /\ \A p \in Processes : InCall(p)' = InCall(p)
        /\ \A p \in Processes : ConnOf(p)' = ConnOf(p) /\ call'[p] = call[p]
    BY <1>0 DEF InCall, ConnOf, clientVars
  <2>2. ASSUME NEW p \in Processes, InCall(p)
        PROVE  /\ conn'[ConnOf(p)].response = conn[ConnOf(p)].response
               /\ conn'[ConnOf(p)].down = conn[ConnOf(p)].down
               /\ conn'[ConnOf(p)].end \in Open => conn[ConnOf(p)].end \in Open
               /\ SentTo(p)' = SentTo(p)
    <3>1. ConnOf(p) \in Conns /\ conn[ConnOf(p)].peer
      BY <2>2, CallFacts DEF OwnershipInv, CallsInv
    <3>2. ServerUse(conn[ConnOf(p)], conn'[ConnOf(p)])
      BY <1>2, <3>1, ServerUses
    <3>3. QED
      BY <2>1, <3>1, <3>2 DEF ServerUse, SentTo
  <2>3. CASE UNCHANGED session
    <3>1. \A p \in Processes : InCall(p) => CallSent(p)'
      BY <2>1, <2>2, <2>3, SentToNat, CallSentFrame
    <3>2. QED
      BY <2>1, <2>3, <3>1 DEF SentInv
  <2>4. CASE ~ UNCHANGED session
    <3> DEFINE Untouched(c) == IsOpen(c)' /\ (c = Current' => session'.pc \in Before)
    <3>1. \/ session'.pc \notin {"send", "after"}
          \/ /\ session.pc \in Before /\ session'.pc = "send"
             /\ session'.conn = session.conn /\ session'.sent = 0
      BY <1>2, <2>4, SessionMoves DEF IdentityInv, SessionGrant, Before
    <3>2. \A c \in Conns : Untouched(c) => (c = Current => session.pc \in Before)
      <4>1. session.pc = "select" => Current \notin Conns
        BY ListenerAssumption DEF IInv, SessionInv, NoSession, Current
      <4>2. QED
        BY <1>2, <2>4, <4>1, SessionMoves DEF Before, Current
    <3>3. ASSUME NEW p \in Processes, InCall(p)
          PROVE  CallSent(p)'
      <4>1. PICK c \in Conns : c = ConnOf(p) /\ c = ConnOf(p)'
        BY <2>1, <3>3, CallFacts
      <4>2. /\ CallSent(p) /\ SentTo(p) \in Nat /\ SentTo(p)' = SentTo(p)
            /\ conn'[c].response = conn[c].response
            /\ conn'[c].down \in Nat
            /\ IsOpen(c)' => IsOpen(c)
        BY <2>2, <3>3, <4>1, SentToNat DEF IsOpen, Open
      <4>3. Untouched(c) => SentTo(p) = 0
        BY <3>2, <4>1, <4>2 DEF CallSent, Before
      <4>4. c = Current' /\ session'.pc \in {"send", "after"} =>
              SentTo(p) = session'.sent /\ session'.sent = 0
        <5> HAVE c = Current' /\ session'.pc \in {"send", "after"}
        <5>1. session.pc \in Before /\ c = Current /\ session'.sent = 0
          BY <3>1 DEF Current
        <5>2. IsOpen(c)
          BY <5>1, RunningSession DEF IsOpen, Before
        <5>3. QED
          BY <4>1, <4>2, <5>1, <5>2 DEF CallSent, Before
      <4>5. QED
        BY <4>1, <4>2, <4>3, <4>4 DEF CallSent, Before
    <3>4. session'.pc = "send" => ResponsePartitions(session'.response) \notin 1 .. session'.sent
      BY <3>1
    <3>5. session'.pc # "after"
      BY <3>1
    <3>6. QED
      BY <2>1, <3>3, <3>4, <3>5 DEF SentInv
  <2>5. QED
    BY <2>3, <2>4
<1>3. QED
  BY <1>1, <1>2

\* A step of one client leaves the connections of the other calls alone.
LEMMA OtherCalls ==
  ASSUME IInv, OwnershipInv, NEW p \in Processes,
         \/ \E r \in Requests : Connect(p, r)
         \/ WritePartition(p) \/ ReadPartition(p)
         \/ ReadLastPartition(p) \/ FailCall(p) \/ AbortCall(p),
         NEW q \in Processes \ {p}, InCall(q)
  PROVE  call'[q] = call[q] /\ ConnOf(q)' = ConnOf(q) /\ conn'[ConnOf(q)] = conn[ConnOf(q)]
<1>1. ConnOf(q) \in Conns /\ conn[ConnOf(q)].peer
  BY CallFacts DEF OwnershipInv, CallsInv
<1>2. call'[q] = call[q] /\ ConnOf(q)' = ConnOf(q)
  BY ConnectUses, CallGoesOn, CallEnds DEF ConnOf
<1>3. CASE \E r \in Requests : Connect(p, r)
  <2>1. PICK c \in Conns : conn[c] = FreeConn /\ \A d \in Conns \ {c} : conn'[d] = conn[d]
    BY <1>3, ConnectUses
  <2>2. ConnOf(q) # c
    BY <1>1, <2>1 DEF FreeConn
  <2>3. QED
    BY <1>1, <1>2, <2>1, <2>2
<1>4. CASE ~ \E r \in Requests : Connect(p, r)
  <2>1. InCall(p) /\ \A d \in Conns \ {ConnOf(p)} : conn'[d] = conn[d]
    BY <1>4, CallGoesOn, CallEnds
  <2>2. ConnOf(q) # ConnOf(p)
    BY <2>1 DEF OwnershipInv, CallsInv
  <2>3. QED
    BY <1>1, <1>2, <2>1, <2>2
<1>5. QED
  BY <1>3, <1>4

\* A client moves a partition from what waits to what it has read, or none.
LEMMA ClientSent ==
  ASSUME IInv, OwnershipInv, SentInv, UNCHANGED <<storageVars, serverVars>>,
         NEW p \in Processes,
         \/ \E r \in Requests : Connect(p, r)
         \/ WritePartition(p) \/ ReadPartition(p)
         \/ ReadLastPartition(p) \/ FailCall(p) \/ AbortCall(p)
  PROVE  SentInv'
<1>1. UNCHANGED session
  BY DEF serverVars
<1>2. \A q \in Processes \ {p} : call'[q] = call[q]
  BY ConnectUses, CallGoesOn, CallEnds
<1>3. ASSUME NEW q \in Processes \ {p}, InCall(q)
      PROVE  conn'[ConnOf(q)] = conn[ConnOf(q)]
  BY <1>3, OtherCalls
<1>4. ASSUME NEW q \in Processes \ {p}, InCall(q)'
      PROVE  CallSent(q)'
  <2>1. InCall(q) /\ ConnOf(q)' = ConnOf(q)
    BY <1>2, <1>4 DEF InCall, ConnOf
  <2>2. conn'[ConnOf(q)'] = conn[ConnOf(q)] /\ SentTo(q)' = SentTo(q)
    BY <1>2, <1>3, <2>1 DEF SentTo
  <2>3. QED
    BY <1>1, <2>1, <2>2, SentToNat, CallSentFrame
<1>5. InCall(p)' => CallSent(p)'
  <2>1. CASE \E r \in Requests : Connect(p, r)
    <3>1. PICK r \in Requests, c \in Conns :
            /\ conn[c] = FreeConn /\ conn'[c] = Connected(r)
            /\ call'[p] = [phase |-> "open", conn |-> c, wrote |-> 0, read |-> 0]
      BY <2>1, ConnectUses
    <3>2. ConnOf(p)' = c /\ call'[p].read = 0
      BY <3>1 DEF ConnOf
    <3>3. conn'[c].response = NoResponse /\ conn'[c].down = 0
      BY <3>1 DEF Connected, FreeConn
    <3>4. SentTo(p)' = 0
      BY <3>2, <3>3 DEF SentTo
    <3>5. session.pc # "select" => c # Current
      <4> HAVE session.pc # "select"
      <4>1. conn[Current].end = "accepted"
        BY RunningSession
      <4>2. QED
        BY <3>1, <4>1 DEF FreeConn
    <3>6. QED
      BY <1>1, <3>2, <3>3, <3>4, <3>5 DEF CallSent, Current
  <2>2. CASE WritePartition(p) \/ ReadPartition(p)
    <3>1. PICK c \in Conns :
            /\ InCall(p) /\ c = ConnOf(p) /\ c = ConnOf(p)' /\ conn[c] \in ConnRecords
            /\ call[p].read \in Nat /\ conn[c].down \in Nat
            /\ \/ conn'[c] = Written(conn[c]) /\ call'[p].read = call[p].read
               \/ conn'[c] = Read(conn[c]) /\ call'[p].read = call[p].read + 1
                  /\ conn[c].down > 0
      BY <2>2, CallGoesOn, SentToNat DEF ConnOf
    <3>2. /\ conn'[c].response = conn[c].response /\ conn'[c].end = conn[c].end
          /\ \/ conn'[c].down = conn[c].down /\ call'[p].read = call[p].read
             \/ /\ conn'[c].down = conn[c].down - 1 /\ call'[p].read = call[p].read + 1
                /\ conn[c].down > 0
      BY <3>1 DEF Written, Read, ConnRecords
    <3>3. conn'[c].down \in Nat /\ SentTo(p)' = SentTo(p)
      BY <3>1, <3>2 DEF SentTo
    <3>4. QED
      BY <1>1, <3>1, <3>2, <3>3, SentToNat, CallSentFrame
  <2>3. CASE ReadLastPartition(p) \/ FailCall(p) \/ AbortCall(p)
    BY <2>3, CallEnds DEF InCall, NoCall
  <2>4. QED
    BY <2>1, <2>2, <2>3
<1>6. QED
  BY <1>1, <1>4, <1>5 DEF SentInv

\* A client is sent the response of its session, as far as the session has sent it,
\* and nothing after the last partition (_handle_session, HandleRequest).
THEOREM Partitioned == Spec => []SentInv
<1>1. Init => SentInv
  BY InitSent
<1>2. IInv /\ IInv' /\ OwnershipInv /\ IdentityInv /\ SentInv /\ [Next]_vars => SentInv'
  <2> SUFFICES ASSUME IInv, IInv', OwnershipInv, IdentityInv, SentInv, [Next]_vars
               PROVE  SentInv'
    OBVIOUS
  <2>1. CASE UNCHANGED <<storageVars, socketVars, serverVars, clientVars>>
    <3>1. UNCHANGED <<conn, call, session>>
      BY <2>1 DEF socketVars, serverVars, clientVars
    <3>2. \A p \in Processes : InCall(p) => CallSent(p)'
      BY <3>1 DEF SentInv, CallSent, SentTo, ConnOf, IsOpen, Current
    <3>3. QED
      BY <3>1, <3>2 DEF SentInv, InCall
  <2>2. QED
    BY <2>1, StepCases, ServerSent, ClientSent
<1>3. QED
  BY <1>1, <1>2, Invariance, Ownership, Accounts, PTL DEF Spec

-----------------------------------------------------------------------------
\* The end of the server's loop

\* A client closes a connection that waits only by dying: it has nothing to read
\* there, and the server's end is open.
LEMMA NextWaiting ==
  ASSUME IInv, OwnershipInv, SentInv, WaitingInv, [Next]_vars
  PROVE  WaitingInv'
<1>1. aborts \in [Processes -> Nat] /\ conn \in [Conns -> ConnRecords]
  BY DEF IInv, TypeOK, ClientTypeOK, SocketsTypeOK
<1>2. CASE Server
  <2>1. UNCHANGED aborts
    BY <1>2 DEF Server, clientVars
  <2>2. ASSUME NEW c \in Conns, conn'[c].end = "backlog"
        PROVE  conn[c].end = "backlog" /\ conn'[c].peer = conn[c].peer
    <3>1. CASE SendPartition
      <4>1. CASE c = Current
        BY <2>2, <3>1, <4>1, SendUses, ConnFields
      <4>2. CASE c # Current
        BY <2>2, <3>1, <4>2, SendUses
      <4>3. QED
        BY <4>1, <4>2
    <3>2. CASE ~ SendPartition
      <4>1. ServerUse(conn[c], conn'[c])
        BY <1>2, <3>2, ServerUses
      <4>2. conn'[c] # FreeConn
        BY <2>2 DEF FreeConn
      <4>3. QED
        BY <2>2, <4>1, <4>2 DEF ServerUse
    <3>3. QED
      BY <3>1, <3>2
  <2>3. QED
    BY <2>1, <2>2 DEF WaitingInv
<1>3. CASE UNCHANGED <<storageVars, socketVars, serverVars, clientVars>>
  BY <1>3 DEF WaitingInv, socketVars, clientVars
<1>4. ASSUME NEW p \in Processes, NEW r \in Requests, Connect(p, r)
      PROVE  WaitingInv'
  <2>1. PICK c \in Conns : conn'[c] = Connected(r) /\ \A d \in Conns \ {c} : conn'[d] = conn[d]
    BY <1>4, ConnectUses
  <2>2. conn'[c].peer /\ UNCHANGED aborts
    BY <1>4, <2>1 DEF Connect, Connected, FreeConn
  <2>3. QED
    BY <2>1, <2>2 DEF WaitingInv
<1>5. ASSUME NEW p \in Processes, WritePartition(p) \/ ReadPartition(p)
      PROVE  WaitingInv'
  <2>1. PICK c \in Conns : /\ conn[c] \in ConnRecords
                           /\ conn'[c] = Written(conn[c]) \/ conn'[c] = Read(conn[c])
                           /\ \A d \in Conns \ {c} : conn'[d] = conn[d]
                           /\ UNCHANGED aborts
    BY <1>5, CallGoesOn
  <2>2. conn'[c].peer = conn[c].peer /\ conn'[c].end = conn[c].end
    BY <2>1 DEF Written, Read, ConnRecords
  <2>3. QED
    BY <2>1, <2>2 DEF WaitingInv
<1>6. ASSUME NEW p \in Processes, ReadLastPartition(p) \/ FailCall(p) \/ AbortCall(p)
      PROVE  WaitingInv'
  <2>1. PICK c \in Conns : /\ c = ConnOf(p) /\ InCall(p) /\ conn[c] \in ConnRecords
                           /\ conn'[c] = ClosedByClient(conn[c])
                           /\ \A d \in Conns \ {c} : conn'[d] = conn[d]
    BY <1>6, CallEnds
  <2>2. CASE AbortCall(p)
    <3>1. aborts'[p] > 0
      BY <1>1, <2>2 DEF AbortCall
    <3>2. QED
      BY <3>1 DEF WaitingInv
  <2>3. CASE ReadLastPartition(p) \/ FailCall(p)
    <3>1. conn[c].end # "backlog"
      <4>1. CASE FailCall(p)
        BY <2>1, <4>1 DEF FailCall
      <4>2. CASE ReadLastPartition(p)
        <5>1. conn[c].down > 0 /\ CallSent(p) /\ call[p].read \in Nat /\ conn[c].down \in Nat
          BY <2>1, <4>2, SentToNat DEF ReadLastPartition, ResponseArriving
        <5>2. SentTo(p) # 0
          BY <2>1, <5>1 DEF SentTo
        <5>3. conn[c].end = "backlog" => c # Current \/ session.pc = "select"
          BY RunningSession
        <5>4. conn[c].end = "backlog" =>
                IsOpen(c) /\ (c = Current => session.pc \in {"recv", "pre", "op"})
          <6>1. session.pc = "select" => Current \notin Conns
            BY ListenerAssumption DEF IInv, SessionInv, NoSession, Current
          <6>2. QED
            BY <5>3, <6>1 DEF IsOpen
        <5>5. QED
          BY <2>1, <5>1, <5>2, <5>4 DEF CallSent
      <4>3. QED
        BY <2>3, <4>1, <4>2
    <3>2. conn'[c].end # "backlog"
      BY <2>1, <3>1, ClosedFields
    <3>3. UNCHANGED aborts
      BY <2>3 DEF ReadLastPartition, FailCall
    <3>4. QED
      BY <2>1, <3>2, <3>3 DEF WaitingInv
  <2>4. QED
    BY <1>6, <2>2, <2>3
<1>7. QED
  BY <1>2, <1>3, <1>4, <1>5, <1>6, StepCases

THEOREM Waiting == Spec => []WaitingInv
<1>1. Init => WaitingInv
  BY DEF Init, SocketsInit, FreeConn, WaitingInv
<1>2. QED
  BY <1>1, NextWaiting, Invariance, Ownership, Partitioned, PTL DEF Spec

\* Only the death of a client that waits for accept() can end the server's loop
\* (start_server, _accept and the end of _handle_session), for any number of
\* clients and connections, and whenever the server is killed.
THEOREM LoopSafe == Spec => []LoopEndsOnlyByAbort
<1>1. IInv /\ WaitingInv => LoopEndsOnlyByAbort
  <2> SUFFICES ASSUME IInv, WaitingInv PROVE LoopEndsOnlyByAbort
    OBVIOUS
  <2>1. session.pc # "select" => conn[Current].end = "accepted"
    BY RunningSession
  <2>2. ASSUME Listener \in events
        PROVE  conn[Head(backlog)].peer \/ \E p \in Processes : aborts[p] > 0
    <3>1. backlog # <<>> /\ backlog \in Seq(Conns)
      BY <2>2 DEF IInv, EventsInv, TypeOK, SocketsTypeOK
    <3>2. 1 \in DOMAIN backlog /\ Head(backlog) = backlog[1] /\ Head(backlog) \in Conns
      BY <3>1
    <3>3. conn[Head(backlog)].end = "backlog"
      BY <3>2 DEF IInv, BacklogInv
    <3>4. QED
      BY <3>2, <3>3 DEF WaitingInv
  <2>3. QED
    BY <2>1, <2>2 DEF LoopEndsOnlyByAbort, IInv
<1>2. QED
  BY <1>1, Invariance, Waiting, PTL

-----------------------------------------------------------------------------
\* The mailbox

\* The refinement mapping, client by client.
LEMMA BarFields ==
  ASSUME NEW p \in Processes
  PROVE  /\ addressBar[p] = IF myInfo[p] = NoInfo THEN NoInfo ELSE myInfo[p].clientId
         /\ addressBar'[p] = IF myInfo'[p] = NoInfo THEN NoInfo ELSE myInfo'[p].clientId
         /\ onTheWayBar[p] =
              IF IsSentWhole(p) THEN conn[ConnOf(p)].response.messages ELSE {}
         /\ onTheWayBar'[p] =
              IF IsSentWhole(p)' THEN conn'[ConnOf(p)'].response.messages ELSE {}
BY DEF addressBar, onTheWayBar

LEMMA SameAddresses ==
  ASSUME UNCHANGED myInfo
  PROVE  addressBar' = addressBar
BY DEF addressBar

LEMMA SameOnTheWay ==
  ASSUME \A p \in Processes : onTheWayBar'[p] = onTheWayBar[p]
  PROVE  onTheWayBar' = onTheWayBar
BY DEF onTheWayBar

\* One process more, or less, has mail on the way.
LEMMA OneOnTheWay ==
  ASSUME NEW p \in Processes, NEW lot, onTheWayBar'[p] = lot,
         \A q \in Processes \ {p} : onTheWayBar'[q] = onTheWayBar[q]
  PROVE  onTheWayBar' = [onTheWayBar EXCEPT ![p] = lot]
BY DEF onTheWayBar

LEMMA InitMailbox == Init => M!Init
<1> SUFFICES ASSUME Init PROVE M!Init
  OBVIOUS
<1>1. myInfo = MyInfo /\ MyInfo \in [Processes -> Identities \cup {NoInfo}]
  BY MyInfoAssumption DEF Init, ClientInit
<1>2. addressBar \in [Processes -> ClientIds \cup {NoInfo}]
  BY <1>1 DEF addressBar, Identities
<1>3. \A p, q \in Processes : addressBar[p] = addressBar[q] => p = q \/ addressBar[p] = NoInfo
  <2>1. \A p \in Processes : MyInfo[p] # NoInfo => MyInfo[p].clientId # NoInfo
    BY <1>1, NoInfoAssumption DEF Identities
  <2>2. QED
    BY <1>1, <2>1, MyInfoAssumption DEF addressBar
<1>4. onTheWayBar = [p \in Processes |-> {}]
  BY DEF onTheWayBar, IsSentWhole, InCall, Init, ClientInit
<1>5. offeredBar = {}
  BY DEF offeredBar, Init, ServerInit, NoSession
<1>6. lastRowId = 0 /\ messages = {} /\ received = [p \in Processes |-> <<>>]
  BY DEF Init, StorageInit, ClientInit
<1>7. QED
  BY <1>2, <1>3, <1>4, <1>5, <1>6 DEF M!Init

\* Only the send that completes a response changes what is on the way.
LEMMA ServerOnTheWay ==
  ASSUME IInv, OwnershipInv, Server, ~ SendPartition
  PROVE  onTheWayBar' = onTheWayBar
<1>1. UNCHANGED call
  BY DEF Server, clientVars
<1>2. ASSUME NEW p \in Processes, InCall(p)
      PROVE  /\ conn'[ConnOf(p)].response = conn[ConnOf(p)].response
             /\ conn'[ConnOf(p)].down = conn[ConnOf(p)].down
  <2>1. ConnOf(p) \in Conns /\ conn[ConnOf(p)].peer
    BY <1>2, CallFacts DEF OwnershipInv, CallsInv
  <2>2. ServerUse(conn[ConnOf(p)], conn'[ConnOf(p)])
    BY <2>1, ServerUses
  <2>3. QED
    BY <2>1, <2>2 DEF ServerUse
<1>3. \A p \in Processes : IsSentWhole(p)' <=> IsSentWhole(p)
  BY <1>1, <1>2 DEF IsSentWhole, InCall, ConnOf
<1>4. \A p \in Processes : onTheWayBar'[p] = onTheWayBar[p]
  BY <1>1, <1>2, <1>3, BarFields DEF IsSentWhole, ConnOf
<1>5. QED
  BY <1>4, SameOnTheWay

\* SEND_MESSAGE posts mail in the name of the process that asks.
LEMMA SendPosts ==
  ASSUME IInv, IInv', OwnershipInv, HandleSendMessage, Server
  PROVE  M!Next
<1>1. Handle("SEND_MESSAGE") /\ send_message(Request, session.payload)
  BY DEF HandleSendMessage
<1>2. /\ session.pc = "op" /\ session \in Sessions /\ Request.op = "SEND_MESSAGE"
      /\ Current \in Conns /\ conn[Current].end = "accepted"
  BY <1>1, HandleFacts, RunningSession
<1>3. PICK m : /\ messages' = messages \cup {m}
               /\ m.id = lastRowId + 1 /\ m.fromClient = Request.clientId
               /\ lastRowId' = lastRowId + 1
  BY <1>1 DEF send_message, save_message
<1>4. m \in Messages
  BY <1>3 DEF IInv, TypeOK, StorageTypeOK
<1>5. PICK p \in Processes : myInfo[p] # NoInfo /\ myInfo[p].clientId = Request.clientId
  BY <1>2 DEF OwnershipInv, FromOwner, Owner, Request
<1>6. addressBar[p] = m.fromClient
  BY <1>3, <1>5, BarFields
<1>7. ~ SendPartition
  BY <1>2 DEF SendPartition
<1>8. offeredBar = {} /\ offeredBar' = {}
  <2>1. session'.pc # "after"
    BY <1>2 DEF HandleSendMessage, Respond, Goto, Sessions
  <2>2. QED
    BY <1>2, <2>1 DEF offeredBar
<1>9. UNCHANGED <<myInfo, received>>
  BY DEF Server, clientVars
<1>10. UNCHANGED <<addressBar, offeredBar, onTheWayBar, received>>
  BY <1>7, <1>8, <1>9, ServerOnTheWay, SameAddresses
<1>11. M!PostMail(m)
  BY <1>3, <1>6, <1>10 DEF M!PostMail
<1>12. QED
  BY <1>3, <1>4, <1>11 DEF M!Next, M!Post

\* The DELETE removes what was handed over and nothing else: ids are unique.
LEMMA AfterSettles ==
  ASSUME IInv, OwnershipInv, MailInv, Server, _after_send_process
  PROVE  [M!Next]_(M!mailVars)
<1>1. session.pc = "after" /\ session'.pc = "close"
  BY DEF _after_send_process, Goto, IInv, TypeOK, ServerTypeOK, Sessions
<1>2. ~ SendPartition
  BY <1>1 DEF SendPartition
<1>3. UNCHANGED <<addressBar, onTheWayBar, received>> /\ UNCHANGED lastRowId
  BY <1>2, ServerOnTheWay, SameAddresses
     DEF Server, clientVars, _after_send_process, delete_client_messages, storageVars
<1>4. offeredBar' = {}
  BY <1>1 DEF offeredBar
<1>5. messages' \in {messages, messages \ offeredBar}
  <2>1. CASE UNCHANGED storageVars
    BY <2>1 DEF storageVars
  <2>2. CASE ~ UNCHANGED storageVars
    <3>1. /\ IsPull(session.response)
          /\ messages' = {m \in messages : m.id \notin Ids(session.response.messages)}
      BY <2>2 DEF _after_send_process, delete_client_messages, IsPull
    <3>2. offeredBar = session.response.messages /\ offeredBar \subseteq messages
      BY <1>1, <3>1 DEF offeredBar, MailInv, SessionLot, IsOldestStored
    <3>3. \A m \in messages : m.id \in Ids(offeredBar) <=> m \in offeredBar
      BY <3>2 DEF Ids, MailInv, RowsInv
    <3>4. QED
      BY <3>1, <3>2, <3>3
  <2>3. QED
    BY <2>1, <2>2
<1>6. CASE offeredBar = {}
  BY <1>3, <1>4, <1>5, <1>6 DEF M!mailVars
<1>7. CASE offeredBar # {}
  BY <1>3, <1>4, <1>5, <1>7 DEF M!Next, M!Settle
<1>8. QED
  BY <1>6, <1>7

\* Other steps of a session but a send; a crash gives up what is to be removed.
LEMMA ServerMailbox ==
  ASSUME IInv, IInv', OwnershipInv, MailInv, Server, ~ SendPartition
  PROVE  [M!Next]_(M!mailVars)
<1>1. CASE HandleSendMessage
  BY <1>1, SendPosts
<1>2. CASE _after_send_process
  BY <1>2, AfterSettles
<1>3. CASE ~ HandleSendMessage /\ ~ _after_send_process
  <2>1. UNCHANGED <<addressBar, messages, lastRowId, onTheWayBar, received>>
    BY <1>3, StorageMoves, ServerOnTheWay, SameAddresses DEF Server, clientVars
  <2>2. offeredBar' \in {offeredBar, {}}
    BY SessionMoves DEF offeredBar, Before
  <2>3. CASE offeredBar' = offeredBar
    BY <2>1, <2>3 DEF M!mailVars
  <2>4. CASE offeredBar' # offeredBar
    <3>1. offeredBar # {} /\ offeredBar' = {} /\ messages' \in {messages, messages \ offeredBar}
      BY <2>1, <2>2, <2>4
    <3>2. QED
      BY <2>1, <3>1 DEF M!Next, M!Settle
  <2>5. QED
    BY <2>3, <2>4
<1>4. QED
  BY <1>1, <1>2, <1>3

\* The send that completes a response hands its mail over to the process at the
\* other end, or to nobody where that process has died.
LEMMA SendHandsOver ==
  ASSUME IInv, OwnershipInv, MailInv, SentInv, SendPartition, UNCHANGED clientVars
  PROVE  [M!Next]_(M!mailVars)
<1> DEFINE rsp   == session.response
           whole == IsPull(rsp) /\ session.sent + 1 = ResponsePartitions(rsp)
<1>1. /\ session.pc = "send" /\ Current \in Conns /\ rsp \in Responses \cup {NoResponse}
      /\ conn[Current] \in ConnRecords
      /\ conn'[Current] = Sent(conn[Current], rsp)
      /\ \A c \in Conns \ {Current} : conn'[c] = conn[c]
      /\ session'.conn = session.conn /\ session'.response = rsp
      /\ session.sent \in Nat
      /\ session'.pc = IF session.sent + 1 = ResponsePartitions(rsp) THEN "after" ELSE "send"
      /\ UNCHANGED storageVars
  BY SendUses
<1>2. UNCHANGED <<addressBar, messages, lastRowId, received>>
  BY <1>1, SameAddresses DEF storageVars, clientVars
<1>3. offeredBar = {} /\ offeredBar' = IF whole THEN rsp.messages ELSE {}
  BY <1>1 DEF offeredBar, IsPull
<1>4. \A p \in Processes : InCall(p)' = InCall(p) /\ ConnOf(p)' = ConnOf(p)
                           /\ call'[p] = call[p]
  BY DEF InCall, ConnOf, clientVars
<1>5. ASSUME NEW p \in Processes, ~ InCall(p) \/ ConnOf(p) # Current
      PROVE  onTheWayBar'[p] = onTheWayBar[p]
  <2>1. InCall(p) => conn'[ConnOf(p)] = conn[ConnOf(p)]
    BY <1>1, <1>5, CallFacts
  <2>2. IsSentWhole(p)' <=> IsSentWhole(p)
    BY <1>4, <2>1 DEF IsSentWhole
  <2>3. QED
    BY <1>4, <2>1, <2>2, BarFields DEF IsSentWhole
<1>6. ASSUME NEW p \in Processes, InCall(p), ConnOf(p) = Current
      PROVE  /\ onTheWayBar[p] = {}
             /\ onTheWayBar'[p] = IF whole THEN rsp.messages ELSE {}
  <2>1. /\ CallSent(p) /\ conn[Current].peer
        /\ call[p].read \in Nat /\ conn[Current].down \in Nat
    BY <1>6, SentToNat DEF OwnershipInv, CallsInv
  <2>2. SentTo(p) = session.sent /\ SentTo(p) = call[p].read + conn[Current].down
    BY <1>1, <1>6, <2>1 DEF CallSent, SentTo
  <2>3. /\ SentTo(p) = 0 => conn[Current].response = NoResponse
        /\ session.sent # 0 => conn[Current].response = rsp
    BY <1>1, <1>6, <2>1 DEF CallSent
  <2>4. ~ IsSentWhole(p)
    <3>1. session.sent # 0 => session.sent # ResponsePartitions(rsp)
      BY <1>1 DEF SentInv
    <3>2. CASE session.sent = 0
      <4>1. conn[Current].response = NoResponse
        BY <2>2, <2>3, <3>2
      <4>2. ~ IsPull(NoResponse)
        BY DEF NoResponse, IsPull
      <4>3. QED
        BY <1>6, <4>1, <4>2 DEF IsSentWhole
    <3>3. CASE session.sent # 0
      BY <1>6, <2>2, <2>3, <3>1, <3>3 DEF IsSentWhole
    <3>4. QED
      BY <3>2, <3>3
  <2>5. conn'[Current].response = rsp /\ conn'[Current].down = conn[Current].down + 1
    BY <1>1, <2>1, ConnFields
  <2>6. call[p].read + conn'[Current].down = session.sent + 1
    BY <2>1, <2>2, <2>5
  <2>7. IsSentWhole(p)' <=> whole
    BY <1>4, <1>6, <2>5, <2>6 DEF IsSentWhole
  <2>8. QED
    BY <1>4, <1>6, <2>4, <2>5, <2>7, BarFields
<1>7. CASE ~ whole \/ rsp.messages = {}
  <2>1. \A p \in Processes : onTheWayBar'[p] = onTheWayBar[p]
    BY <1>5, <1>6, <1>7
  <2>2. QED
    BY <1>2, <1>3, <1>7, <2>1, SameOnTheWay DEF M!mailVars
<1>8. CASE whole /\ rsp.messages # {}
  <2>1. PICK lot, a : lot = rsp.messages /\ a = Request.clientId
    OBVIOUS
  <2>2. /\ Request.op = "PULL_MESSAGES" /\ \A m \in lot : m.toClient = a
        /\ IsOldestStored(lot, a)
    BY <1>1, <1>8, <2>1 DEF MailInv, SessionLot, LotFits
  <2>3. a \in ClientIds
    BY <1>1, <2>1, <2>2, RunningSession, RequestClient
  <2>4. M!IsOldestMail(lot, a) /\ lot \in SUBSET messages
    BY <2>2 DEF IsOldestStored, M!IsOldestMail
  <2>5. onTheWayBar' = onTheWayBar
          \/ \E p \in Processes : /\ addressBar[p] = a
                                  /\ onTheWayBar[p] = {}
                                  /\ onTheWayBar' = [onTheWayBar EXCEPT ![p] = lot]
    <3>1. CASE \A p \in Processes : ~ InCall(p) \/ ConnOf(p) # Current
      BY <1>5, <3>1, SameOnTheWay
    <3>2. ASSUME NEW p \in Processes, InCall(p), ConnOf(p) = Current
          PROVE  /\ addressBar[p] = a
                 /\ onTheWayBar[p] = {}
                 /\ onTheWayBar' = [onTheWayBar EXCEPT ![p] = lot]
      <4>1. myInfo[p] # NoInfo /\ a = myInfo[p].clientId
        BY <2>1, <2>2, <3>2 DEF OwnershipInv, CallsInv, RequestOf, Request
      <4>2. onTheWayBar[p] = {} /\ onTheWayBar'[p] = lot
        BY <1>6, <1>8, <2>1, <3>2
      <4>3. \A q \in Processes \ {p} : ~ InCall(q) \/ ConnOf(q) # Current
        BY <3>2 DEF OwnershipInv, CallsInv
      <4>4. QED
        BY <1>5, <4>1, <4>2, <4>3, BarFields, OneOnTheWay
    <3>3. QED
      BY <3>1, <3>2
  <2>6. M!HandOver(lot, a)
    BY <1>2, <1>3, <1>8, <2>1, <2>4, <2>5 DEF M!HandOver
  <2>7. QED
    BY <2>3, <2>4, <2>6 DEF M!Next
<1>9. QED
  BY <1>7, <1>8

\* What is on the way to the others stays there.
LEMMA OtherOnTheWay ==
  ASSUME IInv, OwnershipInv, NEW p \in Processes,
         \/ \E r \in Requests : Connect(p, r)
         \/ WritePartition(p) \/ ReadPartition(p)
         \/ ReadLastPartition(p) \/ FailCall(p) \/ AbortCall(p),
         NEW q \in Processes \ {p}
  PROVE  onTheWayBar'[q] = onTheWayBar[q]
<1>1. call'[q] = call[q]
  BY ConnectUses, CallGoesOn, CallEnds
<1>2. InCall(q)' <=> InCall(q)
  BY <1>1 DEF InCall
<1>3. InCall(q) => ConnOf(q)' = ConnOf(q) /\ conn'[ConnOf(q)] = conn[ConnOf(q)]
  BY OtherCalls
<1>4. IsSentWhole(q)' <=> IsSentWhole(q)
  BY <1>1, <1>2, <1>3 DEF IsSentWhole
<1>5. QED
  BY <1>3, <1>4, BarFields DEF IsSentWhole

\* A call that begins or goes on moves nothing of the mailbox.
LEMMA CallMailbox ==
  ASSUME IInv, OwnershipInv, SentInv, UNCHANGED <<storageVars, serverVars>>,
         NEW p \in Processes,
         \/ \E r \in Requests : Connect(p, r)
         \/ WritePartition(p) \/ ReadPartition(p)
  PROVE  UNCHANGED M!mailVars
<1>1. UNCHANGED <<session, messages, lastRowId, myInfo, received>>
  BY CallLots DEF storageVars, serverVars
<1>2. \A q \in Processes \ {p} : call'[q] = call[q]
  BY ConnectUses, CallGoesOn
<1>3. onTheWayBar'[p] = onTheWayBar[p]
  <2>1. CASE \E r \in Requests : Connect(p, r)
    <3>1. PICK r \in Requests, c \in Conns :
            /\ conn'[c] = Connected(r) /\ ~ InCall(p)
            /\ call'[p] = [phase |-> "open", conn |-> c, wrote |-> 0, read |-> 0]
      BY <2>1, ConnectUses
    <3>2. ConnOf(p)' = c /\ conn'[c].response = NoResponse
      BY <3>1 DEF ConnOf, Connected, FreeConn
    <3>3. ~ IsSentWhole(p) /\ ~ IsSentWhole(p)'
      BY <3>1, <3>2 DEF IsSentWhole, NoResponse, IsPull
    <3>4. QED
      BY <3>3, BarFields
  <2>2. CASE WritePartition(p) \/ ReadPartition(p)
    <3>1. PICK c \in Conns :
            /\ InCall(p) /\ InCall(p)' /\ c = ConnOf(p) /\ c = ConnOf(p)'
            /\ conn[c] \in ConnRecords
            /\ call[p].read \in Nat /\ conn[c].down \in Nat
            /\ \/ conn'[c] = Written(conn[c]) /\ call'[p].read = call[p].read
               \/ conn'[c] = Read(conn[c]) /\ call'[p].read = call[p].read + 1
      BY <2>2, CallGoesOn, SentToNat DEF ConnOf, InCall
    <3>2. /\ conn'[c].response = conn[c].response
          /\ \/ conn'[c].down = conn[c].down /\ call'[p].read = call[p].read
             \/ conn'[c].down = conn[c].down - 1 /\ call'[p].read = call[p].read + 1
      BY <3>1 DEF Written, Read, ConnRecords
    <3>3. call'[p].read + conn'[c].down = call[p].read + conn[c].down
      BY <3>1, <3>2
    <3>4. IsSentWhole(p)' <=> IsSentWhole(p)
      BY <3>1, <3>2, <3>3 DEF IsSentWhole
    <3>5. QED
      BY <3>1, <3>2, <3>4, BarFields
  <2>3. QED
    BY <2>1, <2>2
<1>4. ASSUME NEW q \in Processes \ {p}
      PROVE  onTheWayBar'[q] = onTheWayBar[q]
  BY <1>2, OtherOnTheWay
<1>5. UNCHANGED <<addressBar, offeredBar, onTheWayBar>>
  BY <1>1, <1>3, <1>4, SameAddresses, SameOnTheWay DEF offeredBar
<1>6. QED
  BY <1>1, <1>5 DEF M!mailVars

\* A call that ends receives the mail that is on its way, loses it, or joins.
LEMMA CallEndsMailbox ==
  ASSUME IInv, IInv', OwnershipInv, IdentityInv', SentInv,
         UNCHANGED <<storageVars, serverVars>>, NEW p \in Processes,
         ReadLastPartition(p) \/ FailCall(p) \/ AbortCall(p)
  PROVE  [M!Next]_(M!mailVars)
<1> DEFINE k == conn[ConnOf(p)]
<1>1. UNCHANGED <<offeredBar, messages, lastRowId>>
  BY DEF storageVars, serverVars, offeredBar
<1>2. /\ InCall(p) /\ call'[p] = NoCall /\ k \in ConnRecords
      /\ \A q \in Processes \ {p} : onTheWayBar'[q] = onTheWayBar[q]
  BY CallEnds, OtherOnTheWay
<1>3. onTheWayBar'[p] = {}
  BY <1>2, BarFields DEF IsSentWhole, InCall
<1>4. onTheWayBar' = [onTheWayBar EXCEPT ![p] = {}]
  BY <1>2, <1>3, OneOnTheWay
<1>5. /\ received \in [Processes -> Seq(SUBSET Messages)]
      /\ received' \in [Processes -> Seq(SUBSET Messages)]
      /\ myInfo \in [Processes -> Identities \cup {NoInfo}]
      /\ myInfo' \in [Processes -> Identities \cup {NoInfo}]
  BY DEF IInv, TypeOK, ClientTypeOK
<1>6. CASE received' # received
  <2>1. /\ ReadLastPartition(p) /\ IsPull(k.response) /\ k.response.messages # {}
        /\ received'[p] = Append(received[p], k.response.messages)
        /\ \A q \in Processes \ {p} : received'[q] = received[q]
        /\ myInfo' = myInfo
    BY <1>6, CallEndsReceived
  <2>2. IsSentWhole(p)
    <3>1. /\ call[p].read + 1 = ResponsePartitions(k.response) /\ k.down > 0
          /\ call[p].read \in Nat /\ k.down \in Nat
          /\ ResponsePartitions(k.response) \notin 1 .. (SentTo(p) - 1)
      BY <1>2, <2>1, SentToNat
         DEF ReadLastPartition, IsLastPartition, ResponseArriving, CallSent
    <3>2. SentTo(p) = ResponsePartitions(k.response)
      BY <3>1 DEF SentTo
    <3>3. QED
      BY <1>2, <2>1, <3>2 DEF IsSentWhole, SentTo
  <2>3. onTheWayBar[p] = k.response.messages
    BY <2>2, BarFields
  <2>4. received' = [received EXCEPT ![p] = Append(received[p], onTheWayBar[p])]
    BY <1>5, <2>1, <2>3
  <2>5. M!Receive(p)
    BY <1>1, <1>4, <2>1, <2>3, <2>4, SameAddresses DEF M!Receive
  <2>6. QED
    BY <2>5 DEF M!Next
<1>7. CASE received' = received /\ myInfo' = myInfo
  <2>1. addressBar' = addressBar
    BY <1>7, SameAddresses
  <2>2. CASE onTheWayBar[p] # {}
    BY <1>1, <1>4, <1>7, <2>1, <2>2 DEF M!Next, M!Lose
  <2>3. CASE onTheWayBar[p] = {}
    BY <1>1, <1>2, <1>3, <1>7, <2>1, <2>3, SameOnTheWay DEF M!mailVars
  <2>4. QED
    BY <2>2, <2>3
<1>8. CASE received' = received /\ myInfo' # myInfo
  <2>1. /\ k.response.code = "REGISTER_SUCCESS"
        /\ myInfo[p] = NoInfo /\ myInfo'[p] # NoInfo
        /\ \A q \in Processes \ {p} : myInfo'[q] = myInfo[q]
    BY <1>8, IdentityStays
  <2>2. PICK a : a = myInfo'[p].clientId
    OBVIOUS
  <2>3. a \in ClientIds /\ a # NoInfo
    BY <1>5, <2>1, <2>2, NoInfoAssumption DEF Identities
  <2>4. onTheWayBar[p] = {}
    BY <2>1, BarFields DEF IsSentWhole, IsPull
  <2>5. onTheWayBar' = onTheWayBar
    BY <1>2, <1>3, <2>4, SameOnTheWay
  <2>6. addressBar[p] = NoInfo /\ addressBar' = [addressBar EXCEPT ![p] = a]
    BY <2>1, <2>2 DEF addressBar
  <2>7. \A q \in Processes : addressBar[q] # a
    <3>1. \A q \in Processes \ {p} : myInfo'[q] # NoInfo => myInfo'[q].clientId # a
      BY <2>1, <2>2 DEF IdentityInv, OwnIdentity, Owner
    <3>2. QED
      BY <2>1, <2>3, <3>1, BarFields
  <2>8. M!Join(p, a)
    BY <1>1, <1>8, <2>5, <2>6, <2>7 DEF M!Join
  <2>9. QED
    BY <2>3, <2>8 DEF M!Next
<1>9. QED
  BY <1>6, <1>7, <1>8

\* Every step of the relay is a step of the mailbox, or none.
LEMMA MailboxStep ==
  ASSUME IInv, IInv', OwnershipInv, IdentityInv', MailInv, SentInv, [Next]_vars
  PROVE  [M!Next]_(M!mailVars)
<1>1. CASE Server
  BY <1>1, ServerMailbox, SendHandsOver DEF Server
<1>2. CASE UNCHANGED <<storageVars, socketVars, serverVars, clientVars>>
  <2>1. UNCHANGED <<myInfo, session, conn, call, messages, lastRowId, received>>
    BY <1>2 DEF storageVars, socketVars, serverVars, clientVars
  <2>2. UNCHANGED <<addressBar, offeredBar, onTheWayBar>>
    BY <2>1 DEF addressBar, offeredBar, onTheWayBar, IsSentWhole, InCall, ConnOf
  <2>3. QED
    BY <2>1, <2>2 DEF M!mailVars
<1>3. ASSUME NEW p \in Processes, UNCHANGED <<storageVars, serverVars>>,
             \/ \E r \in Requests : Connect(p, r)
             \/ WritePartition(p) \/ ReadPartition(p)
      PROVE  UNCHANGED M!mailVars
  BY <1>3, CallMailbox
<1>4. ASSUME NEW p \in Processes, UNCHANGED <<storageVars, serverVars>>,
             ReadLastPartition(p) \/ FailCall(p) \/ AbortCall(p)
      PROVE  [M!Next]_(M!mailVars)
  BY <1>4, CallEndsMailbox
<1>5. QED
  BY <1>1, <1>2, <1>3, <1>4, StepCases

\* The relay is a mailbox: whatever fails, mail is posted in its sender's own name,
\* handed over to its addressee oldest first, removed only after that, and received
\* at most once each time that it is handed over.
THEOREM Refinement == Spec => ImplementsMailbox
<1>1. Init => M!Init
  BY InitMailbox
<1>2. /\ IInv /\ IInv' /\ OwnershipInv /\ IdentityInv' /\ MailInv /\ SentInv
      /\ [Next]_vars
      => [M!Next]_(M!mailVars)
  BY MailboxStep
<1>3. QED
  BY <1>1, <1>2, Invariance, Ownership, Accounts, MailOfClients, Partitioned, PTL
     DEF Spec, ImplementsMailbox, M!Spec
==============================================================================
