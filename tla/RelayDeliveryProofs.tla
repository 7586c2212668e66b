------------------------ MODULE RelayDeliveryProofs --------------------------
(***************************************************************************)
(* Proofs, for all values of the constants, about the order in which mail  *)
(* reaches a client, and about how often.                                  *)
(***************************************************************************)
EXTENDS RelayInvariants, RelayMailboxProofs, FiniteSetTheorems, WellFoundedInduction

\* How the parts of a delivery move

\* Rows are added with a new id only.
LEMMA RowsMove ==
  ASSUME IInv, [Next]_vars
  PROVE  /\ lastRowId \in Nat /\ lastRowId' \in Nat /\ lastRowId <= lastRowId'
         /\ \A x \in messages' :
              x \in messages \/ (x.id = lastRowId + 1 /\ lastRowId' = lastRowId + 1)
         /\ \A x \in messages : x.id \in Nat
<1>1. lastRowId \in Nat /\ \A x \in messages : x.id \in Nat
  BY DEF IInv, TypeOK, StorageTypeOK, Messages
<1>2. CASE HandleSendMessage
  <2>1. PICK m : messages' = messages \cup {m} /\ m.id = lastRowId + 1
                   /\ lastRowId' = lastRowId + 1
    BY <1>2 DEF HandleSendMessage, send_message, save_message
  <2>2. QED
    BY <1>1, <2>1
<1>3. CASE ~ HandleSendMessage
  <2>1. lastRowId' = lastRowId /\ messages' \subseteq messages
    <3>1. CASE Server
      BY <1>3, <3>1, StorageMoves DEF _after_send_process, delete_client_messages, storageVars
    <3>2. CASE ~ Server
      BY <3>2, StepCases DEF storageVars
    <3>3. QED
      BY <3>1, <3>2
  <2>2. QED
    BY <1>1, <2>1
<1>4. QED
  BY <1>2, <1>3

\* A lot that is on its way was so before, or has just been pulled.
LEMMA LotsMove ==
  ASSUME IInv, IInv', OwnershipInv, SentInv, [Next]_vars,
         NEW p \in Processes, NEW lot \in Lots(p)'
  PROVE  \/ lot \in Lots(p)
         \/ /\ Server /\ HandlePullMessages /\ InCall(p) /\ ConnOf(p) = Current
            /\ lot = pull_messages(Request.clientId)
<1>1. InCall(p)'
  BY DEF Lots
<1>2. PICK rsp \in ResponsesTo(p)' : IsPull(rsp) /\ lot = rsp.messages
  BY <1>1 DEF Lots
<1>3. CASE Server
  <2>1. InCall(p) /\ ConnOf(p)' = ConnOf(p)
    BY <1>1, <1>3 DEF Server, clientVars, InCall, ConnOf
  <2>2. PICK c \in Conns : c = ConnOf(p) /\ c = ConnOf(p)' /\ conn[c].peer /\ conn[c] \in ConnRecords
    BY <2>1, CallFacts DEF OwnershipInv, CallsInv
  <2>3. CASE SendPartition
    <3>1. \/ conn'[c].response = conn[c].response
          \/ c = Current /\ conn'[c].response = session.response
      BY <2>2, <2>3, SendUses, ConnFields
    <3>2. session'.conn = session.conn /\ session'.response = session.response
          /\ session.pc = "send"
      BY <2>3, SendUses
    <3>3. rsp \in ResponsesTo(p)
      BY <1>2, <2>2, <3>1, <3>2 DEF ResponsesTo, Current
    <3>4. QED
      BY <1>2, <2>1, <3>3 DEF Lots
  <2>4. CASE ~ SendPartition
    <3>1. conn'[c].response = conn[c].response
      BY <1>3, <2>2, <2>4, ServerUses DEF ServerUse
    <3>2. CASE rsp = conn'[c].response
      BY <1>2, <2>1, <2>2, <3>1, <3>2 DEF Lots, ResponsesTo
    <3>3. CASE rsp = session'.response /\ c = Current' /\ session'.pc \in {"send", "after"}
      <4>1. CASE UNCHANGED session
        BY <1>2, <2>1, <2>2, <3>3, <4>1 DEF Lots, ResponsesTo, Current
      <4>2. CASE ~ UNCHANGED session
        <5>1. session'.conn = session.conn /\ HandlePullMessages /\ session.pc \in Before
          BY <1>2, <1>3, <2>4, <3>3, <4>2, SessionMoves DEF IsPull, Before
        <5>2. session \in Sessions
          BY DEF IInv, TypeOK, ServerTypeOK
        <5>3. session'.response
                = [code |-> "MESSAGES_PULLED_SUCCESS", messages |-> pull_messages(Request.clientId)]
          BY <3>3, <5>1, <5>2 DEF HandlePullMessages, Respond, Goto, Sessions
        <5>4. QED
          BY <1>2, <1>3, <2>1, <2>2, <3>3, <5>1, <5>3 DEF Current
      <4>3. QED
        BY <4>1, <4>2
    <3>4. QED
      BY <1>2, <2>2, <3>2, <3>3 DEF ResponsesTo
  <2>5. QED
    BY <2>3, <2>4
<1>4. CASE UNCHANGED <<storageVars, socketVars, serverVars, clientVars>>
  <2>1. UNCHANGED <<conn, call, session>>
    BY <1>4 DEF socketVars, clientVars, serverVars
  <2>2. QED
    BY <2>1 DEF Lots, ResponsesTo, InCall, ConnOf, Current
<1>5. ASSUME UNCHANGED <<storageVars, serverVars>>, NEW q \in Processes,
             \/ \E r \in Requests : Connect(q, r)
             \/ WritePartition(q) \/ ReadPartition(q)
             \/ ReadLastPartition(q) \/ FailCall(q) \/ AbortCall(q)
      PROVE  lot \in Lots(p)
  <2>1. UNCHANGED session
    BY <1>5 DEF serverVars
  <2>2. CASE p # q
    <3>1. InCall(p)
      <4>1. call'[p] = call[p]
        BY <1>5, <2>2, ConnectUses, CallGoesOn, CallEnds
      <4>2. QED
        BY <1>1, <4>1 DEF InCall
    <3>2. ConnOf(p)' = ConnOf(p) /\ conn'[ConnOf(p)] = conn[ConnOf(p)]
      BY <1>5, <2>2, <3>1, OtherCalls
    <3>3. rsp \in ResponsesTo(p)
      BY <1>2, <2>1, <3>2 DEF ResponsesTo, Current
    <3>4. QED
      BY <1>2, <3>1, <3>3 DEF Lots
  <2>3. CASE p = q
    <3>1. CASE \E r \in Requests : Connect(p, r)
      <4>1. PICK r \in Requests, c \in Conns :
              /\ conn[c] = FreeConn /\ conn'[c] = Connected(r)
              /\ call'[p] = [phase |-> "open", conn |-> c, wrote |-> 0, read |-> 0]
        BY <3>1, ConnectUses
      <4>2. ConnOf(p)' = c /\ conn'[c].response = NoResponse
        BY <4>1 DEF ConnOf, Connected, FreeConn
      <4>3. session.pc \in {"send", "after"} => c # Current
        BY <4>1, RunningSession DEF FreeConn
      <4>4. rsp = NoResponse
        BY <1>2, <2>1, <4>2, <4>3 DEF ResponsesTo, Current
      <4>5. QED
        BY <1>2, <4>4 DEF NoResponse, IsPull
    <3>2. CASE WritePartition(p) \/ ReadPartition(p)
      <4>1. PICK c \in Conns :
              /\ InCall(p) /\ c = ConnOf(p) /\ c = ConnOf(p)' /\ conn[c] \in ConnRecords
              /\ conn'[c] = Written(conn[c]) \/ conn'[c] = Read(conn[c])
        BY <3>2, CallGoesOn DEF ConnOf
      <4>2. conn'[c].response = conn[c].response
        BY <4>1 DEF Written, Read, ConnRecords
      <4>3. rsp \in ResponsesTo(p)
        BY <1>2, <2>1, <4>1, <4>2 DEF ResponsesTo, Current
      <4>4. QED
        BY <1>2, <4>1, <4>3 DEF Lots
    <3>3. CASE ReadLastPartition(p) \/ FailCall(p) \/ AbortCall(p)
      BY <1>1, <3>3, CallEnds DEF InCall
    <3>4. QED
      BY <1>5, <2>3, <3>1, <3>2, <3>3
  <2>4. QED
    BY <2>2, <2>3
<1>6. QED
  BY <1>3, <1>4, <1>5, StepCases

\* A client receives what is on its way, when all of it has been sent.
LEMMA ReceivedMove ==
  ASSUME IInv, OwnershipInv, SentInv, [Next]_vars, NEW p \in Processes
  PROVE  \/ received'[p] = received[p]
         \/ LET lot == conn[ConnOf(p)].response.messages
            IN  /\ received'[p] = Append(received[p], lot)
                /\ lot \in Lots(p) /\ lot \in SUBSET Messages
                /\ IsSentWhole(p) /\ ~ InCall(p)'
                /\ UNCHANGED <<storageVars, serverVars>>
<1>1. CASE \E q \in Processes : /\ UNCHANGED <<storageVars, serverVars>>
                                /\ ReadLastPartition(q) \/ FailCall(q) \/ AbortCall(q)
  <2>1. PICK q \in Processes : /\ UNCHANGED <<storageVars, serverVars>>
                               /\ ReadLastPartition(q) \/ FailCall(q) \/ AbortCall(q)
    BY <1>1
  <2>2. CASE received'[p] # received[p]
    <3>1. q = p /\ received' # received
      BY <2>1, <2>2, CallEndsReceived
    <3>2. PICK rsp : rsp = conn[ConnOf(p)].response
      OBVIOUS
    <3>3. /\ ReadLastPartition(p) /\ IsPull(rsp)
          /\ rsp.messages \in SUBSET Messages
          /\ received'[p] = Append(received[p], rsp.messages)
      BY <2>1, <3>1, <3>2, CallEndsReceived
    <3>4. InCall(p) /\ ~ InCall(p)' /\ conn[ConnOf(p)] \in ConnRecords
      BY <3>3, CallEnds DEF InCall
    <3>5. IsSentWhole(p)
      <4>1. /\ call[p].read + 1 = ResponsePartitions(rsp) /\ conn[ConnOf(p)].down > 0
            /\ call[p].read \in Nat /\ conn[ConnOf(p)].down \in Nat
            /\ ResponsePartitions(rsp) \notin 1 .. (SentTo(p) - 1)
        BY <3>2, <3>3, <3>4, SentToNat
           DEF ReadLastPartition, IsLastPartition, ResponseArriving, CallSent
      <4>2. SentTo(p) = ResponsePartitions(rsp)
        BY <4>1 DEF SentTo
      <4>3. QED
        BY <3>2, <3>3, <3>4, <4>2 DEF IsSentWhole, SentTo
    <3>6. rsp.messages \in Lots(p)
      BY <3>2, <3>3, <3>4 DEF Lots, ResponsesTo
    <3>7. QED
      BY <2>1, <3>2, <3>3, <3>4, <3>5, <3>6
  <2>3. QED
    BY <2>2
<1>2. CASE ~ \E q \in Processes : /\ UNCHANGED <<storageVars, serverVars>>
                                  /\ ReadLastPartition(q) \/ FailCall(q) \/ AbortCall(q)
  <2>1. UNCHANGED received
    BY <1>2, StepCases, ConnectUses, CallGoesOn DEF Server, clientVars
  <2>2. QED
    BY <2>1
<1>3. QED
  BY <1>1, <1>2

\* A lot on its way to p is addressed to p.
LEMMA LotsAddressed ==
  ASSUME IInv, OwnershipInv, MailInv, NEW p \in Processes, NEW lot \in Lots(p)
  PROVE  /\ myInfo[p] # NoInfo /\ lot \in SUBSET Messages
         /\ \A m \in lot : m.toClient = myInfo[p].clientId
<1>1. InCall(p) /\ ConnOf(p) \in Conns /\ conn[ConnOf(p)] \in ConnRecords
  BY CallFacts DEF Lots
<1>2. PICK rsp \in ResponsesTo(p) : IsPull(rsp) /\ lot = rsp.messages
  BY <1>1 DEF Lots
<1>3. LotFits(rsp, RequestOf(p)) /\ rsp \in Responses \cup {NoResponse}
  <2>1. CASE rsp = conn[ConnOf(p)].response
    BY <1>1, <2>1 DEF MailInv, RequestOf, ConnRecords
  <2>2. CASE rsp = session.response /\ ConnOf(p) = Current /\ session.pc \in {"send", "after"}
    BY <2>2 DEF MailInv, SessionLot, Request, RequestOf, IInv, TypeOK, ServerTypeOK, Sessions
  <2>3. QED
    BY <1>2, <2>1, <2>2 DEF ResponsesTo
<1>4. /\ RequestOf(p).op = "PULL_MESSAGES"
      /\ \A m \in lot : m.toClient = RequestOf(p).clientId
      /\ lot \in SUBSET Messages
  BY <1>2, <1>3, ResponseKinds DEF LotFits, IsPull
<1>5. QED
  BY <1>1, <1>4 DEF OwnershipInv, CallsInv

\* What is pulled for p is addressed to p.
LEMMA PulledFor ==
  ASSUME IInv, OwnershipInv, NEW p \in Processes, InCall(p), ConnOf(p) = Current,
         HandlePullMessages
  PROVE  /\ session.pc = "op" /\ UNCHANGED <<storageVars, socketVars, restarts>>
         /\ myInfo[p] # NoInfo /\ Request.clientId = myInfo[p].clientId
<1>1. /\ Request.op = "PULL_MESSAGES" /\ session.pc = "op"
      /\ UNCHANGED <<storageVars, socketVars, restarts>>
  BY DEF HandlePullMessages, Handle
<1>2. QED
  BY <1>1 DEF OwnershipInv, CallsInv, RequestOf, Request

-----------------------------------------------------------------------------
\* Order

\* The ids that p received in its pulls before the last one
LEMMA EarlierIds ==
  ASSUME NEW p \in Processes, received[p] \in Seq(SUBSET Messages), NEW lot \in SUBSET Messages,
         received'[p] = Append(received[p], lot)
  PROVE  LET n == Len(received[p])
         IN  /\ n \in Nat /\ DOMAIN received[p] = 1 .. n /\ DOMAIN received'[p] = 1 .. (n + 1)
             /\ received'[p][n + 1] = lot
             /\ \A i \in 1 .. n : received'[p][i] = received[p][i]
             /\ UNION {Ids(received'[p][i]) : i \in 1 .. n} = Ids(Delivered(p))
             /\ Delivered(p)' = lot \cup Delivered(p)
<1> DEFINE n == Len(received[p])
<1>1. n \in Nat /\ DOMAIN received[p] = 1 .. n /\ DOMAIN received'[p] = 1 .. (n + 1)
  OBVIOUS
<1>2. received'[p][n + 1] = lot /\ \A i \in 1 .. n : received'[p][i] = received[p][i]
  OBVIOUS
<1>3. UNION {Ids(received'[p][i]) : i \in 1 .. n} = Ids(Delivered(p))
  <2>1. UNION {Ids(received'[p][i]) : i \in 1 .. n} = UNION {Ids(received[p][i]) : i \in 1 .. n}
    BY <1>2
  <2>2. ASSUME NEW i \in DOMAIN received[p], NEW x \in Ids(received[p][i])
        PROVE  x \in Ids(Delivered(p))
    <3>1. PICK m \in received[p][i] : x = m.id
      BY DEF Ids
    <3>2. m \in Delivered(p)
      BY <3>1 DEF Delivered
    <3>3. QED
      BY <3>1, <3>2 DEF Ids
  <2>3. ASSUME NEW x \in Ids(Delivered(p))
        PROVE  x \in UNION {Ids(received[p][i]) : i \in DOMAIN received[p]}
    <3>1. PICK m \in Delivered(p) : x = m.id
      BY DEF Ids
    <3>2. PICK i \in DOMAIN received[p] : m \in received[p][i]
      BY DEF Delivered
    <3>3. x \in Ids(received[p][i])
      BY <3>1, <3>2 DEF Ids
    <3>4. QED
      BY <3>3
  <2>4. QED
    BY <1>1, <2>1, <2>2, <2>3
<1>4. Delivered(p)' = lot \cup Delivered(p)
  BY DeliveredAppend DEF Delivered
<1>5. QED
  BY <1>1, <1>2, <1>3, <1>4

InOrderFor(p) ==
  \A j \in DOMAIN received[p] : \A m \in received[p][j] :
    LET earlier == UNION {Ids(received[p][i]) : i \in 1 .. (j - 1)}
    IN  m.id \in earlier \/ \A id \in earlier : id < m.id

LEMMA InitOrder == Init => OrderInv
<1> SUFFICES ASSUME Init PROVE OrderInv
  OBVIOUS
<1>1. \A p \in Processes : received[p] = <<>> /\ ~ InCall(p)
  BY DEF Init, ClientInit, InCall
<1>2. \A p \in Processes : Delivered(p) = {} /\ Lots(p) = {}
  BY <1>1 DEF Delivered, Lots
<1>3. InOrder
  BY <1>1 DEF InOrder
<1>4. QED
  BY <1>2, <1>3 DEF OrderInv, ReceivedOrder

\* What a client received is not older than what is stored for it, and what is
\* then pulled for it comes after that.
LEMMA NextOrder ==
  ASSUME IInv, IInv', OwnershipInv, MailInv, SentInv, OrderInv, [Next]_vars
  PROVE  OrderInv'
<1>1. /\ lastRowId \in Nat /\ lastRowId' \in Nat /\ lastRowId <= lastRowId'
      /\ \A x \in messages' :
           x \in messages \/ (x.id = lastRowId + 1 /\ lastRowId' = lastRowId + 1)
      /\ \A x \in messages : x.id \in Nat
  BY RowsMove
<1>2. /\ received \in [Processes -> Seq(SUBSET Messages)]
      /\ \A p \in Processes : \A m \in Delivered(p) : m.id \in Nat
  <2>1. received \in [Processes -> Seq(SUBSET Messages)]
    BY DEF IInv, TypeOK, ClientTypeOK
  <2>2. ASSUME NEW p \in Processes, NEW i \in DOMAIN received[p]
        PROVE  received[p][i] \in SUBSET Messages
    BY <2>1, <2>2
  <2>3. QED
    BY <2>1, <2>2 DEF Delivered, Messages
<1>3. ASSUME NEW p \in Processes, NEW lot \in Lots(p)
      PROVE  \A m \in lot : m.id \in Nat
  BY <1>3, LotsAddressed DEF Messages
<1>4. ASSUME NEW p \in Processes, received'[p] = received[p]
      PROVE  /\ ReceivedOrder(p)'
             /\ \A lot \in Lots(p)' : LotOrder(p, lot)'
             /\ Delivered(p)' = Delivered(p)
  <2>1. Delivered(p)' = Delivered(p)
    BY <1>4 DEF Delivered
  <2>2. ASSUME NEW e \in Delivered(p), NEW x \in messages',
               x.toClient = e.toClient, x.id < e.id
        PROVE  x.id \in Ids(Delivered(p))
    <3>1. e.id \in Nat /\ e.id <= lastRowId
      BY <1>2 DEF OrderInv, ReceivedOrder
    <3>2. x \in messages
      BY <1>1, <2>2, <3>1
    <3>3. QED
      BY <2>2, <3>2 DEF OrderInv, ReceivedOrder
  <2>3. \A e \in Delivered(p) : e.id <= lastRowId'
    BY <1>1, <1>2 DEF OrderInv, ReceivedOrder
  <2>4. ReceivedOrder(p)'
    BY <2>1, <2>2, <2>3 DEF ReceivedOrder
  <2>5. ASSUME NEW lot \in Lots(p)
        PROVE  LotOrder(p, lot)'
    <3>1. LotOrder(p, lot)
      BY DEF OrderInv
    <3>2. ASSUME NEW m \in lot, NEW x \in messages', x.toClient = m.toClient, x.id < m.id
          PROVE  x.id \in Ids(lot)
      <4>1. m.id \in Nat /\ m.id <= lastRowId
        BY <1>3, <3>1 DEF LotOrder
      <4>2. x \in messages
        BY <1>1, <3>2, <4>1
      <4>3. QED
        BY <3>1, <3>2, <4>2 DEF LotOrder
    <3>3. \A m \in lot : m.id <= lastRowId'
      BY <1>1, <1>3, <3>1 DEF LotOrder
    <3>4. QED
      BY <2>1, <3>1, <3>2, <3>3 DEF LotOrder
  <2>6. ASSUME NEW lot, InCall(p), ConnOf(p) = Current, HandlePullMessages,
               lot = pull_messages(Request.clientId)
        PROVE  LotOrder(p, lot)'
    <3>1. UNCHANGED <<messages, lastRowId>> /\ Request.clientId = myInfo[p].clientId
      BY <2>6, PulledFor DEF storageVars
    <3>2. /\ lot \subseteq messages
          /\ \A m \in lot, x \in messages :
               x.toClient = Request.clientId /\ x.id < m.id => x \in lot
      BY <2>6, PulledAreOldest DEF IsOldestStored, IInv, TypeOK
    <3>3. \A m \in lot : m.toClient = Request.clientId
      BY <2>6 DEF pull_messages, pull_client_messages
    <3>4. \A m \in lot : m.id <= lastRowId
      BY <3>2 DEF MailInv, RowsInv
    <3>5. ASSUME NEW m \in lot, m.id \notin Ids(Delivered(p)), NEW e \in Delivered(p)
          PROVE  e.id < m.id
      <4>1. e.toClient = m.toClient
        BY <3>1, <3>3 DEF MailInv, ReceivedInv
      <4>2. ~ m.id < e.id
        BY <3>2, <3>5, <4>1 DEF OrderInv, ReceivedOrder
      <4>3. m.id # e.id
        BY <3>5 DEF Ids
      <4>4. QED
        BY <1>1, <1>2, <3>2, <4>2, <4>3
    <3>6. QED
      BY <2>1, <3>1, <3>2, <3>3, <3>4, <3>5 DEF LotOrder, Ids
  <2>7. QED
    BY <2>1, <2>4, <2>5, <2>6, LotsMove
<1>5. ASSUME NEW p \in Processes, received'[p] # received[p]
      PROVE  /\ ReceivedOrder(p)'
             /\ \A lot \in Lots(p)' : LotOrder(p, lot)'
             /\ InOrderFor(p)'
  <2>1. PICK lot \in Lots(p) :
          /\ received'[p] = Append(received[p], lot) /\ lot \in SUBSET Messages
          /\ ~ InCall(p)' /\ UNCHANGED <<storageVars, serverVars>>
    BY <1>5, ReceivedMove
  <2>2. LotOrder(p, lot) /\ ReceivedOrder(p)
    BY DEF OrderInv
  <2>3. received[p] \in Seq(SUBSET Messages)
    BY <1>2
  <2>4. PICK n \in Nat :
          /\ DOMAIN received[p] = 1 .. n /\ DOMAIN received'[p] = 1 .. (n + 1)
          /\ received'[p][n + 1] = lot
          /\ \A i \in 1 .. n : received'[p][i] = received[p][i]
          /\ UNION {Ids(received'[p][i]) : i \in 1 .. n} = Ids(Delivered(p))
          /\ Delivered(p)' = lot \cup Delivered(p)
    BY <2>1, <2>3, EarlierIds
  <2>5. Lots(p)' = {}
    BY <2>1 DEF Lots
  <2>6. UNCHANGED <<messages, lastRowId>>
    BY <2>1 DEF storageVars
  <2>7. Ids(Delivered(p)') = Ids(lot) \cup Ids(Delivered(p))
    BY <2>4 DEF Ids
  <2>8. ReceivedOrder(p)'
    <3>1. ASSUME NEW e \in Delivered(p)'
          PROVE  /\ e.id <= lastRowId
                 /\ \A x \in messages : x.toClient = e.toClient /\ x.id < e.id =>
                      x.id \in Ids(lot) \cup Ids(Delivered(p))
      <4>1. CASE e \in lot
        BY <2>2, <4>1 DEF LotOrder
      <4>2. CASE e \in Delivered(p)
        BY <2>2, <4>2 DEF ReceivedOrder
      <4>3. QED
        BY <2>4, <4>1, <4>2
    <3>2. QED
      BY <2>6, <2>7, <3>1 DEF ReceivedOrder
  <2>9. ASSUME NEW j \in DOMAIN received'[p], NEW m \in received'[p][j]
        PROVE  LET earlier == UNION {Ids(received'[p][i]) : i \in 1 .. (j - 1)}
               IN  m.id \in earlier \/ \A id \in earlier : id < m.id
    <3>1. CASE j = n + 1
      <4>1. UNION {Ids(received'[p][i]) : i \in 1 .. (j - 1)} = Ids(Delivered(p))
        <5>1. j - 1 = n
          BY <3>1
        <5>2. QED
          BY <2>4, <5>1
      <4>2. m.id \in Ids(Delivered(p)) \/ \A e \in Delivered(p) : e.id < m.id
        BY <2>2, <2>4, <2>9, <3>1 DEF LotOrder
      <4>3. QED
        BY <4>1, <4>2 DEF Ids
    <3>2. CASE j # n + 1
      <4>1. j \in 1 .. n
        BY <2>4, <3>2
      <4>2. \A i \in 1 .. (j - 1) : received'[p][i] = received[p][i]
        BY <2>4, <4>1
      <4>3. UNION {Ids(received'[p][i]) : i \in 1 .. (j - 1)}
              = UNION {Ids(received[p][i]) : i \in 1 .. (j - 1)}
        BY <4>2
      <4>4. j \in DOMAIN received[p] /\ m \in received[p][j]
        BY <2>4, <2>9, <4>1
      <4>5. QED
        BY <4>3, <4>4 DEF OrderInv, InOrder
    <3>3. QED
      BY <3>1, <3>2
  <2>10. InOrderFor(p)'
    BY <2>9 DEF InOrderFor, Ids
  <2>11. QED
    BY <2>5, <2>8, <2>10
<1>6. InOrder'
  <2>1. ASSUME NEW p \in Processes
        PROVE  InOrderFor(p)'
    <3>1. CASE received'[p] = received[p]
      BY <3>1 DEF OrderInv, InOrder, InOrderFor, Ids
    <3>2. CASE received'[p] # received[p]
      BY <1>5, <3>2
    <3>3. QED
      BY <3>1, <3>2
  <2>2. QED
    BY <2>1 DEF InOrder, InOrderFor
<1>7. QED
  BY <1>4, <1>5, <1>6 DEF OrderInv

\* What is on its way to a client, and what is stored for it, continue what it has
\* received: the ids grow (save_message, pull_messages).
THEOREM Ordered == Spec => []OrderInv
<1>1. Init => OrderInv
  BY InitOrder
<1>2. IInv /\ IInv' /\ OwnershipInv /\ MailInv /\ SentInv /\ OrderInv /\ [Next]_vars
      => OrderInv'
  BY NextOrder
<1>3. QED
  BY <1>1, <1>2, Invariance, Ownership, MailOfClients, Partitioned, PTL DEF Spec

\* The messages of a client reach it oldest first, also where the size of a
\* response cuts the list (pull_messages).
THEOREM Order == Spec => []InOrder
<1>1. OrderInv => InOrder
  BY DEF OrderInv
<1>2. QED
  BY <1>1, Ordered, PTL

-----------------------------------------------------------------------------
\* Once

\* A session is over, or its delete has been tried, when it leaves "after".
LEMMA AfterMoves ==
  ASSUME Server, session.pc = "after"
  PROVE  UNCHANGED session \/ _after_send_process \/ RestartServer
BY DEF Server, ServerStep, Select, _accept, BeginSession, RecvBuffer, RecvEof, RecvError,
       PreRequest, HandleRefused, Handle, HandleRegister, HandleListClients,
       HandleGetPublicKey, HandleSendMessage, HandlePullMessages, SendPartition,
       SendError, CloseSession

LEMMA RestartsGrow ==
  ASSUME IInv, [Next]_vars
  PROVE  /\ restarts \in Nat /\ restarts' \in Nat /\ restarts <= restarts'
         /\ RestartServer => restarts' = restarts + 1
<1>1. restarts \in Nat
  BY DEF IInv, TypeOK, ServerTypeOK
<1>2. RestartServer => restarts' = restarts + 1
  BY DEF RestartServer
<1>3. CASE Server /\ ~ RestartServer
  <2>1. UNCHANGED restarts
    BY <1>3 DEF Server, ServerStep, Select, _accept, BeginSession, RecvBuffer, RecvEof,
       RecvError, PreRequest, HandleRefused, Handle, HandleRegister, HandleListClients,
       HandleGetPublicKey, HandleSendMessage, HandlePullMessages, SendPartition,
       SendError, _after_send_process, CloseSession
  <2>2. QED
    BY <1>1, <1>2, <2>1
<1>4. CASE UNCHANGED serverVars
  BY <1>1, <1>2, <1>4 DEF serverVars
<1>5. QED
  BY <1>1, <1>2, <1>3, <1>4, StepCases

\* What was handed over is deleted next, unless it is too much for one DELETE or the
\* server ends.
LEMMA OfferedMoves ==
  ASSUME IInv, [Next]_vars, offeredBar # {}, offeredBar' # offeredBar
  PROVE  \/ RestartServer
         \/ ~ CanDelete(Ids(offeredBar))
         \/ messages' = {m \in messages : m.id \notin Ids(offeredBar)}
<1>1. /\ session.pc = "after" /\ IsPull(session.response)
      /\ session.response.messages = offeredBar
  BY DEF offeredBar
<1>2. session' # session
  BY DEF offeredBar
<1>3. RestartServer \/ _after_send_process
  BY <1>1, <1>2, AfterMoves, StepCases DEF serverVars
<1>4. CASE _after_send_process
  BY <1>1, <1>4 DEF _after_send_process, delete_client_messages, IsPull
<1>5. QED
  BY <1>3, <1>4

LEMMA PullsFinite ==
  ASSUME NEW p \in Processes, received[p] \in Seq(SUBSET Messages), NEW id
  PROVE  IsFiniteSet(Pulls(p, id)) /\ Times(p, id) \in Nat
<1>1. Len(received[p]) \in Int /\ DOMAIN received[p] = 1 .. Len(received[p])
  OBVIOUS
<1>2. Pulls(p, id) \in SUBSET (1 .. Len(received[p]))
  BY <1>1 DEF Pulls
<1>3. IsFiniteSet(Pulls(p, id))
  <2>1. IsFiniteSet(1 .. Len(received[p]))
    BY <1>1, FS_Interval
  <2>2. QED
    BY <1>2, <2>1, FS_Subset
<1>4. QED
  BY <1>3, FS_CardinalityType DEF Times

\* Another list counts for the ids in it, if one DELETE can remove it.
LEMMA TimesAppend ==
  ASSUME NEW p \in Processes, received[p] \in Seq(SUBSET Messages), NEW lot \in SUBSET Messages,
         received'[p] = Append(received[p], lot), NEW id
  PROVE  /\ Times(p, id)' = Times(p, id) + OneIf(IsDeletable(lot, id))
         /\ \A j \in DOMAIN received[p] :
              {i \in Pulls(p, id)' : i < j} = {i \in Pulls(p, id) : i < j}
         /\ {i \in Pulls(p, id)' : i < Len(received[p]) + 1} = Pulls(p, id)
<1>1. PICK n \in Nat :
        /\ n = Len(received[p])
        /\ DOMAIN received[p] = 1 .. n /\ DOMAIN received'[p] = 1 .. (n + 1)
        /\ received'[p][n + 1] = lot
        /\ \A i \in 1 .. n : received'[p][i] = received[p][i]
  BY EarlierIds
<1>2. Pulls(p, id)' = {i \in 1 .. (n + 1) : IsDeletable(received'[p][i], id)}
  BY <1>1 DEF Pulls, IsDeletable, CanDelete, Ids
<1>3. Pulls(p, id) = {i \in 1 .. n : IsDeletable(received[p][i], id)}
  BY <1>1 DEF Pulls
<1>4. PICK new, old : new = Pulls(p, id)' /\ old = Pulls(p, id)
  OBVIOUS
<1>5. new \subseteq 1 .. (n + 1) /\ old \subseteq 1 .. n
  BY <1>2, <1>3, <1>4
<1>6. \A i \in 1 .. n : i \in new <=> i \in old
  BY <1>1, <1>2, <1>3, <1>4
<1>7. n + 1 \in new <=> IsDeletable(lot, id)
  BY <1>1, <1>2, <1>4
<1>8. \A i \in 1 .. (n + 1) : i \in 1 .. n \/ i = n + 1
  OBVIOUS
<1>9. Times(p, id)' = Times(p, id) + OneIf(IsDeletable(lot, id))
  <2>1. CASE IsDeletable(lot, id)
    <3>1. n + 1 \notin old /\ \A i \in old : i \in new
      BY <1>5, <1>6
    <3>2. \A i \in new : i \in old \/ i = n + 1
      BY <1>5, <1>6, <1>8
    <3>3. new = old \cup {n + 1} /\ n + 1 \notin old
      BY <1>7, <2>1, <3>1, <3>2
    <3>4. Cardinality(old \cup {n + 1}) = Cardinality(old) + 1
      BY <1>4, <3>3, PullsFinite, FS_AddElement
    <3>5. QED
      BY <1>4, <2>1, <3>3, <3>4 DEF Times, OneIf
  <2>2. CASE ~ IsDeletable(lot, id)
    <3>1. new = old
      BY <1>5, <1>6, <1>7, <1>8, <2>2
    <3>2. Times(p, id) \in Nat
      BY PullsFinite
    <3>3. QED
      BY <1>4, <2>2, <3>1, <3>2 DEF Times, OneIf
  <2>3. QED
    BY <2>1, <2>2
<1>10. ASSUME NEW j \in 1 .. (n + 1)
       PROVE  {i \in new : i < j} = {i \in old : i < j}
  <2>1. ~ (n + 1 < j)
    OBVIOUS
  <2>2. QED
    BY <1>5, <1>6, <1>8, <2>1
<1>11. {i \in old : i < n + 1} = old
  <2>1. \A i \in old : i \in 1 .. n
    BY <1>5
  <2>2. \A i \in 1 .. n : i < n + 1
    OBVIOUS
  <2>3. \A i \in old : i < n + 1
    BY <2>1, <2>2
  <2>4. QED
    BY <2>3, Zenon
<1>12. QED
  BY <1>1, <1>4, <1>9, <1>10, <1>11

LEMMA TimesSame ==
  ASSUME NEW p \in Processes, received'[p] = received[p], NEW id
  PROVE  Times(p, id)' = Times(p, id) /\ Pulls(p, id)' = Pulls(p, id)
BY DEF Times, Pulls, IsDeletable, CanDelete, Ids

\* What is on its way as a whole is one of the lots.
LEMMA WholeIsLot ==
  ASSUME NEW p \in Processes
  PROVE  onTheWayBar[p] = {} \/ onTheWayBar[p] \in Lots(p)
BY BarFields DEF IsSentWhole, Lots, ResponsesTo

LEMMA InitOnce == Init => OnceInv
<1> SUFFICES ASSUME Init PROVE OnceInv
  OBVIOUS
<1>1. \A p \in Processes : received[p] = <<>> /\ ~ InCall(p)
  BY DEF Init, ClientInit, InCall
<1>2. \A p \in Processes : Lots(p) = {}
  BY <1>1 DEF Lots
<1>3. Ids(messages) = {}
  BY DEF Init, StorageInit, Ids
<1>4. AtMostOnce
  BY <1>1 DEF AtMostOnce
<1>5. QED
  BY <1>2, <1>3, <1>4 DEF OnceInv

\* How the count of a message that is stored, and stays so, follows the mailbox.
LEMMA StoredMoves ==
  ASSUME IInv, IInv', OwnershipInv, IdentityInv', MailInv, SentInv, OnceInv, [Next]_vars,
         NEW p \in Processes, NEW id \in Ids(messages), id \in Ids(messages')
  PROVE  StoredOnce(p, id)'
<1>1. received[p] \in Seq(SUBSET Messages) /\ Times(p, id) \in Nat
  BY PullsFinite DEF IInv, TypeOK, ClientTypeOK
<1>2. StoredOnce(p, id)
  BY DEF OnceInv
<1>3. restarts \in Nat /\ restarts' \in Nat /\ restarts <= restarts'
  BY RestartsGrow
<1> DEFINE WholeBefore == OneIf(IsDeletable(onTheWayBar[p], id))
           WholeAfter  == OneIf(IsDeletable(onTheWayBar'[p], id))
           Offers == OneIf(IsDeletable(offeredBar, id))
           Offered == OneIf(IsDeletable(offeredBar', id))
<1>4. /\ WholeBefore \in 0 .. 1 /\ WholeAfter \in 0 .. 1 /\ Offers \in 0 .. 1 /\ Offered \in 0 .. 1
      /\ Times(p, id) + WholeBefore <= restarts + Offers
  BY <1>2 DEF OneIf, StoredOnce
<1>5. (Times(p, id) + WholeBefore <= restarts + Offers
        /\ StoredOnce(p, id)') <=>
      (Times(p, id) + WholeBefore <= restarts + Offers
        /\ Times(p, id)' + WholeAfter <= restarts' + Offered)
  BY DEF StoredOnce, IsDeletable, CanDelete, Ids, OneIf
<1> SUFFICES Times(p, id)' + WholeAfter <= restarts' + Offered
  BY <1>4, <1>5
<1>6. IsDeletable({}, id) = FALSE /\ OneIf(FALSE) = 0
  BY DEF IsDeletable, Ids, OneIf
<1>7. \/ offeredBar' = offeredBar
      \/ offeredBar = {}
      \/ Offers = 0
      \/ restarts' = restarts + 1
  <2>1. CASE messages' = {m \in messages : m.id \notin Ids(offeredBar)}
    <3>1. id \notin Ids(offeredBar)
      BY <2>1 DEF Ids
    <3>2. QED
      BY <3>1 DEF IsDeletable, OneIf
  <2>2. CASE ~ CanDelete(Ids(offeredBar))
    BY <2>2 DEF IsDeletable, OneIf
  <2>3. QED
    BY <2>1, <2>2, OfferedMoves, RestartsGrow
<1>8. offeredBar = {} => Offers = 0
  BY <1>6
<1>9. CASE received'[p] = received[p] /\ onTheWayBar'[p] \in {onTheWayBar[p], {}}
  <2>1. Times(p, id)' = Times(p, id)
    BY <1>9, TimesSame
  <2>2. WholeAfter <= WholeBefore
    <3>1. CASE onTheWayBar'[p] = onTheWayBar[p]
      BY <1>4, <3>1
    <3>2. CASE onTheWayBar'[p] = {}
      <4>1. ~ IsDeletable(onTheWayBar'[p], id)
        BY <3>2 DEF IsDeletable, Ids
      <4>2. WholeAfter = 0
        BY <4>1 DEF OneIf
      <4>3. QED
        BY <1>4, <4>2
    <3>3. QED
      BY <1>9, <3>1, <3>2
  <2>3. offeredBar' = offeredBar => Offered = Offers
    OBVIOUS
  <2> HIDE DEF WholeBefore, WholeAfter, Offers, Offered
  <2>4. QED
    BY <1>1, <1>3, <1>4, <1>7, <1>8, <2>1, <2>2, <2>3
<1>10. CASE received' = received /\ offeredBar = {} /\ onTheWayBar'[p] = offeredBar'
  <2>1. Times(p, id)' = Times(p, id) /\ WholeAfter = Offered
    BY <1>10, TimesSame
  <2> HIDE DEF WholeBefore, WholeAfter, Offers, Offered
  <2>2. QED
    BY <1>1, <1>3, <1>4, <1>8, <1>10, <2>1
<1>11. CASE /\ received'[p] = Append(received[p], onTheWayBar[p])
            /\ onTheWayBar[p] \in SUBSET Messages
            /\ onTheWayBar'[p] = {} /\ offeredBar' = offeredBar
  <2>1. Times(p, id)' = Times(p, id) + WholeBefore
    BY <1>1, <1>11, TimesAppend
  <2>2. WholeAfter = 0 /\ Offered = Offers
    BY <1>6, <1>11
  <2> HIDE DEF WholeBefore, WholeAfter, Offers, Offered
  <2>3. QED
    BY <1>1, <1>3, <1>4, <2>1, <2>2
<1>12. QED
  <2>1. /\ onTheWayBar = [q \in Processes |-> onTheWayBar[q]]
        /\ received = [q \in Processes |-> received[q]]
    BY DEF onTheWayBar, IInv, TypeOK, ClientTypeOK
  <2>2. CASE UNCHANGED M!mailVars
    BY <1>9, <2>2 DEF M!mailVars
  <2>3. CASE M!Next
    <3>1. CASE \E q \in Processes, a \in ClientIds : M!Join(q, a)
      BY <1>9, <3>1 DEF M!Join
    <3>2. CASE M!Post
      BY <1>9, <3>2 DEF M!Post, M!PostMail
    <3>3. CASE \E lot \in SUBSET messages, a \in ClientIds : M!HandOver(lot, a)
      <4>1. PICK lot \in SUBSET messages, a \in ClientIds : M!HandOver(lot, a)
        BY <3>3
      <4>2. CASE UNCHANGED onTheWayBar
        BY <1>9, <4>1, <4>2 DEF M!HandOver
      <4>3. CASE \E q \in Processes : onTheWayBar' = [onTheWayBar EXCEPT ![q] = lot]
        BY <1>9, <1>10, <2>1, <4>1, <4>3 DEF M!HandOver
      <4>4. QED
        BY <4>1, <4>2, <4>3 DEF M!HandOver
    <3>4. CASE M!Settle
      BY <1>9, <3>4 DEF M!Settle
    <3>5. CASE \E q \in Processes : M!Receive(q)
      <4>1. PICK q \in Processes : M!Receive(q)
        BY <3>5
      <4>2. CASE q = p
        <5>1. onTheWayBar[p] \in SUBSET Messages
          BY WholeIsLot, LotsAddressed
        <5>2. QED
          BY <1>11, <2>1, <4>1, <4>2, <5>1 DEF M!Receive
      <4>3. CASE q # p
        BY <1>9, <2>1, <4>1, <4>3 DEF M!Receive
      <4>4. QED
        BY <4>2, <4>3
    <3>6. CASE \E q \in Processes : M!Lose(q)
      <4>1. PICK q \in Processes : M!Lose(q)
        BY <3>6
      <4>2. received' = received /\ onTheWayBar' = [onTheWayBar EXCEPT ![q] = {}]
        BY <4>1 DEF M!Lose
      <4>3. QED
        BY <1>9, <2>1, <4>2
    <3>7. QED
      BY <2>3, <3>1, <3>2, <3>3, <3>4, <3>5, <3>6 DEF M!Next
  <2>4. QED
    BY <2>2, <2>3, MailboxStep

\* Mail that is posted is nowhere else.
LEMMA NewStored ==
  ASSUME IInv, IInv', OwnershipInv, IdentityInv', MailInv, SentInv, OrderInv, [Next]_vars,
         NEW p \in Processes, NEW id \in Ids(messages'), id \notin Ids(messages)
  PROVE  StoredOnce(p, id)'
<1>1. id = lastRowId + 1 /\ lastRowId \in Nat
  BY RowsMove DEF Ids
<1>2. UNCHANGED <<received, onTheWayBar, offeredBar>>
  <2>1. ~ (messages' \subseteq messages)
    BY DEF Ids
  <2>2. CASE M!Post
    BY <2>2 DEF M!Post, M!PostMail
  <2>3. CASE ~ M!Post
    BY <2>1, <2>3, MailboxStep
       DEF M!mailVars, M!Next, M!Join, M!HandOver, M!Settle, M!Receive, M!Lose
  <2>4. QED
    BY <2>2, <2>3
<1>3. received[p] \in Seq(SUBSET Messages)
  BY DEF IInv, TypeOK, ClientTypeOK
<1>4. Times(p, id)' = 0
  <2>1. \A e \in Delivered(p) : e.id <= lastRowId /\ e.id \in Nat
    BY <1>3 DEF OrderInv, ReceivedOrder, Delivered, Messages
  <2>2. Pulls(p, id) = {}
    BY <1>1, <2>1 DEF Pulls, IsDeletable, Ids, Delivered
  <2>3. QED
    BY <1>2, <2>2, FS_EmptySet, TimesSame DEF Times
<1>5. ~ IsDeletable(onTheWayBar'[p], id)
  <2>1. \A m \in onTheWayBar[p] : m.id <= lastRowId /\ m.id \in Nat
    BY WholeIsLot, LotsAddressed DEF OrderInv, LotOrder, Messages
  <2>2. QED
    BY <1>1, <1>2, <2>1 DEF IsDeletable, Ids
<1>6. restarts' \in Nat
  BY RestartsGrow
<1>7. OneIf(IsDeletable(onTheWayBar[p], id))' = 0
  BY <1>5 DEF IsDeletable, Ids, CanDelete, OneIf
<1>8. OneIf(IsDeletable(offeredBar, id))' \in 0 .. 1
  BY DEF OneIf
<1>9. QED
  BY <1>4, <1>6, <1>7, <1>8 DEF StoredOnce

\* A pull is answered when every delete before it has been tried, so that the client
\* got what it finds only where a delete failed or the server ended before it.
LEMMA NextOnce ==
  ASSUME IInv, IInv', OwnershipInv, IdentityInv', MailInv, SentInv, OrderInv, OnceInv,
         [Next]_vars
  PROVE  OnceInv'
<1>1. \A p \in Processes : received[p] \in Seq(SUBSET Messages)
  BY DEF IInv, TypeOK, ClientTypeOK
<1>2. restarts \in Nat /\ restarts' \in Nat /\ restarts <= restarts'
  BY RestartsGrow
<1>3. ASSUME NEW p \in Processes, NEW id
      PROVE  /\ Times(p, id) \in Nat
             /\ \A j : Cardinality({i \in Pulls(p, id) : i < j}) \in Nat
  <2>1. IsFiniteSet(Pulls(p, id)) /\ Times(p, id) \in Nat
    BY <1>1, PullsFinite
  <2>2. QED
    BY <2>1, FS_Subset, FS_CardinalityType
<1>4. ASSUME NEW p \in Processes, NEW lot \in Lots(p)'
      PROVE  LotOnce(p, lot)'
  <2>1. received'[p] = received[p]
    BY <1>4, ReceivedMove DEF Lots
  <2>2. CASE lot \in Lots(p)
    BY <1>2, <1>3, <2>1, <2>2, TimesSame DEF OnceInv, LotOnce, Ids
  <2>3. CASE /\ HandlePullMessages /\ InCall(p) /\ ConnOf(p) = Current
             /\ lot = pull_messages(Request.clientId)
    <3>1. session.pc = "op" /\ lot \subseteq messages
      BY <2>3, PulledFor DEF pull_messages, pull_client_messages
    <3>2. offeredBar = {}
      BY <3>1 DEF offeredBar
    <3>3. ASSUME NEW id \in Ids(lot)
          PROVE  Times(p, id) <= restarts
      <4>1. StoredOnce(p, id)
        BY <3>1, <3>3 DEF OnceInv, Ids
      <4>2. ~ IsDeletable(offeredBar, id)
        BY <3>2 DEF IsDeletable, Ids
      <4>3. QED
        BY <1>2, <1>3, <4>1, <4>2 DEF StoredOnce, OneIf
    <3>4. QED
      BY <1>2, <1>3, <2>1, <3>3, TimesSame DEF LotOnce, Ids
  <2>4. QED
    BY <2>2, <2>3, LotsMove
<1>5. ASSUME NEW p \in Processes, NEW id \in Ids(messages')
      PROVE  StoredOnce(p, id)'
  BY <1>5, StoredMoves, NewStored
<1>6. AtMostOnce'
  <2>1. ASSUME NEW p \in Processes, NEW j \in DOMAIN received'[p], NEW id \in Ids(received'[p][j])
        PROVE  Cardinality({i \in Pulls(p, id)' : i < j}) <= restarts'
    <3>1. CASE received'[p] = received[p]
      <4>1. Cardinality({i \in Pulls(p, id) : i < j}) <= restarts
        BY <2>1, <3>1 DEF OnceInv, AtMostOnce
      <4>2. QED
        BY <1>2, <1>3, <3>1, <4>1, TimesSame
    <3>2. CASE received'[p] # received[p]
      <4>1. PICK lot \in Lots(p) :
              received'[p] = Append(received[p], lot) /\ lot \in SUBSET Messages
        BY <3>2, ReceivedMove
      <4>2. PICK n \in Nat :
              /\ n = Len(received[p])
              /\ DOMAIN received[p] = 1 .. n /\ DOMAIN received'[p] = 1 .. (n + 1)
              /\ received'[p][n + 1] = lot
              /\ \A i \in 1 .. n : received'[p][i] = received[p][i]
        BY <1>1, <4>1, EarlierIds
      <4>3. CASE j = n + 1
        <5>1. {i \in Pulls(p, id)' : i < j} = Pulls(p, id)
          BY <1>1, <4>1, <4>2, <4>3, TimesAppend
        <5>2. Times(p, id) <= restarts
          BY <2>1, <4>1, <4>2, <4>3 DEF OnceInv, LotOnce
        <5>3. QED
          BY <1>2, <1>3, <5>1, <5>2 DEF Times
      <4>4. CASE j # n + 1
        <5>1. j \in DOMAIN received[p] /\ received'[p][j] = received[p][j]
          BY <2>1, <4>2, <4>4
        <5>2. {i \in Pulls(p, id)' : i < j} = {i \in Pulls(p, id) : i < j}
          BY <1>1, <4>1, <5>1, TimesAppend
        <5>3. Cardinality({i \in Pulls(p, id) : i < j}) <= restarts
          BY <2>1, <5>1 DEF OnceInv, AtMostOnce
        <5>4. QED
          BY <1>2, <1>3, <5>2, <5>3
      <4>5. QED
        BY <4>3, <4>4
    <3>3. QED
      BY <3>1, <3>2
  <2>2. QED
    BY <2>1 DEF AtMostOnce, Ids
<1>7. QED
  BY <1>4, <1>5, <1>6 DEF OnceInv, Ids

\* A client gets a message again only if the server ended after sending it and
\* before deleting it, each time anew, or could not delete so many
\* (_after_send_process).
THEOREM Once == Spec => []AtMostOnce
<1>1. Init => OnceInv
  BY InitOnce
<1>2. /\ IInv /\ IInv' /\ OwnershipInv /\ IdentityInv' /\ MailInv /\ SentInv
      /\ OrderInv /\ OnceInv /\ [Next]_vars
      => OnceInv'
  BY NextOnce
<1>3. OnceInv => AtMostOnce
  BY DEF OnceInv
<1>4. QED
  BY <1>1, <1>2, <1>3, Invariance, Ownership, Accounts, MailOfClients, Partitioned, Ordered,
     PTL DEF Spec
==============================================================================
