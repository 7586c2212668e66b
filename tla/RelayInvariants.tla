-------------------------- MODULE RelayInvariants ---------------------------
(***************************************************************************)
(* Invariants of the relay that its properties rest on, beside IInv: which *)
(* process holds which connection, whose account a response grants, which  *)
(* mail is in which response, and how much of a response has been sent.    *)
(***************************************************************************)
EXTENDS RelayMailbox

\* Calls and connections: a call has a connection of its own, whose client's end
\* is open, and asks in the name of its process; a connection with that end open
\* is that of a call, and one that was abandoned holds nothing to read.
CallsInv ==
  /\ \A p \in Processes : InCall(p) =>
       /\ conn[ConnOf(p)].peer
       /\ conn[ConnOf(p)].end # "none"
       /\ IF RequestOf(p).op = "REGISTER"
            THEN myInfo[p] = NoInfo
            ELSE myInfo[p] # NoInfo /\ RequestOf(p).clientId = myInfo[p].clientId
  /\ \A p, q \in Processes : InCall(p) /\ InCall(q) /\ ConnOf(p) = ConnOf(q) => p = q

HeldOrAbandoned(c) ==
  IF conn[c].peer
    THEN \E p \in Processes : InCall(p) /\ ConnOf(p) = c
    ELSE conn[c].response = NoResponse /\ conn[c].down = 0

FromOwner(k) ==
  k.end # "none" /\ k.request.op # "REGISTER" => Owner(k.request.clientId) # {}

OwnershipInv ==
  CallsInv /\ \A c \in Conns : HeldOrAbandoned(c) /\ FromOwner(conn[c])

-----------------------------------------------------------------------------
\* Identities: the account that the response of a registration grants is nobody's
\* yet, its row has the name in the request, and no other response grants it.
IsGrant(rsp) == rsp.code = "REGISTER_SUCCESS"

GrantFits(rsp, r) ==
  IsGrant(rsp) =>
    /\ Owner(rsp.clientId) = {}
    /\ is_client_id_exist(rsp.clientId)
    /\ \A row \in clients : row.id = rsp.clientId => row.userName = r.userName

\* An id that is not fresh any more
IsUsed(id) == id \in ForeignIds \/ is_client_id_exist(id)

ConnGrants ==
  /\ \A c \in Conns : GrantFits(conn[c].response, conn[c].request)
  /\ \A c, d \in Conns :
       /\ IsGrant(conn[c].response)
       /\ IsGrant(conn[d].response)
       /\ conn[c].response.clientId = conn[d].response.clientId
       => c = d

SessionGrant ==
  /\ session.pc \in {"recv", "pre", "op"} => session.sent = 0
  /\ session.pc = "send" /\ IsGrant(session.response) =>
       /\ session.sent = 0
       /\ GrantFits(session.response, Request)
       /\ \A c \in Conns : IsGrant(conn[c].response) =>
            conn[c].response.clientId # session.response.clientId

IdentityInv ==
  /\ OwnIdentity
  /\ \A p \in Processes : myInfo[p] # NoInfo => IsUsed(myInfo[p].clientId)
  /\ ConnGrants
  /\ SessionGrant

-----------------------------------------------------------------------------
\* Mail: an id names one row; a response to a pull holds rows of the client that
\* asked; while it is sent they are still stored, and no older ones are left out.
RowsInv ==
  /\ \A m \in messages : m.id <= lastRowId
  /\ \A m, x \in messages : m.id = x.id => m = x

LotFits(rsp, r) ==
  IsPull(rsp) => /\ r.op = "PULL_MESSAGES"
                 /\ \A m \in rsp.messages : m.toClient = r.clientId

IsOldestStored(lot, id) ==
  /\ lot \subseteq messages
  /\ \A m \in lot, x \in messages : x.toClient = id /\ x.id < m.id => x \in lot

SessionLot ==
  session.pc \in {"send", "after"} =>
    /\ LotFits(session.response, Request)
    /\ IsPull(session.response) => IsOldestStored(session.response.messages, Request.clientId)
    /\ session.pc = "after" => session.sent = ResponsePartitions(session.response)

ReceivedInv ==
  \A p \in Processes : \A m \in Delivered(p) :
    myInfo[p] # NoInfo /\ m.toClient = myInfo[p].clientId

MailInv ==
  /\ RowsInv
  /\ \A c \in Conns : LotFits(conn[c].response, conn[c].request)
  /\ SessionLot
  /\ ReceivedInv

-----------------------------------------------------------------------------
\* Partitions: what a client has read and what waits for it is what the session
\* sent, and nothing is sent after the last partition.
SentTo(p) == call[p].read + conn[ConnOf(p)].down

CallSent(p) ==
  LET k == conn[ConnOf(p)]
  IN  /\ k.down \in Nat
      /\ SentTo(p) = 0 => k.response = NoResponse
      /\ ResponsePartitions(k.response) \notin 1 .. (SentTo(p) - 1)
      /\ IsOpen(ConnOf(p)) /\ (ConnOf(p) = Current => session.pc \in {"recv", "pre", "op"})
           => SentTo(p) = 0
      /\ ConnOf(p) = Current /\ session.pc \in {"send", "after"} =>
           /\ SentTo(p) = session.sent
           /\ session.sent # 0 => k.response = session.response

SentInv ==
  /\ session.pc = "send" => ResponsePartitions(session.response) \notin 1 .. session.sent
  /\ session.pc = "after" =>
       /\ session.sent # 0
       /\ ResponsePartitions(session.response) \notin 1 .. (session.sent - 1)
  /\ \A p \in Processes : InCall(p) => CallSent(p)

-----------------------------------------------------------------------------
\* Waiting: only a client that dies leaves a connection that was not accepted.
WaitingInv ==
  \A c \in Conns :
    conn[c].end = "backlog" => conn[c].peer \/ \E p \in Processes : aborts[p] > 0

-----------------------------------------------------------------------------
\* Order: the lots on their way to a client, in the response that its connection
\* holds or the session still sends on it, continue what it has received.
ResponsesTo(p) ==
  {conn[ConnOf(p)].response} \cup
    {rsp \in {session.response} : ConnOf(p) = Current /\ session.pc \in {"send", "after"}}

Lots(p) ==
  IF InCall(p) THEN {rsp.messages : rsp \in {r \in ResponsesTo(p) : IsPull(r)}} ELSE {}

ReceivedOrder(p) ==
  \A e \in Delivered(p) :
    /\ e.id <= lastRowId
    /\ \A x \in messages : x.toClient = e.toClient /\ x.id < e.id => x.id \in Ids(Delivered(p))

LotOrder(p, lot) ==
  \A m \in lot :
    /\ m.id <= lastRowId
    /\ \A x \in messages : x.toClient = m.toClient /\ x.id < m.id => x.id \in Ids(lot)
    /\ m.id \in Ids(Delivered(p)) \/ \A e \in Delivered(p) : e.id < m.id

OrderInv ==
  /\ InOrder
  /\ \A p \in Processes : ReceivedOrder(p) /\ \A lot \in Lots(p) : LotOrder(p, lot)

\* Once: each time that a client got a message which is stored, or is sent to it
\* again, the server ended before it was deleted; it gets it once more while it is
\* on its way, and that delete is about to be tried.
Times(p, id) == Cardinality(Pulls(p, id))

OneIf(b) == IF b THEN 1 ELSE 0

LotOnce(p, lot) == \A id \in Ids(lot) : Times(p, id) <= restarts

StoredOnce(p, id) ==
  Times(p, id) + OneIf(IsDeletable(onTheWayBar[p], id))
    <= restarts + OneIf(IsDeletable(offeredBar, id))

OnceInv ==
  /\ AtMostOnce
  /\ \A p \in Processes : /\ \A lot \in Lots(p) : LotOnce(p, lot)
                          /\ \A id \in Ids(messages) : StoredOnce(p, id)

-----------------------------------------------------------------------------
\* Bytes: the server has taken at most a partition per step of its parser, which
\* counts the partitions of a request as its client does.
CallBytes(p) ==
  LET k     == conn[ConnOf(p)]
      index == session.payload.index
  IN  /\ call[p].wrote <= RequestPartitions(k.request)
      /\ IsOpen(ConnOf(p)) /\ (ConnOf(p) = Current => session.pc = "recv" /\ index = 0)
           => k.up = BUFFER_PARTITION_SIZE * call[p].wrote
      /\ ConnOf(p) = Current /\ session.pc = "recv" /\ index # 0 =>
           /\ 0 < index
           /\ index < k.request.contentSize
           /\ BUFFER_PARTITION_SIZE * call[p].wrote <= k.up + index + SendHeaderSize

BytesInv == \A p \in Processes : InCall(p) => CallBytes(p)

-----------------------------------------------------------------------------
\* Contents: while recv() returns whole partitions, the content under construction
\* is whole as far as it goes, unless its sender died while it wrote; what the
\* server has not yet answered was abandoned only so.
WholePayload(size, upto) ==
  session.payload = [index |-> upto, length |-> size, carried |-> upto]

SessionWhole ==
  session.pc \in {"recv", "pre", "op"} /\ Request.op = "SEND_MESSAGE"
    /\ conn[Current].peer =>
    LET size == Request.contentSize
    IN  IF session.pc = "recv"
          THEN \/ session.payload = NoPayload
               \/ WholePayload(size, session.payload.index)
          ELSE WholePayload(size, size)

AbandonedOnlyByAbort ==
  \A c \in Conns :
    /\ IsOpen(c)
    /\ ~ conn[c].peer
    /\ conn[c].request.op # "REGISTER"
    /\ c = Current => session.pc \in {"recv", "pre", "op", "send"}
    => Aborted(conn[c].request.clientId)

WholeInv ==
  /\ TruncatedOnlyByAbort
  /\ \A c \in Conns :
       IsOpen(c) => conn[c].up \in Nat /\ conn[c].up % BUFFER_PARTITION_SIZE = 0
  /\ AbandonedOnlyByAbort
  /\ SessionWhole

\* What is left of a request: while its content is read, the partitions behind the
\* index; once it has been read, nothing.
ReadUp(p) ==
  LET k     == conn[ConnOf(p)]
      index == session.payload.index
  IN  /\ ConnOf(p) = Current /\ session.pc = "recv" /\ index # 0 =>
           BUFFER_PARTITION_SIZE * call[p].wrote = k.up + index + SendHeaderSize
      /\ \/ SentTo(p) # 0
         \/ ConnOf(p) = Current /\ session.pc \notin {"select", "recv"}
         => k.up = 0 /\ call[p].wrote = RequestPartitions(k.request)

ReadUpInv == \A p \in Processes : InCall(p) => ReadUp(p)

-----------------------------------------------------------------------------
\* Acknowledgements: those that clients got, and those on their way to them, say
\* what is in the mail of that id, wherever it is.
AckOf(r, rsp) ==
  [id |-> rsp.messageId, from |-> r.clientId, to |-> r.destClientId,
   type |-> r.messageType, size |-> r.contentSize]

AcksTo(p) ==
  IF InCall(p)
    THEN {AckOf(RequestOf(p), rsp) :
            rsp \in {r \in ResponsesTo(p) : r.code = "MESSAGE_SENT_SUCCESS"}}
    ELSE {}

Acked == UNION {acked[p] \cup AcksTo(p) : p \in Processes}

AllMail == messages \cup UNION {Delivered(p) \cup UNION Lots(p) : p \in Processes}

IsAckOf(a, m) ==
  /\ m.fromClient = a.from /\ m.toClient = a.to
  /\ m.type = a.type /\ m.size = a.size

AcksInv ==
  \A a \in Acked : /\ a.id <= lastRowId
                   /\ \A m \in AllMail : m.id = a.id => IsAckOf(a, m) /\ Whole(m)

\* What was acknowledged is kept until it has been received.
IsKept(id, to) ==
  \/ id \in Ids(messages)
  \/ \E q \in Owner(to) : id \in Ids(onTheWayBar[q]) \cup Ids(Delivered(q))
  \/ Aborted(to)

AfterKept ==
  session.pc = "after" /\ IsPull(session.response) /\ ~ conn[Current].peer =>
    \/ Aborted(Request.clientId)
    \/ \E q \in Owner(Request.clientId) :
         Ids(session.response.messages) \subseteq Ids(Delivered(q))

KeptInv ==
  /\ AfterKept
  /\ \A p \in Processes : InCall(p) =>
       ResponsePartitions(conn[ConnOf(p)].response) \notin 1 .. call[p].read
  /\ \A a \in Acked : IsKept(a.id, a.to)

\* Mail without an acknowledgement, wherever it is, has a cause.
CauseInv == \A m \in AllMail : IsAccountedFor(m)
=============================================================================
