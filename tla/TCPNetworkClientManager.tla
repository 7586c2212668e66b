----------------------- MODULE TCPNetworkClientManager ----------------------
(***************************************************************************)
(* The client processes as the server sees them: HandleRequest opens a     *)
(* connection for each request, writes it partition by partition, reads    *)
(* the response and closes.  A process has at most one call under way.  It *)
(* may die in the middle of one and be started again: only my.info is left *)
(* of its state then.                                                      *)
(***************************************************************************)
EXTENDS Sockets

CONSTANTS
  Processes,   \* the client processes, one directory with its my.info each
  MyInfo,      \* the identity in each my.info at the start
  NoInfo,      \* the file my.info does not exist
  MaxAborts    \* bound on the deaths of each process

Identities == [clientId: ClientIds, userName: UserNames]

ASSUME NoInfoAssumption == NoInfo \notin Identities \cup ClientIds

ASSUME MyInfoAssumption ==
  /\ MyInfo \in [Processes -> Identities \cup {NoInfo}]
  /\ \A p, q \in Processes :
       (MyInfo[p] # NoInfo /\ MyInfo[q] # NoInfo
         /\ MyInfo[p].clientId = MyInfo[q].clientId) => p = q

ASSUME MaxAbortsAssumption == MaxAborts \in [Processes -> Nat]

VARIABLES
  myInfo,    \* the client id and user name in the memory and the my.info of each
  call,      \* the call of HandleRequest under way in each process
  acked,     \* the MESSAGE_SENT_SUCCESS responses each got: what it sent, as id
  received,  \* the nonempty lists of messages each got from its pulls, in order
  aborts     \* how often each died in the middle of a call

clientVars == <<myInfo, call, acked, received, aborts>>

NoCall == [phase |-> "none"]

Calls == {NoCall} \cup
  [phase: {"open"}, conn: Conns, wrote: Nat, read: Nat]

Acks == [id: Nat, from: ClientIds, to: ClientIds, type: MessageTypes, size: Nat]

ClientTypeOK ==
  /\ myInfo \in [Processes -> Identities \cup {NoInfo}]
  /\ call \in [Processes -> Calls]
  /\ acked \in [Processes -> SUBSET Acks]
  /\ received \in [Processes -> Seq(SUBSET Messages)]
  /\ aborts \in [Processes -> Nat]

ClientInit ==
  /\ myInfo = MyInfo
  /\ call = [p \in Processes |-> NoCall]
  /\ acked = [p \in Processes |-> {}]
  /\ received = [p \in Processes |-> <<>>]
  /\ aborts = [p \in Processes |-> 0]

InCall(p) == call[p] # NoCall

ConnOf(p) == call[p].conn

RequestOf(p) == conn[ConnOf(p)].request

-----------------------------------------------------------------------------
Connect(p, r) ==
  /\ ~ InCall(p)
  /\ \E c \in Conns :
       /\ IsFree(c)
       /\ conn' = [conn EXCEPT ![c] = Connected(r)]
       /\ backlog' = Append(backlog, c)
       /\ call' = [call EXCEPT ![p] =
                     [phase |-> "open", conn |-> c, wrote |-> 0, read |-> 0]]
  /\ UNCHANGED <<myInfo, acked, received, aborts>>

\* A write to a connection that the server has closed may still succeed.
WritePartition(p) ==
  /\ InCall(p)
  /\ call[p].wrote < RequestPartitions(RequestOf(p))
  /\ conn' = [conn EXCEPT ![ConnOf(p)] = Written(@)]
  /\ call' = [call EXCEPT ![p].wrote = @ + 1]
  /\ UNCHANGED <<backlog, myInfo, acked, received, aborts>>

\* What handleResponse leaves in my.info, or on the screen, of the response rsp
\* to the request r
HandleResponse(p, r, rsp) ==
  /\ myInfo' =
       IF rsp.code = "REGISTER_SUCCESS"
         THEN [myInfo EXCEPT ![p] = [clientId |-> rsp.clientId, userName |-> r.userName]]
         ELSE myInfo
  /\ acked' =
       IF rsp.code = "MESSAGE_SENT_SUCCESS"
         THEN [acked EXCEPT ![p] = @ \cup
                {[id |-> rsp.messageId, from |-> r.clientId, to |-> r.destClientId,
                  type |-> r.messageType, size |-> r.contentSize]}]
         ELSE acked
  /\ received' =
       IF rsp.code = "MESSAGES_PULLED_SUCCESS" /\ rsp.messages # {}
         THEN [received EXCEPT ![p] = Append(@, rsp.messages)]
         ELSE received

ResponseArriving(p) ==
  /\ InCall(p)
  /\ call[p].wrote = RequestPartitions(RequestOf(p))
  /\ conn[ConnOf(p)].down > 0

IsLastPartition(p) ==
  call[p].read + 1 = ResponsePartitions(conn[ConnOf(p)].response)

ReadPartition(p) ==
  /\ ResponseArriving(p)
  /\ ~ IsLastPartition(p)
  /\ conn' = [conn EXCEPT ![ConnOf(p)] = Read(@)]
  /\ call' = [call EXCEPT ![p].read = @ + 1]
  /\ UNCHANGED <<backlog, myInfo, acked, received, aborts>>

\* The last partition completes the response: HandleRequest returns it and the
\* socket is closed with its scope, then the response is handled.
ReadLastPartition(p) ==
  /\ ResponseArriving(p)
  /\ IsLastPartition(p)
  /\ HandleResponse(p, RequestOf(p), conn[ConnOf(p)].response)
  /\ conn' = [conn EXCEPT ![ConnOf(p)] = ClosedByClient(@)]
  /\ call' = [call EXCEPT ![p] = NoCall]
  /\ UNCHANGED <<backlog, aborts>>

\* write or read raises: the server's end is closed and no byte is left to read,
\* or the connection was reset and what was left is lost.
FailCall(p) ==
  /\ InCall(p)
  /\ conn[ConnOf(p)].end = "closed"
  /\ conn[ConnOf(p)].down = 0 \/ IsReset(ConnOf(p))
  /\ conn' = [conn EXCEPT ![ConnOf(p)] = ClosedByClient(@)]
  /\ call' = [call EXCEPT ![p] = NoCall]
  /\ UNCHANGED <<backlog, myInfo, acked, received, aborts>>

AbortCall(p) ==
  /\ InCall(p)
  /\ aborts[p] < MaxAborts[p]
  /\ aborts' = [aborts EXCEPT ![p] = @ + 1]
  /\ conn' = [conn EXCEPT ![ConnOf(p)] = ClosedByClient(@)]
  /\ call' = [call EXCEPT ![p] = NoCall]
  /\ UNCHANGED <<backlog, myInfo, acked, received>>

CallStep(p) ==
  WritePartition(p) \/ ReadPartition(p) \/ ReadLastPartition(p) \/ FailCall(p)
=============================================================================
