-------------------------------- MODULE Relay -------------------------------
(***************************************************************************)
(* The whole system: the client processes, the connections, the server and *)
(* its database.  Users give the commands of a registered or unregistered  *)
(* client in any order; a message is addressed to a client that its sender *)
(* has listed, at this server or before its database was replaced.         *)
(***************************************************************************)
EXTENDS MessageUServer, TCPNetworkClientManager

CONSTANTS
  Commands,      \* the requests users make in this instance
  OldContacts,   \* the clients that each process listed under an earlier server.db
  MaxMessages,   \* bound on the messages ever sent
  MaxPulls       \* bound on the nonempty pulls of each user

\* A my.info was written by a registration at this server, whose row has its name,
\* or at another one: the server opens the server.db of the directory it is started
\* in, which another one may have replaced.
ASSUME MyInfoOriginAssumption ==
  \A p \in Processes : MyInfo[p] # NoInfo =>
    /\ \/ MyInfo[p].clientId \in ForeignIds
       \/ \E row \in Database : row.id = MyInfo[p].clientId
    /\ \A row \in Database :
         row.id = MyInfo[p].clientId => row.userName = MyInfo[p].userName

\* A registered process that has run since then still has its contacts.
ASSUME OldContactsAssumption ==
  /\ OldContacts \in [Processes -> SUBSET ClientIds]
  /\ \A p \in Processes : MyInfo[p] = NoInfo => OldContacts[p] = {}

ASSUME BoundsAssumption == MaxMessages \in Nat /\ MaxPulls \in Nat

vars == <<storageVars, socketVars, serverVars, clientVars>>

Init == StorageInit /\ SocketsInit /\ ServerInit /\ ClientInit

-----------------------------------------------------------------------------
\* The commands.  Requests still on their way to the storage count for bounds.

OnTheWay(op) ==
  {c \in Conns : /\ conn[c].request.op = op
                 /\ IsOpen(c)
                 /\ session.conn = c => session.pc \in {"recv", "pre", "op"}}

\* An unregistered client may only register; a registered one may not.
RegisterUserCommand(p) ==
  /\ "REGISTER" \in Commands
  /\ myInfo[p] = NoInfo
  /\ \E name \in UserNames, key \in PublicKeys :
       /\ \/ is_user_name_exist(name)
          \/ Cardinality(OnTheWay("REGISTER")) < Cardinality(FreshIds)
       /\ Connect(p, [op |-> "REGISTER", userName |-> name, publicKey |-> key])

ClientsListUserCommand(p) ==
  /\ "LIST_CLIENTS" \in Commands
  /\ myInfo[p] # NoInfo
  /\ Connect(p, [op |-> "LIST_CLIENTS", clientId |-> myInfo[p].clientId])

\* The other clients in the memory of p: those that a LIST_CLIENTS can have shown
\* to it, and the old ones until it dies.
Contacts(p) ==
  {to \in {row.id : row \in clients} :
     is_client_id_exist(myInfo[p].clientId) /\ to # myInfo[p].clientId}
  \cup {to \in OldContacts[p] : aborts[p] = 0}

RequestPublicKeyUserCommand(p) ==
  /\ "GET_PUBLIC_KEY" \in Commands
  /\ myInfo[p] # NoInfo
  /\ \E to \in Contacts(p) :
       Connect(p, [op |-> "GET_PUBLIC_KEY", clientId |-> myInfo[p].clientId,
                   destClientId |-> to])

\* SendText, RequestSymmetricKey, SendSymmetricKey and SendFile
SendMessageUserCommand(p) ==
  /\ "SEND_MESSAGE" \in Commands
  /\ myInfo[p] # NoInfo
  /\ lastRowId + Cardinality(OnTheWay("SEND_MESSAGE")) < MaxMessages
  /\ \E to \in Contacts(p), type \in MessageTypes, size \in ContentSizes :
       Connect(p, [op |-> "SEND_MESSAGE", clientId |-> myInfo[p].clientId,
                   destClientId |-> to, messageType |-> type, contentSize |-> size])

RequestWaitingMessagesUserCommand(p) ==
  /\ "PULL_MESSAGES" \in Commands
  /\ myInfo[p] # NoInfo
  /\ Len(received[p]) < MaxPulls
  /\ Connect(p, [op |-> "PULL_MESSAGES", clientId |-> myInfo[p].clientId])

UserCommand(p) ==
  \/ RegisterUserCommand(p) \/ ClientsListUserCommand(p)
  \/ RequestPublicKeyUserCommand(p) \/ SendMessageUserCommand(p)
  \/ RequestWaitingMessagesUserCommand(p)

ClientStep(p) ==
  /\ UserCommand(p) \/ CallStep(p) \/ AbortCall(p)
  /\ UNCHANGED <<storageVars, serverVars>>

Server == (ServerStep \/ RestartServer) /\ UNCHANGED clientVars

Next == Server \/ \E p \in Processes : ClientStep(p)

Spec == Init /\ [][Next]_vars

\* The server's loop never stops while it can run, and a process that has begun
\* a call goes on with it; users need not give commands.
Fairness ==
  /\ WF_vars(ServerStep /\ UNCHANGED clientVars)
  /\ \A p \in Processes :
       WF_vars(CallStep(p) /\ UNCHANGED <<storageVars, serverVars>>)

FairSpec == Spec /\ Fairness

-----------------------------------------------------------------------------
TypeOK ==
  StorageTypeOK /\ SocketsTypeOK /\ ServerTypeOK /\ ClientTypeOK
=============================================================================
