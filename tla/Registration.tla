---------------------------- MODULE Registration ----------------------------
(***************************************************************************)
(* How a client process starts, registers and keeps its identity.  What    *)
(* survives a process is my.info: the user name, the client id and the     *)
(* private key, one after the other.  handleResponse writes it line by     *)
(* line; a process may die between any two steps.  A key pair is known by  *)
(* its public key.                                                         *)
(***************************************************************************)
EXTENDS MessageUManager, SequencesExt

CONSTANTS
  Processes,        \* the client processes, each in a directory of its own
  ServerInfos,      \* what users may have in server.info
  NoName,           \* the empty user name: the initial one, and an empty line
  NoFile,           \* my.info does not exist
  NotRunning,
  MaxStarts,        \* bound on the starts of each process
  MaxFailures,      \* bound on the requests and answers that get lost
  MaxDiskFailures   \* bound on the writes to my.info that fail

Lines == UserNames \cup ClientIds \cup PublicKeys

ASSUME RegistrationAssumption ==
  /\ NoFile \notin Seq(Lines)
  /\ MaxStarts \in Nat /\ MaxFailures \in Nat /\ MaxDiskFailures \in Nat

VARIABLES
  file,          \* my.info of each process, as the sequence of its lines
  memory,        \* what clientDataManager of each process holds of its user
  call,          \* the registration under way in each process
  pending,       \* the requests that the server has not served yet
  keysMade,
  orphans,       \* the ids the server gave out that no my.info holds, and why
  starts, failures, diskFailures

boundVars == <<starts, failures, diskFailures>>
vars == <<storageVars, file, memory, call, pending, keysMade, orphans, boundVars>>

MIN_VALID_PORT_NUMBER == 1024
MAX_VALID_PORT_NUMBER == 65535

Memories ==
  [userName: UserNames \cup {NoName}, clientId: ClientIds \cup {""},
   privateKey: PublicKeys, isUserRegistered: BOOLEAN]

ASSUME NotRunningAssumption == NotRunning \notin Memories

\* line: the next line of my.info to write.  good: no write has failed.
NoCall == [phase |-> "none"]
Calls ==
  {NoCall, [phase |-> "waiting"]}
    \cup [phase: {"answered"}, response: Responses]
    \cup [phase: {"writing"}, clientId: ClientIds, line: 1 .. 4, good: BOOLEAN]

Pending == [from: Processes, start: Nat, request: RegisterRequests]

Causes == {"no name", "died", "disk", "lost"}

\* Mutant: the id comes first.
Complete_swapped(m, id) == <<id, m.userName, m.privateKey>>

\* The lines of a my.info that init() accepts
Complete(m, id) == <<m.userName, id, m.privateKey>>

IsReadable(f) == f # NoFile /\ Len(f) = 3

TypeOK ==
  /\ StorageTypeOK
  /\ file \in [Processes -> {NoFile} \cup Seq(Lines)]
  /\ memory \in [Processes -> Memories \cup {NotRunning}]
  /\ call \in [Processes -> Calls]
  /\ pending \subseteq Pending
  /\ keysMade \subseteq PublicKeys
  /\ orphans \subseteq [id: ClientIds, of: Processes, cause: Causes]
  /\ starts \in [Processes -> Nat]
  /\ failures \in Nat /\ diskFailures \in Nat

Init ==
  /\ StorageInit
  /\ file = [p \in Processes |-> NoFile]
  /\ memory = [p \in Processes |-> NotRunning]
  /\ call = [p \in Processes |-> NoCall]
  /\ pending = {} /\ keysMade = {} /\ orphans = {}
  /\ starts = [p \in Processes |-> 0]
  /\ failures = 0 /\ diskFailures = 0

-----------------------------------------------------------------------------
\* The start of a process.  An exception in it ends the process.

\* port: the number after the colon, negative where it is none.
readServerInfo(info) ==
  /\ info.exists
  /\ info.port \in MIN_VALID_PORT_NUMBER .. MAX_VALID_PORT_NUMBER
  /\ info.isAddress

\* Mutant: isUserRegistered is not set.
ReadMyInfo_unset(p) ==
  /\ IsReadable(file[p])
  /\ memory' = [memory EXCEPT ![p] =
       [userName |-> file[p][1], clientId |-> file[p][2], privateKey |-> file[p][3],
        isUserRegistered |-> FALSE]]
  /\ UNCHANGED keysMade

\* A file with fewer lines, or without a private key, is a fatal error.
ReadMyInfo(p) ==
  /\ IsReadable(file[p])
  /\ memory' = [memory EXCEPT ![p] =
       [userName |-> file[p][1], clientId |-> file[p][2], privateKey |-> file[p][3],
        isUserRegistered |-> TRUE]]
  /\ UNCHANGED keysMade

MakeKeyPair(p) ==
  /\ file[p] = NoFile
  /\ \E key \in PublicKeys \ keysMade :
       /\ memory' = [memory EXCEPT ![p] =
            [userName |-> NoName, clientId |-> "", privateKey |-> key,
             isUserRegistered |-> FALSE]]
       /\ keysMade' = keysMade \cup {key}

StartClient(p) ==
  /\ memory[p] = NotRunning
  /\ starts[p] < MaxStarts
  /\ starts' = [starts EXCEPT ![p] = @ + 1]
  /\ \E info \in ServerInfos : readServerInfo(info)
  /\ MakeKeyPair(p) \/ ReadMyInfo(p)
  /\ UNCHANGED <<storageVars, file, call, pending, orphans, failures, diskFailures>>

-----------------------------------------------------------------------------
\* The command to register

\* Mutant: a name that is set stays.
setUserName_first(p, name) ==
  memory' = [memory EXCEPT ![p].userName = IF @ = NoName THEN name ELSE @]

setUserName(p, name) == memory' = [memory EXCEPT ![p].userName = name]

\* The name is in the memory before the server has accepted it.
RegisterUserCommand(p, name) ==
  /\ memory[p] # NotRunning /\ call[p] = NoCall
  /\ ~ memory[p].isUserRegistered
  /\ setUserName(p, name)
  /\ call' = [call EXCEPT ![p] = [phase |-> "waiting"]]
  /\ pending' = pending \cup
       {[from |-> p, start |-> starts[p],
         request |-> [op |-> "REGISTER", userName |-> name,
                      publicKey |-> memory[p].privateKey]]}
  /\ UNCHANGED <<storageVars, file, keysMade, orphans, boundVars>>

-----------------------------------------------------------------------------
\* The server serves a request whether its process still lives or not.

\* Mutant: an answer reaches whatever request its process waits for.
IsWaiting_any(q) == call[q.from].phase = "waiting"

IsWaiting(q) == starts[q.from] = q.start /\ call[q.from].phase = "waiting"

Orphan(id, p, cause) == orphans' = orphans \cup {[id |-> id, of |-> p, cause |-> cause]}

Answer(q, rsp) ==
  /\ pending' = pending \ {q}
  /\ call' = IF IsWaiting(q)
               THEN [call EXCEPT ![q.from] = [phase |-> "answered", response |-> rsp]]
               ELSE call
  /\ UNCHANGED <<file, memory, keysMade, boundVars>>

ServeRegister(q) ==
  /\ ~ Refused(q.request, NoPayload)
  /\ \E id \in ClientIds :
       /\ register_client(q.request, id)
       /\ Answer(q, [code |-> "REGISTER_SUCCESS", clientId |-> id])
       /\ IF IsWaiting(q) THEN UNCHANGED orphans ELSE Orphan(id, q.from, "died")

ServeRefused(q) ==
  /\ Refused(q.request, NoPayload)
  /\ Answer(q, ErrorResponse)
  /\ UNCHANGED <<storageVars, orphans>>

EndCall(p) == call' = [call EXCEPT ![p] = NoCall]

IsSuccess(rsp) == rsp.code = "REGISTER_SUCCESS"

\* The server crashes, or the client died before it had written the request.
LoseRequest(q) ==
  /\ \/ ~ IsWaiting(q) /\ UNCHANGED <<call, failures>>
     \/ /\ IsWaiting(q) /\ failures < MaxFailures
        /\ EndCall(q.from)
        /\ failures' = failures + 1
  /\ pending' = pending \ {q}
  /\ UNCHANGED <<storageVars, file, memory, keysMade, orphans, starts, diskFailures>>

LoseAnswer(p) ==
  /\ call[p].phase = "answered" /\ failures < MaxFailures
  /\ EndCall(p)
  /\ failures' = failures + 1
  /\ IF IsSuccess(call[p].response)
       THEN Orphan(call[p].response.clientId, p, "lost")
       ELSE UNCHANGED orphans
  /\ UNCHANGED <<storageVars, file, memory, pending, keysMade, starts, diskFailures>>

-----------------------------------------------------------------------------
\* handleResponse.  No state of the stream is checked: once a write has failed
\* the others do nothing, and the registration is reported as a success.

\* Mutant: my.info is opened before the code of the response is looked at.
ShowError_opens(p) ==
  /\ call[p].phase = "answered" /\ ~ IsSuccess(call[p].response)
  /\ EndCall(p)
  /\ file' = [file EXCEPT ![p] = <<>>]
  /\ UNCHANGED <<storageVars, memory, pending, keysMade, orphans, boundVars>>

ShowError(p) ==
  /\ call[p].phase = "answered" /\ ~ IsSuccess(call[p].response)
  /\ EndCall(p)
  /\ UNCHANGED <<storageVars, file, memory, pending, keysMade, orphans, boundVars>>

DiskFails == diskFailures < MaxDiskFailures /\ diskFailures' = diskFailures + 1

\* An existing file is truncated.  Then getUserName() raises on the empty name.
OpenMyInfo(p) ==
  /\ call[p].phase = "answered" /\ IsSuccess(call[p].response)
  /\ LET id == call[p].response.clientId
     IN  \E good \in BOOLEAN :
           /\ IF good
                THEN file' = [file EXCEPT ![p] = <<>>] /\ UNCHANGED diskFailures
                ELSE DiskFails /\ UNCHANGED file
           /\ IF memory[p].userName = NoName
                THEN EndCall(p) /\ Orphan(id, p, "no name")
                ELSE /\ call' = [call EXCEPT ![p] =
                          [phase |-> "writing", clientId |-> id, line |-> 1, good |-> good]]
                     /\ UNCHANGED orphans
  /\ UNCHANGED <<storageVars, memory, pending, keysMade, starts, failures>>

\* std::endl and close() flush each line.
WriteLine(p) ==
  /\ call[p].phase = "writing" /\ call[p].line <= 3
  /\ \/ /\ call[p].good
        /\ file' = [file EXCEPT ![p] =
                      Append(@, Complete(memory[p], call[p].clientId)[call[p].line])]
        /\ call' = [call EXCEPT ![p].line = @ + 1]
        /\ UNCHANGED diskFailures
     \/ /\ IF call[p].good THEN DiskFails ELSE UNCHANGED diskFailures
        /\ call' = [call EXCEPT ![p].line = @ + 1, ![p].good = FALSE]
        /\ UNCHANGED file
  /\ UNCHANGED <<storageVars, memory, pending, keysMade, orphans, starts, failures>>

\* setClientId, and isUserRegistered in the loop of startClient
FinishRegistration(p) ==
  /\ call[p].phase = "writing" /\ call[p].line = 4
  /\ memory' = [memory EXCEPT ![p].clientId = call[p].clientId,
                              ![p].isUserRegistered = TRUE]
  /\ EndCall(p)
  /\ IF call[p].good THEN UNCHANGED orphans ELSE Orphan(call[p].clientId, p, "disk")
  /\ UNCHANGED <<storageVars, file, pending, keysMade, boundVars>>

\* The user exits, or the process dies: in the middle of a call, too.
EndClient(p) ==
  /\ memory[p] # NotRunning
  /\ memory' = [memory EXCEPT ![p] = NotRunning]
  /\ EndCall(p)
  /\ IF call[p].phase = "answered" /\ IsSuccess(call[p].response)
       THEN Orphan(call[p].response.clientId, p, "died")
       ELSE IF call[p].phase = "writing" /\ ~ IsReadable(file[p])
         THEN Orphan(call[p].clientId, p, "died")
         ELSE UNCHANGED orphans
  /\ UNCHANGED <<storageVars, file, pending, keysMade, boundVars>>

-----------------------------------------------------------------------------
ClientStep(p) ==
  \/ StartClient(p) \/ EndClient(p)
  \/ \E name \in UserNames : RegisterUserCommand(p, name)
  \/ LoseAnswer(p) \/ ShowError(p)
  \/ OpenMyInfo(p) \/ WriteLine(p) \/ FinishRegistration(p)

ServerStep == \E q \in pending : ServeRegister(q) \/ ServeRefused(q) \/ LoseRequest(q)

Next == ServerStep \/ \E p \in Processes : ClientStep(p)

Spec == Init /\ [][Next]_vars

-----------------------------------------------------------------------------
\* What a my.info says that init() accepts is what the server holds: the id with
\* that user name, and the public key of that private key.  It survives refused
\* and lost registrations before, and other names tried in the same process
\* (setUserName in RegisterUserCommand, RegisterSuccessResponse::handleResponse).
AccountMatches ==
  \A p \in Processes :
    IsReadable(file[p]) =>
      [userName |-> file[p][1], id |-> file[p][2], publicKey |-> file[p][3]] \in clients

\* A my.info that init() does not accept, with which the client never starts
\* again, is left only by a process that died while it wrote the file, got the
\* empty user name registered, or had a write fail that nothing checks.
MyInfoReadable ==
  \A p \in Processes :
    \/ file[p] = NoFile \/ IsReadable(file[p])
    \/ call[p].phase = "writing"
    \/ \E o \in orphans : o.of = p /\ o.cause \in {"died", "no name", "disk"}

HoldsId(p, id) ==
  \/ IsReadable(file[p]) /\ file[p][2] = id
  \/ call[p].phase = "answered" /\ IsSuccess(call[p].response)
       /\ call[p].response.clientId = id
  \/ call[p].phase = "writing" /\ call[p].clientId = id

\* Every name that the server has taken has a client that holds its id, or is on
\* its way to one, unless one of the causes has left it to nobody; and no client
\* holds an id that is counted as left.
NoNameWasted ==
  /\ \A row \in clients \ Database :
       \/ \E p \in Processes : HoldsId(p, row.id)
       \/ \E o \in orphans : o.id = row.id
  /\ \A o \in orphans, p \in Processes : ~ (IsReadable(file[p]) /\ file[p][2] = o.id)

\* A my.info that can be read stays as it is: no registration replaces it, in the
\* process that wrote it or after a restart (isUserRegistered).
MyInfoStable ==
  [][\A p \in Processes : IsReadable(file[p]) => file'[p] = file[p]]_vars

-----------------------------------------------------------------------------
\* The inductive invariant: what holds of one process, of the requests, and of the
\* processes together.

RequestOf(p) ==
  [op |-> "REGISTER", userName |-> memory[p].userName, publicKey |-> memory[p].privateKey]

\* The row of the process's user name and key with that id
AccountOf(p, id) ==
  [id |-> id, userName |-> memory[p].userName, publicKey |-> memory[p].privateKey]

\* line - 1 lines of a complete my.info
Written(p) ==
  /\ file[p] # NoFile
  /\ Len(file[p]) = call[p].line - 1
  /\ \A i \in 1 .. 3 :
       i < call[p].line => file[p][i] = Complete(memory[p], call[p].clientId)[i]

ProcessInv(p) ==
  /\ call[p] # NoCall => memory[p] # NotRunning /\ ~ memory[p].isUserRegistered
  /\ call[p].phase = "answered" /\ IsSuccess(call[p].response) =>
       AccountOf(p, call[p].response.clientId) \in clients
  /\ call[p].phase = "writing" =>
       /\ AccountOf(p, call[p].clientId) \in clients
       /\ IF call[p].good THEN Written(p) ELSE ~ IsReadable(file[p])
  /\ call[p].phase # "writing" /\ memory[p] # NotRunning /\ ~ memory[p].isUserRegistered =>
       ~ IsReadable(file[p])

\* A request of the process that runs is the one that it waits for.
RequestInv(q) ==
  /\ q.start <= starts[q.from]
  /\ q.start = starts[q.from] /\ memory[q.from] # NotRunning =>
       call[q.from].phase = "waiting" /\ q.request = RequestOf(q.from)

\* An id has one holder, or none where it is counted as left.
HoldersInv ==
  /\ \A id \in ClientIds : \A p, q \in Processes : HoldsId(p, id) /\ HoldsId(q, id) => p = q
  /\ \A o \in orphans :
       is_client_id_exist(o.id) /\ \A p \in Processes : ~ HoldsId(p, o.id)

\* All that holds together: what WriteLine leaves in a file is an account because
\* the row was made from the request, and the memory has not changed since.
IInv ==
  /\ TypeOK
  /\ \A p \in Processes : ProcessInv(p)
  /\ \A q \in pending : RequestInv(q)
  /\ HoldersInv
  /\ AccountMatches /\ MyInfoReadable /\ NoNameWasted
=============================================================================
