-------------------------- MODULE RegistrationProofs ------------------------
(***************************************************************************)
(* Proofs about registration and my.info for all values of the constants:  *)
(* what a my.info that can be read says is the account on the server, it   *)
(* stays as it is, and what is left unreadable or to nobody has a cause.   *)
(***************************************************************************)
EXTENDS Registration, TLAPS

-----------------------------------------------------------------------------
\* What the phases of a call have
LEMMA CallKinds ==
  ASSUME NEW k \in Calls
  PROVE  /\ k.phase \in {"none", "waiting", "answered", "writing"}
         /\ k.phase = "none" => k = NoCall
         /\ k.phase = "waiting" => k = [phase |-> "waiting"]
         /\ k.phase = "answered" =>
              k.response \in Responses
                /\ k = [phase |-> "answered", response |-> k.response]
         /\ k.phase = "writing" =>
              /\ k.clientId \in ClientIds /\ k.line \in 1 .. 4 /\ k.good \in BOOLEAN
              /\ k = [phase |-> "writing", clientId |-> k.clientId, line |-> k.line,
                      good |-> k.good]
BY DEF Calls, NoCall

\* A call that is written into Calls
LEMMA CallForms ==
  /\ NoCall \in Calls /\ NoCall.phase = "none"
  /\ [phase |-> "waiting"] \in Calls
  /\ \A rsp \in Responses : [phase |-> "answered", response |-> rsp] \in Calls
  /\ \A id \in ClientIds, n \in 1 .. 4, good \in BOOLEAN :
       [phase |-> "writing", clientId |-> id, line |-> n, good |-> good] \in Calls
BY DEF Calls, NoCall

\* The answer to a registration carries an id.
LEMMA SuccessId ==
  ASSUME NEW rsp \in Responses, IsSuccess(rsp)
  PROVE  rsp.clientId \in ClientIds
BY DEF Responses, IsSuccess

LEMMA ErrorType == ErrorResponse \in Responses /\ ~ IsSuccess(ErrorResponse)
BY DEF ErrorResponse, Responses, IsSuccess

LEMMA ProcessTypes ==
  ASSUME TypeOK, NEW p \in Processes
  PROVE  /\ call[p] \in Calls
         /\ memory[p] # NotRunning => memory[p] \in Memories
         /\ file[p] # NoFile => file[p] \in Seq(Lines)
         /\ starts[p] \in Nat
BY DEF TypeOK

LEMMA MemoryParts ==
  ASSUME NEW m \in Memories
  PROVE  /\ m.userName \in UserNames \cup {NoName} /\ m.clientId \in ClientIds \cup {""}
         /\ m.privateKey \in PublicKeys /\ m.isUserRegistered \in BOOLEAN
         /\ m # NotRunning
BY NotRunningAssumption DEF Memories

LEMMA RowType ==
  ASSUME TypeOK, NEW name, NEW id, NEW key,
         [id |-> id, userName |-> name, publicKey |-> key] \in clients
  PROVE  name \in UserNames /\ id \in ClientIds /\ key \in PublicKeys
<1>1. [id |-> id, userName |-> name, publicKey |-> key] \in ClientRows
  BY DEF TypeOK, StorageTypeOK
<1>2. QED
  BY <1>1 DEF ClientRows

-----------------------------------------------------------------------------
\* The invariant one process at a time

Matches(p) ==
  IsReadable(file[p]) =>
    [userName |-> file[p][1], id |-> file[p][2], publicKey |-> file[p][3]] \in clients

HasCause(p) ==
  \/ file[p] = NoFile \/ IsReadable(file[p])
  \/ call[p].phase = "writing"
  \/ \E o \in orphans : o.of = p /\ o.cause \in {"died", "no name", "disk"}

Frame(p) ==
  /\ \A x \in Processes \ {p} :
       /\ file'[x] = file[x] /\ memory'[x] = memory[x]
       /\ call'[x] = call[x] /\ starts'[x] = starts[x]
  /\ clients \subseteq clients'
  /\ orphans \subseteq orphans'

\* A step of p disturbs no other process.
LEMMA OtherProcess ==
  ASSUME NEW p \in Processes, Frame(p), NEW x \in Processes \ {p},
         ProcessInv(x), Matches(x), HasCause(x)
  PROVE  ProcessInv(x)' /\ Matches(x)' /\ HasCause(x)'
<1>1. /\ file'[x] = file[x] /\ memory'[x] = memory[x]
      /\ call'[x] = call[x] /\ clients \subseteq clients' /\ orphans \subseteq orphans'
  BY DEF Frame
<1>2. ProcessInv(x)'
  BY <1>1 DEF ProcessInv, AccountOf, Written
<1>3. Matches(x)'
  BY <1>1 DEF Matches
<1>4. HasCause(x)'
  BY <1>1 DEF HasCause
<1>5. QED
  BY <1>2, <1>3, <1>4

\* It remains to look at p, at its requests, and at the holders of ids.
LEMMA StepIInv ==
  ASSUME IInv, NEW p \in Processes, Frame(p), TypeOK',
         ProcessInv(p)', Matches(p)', HasCause(p)',
         \A q \in pending' : q.from # p => q \in pending,
         \A q \in pending' : q.from = p => RequestInv(q)',
         HoldersInv', NoNameWasted'
  PROVE  IInv'
<1>1. \A x \in Processes \ {p} : ProcessInv(x)' /\ Matches(x)' /\ HasCause(x)'
  <2> SUFFICES ASSUME NEW x \in Processes \ {p}
               PROVE  ProcessInv(x)' /\ Matches(x)' /\ HasCause(x)'
    OBVIOUS
  <2>1. ProcessInv(x) /\ Matches(x) /\ HasCause(x)
    BY DEF IInv, AccountMatches, MyInfoReadable, Matches, HasCause
  <2>2. QED
    BY <2>1, OtherProcess
<1>2. \A q \in pending' : RequestInv(q)'
  <2> SUFFICES ASSUME NEW q \in pending', q.from # p
               PROVE  RequestInv(q)'
    OBVIOUS
  <2>1. q \in pending /\ RequestInv(q) /\ q.from \in Processes
    BY DEF IInv, TypeOK, Pending
  <2>2. /\ memory'[q.from] = memory[q.from] /\ call'[q.from] = call[q.from]
        /\ starts'[q.from] = starts[q.from]
    BY <2>1 DEF Frame
  <2>3. QED
    BY <2>1, <2>2 DEF RequestInv, RequestOf
<1>3. (\A x \in Processes : ProcessInv(x))' /\ AccountMatches' /\ MyInfoReadable'
  BY <1>1 DEF AccountMatches, MyInfoReadable, Matches, HasCause
<1>4. QED
  BY <1>2, <1>3 DEF IInv
-----------------------------------------------------------------------------
\* The holders of ids

\* An id that a process holds is that of a row.
LEMMA HeldExists ==
  ASSUME IInv, NEW p \in Processes, NEW id, HoldsId(p, id)
  PROVE  is_client_id_exist(id)
<1>1. ProcessInv(p) /\ Matches(p)
  BY DEF IInv, AccountMatches, Matches
<1>2. CASE IsReadable(file[p]) /\ file[p][2] = id
  BY <1>1, <1>2 DEF Matches, is_client_id_exist
<1>3. CASE call[p].phase = "answered" /\ IsSuccess(call[p].response)
             /\ call[p].response.clientId = id
  <2>1. AccountOf(p, id) \in clients
    BY <1>1, <1>3 DEF ProcessInv
  <2>2. QED
    BY <2>1 DEF AccountOf, is_client_id_exist
<1>4. CASE call[p].phase = "writing" /\ call[p].clientId = id
  <2>1. AccountOf(p, id) \in clients
    BY <1>1, <1>4 DEF ProcessInv
  <2>2. QED
    BY <2>1 DEF AccountOf, is_client_id_exist
<1>5. QED
  BY <1>2, <1>3, <1>4 DEF HoldsId

\* A step of p leaves the others what they hold.
LEMMA OtherHolds ==
  ASSUME NEW p \in Processes, Frame(p), NEW x \in Processes \ {p}, NEW id
  PROVE  HoldsId(x, id)' <=> HoldsId(x, id)
BY DEF Frame, HoldsId

\* A step that moves no id
LEMMA KeepHolders ==
  ASSUME IInv, NEW p \in Processes, Frame(p), UNCHANGED <<clients, orphans>>,
         \A id \in ClientIds : HoldsId(p, id)' <=> HoldsId(p, id)
  PROVE  HoldersInv' /\ NoNameWasted'
<1>1. \A x \in Processes, id \in ClientIds : HoldsId(x, id)' <=> HoldsId(x, id)
  BY OtherHolds
<1>2. HoldersInv
  BY DEF IInv
<1>3. \A o \in orphans : o.id \in ClientIds
  BY DEF IInv, TypeOK
<1>4. HoldersInv'
  BY <1>1, <1>2, <1>3 DEF HoldersInv, is_client_id_exist
<1>5. \A row \in clients : row.id \in ClientIds
  BY DEF IInv, TypeOK, StorageTypeOK, ClientRows
<1>6. NoNameWasted
  BY DEF IInv
<1>7. \A row \in clients' \ Database :
         (\E x \in Processes : HoldsId(x, row.id)') \/ \E o \in orphans' : o.id = row.id
  BY <1>1, <1>5, <1>6 DEF NoNameWasted
<1>8. \A o \in orphans', x \in Processes : ~ (IsReadable(file'[x]) /\ file'[x][2] = o.id)
  BY <1>4 DEF HoldersInv, HoldsId
<1>9. NoNameWasted'
  BY <1>7, <1>8 DEF NoNameWasted
<1>10. QED
  BY <1>4, <1>9

\* p gives up the only id it holds, which is counted as left.
LEMMA LoseHolder ==
  ASSUME IInv, NEW p \in Processes, Frame(p), UNCHANGED clients,
         NEW i \in ClientIds, NEW cause, HoldsId(p, i),
         orphans' = orphans \cup {[id |-> i, of |-> p, cause |-> cause]},
         \A id \in ClientIds : HoldsId(p, id)' <=> HoldsId(p, id) /\ id # i
  PROVE  HoldersInv' /\ NoNameWasted'
<1> DEFINE o1 == [id |-> i, of |-> p, cause |-> cause]
<1>1. \A x \in Processes, id \in ClientIds : HoldsId(x, id)' => HoldsId(x, id)
  BY OtherHolds
<1>2. HoldersInv /\ NoNameWasted
  BY DEF IInv
<1>3. (\A o \in orphans : o.id \in ClientIds) /\ o1 \in orphans' /\ o1.id = i
  BY DEF IInv, TypeOK
<1>4. is_client_id_exist(i)
  BY HeldExists
<1>5. \A x \in Processes : ~ HoldsId(x, i)'
  <2> SUFFICES ASSUME NEW x \in Processes, HoldsId(x, i)'
               PROVE  FALSE
    OBVIOUS
  <2>1. HoldsId(x, i)
    BY <1>1
  <2>2. x = p
    BY <2>1, <1>2 DEF HoldersInv
  <2>3. QED
    BY <2>2
<1>6. HoldersInv'
  <2>1. \A id \in ClientIds : \A x, y \in Processes :
           HoldsId(x, id)' /\ HoldsId(y, id)' => x = y
    BY <1>1, <1>2 DEF HoldersInv
  <2>2. \A o \in orphans' :
           is_client_id_exist(o.id)' /\ \A x \in Processes : ~ HoldsId(x, o.id)'
    <3> SUFFICES ASSUME NEW o \in orphans'
                 PROVE  is_client_id_exist(o.id)' /\ \A x \in Processes : ~ HoldsId(x, o.id)'
      OBVIOUS
    <3>1. CASE o \in orphans
      BY <3>1, <1>1, <1>2, <1>3 DEF HoldersInv, is_client_id_exist
    <3>2. CASE o = o1
      BY <3>2, <1>4, <1>5 DEF is_client_id_exist
    <3>3. QED
      BY <3>1, <3>2
  <2>3. QED
    BY <2>1, <2>2 DEF HoldersInv
<1>7. \A row \in clients : row.id \in ClientIds
  BY DEF IInv, TypeOK, StorageTypeOK, ClientRows
<1>8. \A row \in clients' \ Database :
         (\E x \in Processes : HoldsId(x, row.id)') \/ \E o \in orphans' : o.id = row.id
  <2> SUFFICES ASSUME NEW row \in clients \ Database, row.id # i
               PROVE  (\E x \in Processes : HoldsId(x, row.id)')
                        \/ \E o \in orphans' : o.id = row.id
    BY <1>3
  <2>1. (\E x \in Processes : HoldsId(x, row.id)) \/ \E o \in orphans : o.id = row.id
    BY <1>2 DEF NoNameWasted
  <2>2. \A x \in Processes : HoldsId(x, row.id) => HoldsId(x, row.id)'
    BY <1>7, OtherHolds
  <2>3. QED
    BY <2>1, <2>2
<1>9. \A o \in orphans', x \in Processes : ~ (IsReadable(file'[x]) /\ file'[x][2] = o.id)
  BY <1>6 DEF HoldersInv, HoldsId
<1>10. NoNameWasted'
  BY <1>8, <1>9 DEF NoNameWasted
<1>11. QED
  BY <1>6, <1>10

\* A row with a new id: p holds it, or it is counted as left.
LEMMA NewId ==
  ASSUME IInv, NEW p \in Processes, Frame(p), NEW i \in ClientIds,
         ~ is_client_id_exist(i), NEW row, row.id = i, clients' = clients \cup {row},
         \A id \in ClientIds : id # i => (HoldsId(p, id)' <=> HoldsId(p, id)),
         \/ HoldsId(p, i)' /\ orphans' = orphans
         \/ /\ ~ HoldsId(p, i)'
            /\ \E o \in orphans' : o.id = i /\ orphans' = orphans \cup {o}
  PROVE  HoldersInv' /\ NoNameWasted'
<1>1. \A x \in Processes, id \in ClientIds : id # i => (HoldsId(x, id)' <=> HoldsId(x, id))
  BY OtherHolds
<1>2. HoldersInv /\ NoNameWasted
  BY DEF IInv
<1>3. \A x \in Processes : ~ HoldsId(x, i)
  BY HeldExists
<1>4. \A x \in Processes : HoldsId(x, i)' => x = p
  BY <1>3, OtherHolds
<1>5. \A o \in orphans : o.id \in ClientIds /\ o.id # i
  BY <1>2 DEF IInv, TypeOK, HoldersInv
<1>6. \A o \in orphans' : o \in orphans \/ (o.id = i /\ ~ HoldsId(p, i)')
  OBVIOUS
<1>7. HoldersInv'
  <2>1. \A id \in ClientIds : \A x, y \in Processes :
           HoldsId(x, id)' /\ HoldsId(y, id)' => x = y
    BY <1>1, <1>2, <1>4 DEF HoldersInv
  <2>2. \A o \in orphans' :
           is_client_id_exist(o.id)' /\ \A x \in Processes : ~ HoldsId(x, o.id)'
    <3> SUFFICES ASSUME NEW o \in orphans'
                 PROVE  is_client_id_exist(o.id)' /\ \A x \in Processes : ~ HoldsId(x, o.id)'
      OBVIOUS
    <3>1. CASE o \in orphans
      BY <3>1, <1>1, <1>2, <1>5 DEF HoldersInv, is_client_id_exist
    <3>2. CASE o.id = i /\ ~ HoldsId(p, i)'
      BY <3>2, <1>4 DEF is_client_id_exist
    <3>3. QED
      BY <3>1, <3>2, <1>6
  <2>3. QED
    BY <2>1, <2>2 DEF HoldersInv
<1>8. \A r \in clients : r.id \in ClientIds /\ r.id # i
  BY DEF IInv, TypeOK, StorageTypeOK, ClientRows, is_client_id_exist
<1>9. \A r \in clients' \ Database :
         (\E x \in Processes : HoldsId(x, r.id)') \/ \E o \in orphans' : o.id = r.id
  <2>1. (\E x \in Processes : HoldsId(x, i)') \/ \E o \in orphans' : o.id = i
    OBVIOUS
  <2> SUFFICES ASSUME NEW r \in clients \ Database
               PROVE  (\E x \in Processes : HoldsId(x, r.id)')
                        \/ \E o \in orphans' : o.id = r.id
    BY <2>1
  <2>2. (\E x \in Processes : HoldsId(x, r.id)) \/ \E o \in orphans : o.id = r.id
    BY <1>2 DEF NoNameWasted
  <2>3. \A x \in Processes : HoldsId(x, r.id) => HoldsId(x, r.id)'
    BY <1>1, <1>8
  <2>4. QED
    BY <2>2, <2>3
<1>10. \A o \in orphans', x \in Processes : ~ (IsReadable(file'[x]) /\ file'[x][2] = o.id)
  BY <1>7 DEF HoldersInv, HoldsId
<1>11. NoNameWasted'
  BY <1>9, <1>10 DEF NoNameWasted
<1>12. QED
  BY <1>7, <1>11
-----------------------------------------------------------------------------
\* The initial states

LEMMA InitIInv == Init => IInv
<1> SUFFICES ASSUME Init
             PROVE  IInv
  OBVIOUS
<1>1. /\ clients = Database /\ pending = {} /\ orphans = {}
      /\ \A p \in Processes :
           /\ file[p] = NoFile /\ memory[p] = NotRunning /\ call[p] = NoCall
           /\ starts[p] = 0
  BY DEF Init, StorageInit
<1>2. TypeOK
  <2>1. StorageTypeOK
    BY DatabaseAssumption DEF Init, StorageInit, StorageTypeOK
  <2>2. QED
    BY <2>1, CallForms DEF Init, TypeOK
<1>3. \A p \in Processes :
        /\ call[p].phase = "none" /\ ~ IsReadable(file[p])
        /\ \A id \in ClientIds : ~ HoldsId(p, id)
  BY <1>1, CallForms DEF IsReadable, HoldsId
<1>4. \A p \in Processes : ProcessInv(p)
  BY <1>1, <1>3 DEF ProcessInv
<1>5. HoldersInv /\ NoNameWasted /\ AccountMatches /\ MyInfoReadable
  BY <1>1, <1>3 DEF HoldersInv, NoNameWasted, AccountMatches, MyInfoReadable
<1>6. QED
  BY <1>1, <1>2, <1>4, <1>5 DEF IInv

-----------------------------------------------------------------------------
\* The steps that move no id

LEMMA StartClientIInv ==
  ASSUME IInv, NEW p \in Processes, StartClient(p)
  PROVE  IInv'
<1>1. /\ memory[p] = NotRunning /\ starts[p] \in Nat
      /\ starts' = [starts EXCEPT ![p] = @ + 1]
      /\ UNCHANGED <<storageVars, file, call, pending, orphans, failures, diskFailures>>
  BY DEF StartClient, IInv, TypeOK
<1>2. ProcessInv(p) /\ Matches(p) /\ HasCause(p)
  BY DEF IInv, AccountMatches, MyInfoReadable, Matches, HasCause
<1>3. call[p] = NoCall /\ call[p].phase = "none"
  BY <1>1, <1>2, CallForms DEF ProcessInv
<1>4. \E m \in Memories :
        /\ memory' = [memory EXCEPT ![p] = m]
        /\ m.isUserRegistered \/ ~ IsReadable(file[p])
        /\ keysMade' \subseteq PublicKeys
  <2>1. CASE MakeKeyPair(p)
    <3>1. PICK key \in PublicKeys :
            /\ memory' = [memory EXCEPT ![p] =
                 [userName |-> NoName, clientId |-> "", privateKey |-> key,
                  isUserRegistered |-> FALSE]]
            /\ keysMade' = keysMade \cup {key}
      BY <2>1 DEF MakeKeyPair
    <3>2. [userName |-> NoName, clientId |-> "", privateKey |-> key,
           isUserRegistered |-> FALSE] \in Memories
      BY DEF Memories
    <3>3. ~ IsReadable(file[p])
      BY <2>1 DEF MakeKeyPair, IsReadable
    <3>4. QED
      BY <3>1, <3>2, <3>3 DEF IInv, TypeOK
  <2>2. CASE ReadMyInfo(p)
    <3> DEFINE m == [userName |-> file[p][1], clientId |-> file[p][2],
                     privateKey |-> file[p][3], isUserRegistered |-> TRUE]
    <3>1. memory' = [memory EXCEPT ![p] = m] /\ UNCHANGED keysMade /\ IsReadable(file[p])
      BY <2>2 DEF ReadMyInfo
    <3>2. file[p][1] \in UserNames /\ file[p][2] \in ClientIds /\ file[p][3] \in PublicKeys
      BY <1>2, <3>1, RowType DEF Matches, IInv
    <3>3. m \in Memories
      BY <3>2 DEF Memories
    <3>4. QED
      BY <3>1, <3>3 DEF IInv, TypeOK
  <2>3. QED
    BY <2>1, <2>2 DEF StartClient
<1>5. PICK m \in Memories :
        /\ memory' = [memory EXCEPT ![p] = m]
        /\ m.isUserRegistered \/ ~ IsReadable(file[p])
        /\ keysMade' \subseteq PublicKeys
  BY <1>4
<1>6. memory'[p] = m /\ starts'[p] = starts[p] + 1 /\ call'[p] = call[p] /\ file'[p] = file[p]
  BY <1>1, <1>5 DEF IInv, TypeOK
<1>7. Frame(p)
  BY <1>1, <1>5 DEF Frame, IInv, TypeOK, storageVars
<1>8. TypeOK'
  BY <1>1, <1>5 DEF IInv, TypeOK, StorageTypeOK, storageVars
<1>9. ProcessInv(p)'
  BY <1>3, <1>5, <1>6, CallForms DEF ProcessInv
<1>10. Matches(p)' /\ HasCause(p)'
  BY <1>1, <1>2 DEF Matches, HasCause, storageVars
<1>11. \A q \in pending' : q.from = p => RequestInv(q)'
  <2> SUFFICES ASSUME NEW q \in pending, q.from = p
               PROVE  RequestInv(q)'
    BY <1>1
  <2>1. q.start <= starts[p] /\ q.start \in Nat
    BY DEF IInv, RequestInv, TypeOK, Pending
  <2>2. q.start <= starts'[p] /\ q.start # starts'[p]
    BY <2>1, <1>1, <1>6
  <2>3. QED
    BY <2>2 DEF RequestInv
<1>12. HoldersInv' /\ NoNameWasted'
  BY <1>1, <1>7, KeepHolders DEF HoldsId, storageVars
<1>13. QED
  BY <1>1, <1>7, <1>8, <1>9, <1>10, <1>11, <1>12, StepIInv

LEMMA RegisterUserCommandIInv ==
  ASSUME IInv, NEW p \in Processes, NEW name \in UserNames, RegisterUserCommand(p, name)
  PROVE  IInv'
<1> DEFINE m  == [memory[p] EXCEPT !.userName = name]
           q1 == [from |-> p, start |-> starts[p],
                  request |-> [op |-> "REGISTER", userName |-> name,
                               publicKey |-> memory[p].privateKey]]
<1>1. /\ memory[p] # NotRunning /\ call[p] = NoCall
      /\ ~ memory[p].isUserRegistered
      /\ memory' = [memory EXCEPT ![p] = m]
      /\ call' = [call EXCEPT ![p] = [phase |-> "waiting"]]
      /\ pending' = pending \cup {q1}
      /\ UNCHANGED <<storageVars, file, keysMade, orphans, boundVars>>
  BY DEF RegisterUserCommand, setUserName, IInv, TypeOK
<1>2. ProcessInv(p) /\ Matches(p) /\ HasCause(p) /\ starts[p] \in Nat
  BY DEF IInv, AccountMatches, MyInfoReadable, Matches, HasCause, TypeOK
<1>3. memory[p] \in Memories
  BY <1>1, ProcessTypes DEF IInv
<1>4. /\ m \in Memories /\ m.userName = name /\ m.privateKey = memory[p].privateKey
      /\ m.isUserRegistered = memory[p].isUserRegistered
  BY <1>3 DEF Memories
<1>5. /\ memory'[p] = m /\ call'[p].phase = "waiting"
      /\ starts'[p] = starts[p] /\ file'[p] = file[p]
  BY <1>1 DEF IInv, TypeOK, boundVars
<1>6. Frame(p)
  BY <1>1 DEF Frame, IInv, TypeOK, storageVars, boundVars
<1>7. TypeOK'
  <2>1. q1 \in Pending
    BY <1>2, <1>3 DEF Pending, RegisterRequests, Memories
  <2>2. QED
    BY <2>1, <1>1, <1>4, CallForms
    DEF IInv, TypeOK, StorageTypeOK, storageVars, boundVars
<1>8. ProcessInv(p)'
  <2>1. ~ IsReadable(file[p])
    BY <1>1, <1>2, CallForms DEF ProcessInv
  <2>2. memory'[p] # NotRunning
    BY <1>4, <1>5, MemoryParts
  <2>3. QED
    BY <2>1, <2>2, <1>1, <1>4, <1>5 DEF ProcessInv
<1>9. Matches(p)' /\ HasCause(p)'
  BY <1>1, <1>2, CallForms DEF Matches, HasCause, storageVars
<1>10. \A q \in pending' : q.from = p => RequestInv(q)'
  <2> SUFFICES ASSUME NEW q \in pending', q.from = p
               PROVE  RequestInv(q)'
    OBVIOUS
  <2>1. CASE q = q1
    <3>1. memory'[p].userName = name /\ memory'[p].privateKey = memory[p].privateKey
      BY <1>4, <1>5
    <3>2. q.request = RequestOf(p)' /\ q.start = starts'[p] /\ q.start \in Nat
      BY <2>1, <3>1, <1>2, <1>5 DEF RequestOf
    <3>3. QED
      BY <3>2, <1>5 DEF RequestInv
  <2>2. CASE q \in pending
    <3>1. RequestInv(q) /\ q.start # starts[p]
      BY <2>2, <1>1, CallForms DEF IInv, RequestInv
    <3>2. QED
      BY <3>1, <1>5 DEF RequestInv
  <2>3. QED
    BY <2>1, <2>2, <1>1
<1>11. HoldersInv' /\ NoNameWasted'
  BY <1>1, <1>5, <1>6, KeepHolders, CallForms DEF HoldsId, storageVars
<1>12. \A q \in pending' : q.from # p => q \in pending
  BY <1>1
<1>13. QED
  BY <1>6, <1>7, <1>8, <1>9, <1>10, <1>11, <1>12, StepIInv

\* A request of p is served or lost, or p gives up its call: p has no id to lose.
\* What remains to show is that no request of p is left that it would wait for.
LEMMA CallStep ==
  ASSUME IInv, NEW p \in Processes, NEW k \in Calls,
         UNCHANGED <<clients, file, memory, orphans, starts>>, TypeOK',
         call' = [call EXCEPT ![p] = k],
         k.phase \in {"none", "answered"},
         k.phase = "answered" => ~ IsSuccess(k.response) /\ call[p] # NoCall,
         call[p].phase # "writing",
         call[p].phase = "answered" => ~ IsSuccess(call[p].response),
         pending' \subseteq pending,
         \A q \in pending' : q.from = p => q.start # starts[p]
  PROVE  IInv'
<1>1. ProcessInv(p) /\ Matches(p) /\ HasCause(p) /\ call'[p] = k
  BY DEF IInv, AccountMatches, MyInfoReadable, Matches, HasCause, TypeOK
<1>2. k.phase = "none" => k = NoCall
  BY CallKinds
<1>3. Frame(p)
  BY DEF Frame, IInv, TypeOK
<1>4. ProcessInv(p)'
  BY <1>1, <1>2 DEF ProcessInv
<1>5. Matches(p)' /\ HasCause(p)'
  BY <1>1 DEF Matches, HasCause
<1>6. \A q \in pending' : q.from = p => RequestInv(q)'
  BY DEF IInv, RequestInv
<1>7. \A id \in ClientIds : HoldsId(p, id)' <=> HoldsId(p, id)
  BY <1>1 DEF HoldsId
<1>8. HoldersInv' /\ NoNameWasted'
  BY <1>3, <1>7, KeepHolders
<1>9. \A q \in pending' : q.from # p => q \in pending
  OBVIOUS
<1>10. QED
  BY <1>3, <1>4, <1>5, <1>6, <1>8, <1>9, StepIInv

\* A request is given up by a server that nobody waits for; also, nothing happens.
LEMMA DropRequest ==
  ASSUME IInv, UNCHANGED <<clients, file, memory, call, orphans, starts>>,
         pending' \subseteq pending, TypeOK'
  PROVE  IInv'
<1>1. \A p \in Processes : ProcessInv(p)'
  BY DEF IInv, ProcessInv, AccountOf, Written
<1>2. \A q \in pending' : RequestInv(q)'
  BY DEF IInv, RequestInv, RequestOf
<1>3. HoldersInv'
  BY DEF IInv, HoldersInv, HoldsId, is_client_id_exist
<1>4. AccountMatches' /\ MyInfoReadable'
  BY DEF IInv, AccountMatches, MyInfoReadable
<1>5. NoNameWasted'
  BY DEF IInv, NoNameWasted, HoldsId
<1>6. QED
  BY <1>1, <1>2, <1>3, <1>4, <1>5 DEF IInv

\* A process waits for one request at most.
LEMMA OneRequest ==
  ASSUME IInv, NEW q \in pending, IsWaiting(q),
         NEW x \in pending \ {q}, x.from = q.from
  PROVE  x.start # starts[q.from]
<1> SUFFICES ASSUME x.start = starts[q.from]
             PROVE  x = q
  OBVIOUS
<1>1. q \in Pending /\ x \in Pending /\ RequestInv(q) /\ RequestInv(x)
  BY DEF IInv, TypeOK
<1>2. memory[q.from] # NotRunning
  <2>1. call[q.from] # NoCall
    BY CallForms DEF IsWaiting
  <2>2. ProcessInv(q.from)
    BY <1>1 DEF IInv, Pending
  <2>3. QED
    BY <2>1, <2>2 DEF ProcessInv
<1>3. q.request = x.request /\ q.start = x.start
  BY <1>1, <1>2 DEF RequestInv, IsWaiting
<1>4. QED
  BY <1>1, <1>3 DEF Pending

LEMMA ServeRefusedIInv ==
  ASSUME IInv, NEW q \in pending, ServeRefused(q)
  PROVE  IInv'
<1>1. /\ UNCHANGED <<storageVars, orphans, file, memory, keysMade, boundVars>>
      /\ pending' = pending \ {q} /\ q.from \in Processes
  BY DEF ServeRefused, Answer, IInv, TypeOK, Pending
<1>2. CASE ~ IsWaiting(q)
  <2>1. call' = call
    BY <1>2 DEF ServeRefused, Answer
  <2>2. TypeOK'
    BY <1>1, <2>1 DEF IInv, TypeOK, StorageTypeOK, storageVars, boundVars
  <2>3. QED
    BY <1>1, <2>1, <2>2, DropRequest DEF storageVars, boundVars
<1>3. CASE IsWaiting(q)
  <2> DEFINE k == [phase |-> "answered", response |-> ErrorResponse]
  <2>1. call' = [call EXCEPT ![q.from] = k] /\ k \in Calls
    BY <1>3, ErrorType, CallForms DEF ServeRefused, Answer
  <2>2. TypeOK'
    BY <1>1, <2>1 DEF IInv, TypeOK, StorageTypeOK, storageVars, boundVars
  <2>3. call[q.from].phase = "waiting" /\ call[q.from] # NoCall
    BY <1>3, CallForms DEF IsWaiting
  <2>4. \A x \in pending' : x.from = q.from => x.start # starts[q.from]
    BY <1>1, <1>3, OneRequest
  <2>5. UNCHANGED <<clients, file, memory, orphans, starts>>
    BY <1>1 DEF storageVars, boundVars
  <2>6. k.phase = "answered" /\ ~ IsSuccess(k.response)
    BY ErrorType
  <2>7. pending' \subseteq pending
    BY <1>1
  <2> HIDE DEF k
  <2>8. QED
    BY <1>1, <2>1, <2>2, <2>3, <2>4, <2>5, <2>6, <2>7, CallStep
<1>4. QED
  BY <1>2, <1>3

LEMMA LoseRequestIInv ==
  ASSUME IInv, NEW q \in pending, LoseRequest(q)
  PROVE  IInv'
<1>1. /\ UNCHANGED <<storageVars, file, memory, keysMade, orphans, starts, diskFailures>>
      /\ pending' = pending \ {q} /\ q.from \in Processes
      /\ failures' \in Nat
  BY DEF LoseRequest, IInv, TypeOK, Pending
<1>2. CASE call' = call
  <2>1. TypeOK'
    BY <1>1, <1>2 DEF IInv, TypeOK, StorageTypeOK, storageVars
  <2>2. QED
    BY <1>1, <1>2, <2>1, DropRequest DEF storageVars
<1>3. CASE IsWaiting(q) /\ EndCall(q.from)
  <2>1. call' = [call EXCEPT ![q.from] = NoCall]
    BY <1>3 DEF EndCall
  <2>2. TypeOK'
    BY <1>1, <2>1, CallForms DEF IInv, TypeOK, StorageTypeOK, storageVars
  <2>3. call[q.from].phase = "waiting"
    BY <1>3 DEF IsWaiting
  <2>4. \A x \in pending' : x.from = q.from => x.start # starts[q.from]
    BY <1>1, <1>3, OneRequest
  <2>5. UNCHANGED <<clients, file, memory, orphans, starts>>
    BY <1>1 DEF storageVars
  <2>6. pending' \subseteq pending
    BY <1>1
  <2>7. QED
    BY <1>1, <2>1, <2>2, <2>3, <2>4, <2>5, <2>6, CallStep, CallForms
<1>4. QED
  BY <1>2, <1>3 DEF LoseRequest

\* The requests of p when it no longer waits, or no longer runs
LEMMA NoWaiting ==
  ASSUME IInv, NEW p \in Processes, UNCHANGED starts, pending' \subseteq pending,
         memory'[p] = NotRunning \/ (memory[p] # NotRunning /\ call[p].phase # "waiting")
  PROVE  \A q \in pending' : q.from = p => RequestInv(q)'
<1> SUFFICES ASSUME NEW q \in pending', q.from = p
             PROVE  RequestInv(q)'
  OBVIOUS
<1>1. RequestInv(q)
  BY DEF IInv
<1>2. QED
  BY <1>1 DEF RequestInv

\* What p holds while its call is answered or writes my.info: the id of the answer
LEMMA CallHolds ==
  ASSUME IInv, NEW p \in Processes
  PROVE  /\ call[p].phase = "answered" =>
              /\ memory[p] # NotRunning /\ ~ memory[p].isUserRegistered
              /\ ~ IsReadable(file[p])
              /\ IsSuccess(call[p].response) =>
                   \A id : HoldsId(p, id) <=> id = call[p].response.clientId
         /\ call[p].phase = "writing" =>
              /\ memory[p] # NotRunning /\ ~ memory[p].isUserRegistered
              /\ \A id : HoldsId(p, id) <=> id = call[p].clientId
              /\ IsReadable(file[p]) <=> call[p].good /\ call[p].line = 4
<1>1. ProcessInv(p)
  BY DEF IInv
<1>2. call[p].phase \in {"answered", "writing"} =>
        call[p] # NoCall /\ memory[p] # NotRunning /\ ~ memory[p].isUserRegistered
  BY <1>1, CallForms DEF ProcessInv
<1>3. ASSUME call[p].phase = "answered"
      PROVE  /\ ~ IsReadable(file[p])
             /\ IsSuccess(call[p].response) =>
                  \A id : HoldsId(p, id) <=> id = call[p].response.clientId
  <2>1. ~ IsReadable(file[p])
    BY <1>1, <1>2, <1>3 DEF ProcessInv
  <2>2. QED
    BY <2>1, <1>3 DEF HoldsId
<1>4. ASSUME call[p].phase = "writing"
      PROVE  /\ \A id : HoldsId(p, id) <=> id = call[p].clientId
             /\ IsReadable(file[p]) <=> call[p].good /\ call[p].line = 4
  <2>1. call[p].line \in 1 .. 4 /\ call[p].good \in BOOLEAN
    BY <1>4, ProcessTypes, CallKinds DEF IInv
  <2>2. CASE ~ call[p].good
    <3>1. ~ IsReadable(file[p])
      BY <1>1, <1>4, <2>2 DEF ProcessInv
    <3>2. QED
      BY <3>1, <1>4, <2>2 DEF HoldsId
  <2>3. CASE call[p].good
    <3>1. Written(p)
      BY <1>1, <1>4, <2>3 DEF ProcessInv
    <3>2. IsReadable(file[p]) <=> call[p].line = 4
      BY <3>1, <2>1 DEF Written, IsReadable
    <3>3. call[p].line = 4 => file[p][2] = call[p].clientId
      BY <3>1 DEF Written, Complete
    <3>4. QED
      BY <3>2, <3>3, <1>4, <2>3 DEF HoldsId
  <2>4. QED
    BY <2>1, <2>2, <2>3
<1>5. QED
  BY <1>2, <1>3, <1>4

LEMMA ShowErrorIInv ==
  ASSUME IInv, NEW p \in Processes, ShowError(p)
  PROVE  IInv'
<1>1. /\ call[p].phase = "answered" /\ ~ IsSuccess(call[p].response)
      /\ call' = [call EXCEPT ![p] = NoCall]
      /\ UNCHANGED <<storageVars, file, memory, pending, keysMade, orphans, boundVars>>
  BY DEF ShowError, EndCall
<1>2. TypeOK'
  BY <1>1, CallForms DEF IInv, TypeOK, StorageTypeOK, storageVars, boundVars
<1>3. \A q \in pending' : q.from = p => q.start # starts[p]
  BY <1>1, CallHolds DEF IInv, RequestInv
<1>4. UNCHANGED <<clients, file, memory, orphans, starts>> /\ pending' \subseteq pending
  BY <1>1 DEF storageVars, boundVars
<1>5. QED
  BY <1>1, <1>2, <1>3, <1>4, CallStep, CallForms

LEMMA OrphanType ==
  ASSUME TypeOK, NEW i \in ClientIds, NEW p \in Processes, NEW cause \in Causes,
         Orphan(i, p, cause)
  PROVE  orphans' \subseteq [id: ClientIds, of: Processes, cause: Causes]
BY DEF TypeOK, Orphan

LEMMA LoseAnswerIInv ==
  ASSUME IInv, NEW p \in Processes, LoseAnswer(p)
  PROVE  IInv'
<1>1. /\ call[p].phase = "answered"
      /\ call' = [call EXCEPT ![p] = NoCall]
      /\ failures' \in Nat
      /\ UNCHANGED <<storageVars, file, memory, pending, keysMade, starts, diskFailures>>
  BY DEF LoseAnswer, EndCall, IInv, TypeOK
<1>2. call[p].response \in Responses
  BY <1>1, ProcessTypes, CallKinds DEF IInv
<1>3. CASE ~ IsSuccess(call[p].response)
  <2>1. UNCHANGED orphans
    BY <1>3 DEF LoseAnswer
  <2>2. TypeOK'
    BY <1>1, <2>1, CallForms DEF IInv, TypeOK, StorageTypeOK, storageVars
  <2>3. \A q \in pending' : q.from = p => q.start # starts[p]
    BY <1>1, CallHolds DEF IInv, RequestInv
  <2>4. UNCHANGED <<clients, file, memory, orphans, starts>> /\ pending' \subseteq pending
    BY <1>1, <2>1 DEF storageVars
  <2>5. QED
    BY <1>1, <1>3, <2>2, <2>3, <2>4, CallStep, CallForms
<1>4. CASE IsSuccess(call[p].response)
  <2> DEFINE i == call[p].response.clientId
  <2>1. Orphan(i, p, "lost")
    BY <1>4 DEF LoseAnswer
  <2>2. i \in ClientIds
    BY <1>2, <1>4, SuccessId
  <2> HIDE DEF i
  <2>3. TypeOK'
    <3>1. orphans' \subseteq [id: ClientIds, of: Processes, cause: Causes]
      BY <2>1, <2>2, OrphanType DEF IInv, Causes
    <3>2. QED
      BY <3>1, <1>1, CallForms DEF IInv, TypeOK, StorageTypeOK, storageVars
  <2>4. Frame(p)
    BY <1>1, <2>1 DEF Frame, IInv, TypeOK, storageVars, Orphan
  <2>5. call'[p] = NoCall /\ call'[p].phase = "none"
    BY <1>1, CallForms DEF IInv, TypeOK
  <2>6. ~ IsReadable(file'[p]) /\ HoldsId(p, i) /\ \A id : HoldsId(p, id) => id = i
    BY <1>1, <1>4, CallHolds DEF i
  <2>7. \A id : ~ HoldsId(p, id)'
    BY <2>5, <2>6 DEF HoldsId
  <2>8. HoldersInv' /\ NoNameWasted'
    <3>1. UNCHANGED clients
      BY <1>1 DEF storageVars
    <3>2. QED
      BY <2>1, <2>2, <2>4, <2>6, <2>7, <3>1, LoseHolder DEF Orphan
  <2>9. ProcessInv(p)' /\ Matches(p)'
    BY <2>5, <2>6 DEF ProcessInv, Matches
  <2>10. HasCause(p)'
    BY <1>1, <2>1 DEF IInv, MyInfoReadable, HasCause, Orphan
  <2>11. \A q \in pending' : q.from = p => RequestInv(q)'
    BY <1>1, CallHolds, NoWaiting
  <2>12. QED
    BY <1>1, <2>3, <2>4, <2>8, <2>9, <2>10, <2>11, StepIInv
<1>5. QED
  BY <1>3, <1>4

-----------------------------------------------------------------------------
\* The steps of handleResponse that write my.info

LEMMA EmptyFile ==
  <<>> \in Seq(Lines) /\ <<>> # NoFile /\ Len(<<>>) = 0 /\ ~ IsReadable(<<>>)
<1>1. <<>> \in Seq(Lines) /\ Len(<<>>) = 0
  OBVIOUS
<1>2. <<>> # NoFile
  BY <1>1, RegistrationAssumption
<1>3. Len(<<>>) # 3
  BY <1>1
<1>4. QED
  BY <1>1, <1>2, <1>3 DEF IsReadable

\* What an orphan excuses
LEMMA OrphanCause ==
  ASSUME NEW i, NEW p, NEW cause \in {"died", "no name", "disk"}, Orphan(i, p, cause)
  PROVE  HasCause(p)'
<1> DEFINE o1 == [id |-> i, of |-> p, cause |-> cause]
<1>1. o1 \in orphans' /\ o1.of = p /\ o1.cause = cause
  BY DEF Orphan
<1>2. QED
  BY <1>1 DEF HasCause

LEMMA OpenMyInfoIInv ==
  ASSUME IInv, NEW p \in Processes, OpenMyInfo(p)
  PROVE  IInv'
<1>1. /\ call[p].phase = "answered" /\ IsSuccess(call[p].response)
      /\ UNCHANGED <<storageVars, memory, pending, keysMade, starts, failures>>
  BY DEF OpenMyInfo
<1>2. PICK i \in ClientIds : i = call[p].response.clientId
  BY <1>1, ProcessTypes, CallKinds, SuccessId DEF IInv
<1>3. PICK good \in BOOLEAN :
        /\ IF good
             THEN file' = [file EXCEPT ![p] = <<>>] /\ UNCHANGED diskFailures
             ELSE DiskFails /\ UNCHANGED file
        /\ IF memory[p].userName = NoName
             THEN EndCall(p) /\ Orphan(i, p, "no name")
             ELSE /\ call' = [call EXCEPT ![p] =
                       [phase |-> "writing", clientId |-> i, line |-> 1, good |-> good]]
                  /\ UNCHANGED orphans
  BY <1>2 DEF OpenMyInfo
<1>4. AccountOf(p, i) \in clients
  BY <1>1, <1>2 DEF IInv, ProcessInv
<1>5. /\ memory[p] # NotRunning /\ ~ memory[p].isUserRegistered /\ ~ IsReadable(file[p])
      /\ HoldsId(p, i) /\ \A id : HoldsId(p, id) => id = i
  BY <1>1, <1>2, CallHolds
<1>6. /\ ~ IsReadable(file'[p]) /\ file' \in [Processes -> {NoFile} \cup Seq(Lines)]
      /\ \A x \in Processes \ {p} : file'[x] = file[x]
      /\ good => file'[p] = <<>> /\ file'[p] # NoFile
      /\ diskFailures' \in Nat
  <2>1. diskFailures' \in Nat
    <3>1. diskFailures \in Nat
      BY DEF IInv, TypeOK
    <3>2. diskFailures' = diskFailures \/ diskFailures' = diskFailures + 1
      BY <1>3 DEF DiskFails
    <3>3. QED
      BY <3>1, <3>2
  <2>2. file \in [Processes -> {NoFile} \cup Seq(Lines)]
    BY DEF IInv, TypeOK
  <2>3. CASE good
    BY <2>1, <2>2, <2>3, <1>3, EmptyFile
  <2>4. CASE ~ good
    BY <2>1, <2>2, <2>4, <1>3, <1>5
  <2>5. QED
    BY <2>3, <2>4
<1>7. \A q \in pending' : q.from = p => RequestInv(q)'
  BY <1>1, <1>5, NoWaiting
<1>8. UNCHANGED <<clients, lastSeen, messages, lastRowId>>
  BY <1>1 DEF storageVars
<1>9. Matches(p)'
  BY <1>6 DEF Matches
<1>10. CASE memory[p].userName = NoName
  <2>1. call' = [call EXCEPT ![p] = NoCall] /\ Orphan(i, p, "no name")
    BY <1>3, <1>10 DEF EndCall
  <2>2. TypeOK'
    <3>1. orphans' \subseteq [id: ClientIds, of: Processes, cause: Causes]
      BY <2>1, OrphanType DEF IInv, Causes
    <3>2. QED
      BY <3>1, <2>1, <1>1, <1>6, <1>8, CallForms DEF IInv, TypeOK, StorageTypeOK
  <2>3. Frame(p)
    BY <1>1, <1>6, <1>8, <2>1 DEF Frame, IInv, TypeOK, Orphan
  <2>4. call'[p] = NoCall /\ call'[p].phase = "none"
    BY <2>1, CallForms DEF IInv, TypeOK
  <2>5. \A id : ~ HoldsId(p, id)'
    BY <1>6, <2>4 DEF HoldsId
  <2>6. HoldersInv' /\ NoNameWasted'
    BY <1>5, <1>8, <2>1, <2>3, <2>5, LoseHolder DEF Orphan
  <2>7. ProcessInv(p)'
    BY <1>6, <2>4 DEF ProcessInv
  <2>8. HasCause(p)'
    BY <2>1, OrphanCause
  <2>9. QED
    BY <1>1, <1>7, <1>9, <2>2, <2>3, <2>6, <2>7, <2>8, StepIInv
<1>11. CASE memory[p].userName # NoName
  <2> DEFINE k == [phase |-> "writing", clientId |-> i, line |-> 1, good |-> good]
  <2>1. call' = [call EXCEPT ![p] = k] /\ UNCHANGED orphans
    BY <1>3, <1>11
  <2>2. k \in Calls
    BY CallForms
  <2>3. k.phase = "writing" /\ k.clientId = i /\ k.line = 1 /\ k.good = good /\ k # NoCall
    BY DEF NoCall
  <2> HIDE DEF k
  <2>4. TypeOK'
    BY <1>1, <1>6, <1>8, <2>1, <2>2 DEF IInv, TypeOK, StorageTypeOK
  <2>5. Frame(p)
    BY <1>1, <1>6, <1>8, <2>1 DEF Frame, IInv, TypeOK
  <2>6. call'[p] = k
    BY <2>1 DEF IInv, TypeOK
  <2>7. \A id : HoldsId(p, id)' <=> HoldsId(p, id)
    BY <1>5, <1>6, <2>3, <2>6 DEF HoldsId
  <2>8. HoldersInv' /\ NoNameWasted'
    BY <1>8, <2>1, <2>5, <2>7, KeepHolders
  <2>9. ProcessInv(p)'
    <3>1. AccountOf(p, i)' \in clients'
      BY <1>1, <1>4, <1>8 DEF AccountOf
    <3>2. k.good => Written(p)'
      BY <1>6, <2>3, <2>6, EmptyFile DEF Written
    <3>3. QED
      BY <1>1, <1>5, <1>6, <2>3, <2>6, <3>1, <3>2 DEF ProcessInv
  <2>10. HasCause(p)'
    BY <2>3, <2>6 DEF HasCause
  <2>11. QED
    BY <1>1, <1>7, <1>9, <2>4, <2>5, <2>8, <2>9, <2>10, StepIInv
<1>12. QED
  BY <1>10, <1>11

\* Three lines of a complete my.info are the row that was made from the memory.
LEMMA CompleteFile ==
  ASSUME NEW f, NEW m, NEW i, NEW n \in 1 .. 4, IsReadable(f), Len(f) = n - 1,
         \A j \in 1 .. 3 : j < n => f[j] = Complete(m, i)[j]
  PROVE  f[1] = m.userName /\ f[2] = i /\ f[3] = m.privateKey
<1>1. n = 4
  BY DEF IsReadable
<1>2. f[1] = Complete(m, i)[1] /\ f[2] = Complete(m, i)[2] /\ f[3] = Complete(m, i)[3]
  BY <1>1
<1>3. QED
  BY <1>2 DEF Complete

LEMMA WriteLineIInv ==
  ASSUME IInv, NEW p \in Processes, WriteLine(p)
  PROVE  IInv'
<1>1. /\ call[p].phase = "writing" /\ call[p].line <= 3
      /\ UNCHANGED <<clients, lastSeen, messages, lastRowId>>
      /\ UNCHANGED <<memory, pending, keysMade, orphans, starts, failures>>
  BY DEF WriteLine, storageVars
<1>2. PICK i \in ClientIds, n \in 1 .. 3, g \in BOOLEAN :
        call[p] = [phase |-> "writing", clientId |-> i, line |-> n, good |-> g]
  <2>1. call[p].line \in 1 .. 4
    BY <1>1, ProcessTypes, CallKinds DEF IInv
  <2>2. call[p].line \in 1 .. 3
    BY <1>1, <2>1
  <2>3. QED
    BY <1>1, <2>2, ProcessTypes, CallKinds DEF IInv
<1>3. call[p].clientId = i /\ call[p].line = n /\ call[p].good = g
  BY <1>2
<1>4. /\ memory[p] \in Memories /\ ~ memory[p].isUserRegistered
      /\ ~ IsReadable(file[p]) /\ \A id : HoldsId(p, id) <=> id = i
  <2>1. n # 4
    OBVIOUS
  <2>2. QED
    BY <2>1, <1>1, <1>3, CallHolds, ProcessTypes DEF IInv
<1>5. AccountOf(p, i) \in clients /\ (g => Written(p))
  BY <1>1, <1>3 DEF IInv, ProcessInv
<1>6. PICK h \in BOOLEAN :
        /\ call' = [call EXCEPT ![p] =
             [phase |-> "writing", clientId |-> i, line |-> n + 1, good |-> h]]
        /\ \/ /\ h /\ g
              /\ file' = [file EXCEPT ![p] = Append(@, Complete(memory[p], i)[n])]
           \/ ~ h /\ UNCHANGED file
  <2> DEFINE k(x) == [phase |-> "writing", clientId |-> i, line |-> n + 1, good |-> x]
  <2>1. CASE /\ call[p].good
             /\ file' = [file EXCEPT ![p] =
                          Append(@, Complete(memory[p], call[p].clientId)[call[p].line])]
             /\ call' = [call EXCEPT ![p].line = @ + 1]
    <3>1. [call[p] EXCEPT !.line = @ + 1] = k(g)
      BY <1>2
    <3>2. call' = [call EXCEPT ![p] = [call[p] EXCEPT !.line = @ + 1]]
      BY <2>1 DEF IInv, TypeOK
    <3>3. QED
      BY <2>1, <3>1, <3>2, <1>3
  <2>2. CASE call' = [call EXCEPT ![p].line = @ + 1, ![p].good = FALSE] /\ UNCHANGED file
    <3>1. [call[p] EXCEPT !.line = @ + 1, !.good = FALSE] = k(FALSE)
      <4>1. \A r : r = call[p] =>
              [r EXCEPT !.line = @ + 1, !.good = FALSE]
                = [[r EXCEPT !.line = r.line + 1] EXCEPT !.good = FALSE]
        BY <1>2
      <4>2. [call[p] EXCEPT !.line = call[p].line + 1] = k(g)
        BY <1>2
      <4>3. \A b : [k(g) EXCEPT !.good = b] = k(b)
        OBVIOUS
      <4>4. QED
        BY <4>1, <4>2, <4>3
    <3>2. call' = [call EXCEPT ![p] = [call[p] EXCEPT !.line = @ + 1, !.good = FALSE]]
      BY <2>2 DEF IInv, TypeOK
    <3>3. QED
      BY <2>2, <3>1, <3>2
  <2>3. QED
    BY <2>1, <2>2 DEF WriteLine
<1>7. diskFailures' \in Nat
  <2>1. diskFailures \in Nat
    BY DEF IInv, TypeOK
  <2>2. diskFailures' = diskFailures \/ diskFailures' = diskFailures + 1
    BY DEF WriteLine, DiskFails
  <2>3. QED
    BY <2>1, <2>2
<1> DEFINE k == [phase |-> "writing", clientId |-> i, line |-> n + 1, good |-> h]
<1>8. /\ k \in Calls /\ k # NoCall /\ k.phase = "writing" /\ k.clientId = i
      /\ k.line = n + 1 /\ k.good = h
  <2>1. n + 1 \in 1 .. 4
    OBVIOUS
  <2>2. QED
    BY <2>1, CallForms DEF NoCall
<1>9. call' = [call EXCEPT ![p] = k] /\ call'[p] = k
  BY <1>6 DEF IInv, TypeOK
<1> HIDE DEF k
<1>10. file' \in [Processes -> {NoFile} \cup Seq(Lines)]
       /\ \A x \in Processes \ {p} : file'[x] = file[x]
  <2>1. file \in [Processes -> {NoFile} \cup Seq(Lines)]
    BY DEF IInv, TypeOK
  <2>2. CASE g
    <3>1. memory[p].userName \in UserNames /\ memory[p].privateKey \in PublicKeys
      BY <1>5, RowType DEF AccountOf, IInv
    <3>2. Complete(memory[p], i)[n] \in Lines
      BY <3>1 DEF Complete, Lines
    <3>3. file[p] \in Seq(Lines)
      BY <2>1, <2>2, <1>5 DEF Written
    <3>4. Append(file[p], Complete(memory[p], i)[n]) \in Seq(Lines)
      BY <3>2, <3>3
    <3>5. QED
      BY <2>1, <3>4, <1>6
  <2>3. CASE ~ g
    BY <2>1, <2>3, <1>6
  <2>4. QED
    BY <2>2, <2>3
<1>11. h => Written(p)'
  <2> SUFFICES ASSUME h
               PROVE  Written(p)'
    OBVIOUS
  <2>1. /\ g /\ Written(p)
        /\ file'[p] = Append(file[p], Complete(memory[p], i)[n])
    BY <1>5, <1>6 DEF IInv, TypeOK
  <2>2. file[p] \in Seq(Lines) /\ file'[p] \in {NoFile} \cup Seq(Lines)
    BY <2>1, <1>10 DEF IInv, TypeOK, Written
  <2>3. /\ Len(file'[p]) = n
        /\ \A j \in 1 .. 3 : j < n + 1 => file'[p][j] = Complete(memory[p], i)[j]
    BY <2>1, <2>2, <1>3 DEF Written
  <2>4. file'[p] # NoFile
    <3>1. memory[p].userName \in UserNames /\ memory[p].privateKey \in PublicKeys
      BY <1>5, RowType DEF AccountOf, IInv
    <3>2. Complete(memory[p], i)[n] \in Lines
      BY <3>1 DEF Complete, Lines
    <3>3. file'[p] \in Seq(Lines)
      BY <2>1, <2>2, <3>2
    <3>4. QED
      BY <3>3, RegistrationAssumption
  <2>5. QED
    BY <2>3, <2>4, <1>1, <1>8, <1>9 DEF Written
<1>12. ~ h => ~ IsReadable(file'[p])
  BY <1>4, <1>6
<1>13. IsReadable(file'[p]) =>
         /\ file'[p][1] = memory[p].userName /\ file'[p][2] = i
         /\ file'[p][3] = memory[p].privateKey
  <2> SUFFICES ASSUME IsReadable(file'[p])
               PROVE  /\ file'[p][1] = memory[p].userName /\ file'[p][2] = i
                      /\ file'[p][3] = memory[p].privateKey
    OBVIOUS
  <2>1. Written(p)' /\ n + 1 \in 1 .. 4
    BY <1>11, <1>12
  <2>2. /\ Len(file'[p]) = (n + 1) - 1
        /\ \A j \in 1 .. 3 : j < n + 1 => file'[p][j] = Complete(memory[p], i)[j]
    BY <2>1, <1>1, <1>8, <1>9 DEF Written
  <2>3. QED
    BY <2>1, <2>2, CompleteFile
<1>14. Frame(p)
  BY <1>1, <1>9, <1>10 DEF Frame, IInv, TypeOK
<1>15. TypeOK'
  BY <1>1, <1>7, <1>8, <1>9, <1>10 DEF IInv, TypeOK, StorageTypeOK
<1>16. ProcessInv(p)'
  <2>1. AccountOf(p, i)' \in clients'
    BY <1>1, <1>5 DEF AccountOf
  <2>2. memory'[p] # NotRunning /\ ~ memory'[p].isUserRegistered
    BY <1>1, <1>4, MemoryParts
  <2>3. QED
    BY <2>1, <2>2, <1>8, <1>9, <1>11, <1>12 DEF ProcessInv
<1>17. Matches(p)' /\ HasCause(p)'
  BY <1>1, <1>5, <1>8, <1>9, <1>13 DEF Matches, HasCause, AccountOf
<1>18. \A q \in pending' : q.from = p => RequestInv(q)'
  BY <1>1, <1>4, MemoryParts, NoWaiting
<1>19. \A id \in ClientIds : HoldsId(p, id)' <=> HoldsId(p, id)
  BY <1>4, <1>8, <1>9, <1>13 DEF HoldsId
<1>20. HoldersInv' /\ NoNameWasted'
  BY <1>1, <1>14, <1>19, KeepHolders
<1>21. QED
  BY <1>1, <1>14, <1>15, <1>16, <1>17, <1>18, <1>20, StepIInv

LEMMA FinishRegistrationIInv ==
  ASSUME IInv, NEW p \in Processes, FinishRegistration(p)
  PROVE  IInv'
<1>1. /\ call[p].phase = "writing" /\ call[p].line = 4
      /\ call' = [call EXCEPT ![p] = NoCall]
      /\ UNCHANGED <<clients, lastSeen, messages, lastRowId>>
      /\ UNCHANGED <<file, pending, keysMade, starts, failures, diskFailures>>
  BY DEF FinishRegistration, EndCall, storageVars, boundVars
<1>2. PICK i \in ClientIds : i = call[p].clientId
  BY <1>1, ProcessTypes, CallKinds DEF IInv
<1>3. memory[p] \in Memories /\ memory[p] # NotRunning
  BY <1>1, CallHolds, ProcessTypes DEF IInv
<1> DEFINE m == [memory[p] EXCEPT !.clientId = i, !.isUserRegistered = TRUE]
<1>4. memory' = [memory EXCEPT ![p] = m]
  BY <1>2 DEF FinishRegistration, IInv, TypeOK
<1>5. m \in Memories /\ m.isUserRegistered
  BY <1>3 DEF Memories
<1> HIDE DEF m
<1>6. memory'[p] = m /\ call'[p] = NoCall /\ call'[p].phase = "none" /\ file'[p] = file[p]
  BY <1>1, <1>4, CallForms DEF IInv, TypeOK
<1>7. /\ \A id : HoldsId(p, id) <=> id = i
      /\ IsReadable(file[p]) <=> call[p].good
  BY <1>1, <1>2, CallHolds
<1>8. ProcessInv(p)'
  BY <1>5, <1>6 DEF ProcessInv
<1>9. Matches(p)'
  BY <1>1 DEF IInv, AccountMatches, Matches
<1>10. \A q \in pending' : q.from = p => RequestInv(q)'
  BY <1>1, <1>3, NoWaiting
<1>11. CASE call[p].good
  <2>1. UNCHANGED orphans
    BY <1>11 DEF FinishRegistration
  <2>2. TypeOK'
    BY <1>1, <1>4, <1>5, <2>1, CallForms DEF IInv, TypeOK, StorageTypeOK
  <2>3. Frame(p)
    BY <1>1, <1>4, <2>1 DEF Frame, IInv, TypeOK
  <2>4. \A id : HoldsId(p, id)' <=> HoldsId(p, id)
    BY <1>6, <1>7, <1>11 DEF HoldsId
  <2>5. HoldersInv' /\ NoNameWasted'
    BY <1>1, <2>1, <2>3, <2>4, KeepHolders
  <2>6. HasCause(p)'
    BY <1>6, <1>7, <1>11 DEF HasCause
  <2>7. QED
    BY <1>1, <1>8, <1>9, <1>10, <2>2, <2>3, <2>5, <2>6, StepIInv
<1>12. CASE ~ call[p].good
  <2>1. Orphan(i, p, "disk")
    BY <1>2, <1>12 DEF FinishRegistration
  <2>2. TypeOK'
    <3>1. orphans' \subseteq [id: ClientIds, of: Processes, cause: Causes]
      BY <2>1, OrphanType DEF IInv, Causes
    <3>2. QED
      BY <3>1, <1>1, <1>4, <1>5, CallForms DEF IInv, TypeOK, StorageTypeOK
  <2>3. Frame(p)
    BY <1>1, <1>4, <2>1 DEF Frame, IInv, TypeOK, Orphan
  <2>4. \A id : ~ HoldsId(p, id)'
    BY <1>6, <1>7, <1>12 DEF HoldsId
  <2>5. HoldersInv' /\ NoNameWasted'
    BY <1>1, <1>7, <2>1, <2>3, <2>4, LoseHolder DEF Orphan
  <2>6. HasCause(p)'
    BY <2>1, OrphanCause
  <2>7. QED
    BY <1>1, <1>8, <1>9, <1>10, <2>2, <2>3, <2>5, <2>6, StepIInv
<1>13. QED
  BY <1>11, <1>12

-----------------------------------------------------------------------------
\* A process may end anywhere.

LEMMA EndClientIInv ==
  ASSUME IInv, NEW p \in Processes, EndClient(p)
  PROVE  IInv'
<1>1. /\ memory' = [memory EXCEPT ![p] = NotRunning]
      /\ call' = [call EXCEPT ![p] = NoCall]
      /\ UNCHANGED <<clients, lastSeen, messages, lastRowId>>
      /\ UNCHANGED <<file, pending, keysMade, starts, failures, diskFailures>>
  BY DEF EndClient, EndCall, storageVars, boundVars
<1>2. /\ memory'[p] = NotRunning /\ call'[p] = NoCall /\ call'[p].phase = "none"
      /\ file'[p] = file[p]
  BY <1>1, CallForms DEF IInv, TypeOK
<1>3. ProcessInv(p)'
  BY <1>2 DEF ProcessInv
<1>4. Matches(p)'
  BY <1>1 DEF IInv, AccountMatches, Matches
<1>5. \A q \in pending' : q.from = p => RequestInv(q)'
  BY <1>1, <1>2, NoWaiting
<1>6. ASSUME NEW i \in ClientIds, Orphan(i, p, "died"), ~ IsReadable(file[p]),
             \A id : HoldsId(p, id) <=> id = i
      PROVE  IInv'
  <2>1. TypeOK'
    <3>1. orphans' \subseteq [id: ClientIds, of: Processes, cause: Causes]
      BY <1>6, OrphanType DEF IInv, Causes
    <3>2. QED
      BY <3>1, <1>1, CallForms DEF IInv, TypeOK, StorageTypeOK
  <2>2. Frame(p)
    BY <1>1, <1>6 DEF Frame, IInv, TypeOK, Orphan
  <2>3. \A id : ~ HoldsId(p, id)'
    BY <1>2, <1>6 DEF HoldsId
  <2>4. HoldersInv' /\ NoNameWasted'
    BY <1>1, <1>6, <2>2, <2>3, LoseHolder DEF Orphan
  <2>5. HasCause(p)'
    BY <1>6, OrphanCause
  <2>6. QED
    BY <1>1, <1>3, <1>4, <1>5, <2>1, <2>2, <2>4, <2>5, StepIInv
<1>7. CASE call[p].phase = "answered" /\ IsSuccess(call[p].response)
  <2>1. PICK i \in ClientIds : i = call[p].response.clientId
    BY <1>7, ProcessTypes, CallKinds, SuccessId DEF IInv
  <2>2. Orphan(i, p, "died")
    BY <1>7, <2>1 DEF EndClient
  <2>3. ~ IsReadable(file[p]) /\ \A id : HoldsId(p, id) <=> id = i
    BY <1>7, <2>1, CallHolds
  <2>4. QED
    BY <2>2, <2>3, <1>6
<1>8. CASE call[p].phase = "writing" /\ ~ IsReadable(file[p])
  <2>1. PICK i \in ClientIds : i = call[p].clientId
    BY <1>8, ProcessTypes, CallKinds DEF IInv
  <2>2. Orphan(i, p, "died")
    BY <1>8, <2>1 DEF EndClient
  <2>3. \A id : HoldsId(p, id) <=> id = i
    BY <1>8, <2>1, CallHolds
  <2>4. QED
    BY <1>8, <2>2, <2>3, <1>6
<1>9. CASE /\ ~ (call[p].phase = "answered" /\ IsSuccess(call[p].response))
           /\ ~ (call[p].phase = "writing" /\ ~ IsReadable(file[p]))
  <2>1. UNCHANGED orphans
    BY <1>9 DEF EndClient
  <2>2. TypeOK'
    BY <1>1, <2>1, CallForms DEF IInv, TypeOK, StorageTypeOK
  <2>3. Frame(p)
    BY <1>1, <2>1 DEF Frame, IInv, TypeOK
  <2>4. \A id : HoldsId(p, id) <=> IsReadable(file[p]) /\ file[p][2] = id
    <3>1. call[p].phase = "writing" => file[p][2] = call[p].clientId
      <4>1. IsReadable(file[p]) => HoldsId(p, file[p][2])
        BY DEF HoldsId
      <4>2. QED
        BY <4>1, <1>9, CallHolds
    <3>2. QED
      BY <3>1, <1>9 DEF HoldsId
  <2>5. \A id : HoldsId(p, id)' <=> HoldsId(p, id)
    BY <1>2, <2>4 DEF HoldsId
  <2>6. HoldersInv' /\ NoNameWasted'
    BY <1>1, <2>1, <2>3, <2>5, KeepHolders
  <2>7. HasCause(p)'
    BY <1>1, <1>9, <2>1 DEF IInv, MyInfoReadable, HasCause
  <2>8. QED
    BY <1>1, <1>3, <1>4, <1>5, <2>2, <2>3, <2>6, <2>7, StepIInv
<1>10. QED
  BY <1>7, <1>8, <1>9

-----------------------------------------------------------------------------
\* The server registers the user, whether the process lives or not.

LEMMA ServeRegisterIInv ==
  ASSUME IInv, NEW q \in pending, ServeRegister(q)
  PROVE  IInv'
<1> DEFINE p == q.from
           r == q.request
<1>1. PICK i \in ClientIds :
        /\ register_client(r, i)
        /\ Answer(q, [code |-> "REGISTER_SUCCESS", clientId |-> i])
        /\ IF IsWaiting(q) THEN UNCHANGED orphans ELSE Orphan(i, p, "died")
  BY DEF ServeRegister
<1> DEFINE row == [id |-> i, userName |-> r.userName, publicKey |-> r.publicKey]
           k   == [phase |-> "answered",
                   response |-> [code |-> "REGISTER_SUCCESS", clientId |-> i]]
<1>2. /\ ~ is_client_id_exist(i) /\ clients' = clients \cup {row}
      /\ UNCHANGED <<lastSeen, messages, lastRowId>>
  BY <1>1 DEF register_client, add_client
<1>3. /\ pending' = pending \ {q}
      /\ call' = IF IsWaiting(q) THEN [call EXCEPT ![p] = k] ELSE call
      /\ UNCHANGED <<file, memory, keysMade, starts, failures, diskFailures>>
  BY <1>1 DEF Answer, boundVars
<1>4. /\ p \in Processes /\ r \in RegisterRequests
      /\ r = [op |-> "REGISTER", userName |-> r.userName, publicKey |-> r.publicKey]
      /\ r.userName \in UserNames /\ r.publicKey \in PublicKeys
  BY DEF IInv, TypeOK, Pending, RegisterRequests
<1>5. row \in ClientRows /\ row.id = i
  BY <1>4 DEF ClientRows
<1>6. /\ k \in Calls /\ k # NoCall /\ k.phase = "answered" /\ IsSuccess(k.response)
      /\ k.response.clientId = i
  <2>1. [code |-> "REGISTER_SUCCESS", clientId |-> i] \in Responses
    BY DEF Responses
  <2>2. QED
    BY <2>1, CallForms DEF NoCall, IsSuccess
<1>7. ProcessInv(p) /\ Matches(p) /\ HasCause(p)
  BY <1>4 DEF IInv, AccountMatches, MyInfoReadable, Matches, HasCause
<1> HIDE DEF row, k
<1>8. clients \subseteq clients' /\ row \in clients' /\ StorageTypeOK'
  BY <1>2, <1>5 DEF IInv, TypeOK, StorageTypeOK
<1>9. ~ HoldsId(p, i)
  BY <1>2, <1>4, HeldExists
<1>10. \A x \in pending' : x.from # p => x \in pending
  BY <1>3
<1>11. Matches(p)'
  BY <1>3, <1>7, <1>8 DEF Matches
<1>12. CASE IsWaiting(q)
  <2>1. UNCHANGED orphans /\ call' = [call EXCEPT ![p] = k]
    BY <1>1, <1>3, <1>12
  <2>2. TypeOK'
    BY <1>3, <1>6, <1>8, <2>1 DEF IInv, TypeOK
  <2>3. Frame(p)
    BY <1>3, <1>8, <2>1 DEF Frame, IInv, TypeOK
  <2>4. call'[p] = k
    BY <1>4, <2>1 DEF IInv, TypeOK
  <2>5. call[p].phase = "waiting" /\ q.start = starts[p] /\ call[p] # NoCall
    BY <1>12, CallForms DEF IsWaiting
  <2>6. memory[p] # NotRunning /\ ~ memory[p].isUserRegistered /\ ~ IsReadable(file[p])
    BY <1>7, <2>5 DEF ProcessInv
  <2>7. r.userName = memory[p].userName /\ r.publicKey = memory[p].privateKey
    <3>1. r = RequestOf(p)
      BY <2>5, <2>6 DEF IInv, RequestInv
    <3>2. QED
      BY <3>1 DEF RequestOf
  <2>8. ProcessInv(p)'
    <3>1. AccountOf(p, i)' = row
      BY <1>3, <2>7 DEF AccountOf, row
    <3>2. QED
      BY <1>3, <1>6, <1>8, <2>4, <2>6, <3>1 DEF ProcessInv
  <2>9. HasCause(p)'
    BY <1>3, <1>7, <2>1, <2>5 DEF HasCause
  <2>10. \A x \in pending' : x.from = p => RequestInv(x)'
    <3> SUFFICES ASSUME NEW x \in pending', x.from = p
                 PROVE  RequestInv(x)'
      OBVIOUS
    <3>1. x \in pending \ {q} /\ RequestInv(x)
      BY <1>3 DEF IInv
    <3>2. x.start # starts[p]
      BY <1>12, <3>1, OneRequest
    <3>3. QED
      BY <1>3, <3>1, <3>2 DEF RequestInv
  <2>11. \A id \in ClientIds : HoldsId(p, id)' <=> id = i
    BY <1>3, <1>6, <2>4, <2>6 DEF HoldsId
  <2>12. \A id \in ClientIds : ~ HoldsId(p, id)
    BY <2>5, <2>6 DEF HoldsId
  <2>13. HoldersInv' /\ NoNameWasted'
    BY <1>2, <1>4, <1>5, <2>1, <2>3, <2>11, <2>12, NewId
  <2>14. QED
    BY <1>4, <1>10, <1>11, <2>2, <2>3, <2>8, <2>9, <2>10, <2>13, StepIInv
<1>13. CASE ~ IsWaiting(q)
  <2>1. Orphan(i, p, "died") /\ call' = call
    BY <1>1, <1>3, <1>13
  <2>2. TypeOK'
    <3>1. orphans' \subseteq [id: ClientIds, of: Processes, cause: Causes]
      BY <1>4, <2>1, OrphanType DEF IInv, Causes
    <3>2. QED
      BY <1>3, <1>8, <2>1, <3>1 DEF IInv, TypeOK
  <2>3. Frame(p)
    BY <1>3, <1>8, <2>1 DEF Frame, Orphan
  <2>4. ProcessInv(p)'
    BY <1>3, <1>7, <1>8, <2>1 DEF ProcessInv, AccountOf, Written
  <2>5. HasCause(p)'
    BY <2>1, OrphanCause
  <2>6. \A x \in pending' : x.from = p => RequestInv(x)'
    BY <1>3, <2>1 DEF IInv, RequestInv, RequestOf
  <2>7. \A id : HoldsId(p, id)' <=> HoldsId(p, id)
    BY <1>3, <2>1 DEF HoldsId
  <2>8. \E o \in orphans' : o.id = i /\ orphans' = orphans \cup {o}
    <3> DEFINE o1 == [id |-> i, of |-> p, cause |-> "died"]
    <3>1. o1.id = i /\ orphans' = orphans \cup {o1}
      BY <2>1 DEF Orphan
    <3>2. QED
      BY <3>1
  <2>9. HoldersInv' /\ NoNameWasted'
    BY <1>2, <1>4, <1>5, <1>9, <2>3, <2>7, <2>8, NewId
  <2>10. QED
    BY <1>4, <1>10, <1>11, <2>2, <2>3, <2>4, <2>5, <2>6, <2>9, StepIInv
<1>14. QED
  BY <1>12, <1>13

-----------------------------------------------------------------------------
\* The theorems

\* The invariant is inductive.
LEMMA NextIInv == IInv /\ [Next]_vars => IInv'
<1> SUFFICES ASSUME IInv, [Next]_vars
             PROVE  IInv'
  OBVIOUS
<1>1. ASSUME NEW q \in pending, ServeRegister(q) \/ ServeRefused(q) \/ LoseRequest(q)
      PROVE  IInv'
  BY <1>1, ServeRegisterIInv, ServeRefusedIInv, LoseRequestIInv
<1>2. ASSUME NEW p \in Processes, ClientStep(p)
      PROVE  IInv'
  BY <1>2, StartClientIInv, RegisterUserCommandIInv, LoseAnswerIInv, ShowErrorIInv,
     OpenMyInfoIInv, WriteLineIInv, FinishRegistrationIInv, EndClientIInv
  DEF ClientStep
<1>3. CASE UNCHANGED vars
  <2>1. TypeOK'
    BY <1>3 DEF vars, storageVars, boundVars, IInv, TypeOK, StorageTypeOK
  <2>2. QED
    BY <1>3, <2>1, DropRequest DEF vars, storageVars, boundVars
<1>4. QED
  BY <1>1, <1>2, <1>3 DEF Next, ServerStep

\* The invariant holds in every state of every run.
THEOREM RegistrationInductive == Spec => []IInv
BY InitIInv, NextIInv, PTL DEF Spec

\* Every variable keeps its type (Registration.tla's state).
THEOREM RegistrationTypes == Spec => []TypeOK
<1>1. IInv => TypeOK
  BY DEF IInv
<1>2. QED
  BY <1>1, RegistrationInductive, PTL

\* What a my.info that can be read says is the account that the server holds
\* (handleResponse in ServerResponse.cpp, register_client).
THEOREM ReadableIsAccount == Spec => []AccountMatches
<1>1. IInv => AccountMatches
  BY DEF IInv
<1>2. QED
  BY <1>1, RegistrationInductive, PTL

\* A my.info that cannot be read has one of the causes that handleResponse has.
THEOREM BrokenHasCause == Spec => []MyInfoReadable
<1>1. IInv => MyInfoReadable
  BY DEF IInv
<1>2. QED
  BY <1>1, RegistrationInductive, PTL

\* A name that the server has taken has a holder, or has been left for a cause.
THEOREM NamesAccountedFor == Spec => []NoNameWasted
<1>1. IInv => NoNameWasted
  BY DEF IInv
<1>2. QED
  BY <1>1, RegistrationInductive, PTL

\* A step that writes my.info finds one that cannot be read.
LEMMA WritersFindUnreadable ==
  ASSUME IInv, [Next]_vars, NEW p \in Processes, IsReadable(file[p])
  PROVE  file'[p] = file[p]
<1>1. ASSUME NEW x \in Processes, OpenMyInfo(x)
      PROVE  file'[p] = file[p]
  <2>1. ~ IsReadable(file[x])
    BY <1>1, CallHolds DEF OpenMyInfo
  <2>2. QED
    BY <1>1, <2>1 DEF OpenMyInfo, IInv, TypeOK
<1>2. ASSUME NEW x \in Processes, WriteLine(x)
      PROVE  file'[p] = file[p]
  <2>1. call[x].phase = "writing" /\ call[x].line # 4
    BY <1>2, ProcessTypes, CallKinds DEF WriteLine, IInv
  <2>2. ~ IsReadable(file[x])
    BY <2>1, CallHolds
  <2>3. QED
    BY <1>2, <2>2 DEF WriteLine, IInv, TypeOK
<1>3. ASSUME NEW x \in Processes, ClientStep(x), ~ OpenMyInfo(x), ~ WriteLine(x)
      PROVE  UNCHANGED file
  BY <1>3 DEF ClientStep, StartClient, EndClient, RegisterUserCommand, LoseAnswer,
     ShowError, FinishRegistration
<1>4. ServerStep => UNCHANGED file
  BY DEF ServerStep, ServeRegister, ServeRefused, LoseRequest, Answer
<1>5. QED
  BY <1>1, <1>2, <1>3, <1>4 DEF Next, ClientStep, vars

\* No registration replaces a my.info that can be read (startClient, handleResponse).
THEOREM ReadableStays == Spec => MyInfoStable
<1>1. IInv /\ [Next]_vars =>
        [\A p \in Processes : IsReadable(file[p]) => file'[p] = file[p]]_vars
  BY WritersFindUnreadable
<1>2. QED
  BY <1>1, RegistrationInductive, PTL DEF Spec, MyInfoStable
=============================================================================
