----------------------------- MODULE KeyExchange ----------------------------
(***************************************************************************)
(* The memory of the clients, and the mail they exchange keys and texts    *)
(* with, on top of the mailbox that the relay implements.  A client keeps  *)
(* its contacts with their keys in memory only and sends a symmetric key   *)
(* encrypted for its peer, who stores it when it pulls the mail.  All      *)
(* clients are registered.  A public key is named by its owner.            *)
(***************************************************************************)
EXTENDS Sequences, FiniteSetsExt, Ciphers

CONSTANTS
  Clients,
  NoKey,         \* the empty string where a key would be
  Unknown,       \* no entry in clientIdToClientDataMap
  MailTypes,     \* the types of mail that users send in this instance
  MaxMail,       \* bound on the mail ever posted
  MaxKeys,       \* bound on the symmetric keys ever made
  MaxDeaths,     \* bound on the ends of client processes
  MaxFailures    \* bound on the requests and answers that the server's crashes lose

KeyMailTypes == {"REQUEST_SYMMETRIC_KEY", "SEND_SYMMETRIC_KEY"}

ASSUME MailTypesAssumption ==
  MailTypes \subseteq KeyMailTypes \cup {"SEND_TEXT_MESSAGE", "SEND_FILE"}

\* What is encrypted with a symmetric key
ContentTypes == MailTypes \ KeyMailTypes

ASSUME BoundsAssumption ==
  MaxMail \in Nat /\ MaxKeys \in Nat /\ MaxDeaths \in Nat /\ MaxFailures \in Nat

VARIABLES
  lastId, waiting, offered, onTheWay, received,  \* the mailbox
  contacts,     \* clientIdToClientDataMap of each client
  requests,     \* the requests that the server has not served yet
  made,         \* the symmetric keys that clients made
  dropped,      \* mail that each client got from senders it did not know
  undecrypted,  \* texts that each client could not decrypt
  lost,         \* mail that was not posted because its request was lost
  deaths,
  failures

mailboxVars == <<lastId, waiting, offered, onTheWay, received>>
memoryVars  == <<contacts, made, dropped, undecrypted>>
callVars    == <<requests, lost, deaths, failures>>
vars        == <<mailboxVars, memoryVars, callVars>>

SymmetricKeys == [maker: Clients, peer: Clients, n: 1 .. MaxKeys]

\* ClientData: the name of the contact is left out.
Contacts == [publicKey: Clients \cup {NoKey}, symmetricKey: SymmetricKeys \cup {NoKey}]
NewContact == [publicKey |-> NoKey, symmetricKey |-> NoKey]

ASSUME NoKeyAssumption == NoKey \notin Clients \cup SymmetricKeys

ASSUME UnknownAssumption == Unknown \notin Contacts

\* key: the key that a content carries or is encrypted with.  publicKey: the one
\* that a key which is sent is encrypted with.
Mail ==
  [id: Nat, toClient: Clients, fromClient: Clients,
   type: MailTypes,
   key: SymmetricKeys \cup {NoKey}, publicKey: Clients \cup {NoKey}]

Requests ==
  [op: {"PULL_MESSAGES"}, from: Clients, life: Nat]
    \cup [op: {"SEND_MESSAGE"}, from: Clients, life: Nat, mail: Mail]

TypeOK ==
  /\ lastId \in Nat
  /\ waiting \subseteq Mail /\ offered \subseteq Mail
  /\ onTheWay \in [Clients -> SUBSET Mail]
  /\ received \in [Clients -> Seq(SUBSET Mail)]
  /\ contacts \in [Clients -> [Clients -> Contacts \cup {Unknown}]]
  /\ requests \subseteq Requests
  /\ made \subseteq SymmetricKeys
  /\ dropped \in [Clients -> SUBSET Mail]
  /\ undecrypted \in [Clients -> SUBSET Mail]
  /\ lost \subseteq Mail
  /\ deaths \in [Clients -> Nat] /\ failures \in Nat

NoContacts == [q \in Clients |-> Unknown]
Nothing == [p \in Clients |-> {}]

M == INSTANCE Mailbox WITH
  Users <- Clients, Addresses <- Clients, NoAddress <- NoKey,
  address <- [p \in Clients |-> p]

Init ==
  /\ M!Init
  /\ contacts = [p \in Clients |-> NoContacts]
  /\ requests = {}
  /\ made = {}
  /\ dropped = Nothing /\ undecrypted = Nothing
  /\ lost = {}
  /\ deaths = [p \in Clients |-> 0] /\ failures = 0

\* The operations of the data manager on the contacts of p; the getters raise
\* where there is nothing to get.
Knows(p, q) == contacts[p][q] # Unknown

HasPublicKey(p, q) == Knows(p, q) /\ contacts[p][q].publicKey # NoKey

HasSymmetricKey(p, q) == Knows(p, q) /\ contacts[p][q].symmetricKey # NoKey

addPublicKey(p, q, key) == contacts' = [contacts EXCEPT ![p][q].publicKey = key]

addSymmetricKey(p, q, key) == contacts' = [contacts EXCEPT ![p][q].symmetricKey = key]

\* A client waits for each answer before its next command.
InCall(p) ==
  \/ \E r \in requests : r.from = p /\ r.life = deaths[p]
  \/ onTheWay[p] # {}

-----------------------------------------------------------------------------
\* Commands that the server answers from tables which do not change here; one
\* that fails leaves everything as it is.

\* Mutant: a new list replaces the entries that are there, and their keys.
insertClientsData_again(p) ==
  contacts' = [contacts EXCEPT ![p] = [q \in Clients |->
    IF q # p THEN NewContact ELSE contacts[p][q]]]

\* insertClientsData adds the clients that are not in the map yet.
insertClientsData(p) ==
  contacts' = [contacts EXCEPT ![p] = [q \in Clients |->
    IF q # p /\ ~ Knows(p, q) THEN NewContact ELSE contacts[p][q]]]

ClientsListUserCommand(p) ==
  /\ ~ InCall(p)
  /\ insertClientsData(p)
  /\ UNCHANGED <<mailboxVars, made, dropped, undecrypted, callVars>>

RequestPublicKeyUserCommand(p, q) ==
  /\ ~ InCall(p)
  /\ Knows(p, q)
  /\ addPublicKey(p, q, q)
  /\ UNCHANGED <<mailboxVars, made, dropped, undecrypted, callVars>>

-----------------------------------------------------------------------------
\* Commands that send mail.  What createServerRequest leaves in the memory stays
\* there whether the request succeeds or not.

MailUnderWay == {r \in requests : r.op = "SEND_MESSAGE"}

BeginSend(p, q, type, key, publicKey) ==
  /\ ~ InCall(p)
  /\ Knows(p, q)
  /\ type \in MailTypes
  /\ lastId + Cardinality(MailUnderWay) < MaxMail
  /\ requests' = requests \cup
       {[op |-> "SEND_MESSAGE", from |-> p, life |-> deaths[p],
         mail |-> [id |-> 0, toClient |-> q, fromClient |-> p, type |-> type,
                   key |-> key, publicKey |-> publicKey]]}
  /\ UNCHANGED <<mailboxVars, dropped, undecrypted, lost, deaths, failures>>

\* Mutant: two arguments are swapped.
SendTextMessageUserCommand_swapped(p, q) ==
  /\ HasSymmetricKey(p, q)
  /\ BeginSend(p, q, "SEND_TEXT_MESSAGE", NoKey, contacts[p][q].symmetricKey)
  /\ UNCHANGED <<contacts, made>>

SendTextMessageUserCommand(p, q) ==
  /\ HasSymmetricKey(p, q)
  /\ BeginSend(p, q, "SEND_TEXT_MESSAGE", contacts[p][q].symmetricKey, NoKey)
  /\ UNCHANGED <<contacts, made>>

\* With the content of a file; one that does not exist is not sent.
SendFileUserCommand(p, q) ==
  /\ HasSymmetricKey(p, q)
  /\ BeginSend(p, q, "SEND_FILE", contacts[p][q].symmetricKey, NoKey)
  /\ UNCHANGED <<contacts, made>>

SendRequestSymmetricKeyUserCommand(p, q) ==
  /\ BeginSend(p, q, "REQUEST_SYMMETRIC_KEY", NoKey, NoKey)
  /\ UNCHANGED <<contacts, made>>

NewKey(p, q) == [maker |-> p, peer |-> q, n |-> Cardinality(made) + 1]

\* A key for q is made, stored and sent.
SendNewKey(p, q) ==
  /\ contacts[p][q].symmetricKey = NoKey
  /\ Cardinality(made) < MaxKeys
  /\ BeginSend(p, q, "SEND_SYMMETRIC_KEY", NewKey(p, q), contacts[p][q].publicKey)
  /\ addSymmetricKey(p, q, NewKey(p, q))
  /\ made' = made \cup {NewKey(p, q)}

\* Mutant: a key that p has for anyone is sent.
SendKeptKey_any(p, q) ==
  /\ \E x \in Clients :
       /\ HasSymmetricKey(p, x)
       /\ BeginSend(p, q, "SEND_SYMMETRIC_KEY", contacts[p][x].symmetricKey,
                    contacts[p][q].publicKey)
  /\ UNCHANGED <<contacts, made>>

\* The key that p has for q is sent again.
SendKeptKey(p, q) ==
  /\ HasSymmetricKey(p, q)
  /\ BeginSend(p, q, "SEND_SYMMETRIC_KEY", contacts[p][q].symmetricKey,
               contacts[p][q].publicKey)
  /\ UNCHANGED <<contacts, made>>

SendSymmetricKeyUserCommand(p, q) ==
  HasPublicKey(p, q) /\ (SendKeptKey(p, q) \/ SendNewKey(p, q))

RequestWaitingMessagesUserCommand(p) ==
  /\ ~ InCall(p)
  /\ requests' = requests \cup
       {[op |-> "PULL_MESSAGES", from |-> p, life |-> deaths[p]]}
  /\ UNCHANGED <<mailboxVars, memoryVars, lost, deaths, failures>>

-----------------------------------------------------------------------------
\* The server serves one request at a time, those of clients that died included.
\* The answer to a send changes nothing in the client.

Served(r) ==
  /\ offered = {}
  /\ requests' = requests \ {r}
  /\ UNCHANGED <<memoryVars, deaths>>

ServeSend(r) ==
  /\ r.op = "SEND_MESSAGE"
  /\ M!PostMail([r.mail EXCEPT !.id = lastId + 1])
  /\ Served(r)
  /\ UNCHANGED <<lost, failures>>

WaitingFor(p) == {m \in waiting : m.toClient = p}

\* A pull takes all that waits: the size of a response bounds it at 4 GB only.
ServePull(r) ==
  /\ r.op = "PULL_MESSAGES"
  /\ \/ WaitingFor(r.from) = {} /\ UNCHANGED mailboxVars
     \/ /\ M!HandOver(WaitingFor(r.from), r.from)
        /\ onTheWay' = IF r.life = deaths[r.from]
                         THEN [onTheWay EXCEPT ![r.from] = WaitingFor(r.from)]
                         ELSE onTheWay
  /\ Served(r)
  /\ UNCHANGED <<lost, failures>>

DeleteServed ==
  /\ M!Settle
  /\ waiting' = waiting \ offered
  /\ UNCHANGED <<memoryVars, callVars>>

\* The server crashes before it serves r, or the client died before it had
\* written r.
LoseRequest(r) ==
  /\ \/ r.life # deaths[r.from] /\ UNCHANGED failures
     \/ failures < MaxFailures /\ failures' = failures + 1
  /\ lost' = IF r.op = "SEND_MESSAGE" THEN lost \cup {r.mail} ELSE lost
  /\ Served(r)
  /\ UNCHANGED mailboxVars

\* The server crashes, or the DELETE raises, after what waits has been sent.
KeepServed ==
  /\ failures < MaxFailures
  /\ failures' = failures + 1
  /\ M!Settle
  /\ waiting' = waiting
  /\ UNCHANGED <<memoryVars, requests, lost, deaths>>

-----------------------------------------------------------------------------
\* handleResponse of a pull: the mail of a lot is handled in the order of its ids.

\* The mail of a lot before id that makes p store a key for q
KeyMail(p, lot, q, id) ==
  {m \in lot : /\ m.fromClient = q
               /\ m.type = "SEND_SYMMETRIC_KEY"
               /\ rsa_decrypts(p, m.publicKey)
               /\ m.id < id}

Newest(lot) == CHOOSE m \in lot : \A x \in lot : x.id <= m.id

\* Mutant: the mail is handled newest first.
KeyAt_oldest(p, lot, q, id) ==
  LET keys == KeyMail(p, lot, q, id)
  IN  IF keys = {}
        THEN contacts[p][q].symmetricKey
        ELSE (CHOOSE m \in keys : \A x \in keys : m.id <= x.id).key

\* The key p has for q when it handles the mail with that id
KeyAt(p, lot, q, id) ==
  LET keys == KeyMail(p, lot, q, id)
  IN  IF keys = {} THEN contacts[p][q].symmetricKey ELSE Newest(keys).key

HandlePulled(p, lot) ==
  /\ contacts' = [contacts EXCEPT ![p] = [q \in Clients |->
       IF Knows(p, q)
         THEN [contacts[p][q] EXCEPT !.symmetricKey = KeyAt(p, lot, q, lastId + 1)]
         ELSE Unknown]]
  /\ dropped' = [dropped EXCEPT ![p] = @ \cup
       {m \in lot : ~ Knows(p, m.fromClient)}]
  /\ undecrypted' = [undecrypted EXCEPT ![p] = @ \cup
       {m \in lot : /\ Knows(p, m.fromClient)
                    /\ m.type \in ContentTypes
                    /\ ~ aes_decrypts(KeyAt(p, lot, m.fromClient, m.id), m.key)}]

ReceiveMail(p) ==
  /\ M!Receive(p)
  /\ HandlePulled(p, onTheWay[p])
  /\ UNCHANGED <<made, callVars>>

DeathsOf(p) == deaths[p]

\* The user ends the process, or it dies, and it is started again: its request, if
\* one is under way, is still served, and its contacts are gone.
Restart(p) ==
  /\ MapThenSumSet(DeathsOf, Clients) < MaxDeaths
  /\ deaths' = [deaths EXCEPT ![p] = @ + 1]
  /\ contacts' = [contacts EXCEPT ![p] = NoContacts]
  /\ onTheWay' = [onTheWay EXCEPT ![p] = {}]
  /\ UNCHANGED <<lastId, waiting, offered, received, made, dropped, undecrypted,
                 requests, lost, failures>>

-----------------------------------------------------------------------------
ClientStep(p) ==
  \/ ClientsListUserCommand(p)
  \/ RequestWaitingMessagesUserCommand(p)
  \/ \E q \in Clients \ {p} :
       \/ RequestPublicKeyUserCommand(p, q)
       \/ SendTextMessageUserCommand(p, q)
       \/ SendFileUserCommand(p, q)
       \/ SendRequestSymmetricKeyUserCommand(p, q)
       \/ SendSymmetricKeyUserCommand(p, q)
  \/ ReceiveMail(p)
  \/ Restart(p)

ServerStep ==
  \/ \E r \in requests : ServeSend(r) \/ ServePull(r) \/ LoseRequest(r)
  \/ DeleteServed \/ KeepServed

Next == ServerStep \/ \E p \in Clients : ClientStep(p)

Spec == Init /\ [][Next]_vars

-----------------------------------------------------------------------------
IsKeyMail(m) == m.type = "SEND_SYMMETRIC_KEY"

AllMail ==
  waiting \cup {r.mail : r \in MailUnderWay} \cup UNION {onTheWay[p] : p \in Clients}

IsFor(key, p, q) == key # NoKey => {key.maker, key.peer} = {p, q}

\* A symmetric key is known to two clients only, the one that made it and the one
\* it was made for, whoever sends it again, and no mail to others carries it or is
\* encrypted with it (SendSymmetricKeyUserCommand and addSymmetricKey).
KeysStayInPair ==
  /\ \A p, q \in Clients : Knows(p, q) => IsFor(contacts[p][q].symmetricKey, p, q)
  /\ \A m \in AllMail : IsFor(m.key, m.fromClient, m.toClient)

\* The mail that p got, in all its pulls, and the keys from q in it
Got(p) == UNION {received[p][i] : i \in DOMAIN received[p]}

KeysGot(p, q) == {m \in Got(p) : IsKeyMail(m) /\ m.fromClient = q}

\* Of the keys that a client got from a contact it keeps the one sent last, also
\* where pulls that the server could not delete deliver older ones again; its own
\* never replaces it (handleResponse of a pull, addSymmetricKey).
NewestKeyWins ==
  \A p, q \in Clients :
    deaths[p] = 0 /\ KeysGot(p, q) # {} /\ KeysGot(p, q) \cap dropped[p] = {} =>
      contacts[p][q].symmetricKey = Newest(KeysGot(p, q)).key

KeysOf(p, q) == {key \in made : IsFor(key, p, q)}

\* A text that its addressee cannot decrypt has one of four causes: two keys were
\* made for the pair, the addressee lost its memory, or the mail with the key was
\* lost with a request that failed, or was dropped by an addressee that did not
\* know its sender yet (decrypteMessage).
UndecryptedHasCause ==
  \A p \in Clients : \A m \in undecrypted[p] :
    \/ Cardinality(KeysOf(p, m.fromClient)) > 1
    \/ deaths[p] > 0
    \/ \E x \in lost \cup dropped[p] :
         IsKeyMail(x) /\ x.fromClient = m.fromClient /\ x.toClient = p /\ x.key = m.key

-----------------------------------------------------------------------------
\* README.md:36-46: the key that A received from B is the one that both decrypt
\* with.  Where nothing is under way, two clients have one key for each other.
KeysAgree ==
  \A p, q \in Clients :
    /\ AllMail = {}
    /\ Knows(p, q) /\ contacts[p][q].symmetricKey # NoKey
    /\ Knows(q, p) /\ contacts[q][p].symmetricKey # NoKey
    => contacts[p][q].symmetricKey = contacts[q][p].symmetricKey
=============================================================================
