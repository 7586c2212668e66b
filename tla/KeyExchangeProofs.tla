-------------------------- MODULE KeyExchangeProofs --------------------------
(***************************************************************************)
(* Proofs, for all values of the constants, of the invariants of the key   *)
(* exchange.                                                               *)
(***************************************************************************)
EXTENDS KeyExchangeInvariants, FiniteSetTheorems, WellFoundedInduction, TLAPS

\* Numbers and sets

\* A set of mail whose ids are bounded has a newest one.
LEMMA NewestIs ==
  ASSUME NEW lot, lot # {}, NEW n \in Nat,
         \A m \in lot : m.id \in Nat /\ m.id <= n
  PROVE  Newest(lot) \in lot /\ \A x \in lot : x.id <= Newest(lot).id
<1>1. DEFINE T == {n - m.id : m \in lot}
<1>2. T \subseteq Nat /\ T # {}
  OBVIOUS
<1>3. PICK t \in T : \A y \in T : <<y, t>> \notin OpToRel(<, Nat)
  <2> HIDE DEF T
  <2> QED
    BY <1>2, NatLessThanWellFounded, WFMin
<1>4. \A y \in T : ~ (y < t)
  BY <1>2, <1>3 DEF OpToRel
<1>5. PICK m \in lot : t = n - m.id
  BY <1>3
<1>6. ASSUME NEW x \in lot PROVE x.id <= m.id
  <2>1. n - x.id \in T /\ x.id \in Nat /\ m.id \in Nat
    OBVIOUS
  <2>2. ~ (n - x.id < n - m.id)
    BY <1>4, <1>5, <2>1
  <2>3. QED
    <3> HIDE DEF T
    <3> QED
      BY <2>1, <2>2
<1>7. QED
  BY <1>6 DEF Newest

-----------------------------------------------------------------------------
\* Types

TypesInv == TypeOK /\ IsFiniteSet(made)

\* A command of p starts a request with the mail m for q.
Begins(p, q, m) ==
  /\ m \in Mail /\ m.fromClient = p /\ m.toClient = q /\ p # q
  /\ ~ InCall(p) /\ Knows(p, q)
  /\ requests' = requests \cup
       {[op |-> "SEND_MESSAGE", from |-> p, life |-> deaths[p], mail |-> m]}
  /\ UNCHANGED <<mailboxVars, dropped, undecrypted, lost, deaths, failures>>

\* The mail says nothing of a key, or has the key that p keeps for q.
BeginsKept(p, q, m) ==
  /\ Begins(p, q, m)
  /\ UNCHANGED <<contacts, made>>
  /\ \/ m.type = "REQUEST_SYMMETRIC_KEY" /\ m.key = NoKey
     \/ /\ m.type # "REQUEST_SYMMETRIC_KEY"
        /\ HasSymmetricKey(p, q) /\ m.key = contacts[p][q].symmetricKey
        /\ IsKeyMail(m) => m.publicKey = contacts[p][q].publicKey /\ HasPublicKey(p, q)

\* The mail brings q a new key, which p keeps.
BeginsNew(p, q, m) ==
  /\ Begins(p, q, m)
  /\ contacts[p][q].symmetricKey = NoKey /\ HasPublicKey(p, q)
  /\ IsKeyMail(m) /\ m.publicKey = contacts[p][q].publicKey /\ m.key = NewKey(p, q)
  /\ Cardinality(made) < MaxKeys
  /\ contacts' = [contacts EXCEPT ![p] = [@ EXCEPT ![q] =
                    [publicKey |-> contacts[p][q].publicKey, symmetricKey |-> NewKey(p, q)]]]
  /\ made' = made \cup {NewKey(p, q)}

\* What is known of a contact
LEMMA ContactOf ==
  ASSUME TypeOK, NEW p \in Clients, NEW q \in Clients
  PROVE  /\ Knows(p, q) => contacts[p][q] \in Contacts
         /\ ~ Knows(p, q) => contacts[p][q] = Unknown
  BY DEF TypeOK, Knows

LEMMA NewKeyIs ==
  ASSUME TypesInv, NEW p \in Clients, NEW q \in Clients, Cardinality(made) < MaxKeys
  PROVE  /\ NewKey(p, q) \in SymmetricKeys /\ NewKey(p, q) # NoKey
         /\ NewKey(p, q).maker = p /\ NewKey(p, q).peer = q
         /\ NewKey(p, q).n = Cardinality(made) + 1
         /\ Cardinality(made) \in Nat
<1>1. Cardinality(made) \in Nat
  BY FS_CardinalityType DEF TypesInv
<1>2. Cardinality(made) + 1 \in 1 .. MaxKeys
  BY <1>1, BoundsAssumption
<1>3. NewKey(p, q) \in SymmetricKeys
  BY <1>2 DEF NewKey, SymmetricKeys
<1>4. QED
  BY <1>1, <1>3, NoKeyAssumption DEF NewKey

\* The new mail of a request
LEMMA NewMail ==
  ASSUME NEW p \in Clients, NEW q \in Clients, NEW type \in MailTypes,
         NEW key \in SymmetricKeys \cup {NoKey}, NEW publicKey \in Clients \cup {NoKey}
  PROVE  LET m == [id |-> 0, toClient |-> q, fromClient |-> p, type |-> type,
                   key |-> key, publicKey |-> publicKey]
         IN  /\ m \in Mail
             /\ m.fromClient = p /\ m.toClient = q /\ m.type = type /\ m.key = key
             /\ m.publicKey = publicKey
  BY DEF Mail

\* The commands that send mail
LEMMA SendText ==
  ASSUME TypesInv, NEW p \in Clients, NEW q \in Clients \ {p},
         SendTextMessageUserCommand(p, q) \/ SendFileUserCommand(p, q)
  PROVE  \E m \in Mail : BeginsKept(p, q, m)
<1>1. PICK type \in {"SEND_TEXT_MESSAGE", "SEND_FILE"} :
        /\ HasSymmetricKey(p, q)
        /\ BeginSend(p, q, type, contacts[p][q].symmetricKey, NoKey)
        /\ UNCHANGED <<contacts, made>>
  BY DEF SendTextMessageUserCommand, SendFileUserCommand
<1>2. contacts[p][q].symmetricKey \in SymmetricKeys
  BY <1>1, ContactOf DEF HasSymmetricKey, Contacts, TypesInv
<1>3. type \in MailTypes
  BY <1>1 DEF BeginSend
<1>4. DEFINE m == [id |-> 0, toClient |-> q, fromClient |-> p, type |-> type,
                   key |-> contacts[p][q].symmetricKey, publicKey |-> NoKey]
<1>5. /\ m \in Mail /\ m.fromClient = p /\ m.toClient = q /\ m.type = type
      /\ m.key = contacts[p][q].symmetricKey
  BY <1>2, <1>3, NewMail
<1>6. Begins(p, q, m)
  BY <1>1, <1>5 DEF BeginSend, Begins
<1>7. QED
  <2> HIDE DEF m
  <2> QED
    BY <1>1, <1>5, <1>6 DEF BeginsKept, IsKeyMail

LEMMA SendRequestSymmetricKey ==
  ASSUME TypesInv, NEW p \in Clients, NEW q \in Clients \ {p},
         SendRequestSymmetricKeyUserCommand(p, q)
  PROVE  \E m \in Mail : BeginsKept(p, q, m)
<1>1. BeginSend(p, q, "REQUEST_SYMMETRIC_KEY", NoKey, NoKey) /\ UNCHANGED <<contacts, made>>
  BY DEF SendRequestSymmetricKeyUserCommand
<1>2. "REQUEST_SYMMETRIC_KEY" \in MailTypes
  BY <1>1 DEF BeginSend
<1>3. DEFINE m == [id |-> 0, toClient |-> q, fromClient |-> p,
                   type |-> "REQUEST_SYMMETRIC_KEY", key |-> NoKey, publicKey |-> NoKey]
<1>4. /\ m \in Mail /\ m.fromClient = p /\ m.toClient = q
      /\ m.type = "REQUEST_SYMMETRIC_KEY" /\ m.key = NoKey
  BY <1>2, NewMail
<1>5. Begins(p, q, m)
  BY <1>1, <1>4 DEF BeginSend, Begins
<1>6. QED
  <2> HIDE DEF m
  <2> QED
    BY <1>1, <1>4, <1>5 DEF BeginsKept

LEMMA SendSymmetricKey ==
  ASSUME TypesInv, NEW p \in Clients, NEW q \in Clients \ {p},
         SendSymmetricKeyUserCommand(p, q)
  PROVE  \E m \in Mail : BeginsKept(p, q, m) \/ BeginsNew(p, q, m)
<1>1. /\ HasPublicKey(p, q) /\ contacts[p][q] \in Contacts
      /\ contacts[p][q].publicKey \in Clients
  BY ContactOf DEF SendSymmetricKeyUserCommand, HasPublicKey, TypesInv, Contacts
<1>2. CASE SendKeptKey(p, q)
  <2>1. /\ HasSymmetricKey(p, q) /\ UNCHANGED <<contacts, made>>
        /\ BeginSend(p, q, "SEND_SYMMETRIC_KEY", contacts[p][q].symmetricKey,
                     contacts[p][q].publicKey)
    BY <1>2 DEF SendKeptKey
  <2>2. /\ contacts[p][q].symmetricKey \in SymmetricKeys
        /\ "SEND_SYMMETRIC_KEY" \in MailTypes
    BY <1>1, <2>1 DEF Contacts, HasSymmetricKey, BeginSend
  <2>3. DEFINE m == [id |-> 0, toClient |-> q, fromClient |-> p,
                     type |-> "SEND_SYMMETRIC_KEY", key |-> contacts[p][q].symmetricKey,
                     publicKey |-> contacts[p][q].publicKey]
  <2>4. /\ m \in Mail /\ m.fromClient = p /\ m.toClient = q
        /\ m.type = "SEND_SYMMETRIC_KEY" /\ m.key = contacts[p][q].symmetricKey
        /\ m.publicKey = contacts[p][q].publicKey
    BY <1>1, <2>2, NewMail
  <2>5. Begins(p, q, m)
    BY <2>1, <2>4 DEF BeginSend, Begins
  <2>6. QED
    <3> HIDE DEF m
    <3> QED
      BY <1>1, <2>1, <2>4, <2>5 DEF BeginsKept
<1>3. CASE SendNewKey(p, q)
  <2>1. /\ contacts[p][q].symmetricKey = NoKey /\ Cardinality(made) < MaxKeys
        /\ BeginSend(p, q, "SEND_SYMMETRIC_KEY", NewKey(p, q), contacts[p][q].publicKey)
        /\ addSymmetricKey(p, q, NewKey(p, q))
        /\ made' = made \cup {NewKey(p, q)}
    BY <1>3 DEF SendNewKey
  <2>2. NewKey(p, q) \in SymmetricKeys /\ "SEND_SYMMETRIC_KEY" \in MailTypes
    BY <2>1, NewKeyIs DEF BeginSend
  <2>3. DEFINE m == [id |-> 0, toClient |-> q, fromClient |-> p,
                     type |-> "SEND_SYMMETRIC_KEY", key |-> NewKey(p, q),
                     publicKey |-> contacts[p][q].publicKey]
  <2>4. /\ m \in Mail /\ m.fromClient = p /\ m.toClient = q
        /\ m.type = "SEND_SYMMETRIC_KEY" /\ m.key = NewKey(p, q)
        /\ m.publicKey = contacts[p][q].publicKey
    BY <1>1, <2>2, NewMail
  <2>5. Begins(p, q, m)
    BY <2>1, <2>4 DEF BeginSend, Begins
  <2>6. contacts' = [contacts EXCEPT ![p] = [@ EXCEPT ![q] =
                    [publicKey |-> contacts[p][q].publicKey, symmetricKey |-> NewKey(p, q)]]]
    <3>1. [contacts[p][q] EXCEPT !.symmetricKey = NewKey(p, q)]
            = [publicKey |-> contacts[p][q].publicKey, symmetricKey |-> NewKey(p, q)]
      BY <1>1 DEF Contacts
    <3>2. contacts' = [contacts EXCEPT ![p] = [@ EXCEPT ![q] =
                        [contacts[p][q] EXCEPT !.symmetricKey = NewKey(p, q)]]]
      BY <2>1 DEF addSymmetricKey, TypesInv, TypeOK
    <3>3. QED
      BY <3>1, <3>2
  <2>7. QED
    <3> HIDE DEF m
    <3> QED
      BY <1>1, <2>1, <2>4, <2>5, <2>6 DEF BeginsNew, IsKeyMail
<1>4. QED
  BY <1>2, <1>3 DEF SendSymmetricKeyUserCommand

\* A step of a client or of the server, by what it does to mail and memories
LEMMA Steps ==
  ASSUME TypesInv, [Next]_vars
  PROVE  \/ UNCHANGED vars
         \/ \E p \in Clients : ClientsListUserCommand(p)
         \/ \E p \in Clients : RequestWaitingMessagesUserCommand(p)
         \/ \E p \in Clients : \E q \in Clients \ {p} : RequestPublicKeyUserCommand(p, q)
         \/ \E p \in Clients : \E q \in Clients \ {p} : \E m \in Mail : BeginsKept(p, q, m)
         \/ \E p \in Clients : \E q \in Clients \ {p} : \E m \in Mail : BeginsNew(p, q, m)
         \/ \E p \in Clients : ReceiveMail(p)
         \/ \E p \in Clients : Restart(p)
         \/ \E r \in requests : ServeSend(r)
         \/ \E r \in requests : ServePull(r)
         \/ \E r \in requests : LoseRequest(r)
         \/ DeleteServed
         \/ KeepServed
<1>1. CASE UNCHANGED vars
  BY <1>1
<1>2. CASE ServerStep
  BY <1>2 DEF ServerStep
<1>3. ASSUME NEW p \in Clients, ClientStep(p)
      PROVE  \/ ClientsListUserCommand(p)
             \/ RequestWaitingMessagesUserCommand(p)
             \/ \E q \in Clients \ {p} : RequestPublicKeyUserCommand(p, q)
             \/ \E q \in Clients \ {p} : \E m \in Mail : BeginsKept(p, q, m)
             \/ \E q \in Clients \ {p} : \E m \in Mail : BeginsNew(p, q, m)
             \/ ReceiveMail(p)
             \/ Restart(p)
  <2>1. ASSUME NEW q \in Clients \ {p},
               \/ SendTextMessageUserCommand(p, q)
               \/ SendFileUserCommand(p, q)
               \/ SendRequestSymmetricKeyUserCommand(p, q)
               \/ SendSymmetricKeyUserCommand(p, q)
        PROVE  \E m \in Mail : BeginsKept(p, q, m) \/ BeginsNew(p, q, m)
    BY <2>1, SendText, SendRequestSymmetricKey, SendSymmetricKey
  <2>2. QED
    BY <1>3, <2>1 DEF ClientStep
<1>4. QED
  BY <1>1, <1>2, <1>3 DEF Next

\* The key that a client has for a sender while it handles a lot
LEMMA KeyAtIs ==
  ASSUME TypeOK, NEW p \in Clients, NEW q \in Clients, NEW lot \in SUBSET Mail,
         NEW id \in Nat
  PROVE  \/ /\ KeyMail(p, lot, q, id) = {}
            /\ KeyAt(p, lot, q, id) = contacts[p][q].symmetricKey
         \/ \E m \in KeyMail(p, lot, q, id) :
              /\ m = Newest(KeyMail(p, lot, q, id)) /\ KeyAt(p, lot, q, id) = m.key
              /\ \A x \in KeyMail(p, lot, q, id) : x.id <= m.id
<1>1. CASE KeyMail(p, lot, q, id) = {}
  BY <1>1 DEF KeyAt
<1>2. CASE KeyMail(p, lot, q, id) # {}
  <2>1. \A m \in KeyMail(p, lot, q, id) : m.id \in Nat /\ m.id <= id
    BY DEF KeyMail, Mail
  <2>2. KeyAt(p, lot, q, id) = Newest(KeyMail(p, lot, q, id)).key
    BY <1>2 DEF KeyAt
  <2>3. DEFINE keys == KeyMail(p, lot, q, id)
  <2>4. Newest(keys) \in keys /\ \A x \in keys : x.id <= Newest(keys).id
    <3> HIDE DEF keys
    <3> QED
      BY <1>2, <2>1, NewestIs DEF keys
  <2>5. QED
    BY <2>2, <2>4
<1>3. QED
  BY <1>1, <1>2

LEMMA KeyAtType ==
  ASSUME TypeOK, NEW p \in Clients, NEW q \in Clients, NEW lot \in SUBSET Mail,
         NEW id \in Nat, Knows(p, q)
  PROVE  KeyAt(p, lot, q, id) \in SymmetricKeys \cup {NoKey}
<1>1. contacts[p][q].symmetricKey \in SymmetricKeys \cup {NoKey}
  BY ContactOf DEF Contacts
<1>2. \A m \in KeyMail(p, lot, q, id) : m.key \in SymmetricKeys \cup {NoKey}
  BY DEF KeyMail, Mail
<1>3. QED
  BY <1>1, <1>2, KeyAtIs

\* Mail that the server posts
LEMMA PostedMail ==
  ASSUME NEW m \in Mail, NEW n \in Nat
  PROVE  LET x == [m EXCEPT !.id = n]
         IN  /\ x \in Mail /\ x.id = n
             /\ x.fromClient = m.fromClient /\ x.toClient = m.toClient
             /\ x.type = m.type /\ x.key = m.key /\ x.publicKey = m.publicKey
  BY DEF Mail

\* All mail is posted mail or the mail of a request.
LEMMA MailIn ==
  ASSUME NEW m
  PROVE  /\ m \in AllMail <=>
              \/ m \in waiting
              \/ \E p \in Clients : m \in onTheWay[p]
              \/ \E r \in MailUnderWay : m = r.mail
         /\ m \in EveryMail <=>
              \/ m \in waiting
              \/ \E p \in Clients : m \in Reached(p)
              \/ \E r \in MailUnderWay : m = r.mail
<1>1. m \in AllMail <=>
        \/ m \in waiting
        \/ \E p \in Clients : m \in onTheWay[p]
        \/ \E r \in MailUnderWay : m = r.mail
  BY DEF AllMail
<1>2. m \in EveryMail <=> m \in AllMail \/ \E p \in Clients : m \in Got(p)
  BY DEF EveryMail
<1>3. QED
  BY <1>1, <1>2 DEF Reached

\* The mail of the invariants has its type.
LEMMA PostedMailType ==
  ASSUME TypeOK, NEW m \in EveryMail \cup Posted
  PROVE  m \in Mail
<1>1. \A p \in Clients : Got(p) \subseteq Mail
  BY DEF TypeOK, Got
<1>2. \A r \in MailUnderWay : r.mail \in Mail
  BY DEF TypeOK, Requests, MailUnderWay
<1>3. waiting \subseteq Mail /\ \A p \in Clients : onTheWay[p] \subseteq Mail
  BY DEF TypeOK
<1>4. QED
  BY <1>1, <1>2, <1>3, MailIn DEF Posted, Reached

LEMMA RequestOf ==
  ASSUME TypeOK, NEW r \in requests
  PROVE  /\ r.from \in Clients /\ r.life \in Nat /\ r.op \in {"PULL_MESSAGES", "SEND_MESSAGE"}
         /\ r.op = "SEND_MESSAGE" => r.mail \in Mail /\ r \in MailUnderWay
  BY DEF TypeOK, Requests, MailUnderWay

\* The memory of a client, which a restart empties
LEMMA HandlesPulled ==
  ASSUME TypeOK, NEW p \in Clients, ReceiveMail(p)
  PROVE  /\ onTheWay[p] # {} /\ onTheWay[p] \in SUBSET Mail
         /\ received' = [received EXCEPT ![p] = Append(@, onTheWay[p])]
         /\ onTheWay' = [onTheWay EXCEPT ![p] = {}]
         /\ UNCHANGED <<lastId, waiting, offered, made, callVars>>
         /\ contacts' = [contacts EXCEPT ![p] = contacts'[p]]
         /\ contacts'[p] \in [Clients -> Contacts \cup {Unknown}]
         /\ \A q \in Clients :
              /\ Knows(p, q)' <=> Knows(p, q)
              /\ Knows(p, q) =>
                   contacts'[p][q] = [contacts[p][q] EXCEPT !.symmetricKey =
                                        KeyAt(p, onTheWay[p], q, lastId + 1)]
         /\ dropped' = [dropped EXCEPT ![p] = @ \cup
              {m \in onTheWay[p] : ~ Knows(p, m.fromClient)}]
         /\ undecrypted' = [undecrypted EXCEPT ![p] = @ \cup
              {m \in onTheWay[p] :
                 /\ Knows(p, m.fromClient) /\ m.type \in ContentTypes
                 /\ ~ aes_decrypts(KeyAt(p, onTheWay[p], m.fromClient, m.id), m.key)}]
<1>1. onTheWay[p] # {} /\ onTheWay[p] \in SUBSET Mail
  BY DEF ReceiveMail, M!Receive, TypeOK
<1>2. DEFINE new == [q \in Clients |->
        IF Knows(p, q)
          THEN [contacts[p][q] EXCEPT !.symmetricKey = KeyAt(p, onTheWay[p], q, lastId + 1)]
          ELSE Unknown]
<1>3. contacts' = [contacts EXCEPT ![p] = new] /\ contacts \in [Clients -> [Clients -> Contacts \cup {Unknown}]]
  BY DEF ReceiveMail, HandlePulled, TypeOK
<1>4. \A q \in Clients : Knows(p, q) =>
        new[q] \in Contacts /\ new[q].symmetricKey = KeyAt(p, onTheWay[p], q, lastId + 1)
  <2>1. TAKE q \in Clients
  <2>2. HAVE Knows(p, q)
  <2>3. lastId + 1 \in Nat
    BY DEF TypeOK
  <2>4. KeyAt(p, onTheWay[p], q, lastId + 1) \in SymmetricKeys \cup {NoKey}
    BY <1>1, <2>2, <2>3, KeyAtType
  <2>5. contacts[p][q] \in Contacts
    BY <2>2, ContactOf
  <2>6. QED
    BY <2>2, <2>4, <2>5 DEF Contacts
<1>5. contacts'[p] = new
  BY <1>3
<1>6. \A q \in Clients : Knows(p, q)' <=> Knows(p, q)
  BY <1>4, <1>5, UnknownAssumption DEF Knows
<1>7. contacts'[p] \in [Clients -> Contacts \cup {Unknown}]
  BY <1>4, <1>5
<1>8. contacts' = [contacts EXCEPT ![p] = contacts'[p]]
  BY <1>3, <1>5
<1>9. QED
  BY <1>1, <1>5, <1>6, <1>7, <1>8 DEF ReceiveMail, M!Receive, HandlePulled

LEMMA Restarts ==
  ASSUME TypeOK, NEW p \in Clients, Restart(p)
  PROVE  /\ deaths' = [deaths EXCEPT ![p] = @ + 1] /\ deaths' \in [Clients -> Nat]
         /\ deaths[p] \in Nat /\ deaths'[p] = deaths[p] + 1
         /\ contacts' = [contacts EXCEPT ![p] = NoContacts]
         /\ \A q \in Clients : contacts'[p][q] = Unknown
         /\ onTheWay' = [onTheWay EXCEPT ![p] = {}]
         /\ UNCHANGED <<lastId, waiting, offered, received, made, dropped, undecrypted,
                        requests, lost, failures>>
  BY DEF Restart, TypeOK, NoContacts

LEMMA Lists ==
  ASSUME TypeOK, NEW p \in Clients, ClientsListUserCommand(p)
  PROVE  /\ contacts' \in [Clients -> [Clients -> Contacts \cup {Unknown}]]
         /\ \A q \in Clients \ {p} : contacts'[q] = contacts[q]
         /\ \A q \in Clients : Knows(p, q) => Knows(p, q)' /\ contacts'[p][q] = contacts[p][q]
         /\ \A q \in Clients : ~ Knows(p, q) => contacts'[p][q] \in {NewContact, Unknown}
         /\ UNCHANGED <<mailboxVars, made, dropped, undecrypted, callVars>>
<1>1. NewContact \in Contacts
  BY DEF NewContact, Contacts
<1>2. QED
  BY <1>1 DEF ClientsListUserCommand, insertClientsData, TypeOK, Knows

LEMMA RequestsPublicKey ==
  ASSUME TypeOK, NEW p \in Clients, NEW q \in Clients \ {p}, RequestPublicKeyUserCommand(p, q)
  PROVE  /\ contacts' = [contacts EXCEPT ![p] = [@ EXCEPT ![q] =
              [publicKey |-> q, symmetricKey |-> contacts[p][q].symmetricKey]]]
         /\ contacts' \in [Clients -> [Clients -> Contacts \cup {Unknown}]]
         /\ Knows(p, q) /\ Knows(p, q)'
         /\ UNCHANGED <<mailboxVars, made, dropped, undecrypted, callVars>>
<1>1. Knows(p, q) /\ contacts[p][q] \in Contacts /\ addPublicKey(p, q, q)
  BY ContactOf DEF RequestPublicKeyUserCommand
<1>2. /\ [contacts[p][q] EXCEPT !.publicKey = q]
           = [publicKey |-> q, symmetricKey |-> contacts[p][q].symmetricKey]
      /\ [publicKey |-> q, symmetricKey |-> contacts[p][q].symmetricKey] \in Contacts
  BY <1>1 DEF Contacts
<1>3. contacts' = [contacts EXCEPT ![p] = [@ EXCEPT ![q] =
        [contacts[p][q] EXCEPT !.publicKey = q]]]
  BY <1>1 DEF addPublicKey, TypeOK
<1>4. contacts' = [contacts EXCEPT ![p] = [@ EXCEPT ![q] =
        [publicKey |-> q, symmetricKey |-> contacts[p][q].symmetricKey]]]
  BY <1>2, <1>3
<1>5. contacts' \in [Clients -> [Clients -> Contacts \cup {Unknown}]]
  BY <1>2, <1>4 DEF TypeOK
<1>6. Knows(p, q)'
  BY <1>2, <1>4, UnknownAssumption DEF TypeOK, Knows
<1>7. QED
  BY <1>1, <1>4, <1>5, <1>6 DEF RequestPublicKeyUserCommand

LEMMA NewContacts ==
  ASSUME TypesInv, NEW p \in Clients, NEW q \in Clients \ {p}, NEW m \in Mail, BeginsNew(p, q, m)
  PROVE  /\ contacts' \in [Clients -> [Clients -> Contacts \cup {Unknown}]]
         /\ contacts' = [contacts EXCEPT ![p] = [@ EXCEPT ![q] =
              [publicKey |-> contacts[p][q].publicKey, symmetricKey |-> m.key]]]
         /\ Knows(p, q) /\ Knows(p, q)' /\ contacts'[p][q].symmetricKey = m.key
         /\ m.key = NewKey(p, q) /\ m.key \in SymmetricKeys /\ m.key # NoKey
         /\ m.key.maker = p /\ m.key.peer = q /\ m.key.n = Cardinality(made) + 1
         /\ Cardinality(made) \in Nat
<1>1. /\ m.key \in SymmetricKeys /\ m.key # NoKey /\ m.key = NewKey(p, q)
      /\ m.key.maker = p /\ m.key.peer = q /\ m.key.n = Cardinality(made) + 1
      /\ Cardinality(made) \in Nat
  BY NewKeyIs DEF BeginsNew
<1>2. Knows(p, q) /\ contacts[p][q].publicKey \in Clients \cup {NoKey}
  BY ContactOf DEF BeginsNew, Begins, TypesInv, Contacts
<1>3. [publicKey |-> contacts[p][q].publicKey, symmetricKey |-> m.key] \in Contacts
  BY <1>1, <1>2 DEF Contacts
<1>4. contacts' = [contacts EXCEPT ![p] = [@ EXCEPT ![q] =
              [publicKey |-> contacts[p][q].publicKey, symmetricKey |-> m.key]]]
  BY <1>1 DEF BeginsNew
<1>5. contacts' \in [Clients -> [Clients -> Contacts \cup {Unknown}]]
  BY <1>3, <1>4 DEF TypesInv, TypeOK
<1>6. contacts'[p][q] = [publicKey |-> contacts[p][q].publicKey, symmetricKey |-> m.key]
  BY <1>4 DEF TypesInv, TypeOK
<1>7. Knows(p, q)'
  BY <1>3, <1>6, UnknownAssumption DEF Knows
<1>8. QED
  BY <1>1, <1>2, <1>4, <1>5, <1>6, <1>7

\* Every step keeps the types, whatever mail it handles and however a client restarts.
LEMMA TypesStep ==
  ASSUME TypesInv, [Next]_vars
  PROVE  TypesInv'
<1> USE DEF TypesInv
<1>1. CASE UNCHANGED vars
  BY <1>1 DEF TypeOK, vars, mailboxVars, memoryVars, callVars
<1>2. ASSUME NEW p \in Clients, ClientsListUserCommand(p) PROVE TypesInv'
  BY <1>2, Lists DEF TypeOK, mailboxVars, callVars
<1>3. ASSUME NEW p \in Clients, RequestWaitingMessagesUserCommand(p) PROVE TypesInv'
  <2>1. [op |-> "PULL_MESSAGES", from |-> p, life |-> deaths[p]] \in Requests
    BY DEF Requests, TypeOK
  <2>2. QED
    BY <1>3, <2>1 DEF RequestWaitingMessagesUserCommand, TypeOK, mailboxVars, memoryVars
<1>4. ASSUME NEW p \in Clients, NEW q \in Clients \ {p}, RequestPublicKeyUserCommand(p, q)
      PROVE  TypesInv'
  BY <1>4, RequestsPublicKey DEF TypeOK, mailboxVars, callVars
<1>5. ASSUME NEW p \in Clients, NEW q \in Clients \ {p}, NEW m \in Mail, Begins(p, q, m)
      PROVE  requests' \subseteq Requests
  <2>1. [op |-> "SEND_MESSAGE", from |-> p, life |-> deaths[p], mail |-> m] \in Requests
    BY DEF Requests, TypeOK
  <2>2. QED
    BY <1>5, <2>1 DEF Begins, TypeOK
<1>6. ASSUME NEW p \in Clients, NEW q \in Clients \ {p}, NEW m \in Mail, BeginsKept(p, q, m)
      PROVE  TypesInv'
  BY <1>5, <1>6 DEF BeginsKept, Begins, TypeOK, mailboxVars
<1>7. ASSUME NEW p \in Clients, NEW q \in Clients \ {p}, NEW m \in Mail, BeginsNew(p, q, m)
      PROVE  TypesInv'
  <2>1. contacts' \in [Clients -> [Clients -> Contacts \cup {Unknown}]] /\ m.key \in SymmetricKeys
    BY <1>7, NewContacts
  <2>2. made' = made \cup {m.key} /\ IsFiniteSet(made')
    BY <1>7, FS_AddElement DEF BeginsNew
  <2>3. QED
    BY <1>5, <1>7, <2>1, <2>2 DEF BeginsNew, Begins, TypeOK, mailboxVars
<1>8. ASSUME NEW p \in Clients, ReceiveMail(p) PROVE TypesInv'
  <2>1. /\ onTheWay[p] \in SUBSET Mail
        /\ received' = [received EXCEPT ![p] = Append(@, onTheWay[p])]
        /\ onTheWay' = [onTheWay EXCEPT ![p] = {}]
        /\ UNCHANGED <<lastId, waiting, offered, made, callVars>>
        /\ contacts' = [contacts EXCEPT ![p] = contacts'[p]]
        /\ contacts'[p] \in [Clients -> Contacts \cup {Unknown}]
    BY <1>8, HandlesPulled
  <2>2. contacts' \in [Clients -> [Clients -> Contacts \cup {Unknown}]]
    BY <2>1 DEF TypeOK
  <2>3. onTheWay' \in [Clients -> SUBSET Mail] /\ received' \in [Clients -> Seq(SUBSET Mail)]
    BY <2>1 DEF TypeOK
  <2>4. dropped' \in [Clients -> SUBSET Mail] /\ undecrypted' \in [Clients -> SUBSET Mail]
    BY <1>8, <2>1 DEF TypeOK, ReceiveMail, HandlePulled
  <2>5. QED
    BY <2>1, <2>2, <2>3, <2>4 DEF TypeOK, callVars
<1>9. ASSUME NEW p \in Clients, Restart(p) PROVE TypesInv'
  <2>1. NoContacts \in [Clients -> Contacts \cup {Unknown}]
    BY DEF NoContacts
  <2>2. /\ contacts' = [contacts EXCEPT ![p] = NoContacts] /\ deaths' \in [Clients -> Nat]
        /\ onTheWay' = [onTheWay EXCEPT ![p] = {}]
        /\ UNCHANGED <<lastId, waiting, offered, received, made, dropped, undecrypted,
                       requests, lost, failures>>
    BY <1>9, Restarts
  <2>3. contacts' \in [Clients -> [Clients -> Contacts \cup {Unknown}]]
    BY <2>1, <2>2 DEF TypeOK
  <2>4. onTheWay' \in [Clients -> SUBSET Mail]
    BY <2>2 DEF TypeOK
  <2>5. QED
    BY <2>2, <2>3, <2>4 DEF TypeOK
<1>10. ASSUME NEW r \in requests, ServeSend(r) PROVE TypesInv'
  <2>1. r.mail \in Mail /\ lastId + 1 \in Nat
    BY <1>10, RequestOf DEF ServeSend, TypeOK
  <2>2. DEFINE m == [r.mail EXCEPT !.id = lastId + 1]
  <2>3. m \in Mail /\ m.id = lastId + 1
    BY <2>1, PostedMail
  <2>4. /\ lastId' = lastId + 1 /\ waiting' = waiting \cup {m} /\ requests' \subseteq requests
        /\ UNCHANGED <<offered, onTheWay, received, memoryVars, deaths, lost, failures>>
    BY <1>10, <2>3 DEF ServeSend, Served, M!PostMail
  <2>5. QED
    <3> HIDE DEF m
    <3> QED
      BY <2>1, <2>3, <2>4 DEF TypeOK, memoryVars
<1>11. ASSUME NEW r \in requests, ServePull(r) PROVE TypesInv'
  <2>1. /\ WaitingFor(r.from) \in SUBSET Mail
        /\ requests' \subseteq requests
        /\ UNCHANGED <<memoryVars, deaths, lost, failures, lastId, waiting, received>>
        /\ \/ UNCHANGED mailboxVars
           \/ /\ offered' = WaitingFor(r.from)
              /\ \/ UNCHANGED onTheWay
                 \/ onTheWay' = [onTheWay EXCEPT ![r.from] = WaitingFor(r.from)]
    BY <1>11 DEF ServePull, Served, M!HandOver, WaitingFor, TypeOK, mailboxVars
  <2>2. QED
    BY <2>1 DEF TypeOK, memoryVars, mailboxVars
<1>12. ASSUME NEW r \in requests, LoseRequest(r) PROVE TypesInv'
  <2>1. failures' \in Nat /\ lost' \subseteq Mail
    BY <1>12, RequestOf DEF LoseRequest, TypeOK
  <2>2. requests' \subseteq requests /\ UNCHANGED <<memoryVars, deaths, mailboxVars>>
    BY <1>12 DEF LoseRequest, Served
  <2>3. QED
    BY <2>1, <2>2 DEF TypeOK, memoryVars, mailboxVars
<1>13. CASE DeleteServed
  BY <1>13 DEF DeleteServed, M!Settle, TypeOK, memoryVars, callVars
<1>14. CASE KeepServed
  BY <1>14 DEF KeepServed, M!Settle, TypeOK, memoryVars
<1>15. QED
  BY <1>1, <1>2, <1>3, <1>4, <1>6, <1>7, <1>8, <1>9, <1>10, <1>11, <1>12, <1>13, <1>14, Steps

\* Every variable has its type, and the keys that were made are finitely many.
THEOREM Types == Spec => []TypesInv
<1>1. Init => TypesInv
  BY FS_EmptySet DEF Init, M!Init, TypesInv, TypeOK, NoContacts, Nothing
<1>2. TypesInv /\ [Next]_vars => TypesInv'
  BY TypesStep
<1>3. QED
  BY <1>1, <1>2, PTL DEF Spec

\* The type invariant of the key exchange: what a client stores for a contact stays
\* an entry of clientIdToClientDataMap, whatever order mail is handled in.
THEOREM TypeCorrect == Spec => []TypeOK
BY Types, PTL DEF TypesInv

-----------------------------------------------------------------------------
\* Where mail is

LEMMA GotSame ==
  ASSUME UNCHANGED received, NEW p \in Clients
  PROVE  Got(p)' = Got(p)
  BY DEF Got

LEMMA GotGrows ==
  ASSUME TypeOK, NEW p \in Clients, received' = [received EXCEPT ![p] = Append(@, onTheWay[p])]
  PROVE  /\ Got(p)' = Got(p) \cup onTheWay[p]
         /\ \A q \in Clients \ {p} : Got(q)' = Got(q)
<1>1. received[p] \in Seq(SUBSET Mail) /\ received \in [Clients -> Seq(SUBSET Mail)]
  BY DEF TypeOK
<1>2. received'[p] = Append(received[p], onTheWay[p])
  BY <1>1
<1>3. /\ DOMAIN received'[p] = DOMAIN received[p] \cup {Len(received[p]) + 1}
      /\ \A i \in DOMAIN received[p] : received'[p][i] = received[p][i]
      /\ received'[p][Len(received[p]) + 1] = onTheWay[p]
  BY <1>1, <1>2
<1>4. ASSUME NEW m, m \in Got(p)'
      PROVE  m \in Got(p) \cup onTheWay[p]
  <2>1. PICK i \in DOMAIN received[p] \cup {Len(received[p]) + 1} : m \in received'[p][i]
    BY <1>3, <1>4 DEF Got
  <2>2. QED
    BY <1>3, <2>1 DEF Got
<1>5. ASSUME NEW m, m \in Got(p) \cup onTheWay[p]
      PROVE  m \in Got(p)'
  <2>1. PICK i \in DOMAIN received'[p] : m \in received'[p][i]
    BY <1>3, <1>5 DEF Got
  <2>2. QED
    BY <2>1 DEF Got
<1>6. Got(p)' = Got(p) \cup onTheWay[p]
  BY <1>4, <1>5
<1>7. ASSUME NEW q \in Clients \ {p}
      PROVE  Got(q)' = Got(q)
  <2>1. received'[q] = received[q]
    BY <1>1, <1>7
  <2>2. QED
    BY <2>1 DEF Got
<1>8. QED
  BY <1>6, <1>7

\* The server posts the mail of a request, with the next id.
LEMMA Posts ==
  ASSUME TypeOK, NEW r \in requests, ServeSend(r)
  PROVE  /\ r \in MailUnderWay
         /\ lastId' = lastId + 1 /\ lastId + 1 \in Nat /\ offered = {}
         /\ requests' = requests \ {r}
         /\ UNCHANGED <<offered, onTheWay, received, memoryVars, lost, deaths, failures>>
         /\ \E m \in Mail :
              /\ waiting' = waiting \cup {m}
              /\ m.id = lastId + 1 /\ m.fromClient = r.mail.fromClient
              /\ m.toClient = r.mail.toClient /\ m.type = r.mail.type
              /\ m.key = r.mail.key /\ m.publicKey = r.mail.publicKey
<1>1. r.mail \in Mail /\ r \in MailUnderWay /\ lastId + 1 \in Nat
  BY RequestOf DEF ServeSend, TypeOK
<1>2. DEFINE m == [r.mail EXCEPT !.id = lastId + 1]
<1>3. /\ m \in Mail /\ m.id = lastId + 1 /\ m.fromClient = r.mail.fromClient
      /\ m.toClient = r.mail.toClient /\ m.type = r.mail.type
      /\ m.key = r.mail.key /\ m.publicKey = r.mail.publicKey
  BY <1>1, PostedMail
<1>4. /\ lastId' = lastId + 1 /\ waiting' = waiting \cup {m} /\ requests' = requests \ {r}
      /\ offered = {}
      /\ UNCHANGED <<offered, onTheWay, received, memoryVars, lost, deaths, failures>>
  BY <1>3 DEF ServeSend, Served, M!PostMail
<1>5. QED
  <2> HIDE DEF m
  <2> QED
    BY <1>1, <1>3, <1>4

\* The server hands over all that waits for the client, or nothing.
LEMMA Pulls ==
  ASSUME TypeOK, NEW r \in requests, ServePull(r)
  PROVE  /\ r.from \in Clients /\ r \notin MailUnderWay /\ offered = {}
         /\ requests' = requests \ {r}
         /\ UNCHANGED <<lastId, waiting, received, memoryVars, lost, deaths, failures>>
         /\ \/ UNCHANGED <<offered, onTheWay>>
            \/ /\ WaitingFor(r.from) # {} /\ offered' = WaitingFor(r.from)
               /\ onTheWay'[r.from] = WaitingFor(r.from) \/ r.life # deaths[r.from]
               /\ \/ UNCHANGED onTheWay
                  \/ /\ onTheWay[r.from] = {}
                     /\ onTheWay' = [onTheWay EXCEPT ![r.from] = WaitingFor(r.from)]
<1>1. r.from \in Clients /\ r \notin MailUnderWay
  BY RequestOf DEF ServePull, MailUnderWay
<1>2. CASE WaitingFor(r.from) = {} /\ UNCHANGED mailboxVars
  BY <1>1, <1>2 DEF ServePull, Served, mailboxVars
<1>3. CASE M!HandOver(WaitingFor(r.from), r.from)
  <2>1. /\ WaitingFor(r.from) # {} /\ offered' = WaitingFor(r.from)
        /\ UNCHANGED <<lastId, waiting, received>>
        /\ \/ UNCHANGED onTheWay
           \/ \E p \in Clients : /\ p = r.from /\ onTheWay[p] = {}
                                 /\ onTheWay' = [onTheWay EXCEPT ![p] = WaitingFor(r.from)]
    BY <1>3 DEF M!HandOver
  <2>2. \/ r.life # deaths[r.from]
        \/ onTheWay' = [onTheWay EXCEPT ![r.from] = WaitingFor(r.from)]
    BY <2>1 DEF ServePull
  <2>3. onTheWay'[r.from] = WaitingFor(r.from) \/ r.life # deaths[r.from]
    BY <1>1, <2>2 DEF TypeOK
  <2>4. QED
    BY <1>1, <2>1, <2>3 DEF ServePull, Served
<1>4. QED
  BY <1>2, <1>3 DEF ServePull

LEMMA Loses ==
  ASSUME TypeOK, NEW r \in requests, LoseRequest(r)
  PROVE  /\ requests' = requests \ {r} /\ lost \subseteq lost'
         /\ r \in MailUnderWay => r.mail \in lost'
         /\ UNCHANGED <<mailboxVars, memoryVars, deaths>>
  BY RequestOf DEF LoseRequest, Served, MailUnderWay

LEMMA Settles ==
  ASSUME DeleteServed \/ KeepServed
  PROVE  /\ offered # {} /\ offered' = {} /\ waiting' \subseteq waiting
         /\ waiting' = waiting \ offered \/ waiting' = waiting
         /\ UNCHANGED <<lastId, onTheWay, received, memoryVars, requests, lost, deaths>>
  BY DEF DeleteServed, KeepServed, M!Settle, callVars, memoryVars

\* Mail is posted mail of a request, mail of a command that begins, or was there.
Like(m, x) ==
  /\ m.fromClient = x.fromClient /\ m.toClient = x.toClient
  /\ m.type = x.type /\ m.key = x.key /\ m.publicKey = x.publicKey

\* The steps that begin no request with mail, post none and hand over none
LEMMA Rests ==
  ASSUME TypesInv, [Next]_vars,
         ~ \E r \in requests : ServeSend(r) \/ ServePull(r),
         ~ \E p \in Clients : \E q \in Clients \ {p} : \E m \in Mail :
             BeginsKept(p, q, m) \/ BeginsNew(p, q, m)
  PROVE  /\ UNCHANGED lastId /\ waiting' \subseteq waiting
         /\ \A p \in Clients : Reached(p)' \subseteq Reached(p)
         /\ \A p \in Clients :
              \/ Got(p)' = Got(p) /\ onTheWay'[p] \in {onTheWay[p], {}}
              \/ Got(p)' = Got(p) \cup onTheWay[p] /\ onTheWay'[p] = {}
         /\ UNCHANGED <<waiting, offered>> \/ DeleteServed \/ KeepServed
         /\ MailUnderWay' \subseteq MailUnderWay
         /\ \A r \in requests' : r \in requests \/ r.life = deaths[r.from]
         /\ \A p \in Clients : deaths[p] <= deaths'[p]
<1>1. \A p \in Clients : UNCHANGED deaths => deaths[p] <= deaths'[p]
  BY DEF TypesInv, TypeOK
<1>2. UNCHANGED requests => UNCHANGED MailUnderWay
  BY DEF MailUnderWay
<1>4. \A p \in Clients : UNCHANGED <<onTheWay, received>> => Reached(p)' = Reached(p) /\ Got(p)' = Got(p)
  BY DEF Reached, Got
<1>5. CASE UNCHANGED <<lastId, waiting, offered, onTheWay, received, requests, deaths>>
  BY <1>1, <1>2, <1>4, <1>5
<1>6. CASE UNCHANGED vars
  BY <1>5, <1>6 DEF vars, mailboxVars, callVars
<1>7. ASSUME NEW p \in Clients, ClientsListUserCommand(p)
      PROVE  UNCHANGED <<lastId, waiting, offered, onTheWay, received, requests, deaths>>
  BY <1>7 DEF ClientsListUserCommand, mailboxVars, callVars
<1>8. ASSUME NEW p \in Clients, NEW q \in Clients, RequestPublicKeyUserCommand(p, q)
      PROVE  UNCHANGED <<lastId, waiting, offered, onTheWay, received, requests, deaths>>
  BY <1>8 DEF RequestPublicKeyUserCommand, mailboxVars, callVars
<1>9. ASSUME NEW p \in Clients, RequestWaitingMessagesUserCommand(p)
      PROVE  /\ UNCHANGED <<lastId, waiting, offered, onTheWay, received, deaths>>
             /\ MailUnderWay' \subseteq MailUnderWay
             /\ \A r \in requests' : r \in requests \/ r.life = deaths[r.from]
  BY <1>9 DEF RequestWaitingMessagesUserCommand, mailboxVars, MailUnderWay
<1>10. ASSUME NEW p \in Clients, ReceiveMail(p)
       PROVE  /\ UNCHANGED <<lastId, waiting, offered, requests, deaths>>
              /\ \A q \in Clients : Reached(q)' \subseteq Reached(q)
              /\ \A q \in Clients :
                   \/ Got(q)' = Got(q) /\ onTheWay'[q] \in {onTheWay[q], {}}
                   \/ Got(q)' = Got(q) \cup onTheWay[q] /\ onTheWay'[q] = {}
  <2>1. /\ received' = [received EXCEPT ![p] = Append(@, onTheWay[p])]
        /\ onTheWay' = [onTheWay EXCEPT ![p] = {}]
        /\ UNCHANGED <<lastId, waiting, offered, made, callVars>>
    BY <1>10, HandlesPulled DEF TypesInv
  <2>2. /\ Got(p)' = Got(p) \cup onTheWay[p]
        /\ \A q \in Clients \ {p} : Got(q)' = Got(q)
    BY <2>1, GotGrows DEF TypesInv
  <2>3. \A q \in Clients : onTheWay'[q] = IF q = p THEN {} ELSE onTheWay[q]
    BY <2>1 DEF TypesInv, TypeOK
  <2>4. QED
    BY <2>1, <2>2, <2>3 DEF Reached, callVars
<1>11. ASSUME NEW p \in Clients, Restart(p)
       PROVE  /\ UNCHANGED <<lastId, waiting, offered, requests>>
              /\ \A q \in Clients : Reached(q)' \subseteq Reached(q)
              /\ \A q \in Clients :
                   \/ Got(q)' = Got(q) /\ onTheWay'[q] \in {onTheWay[q], {}}
                   \/ Got(q)' = Got(q) \cup onTheWay[q] /\ onTheWay'[q] = {}
              /\ \A q \in Clients : deaths[q] <= deaths'[q]
  <2>1. /\ deaths' = [deaths EXCEPT ![p] = @ + 1] /\ onTheWay' = [onTheWay EXCEPT ![p] = {}]
        /\ UNCHANGED <<lastId, waiting, offered, requests, received>>
    BY <1>11, Restarts DEF TypesInv
  <2>2. \A q \in Clients : onTheWay'[q] = IF q = p THEN {} ELSE onTheWay[q]
    BY <2>1 DEF TypesInv, TypeOK
  <2>3. \A q \in Clients : Got(q)' = Got(q)
    BY <2>1, GotSame
  <2>4. \A q \in Clients : deaths[q] <= deaths'[q]
    BY <2>1 DEF TypesInv, TypeOK
  <2>5. QED
    BY <2>1, <2>2, <2>3, <2>4 DEF Reached
<1>12. ASSUME NEW r \in requests, LoseRequest(r)
       PROVE  /\ UNCHANGED <<lastId, waiting, offered, onTheWay, received, deaths>>
              /\ requests' \subseteq requests /\ MailUnderWay' \subseteq MailUnderWay
  BY <1>12, Loses DEF mailboxVars, MailUnderWay, TypesInv
<1>13. CASE DeleteServed \/ KeepServed
  BY <1>1, <1>2, <1>4, <1>13, Settles
<1>14. QED
  BY <1>1, <1>2, <1>4, <1>5, <1>6, <1>7, <1>8, <1>9, <1>10, <1>11, <1>12, <1>13, Steps

\* All mail after a step was there, or is posted, or begins.
LEMMA EveryMailMoves ==
  ASSUME TypesInv, [Next]_vars, NEW m \in EveryMail'
  PROVE  \/ m \in EveryMail
         \/ \E r \in MailUnderWay : Like(m, r.mail)
         \/ \E p \in Clients : \E q \in Clients \ {p} :
              m \in Mail /\ (BeginsKept(p, q, m) \/ BeginsNew(p, q, m))
<1> USE DEF TypesInv
<1>1. /\ \/ m \in waiting'
         \/ \E p \in Clients : m \in Reached(p)'
         \/ \E r \in MailUnderWay' : m = r.mail
      /\ \/ m \in waiting
         \/ \E p \in Clients : m \in Reached(p)
         \/ \E r \in MailUnderWay : m = r.mail
         => m \in EveryMail
  <2>1. m \in AllMail' =>
          \/ m \in waiting'
          \/ \E p \in Clients : m \in onTheWay'[p]
          \/ \E r \in MailUnderWay' : m = r.mail
    BY DEF AllMail
  <2>2. m \in AllMail' \/ \E p \in Clients : m \in Got(p)'
    BY DEF EveryMail
  <2>3. QED
    BY <2>1, <2>2, MailIn DEF Reached
<1>2. CASE \E r \in requests : ServeSend(r)
  <2>1. PICK r \in requests : ServeSend(r)
    BY <1>2
  <2>2. PICK x \in Mail : waiting' = waiting \cup {x} /\ Like(x, r.mail)
    BY <2>1, Posts DEF Like
  <2>3. /\ r \in MailUnderWay /\ MailUnderWay' \subseteq MailUnderWay
        /\ UNCHANGED <<onTheWay, received>>
    BY <2>1, Posts DEF MailUnderWay
  <2>4. \A p \in Clients : Reached(p)' = Reached(p)
    BY <2>3, GotSame DEF Reached
  <2>5. QED
    BY <1>1, <2>2, <2>3, <2>4
<1>3. CASE \E r \in requests : ServePull(r)
  <2>1. PICK r \in requests : ServePull(r)
    BY <1>3
  <2>2. /\ MailUnderWay' \subseteq MailUnderWay /\ UNCHANGED <<waiting, received>>
    BY <2>1, Pulls DEF MailUnderWay
  <2>3. \A p \in Clients : onTheWay'[p] \subseteq onTheWay[p] \cup waiting
    <3>1. WaitingFor(r.from) \subseteq waiting
      BY DEF WaitingFor
    <3>2. QED
      BY <2>1, <3>1, Pulls DEF TypeOK
  <2>4. \A p \in Clients : Reached(p)' \subseteq Reached(p) \cup waiting
    BY <2>2, <2>3, GotSame DEF Reached
  <2>5. QED
    BY <1>1, <2>2, <2>4
<1>4. CASE \E p \in Clients : \E q \in Clients \ {p} : \E x \in Mail :
             BeginsKept(p, q, x) \/ BeginsNew(p, q, x)
  <2>1. PICK p \in Clients, q \in Clients, x \in Mail : p # q /\
          (BeginsKept(p, q, x) \/ BeginsNew(p, q, x))
    BY <1>4
  <2>2. Begins(p, q, x)
    BY <2>1 DEF BeginsKept, BeginsNew
  <2>3. /\ UNCHANGED <<waiting, onTheWay, received>>
        /\ \A r \in MailUnderWay' : r \in MailUnderWay \/ r.mail = x
    BY <2>2 DEF Begins, mailboxVars, MailUnderWay
  <2>4. \A z \in Clients : Reached(z)' = Reached(z)
    BY <2>3, GotSame DEF Reached
  <2>5. QED
    BY <1>1, <2>1, <2>3, <2>4
<1>5. CASE /\ ~ \E r \in requests : ServeSend(r) \/ ServePull(r)
           /\ ~ \E p \in Clients : \E q \in Clients \ {p} : \E x \in Mail :
                  BeginsKept(p, q, x) \/ BeginsNew(p, q, x)
  BY <1>1, <1>5, Rests
<1>6. QED
  BY <1>2, <1>3, <1>4, <1>5

\* Every step keeps ids unique and mail with its addressee (save_message, pull_messages).
LEMMA PostedStep ==
  ASSUME TypesInv, PostedInv, [Next]_vars
  PROVE  PostedInv'
<1> USE DEF TypesInv
<1>1. \A m \in EveryMail' : m.fromClient # m.toClient
  <2>1. TAKE m \in EveryMail'
  <2>2. CASE m \in EveryMail
    BY <2>2 DEF PostedInv
  <2>3. CASE \E r \in MailUnderWay : Like(m, r.mail)
    <3>1. PICK r \in MailUnderWay : Like(m, r.mail)
      BY <2>3
    <3>2. r.mail \in EveryMail
      BY MailIn
    <3>3. QED
      BY <3>1, <3>2 DEF PostedInv, Like
  <2>4. CASE \E p \in Clients : \E q \in Clients \ {p} :
               BeginsKept(p, q, m) \/ BeginsNew(p, q, m)
    BY <2>4 DEF BeginsKept, BeginsNew, Begins
  <2>5. QED
    BY <2>2, <2>3, <2>4, EveryMailMoves
<1>2. CASE \E r \in requests : ServeSend(r)
  <2>1. PICK r \in requests : ServeSend(r)
    BY <1>2
  <2>2. PICK x \in Mail : waiting' = waiting \cup {x} /\ Like(x, r.mail) /\ x.id = lastId + 1
    BY <2>1, Posts DEF Like
  <2>3. /\ r \in MailUnderWay /\ MailUnderWay' \subseteq MailUnderWay
        /\ requests' \subseteq requests
        /\ lastId' = lastId + 1 /\ lastId \in Nat
        /\ UNCHANGED <<onTheWay, received, deaths>>
    BY <2>1, Posts DEF MailUnderWay, TypeOK
  <2>4. \A p \in Clients : Reached(p)' = Reached(p)
    BY <2>3, GotSame DEF Reached
  <2>5. Posted' = Posted \cup {x}
    BY <2>2, <2>4 DEF Posted
  <2>6. ASSUME NEW m \in Posted PROVE m \in Mail /\ m.id \in Nat /\ m.id <= lastId
    <3>1. m \in Mail
      BY PostedMailType DEF PostedInv
    <3>2. QED
      BY <3>1 DEF PostedInv, Mail
  <2>7. QED
    BY <1>1, <2>2, <2>3, <2>4, <2>5, <2>6 DEF PostedInv
<1>3. CASE \E r \in requests : ServePull(r)
  <2>1. PICK r \in requests : ServePull(r)
    BY <1>3
  <2>2. /\ MailUnderWay' \subseteq MailUnderWay /\ requests' \subseteq requests
        /\ UNCHANGED <<waiting, received, lastId, deaths>>
    BY <2>1, Pulls DEF MailUnderWay
  <2>3. \A p \in Clients : onTheWay'[p] \subseteq onTheWay[p] \cup WaitingFor(p)
    BY <2>1, Pulls DEF TypeOK
  <2>4. \A p \in Clients : Reached(p)' \subseteq Reached(p) \cup WaitingFor(p)
    BY <2>2, <2>3, GotSame DEF Reached
  <2>5. Posted' \subseteq Posted
    BY <2>2, <2>4 DEF Posted, WaitingFor
  <2>6. QED
    BY <1>1, <2>2, <2>4, <2>5 DEF PostedInv, WaitingFor
<1>4. CASE \E p \in Clients : \E q \in Clients \ {p} : \E x \in Mail : Begins(p, q, x)
  <2>1. PICK p \in Clients, q \in Clients, x \in Mail : p # q /\ Begins(p, q, x)
    BY <1>4
  <2>2. /\ UNCHANGED <<lastId, waiting, onTheWay, received, deaths>>
        /\ \A r \in requests' : r \in requests \/ r.life = deaths[r.from]
        /\ \A r \in MailUnderWay' : r \in MailUnderWay \/ (r.mail = x /\ r.from = p)
        /\ x.fromClient = p
    BY <2>1 DEF Begins, mailboxVars, MailUnderWay
  <2>3. \A z \in Clients : Reached(z)' = Reached(z)
    BY <2>2, GotSame DEF Reached
  <2>4. Posted' = Posted
    BY <2>2, <2>3 DEF Posted
  <2>5. \A r \in requests' : r.life <= deaths[r.from]
    <3>1. ASSUME NEW r \in requests', r.life = deaths[r.from] PROVE r.life <= deaths[r.from]
      <4>1. r.life \in Nat
        BY TypesStep, RequestOf DEF TypeOK, Requests
      <4>2. QED
        BY <3>1, <4>1
    <3>2. QED
      BY <2>2, <3>1 DEF PostedInv
  <2>6. QED
    BY <1>1, <2>2, <2>3, <2>4, <2>5 DEF PostedInv
<1>5. CASE /\ ~ \E r \in requests : ServeSend(r) \/ ServePull(r)
           /\ ~ \E p \in Clients : \E q \in Clients \ {p} : \E x \in Mail : Begins(p, q, x)
  <2>1. /\ UNCHANGED lastId /\ waiting' \subseteq waiting
        /\ \A p \in Clients : Reached(p)' \subseteq Reached(p)
        /\ MailUnderWay' \subseteq MailUnderWay
        /\ \A r \in requests' : r \in requests \/ r.life = deaths[r.from]
        /\ \A p \in Clients : deaths[p] <= deaths'[p]
    BY <1>5, Rests DEF BeginsKept, BeginsNew
  <2>2. Posted' \subseteq Posted
    BY <2>1 DEF Posted
  <2>3. ASSUME NEW r \in requests' PROVE r.life <= deaths'[r.from]
    <3>1. r.life \in Nat /\ r.from \in Clients /\ deaths'[r.from] \in Nat /\ deaths[r.from] \in Nat
      BY TypesStep DEF TypeOK, Requests
    <3>2. r.life <= deaths[r.from]
      BY <2>1, <3>1 DEF PostedInv
    <3>3. QED
      BY <2>1, <3>1, <3>2
  <2>4. QED
    BY <1>1, <2>1, <2>2, <2>3 DEF PostedInv
<1>6. QED
  BY <1>2, <1>3, <1>4, <1>5

\* Every step removes a whole pull, or nothing, so that a pull is got from its oldest on.
LEMMA PulledStep ==
  ASSUME TypesInv, PostedInv, PulledInv, [Next]_vars
  PROVE  PulledInv'
<1> USE DEF TypesInv
<1>1. ASSUME NEW p \in Clients
      PROVE  WaitingFor(p) \subseteq waiting /\ \A m \in waiting : m.toClient = p <=> m \in WaitingFor(p)
  BY DEF WaitingFor
<1>2. ASSUME NEW p \in Clients
      PROVE  WaitingFor(p)' \subseteq waiting' /\ \A m \in waiting' : m.toClient = p <=> m \in WaitingFor(p)'
  BY DEF WaitingFor
<1>3. ASSUME UNCHANGED waiting, NEW p \in Clients PROVE WaitingFor(p)' = WaitingFor(p)
  BY <1>3 DEF WaitingFor
<1>4. CASE \E r \in requests : ServeSend(r)
  <2>1. PICK r \in requests : ServeSend(r)
    BY <1>4
  <2>2. PICK x \in Mail : waiting' = waiting \cup {x} /\ x.id = lastId + 1
    BY <2>1, Posts
  <2>3. offered = {} /\ UNCHANGED <<offered, onTheWay, received>>
    BY <2>1, Posts
  <2>4. \A p \in Clients : Got(p)' = Got(p) /\ Reached(p)' = Reached(p)
    BY <2>3, GotSame DEF Reached
  <2>5. ASSUME NEW p \in Clients, NEW m \in Reached(p) PROVE ~ (lastId + 1 < m.id)
    <3>1. m \in Posted
      BY DEF Posted
    <3>2. m.id \in Nat /\ m.id <= lastId
      BY <3>1, PostedMailType DEF PostedInv, Mail
    <3>3. QED
      BY <3>2 DEF TypeOK
  <2>6. \A p \in Clients : WaitingFor(p)' \subseteq WaitingFor(p) \cup {x}
    BY <2>2 DEF WaitingFor
  <2>7. QED
    BY <2>2, <2>3, <2>4, <2>5, <2>6 DEF PulledInv
<1>5. CASE \E r \in requests : ServePull(r)
  <2>1. PICK r \in requests : ServePull(r)
    BY <1>5
  <2>2. r.from \in Clients /\ offered = {} /\ UNCHANGED <<waiting, received>>
    BY <2>1, Pulls
  <2>3. offered' = {} \/ offered' = WaitingFor(r.from)
    BY <2>1, Pulls
  <2>4. \A p \in Clients : onTheWay'[p] = onTheWay[p] \/ onTheWay'[p] = WaitingFor(p)
    BY <2>1, Pulls DEF TypeOK
  <2>5. \A p \in Clients : Got(p)' = Got(p) /\ Reached(p)' \subseteq Reached(p) \cup WaitingFor(p)
    BY <2>2, <2>4, GotSame DEF Reached
  <2>6. offered' # {} => \E p \in Clients : offered' = WaitingFor(p)'
    BY <1>3, <2>2, <2>3
  <2>7. ASSUME NEW p \in Clients, NEW m \in Reached(p)', NEW x \in WaitingFor(p)', x.id < m.id
        PROVE  m \in waiting'
    BY <1>1, <1>3, <2>2, <2>5, <2>7 DEF PulledInv
  <2>8. ASSUME NEW p \in Clients, NEW m \in Got(p)', NEW x \in onTheWay'[p], x.id < m.id
        PROVE  m \in onTheWay'[p]
    <3>1. m \in Got(p) /\ m \in Reached(p) /\ m.toClient = p
      BY <2>5 DEF PostedInv, Reached
    <3>2. CASE onTheWay'[p] = onTheWay[p]
      BY <2>8, <3>1, <3>2 DEF PulledInv
    <3>3. CASE onTheWay'[p] = WaitingFor(p)
      BY <1>1, <2>8, <3>1, <3>3 DEF PulledInv
    <3>4. QED
      BY <2>4, <3>2, <3>3
  <2>9. QED
    BY <2>6, <2>7, <2>8 DEF PulledInv
<1>6. CASE \E p \in Clients : \E q \in Clients \ {p} : \E x \in Mail : Begins(p, q, x)
  <2>1. UNCHANGED <<waiting, offered, onTheWay, received>>
    BY <1>6 DEF Begins, mailboxVars
  <2>2. \A p \in Clients : Got(p)' = Got(p) /\ Reached(p)' = Reached(p) /\ WaitingFor(p)' = WaitingFor(p)
    BY <1>3, <2>1, GotSame DEF Reached
  <2>3. QED
    BY <2>1, <2>2 DEF PulledInv
<1>7. CASE /\ ~ \E r \in requests : ServeSend(r) \/ ServePull(r)
           /\ ~ \E p \in Clients : \E q \in Clients \ {p} : \E x \in Mail : Begins(p, q, x)
  <2>1. /\ \A p \in Clients : Reached(p)' \subseteq Reached(p)
        /\ \A p \in Clients :
              \/ Got(p)' = Got(p) /\ onTheWay'[p] \in {onTheWay[p], {}}
              \/ Got(p)' = Got(p) \cup onTheWay[p] /\ onTheWay'[p] = {}
        /\ UNCHANGED <<waiting, offered>> \/ DeleteServed \/ KeepServed
    BY <1>7, Rests DEF BeginsKept, BeginsNew
  <2>2. \A p \in Clients : \A m \in Got(p)', x \in onTheWay'[p] :
          x.id < m.id => m \in onTheWay'[p]
    BY <2>1 DEF PulledInv
  <2>3. CASE UNCHANGED <<waiting, offered>>
    BY <1>3, <2>1, <2>2, <2>3 DEF PulledInv
  <2>4. CASE DeleteServed \/ KeepServed
    <3>1. /\ offered # {} /\ offered' = {}
          /\ waiting' = waiting \ offered \/ waiting' = waiting
      BY <2>4, Settles
    <3>2. PICK a \in Clients : offered = WaitingFor(a)
      BY <3>1 DEF PulledInv
    <3>3. ASSUME NEW p \in Clients, NEW m \in Reached(p)', NEW x \in WaitingFor(p)', x.id < m.id
          PROVE  m \in waiting'
      <4>1. m \in Reached(p) /\ m.toClient = p /\ x \in WaitingFor(p)
        BY <1>1, <1>2, <2>1, <3>1 DEF PostedInv
      <4>2. m \in waiting
        BY <3>3, <4>1 DEF PulledInv
      <4>3. CASE waiting' = waiting \ offered
        BY <1>1, <1>2, <3>2, <4>1, <4>2, <4>3
      <4>4. QED
        BY <3>1, <4>2, <4>3
    <3>4. QED
      BY <2>2, <3>1, <3>3 DEF PulledInv
  <2>5. QED
    BY <2>1, <2>3, <2>4
<1>8. QED
  BY <1>4, <1>5, <1>6, <1>7

-----------------------------------------------------------------------------
\* Keys

\* A new key is made, or none.
LEMMA MadeMoves ==
  ASSUME TypesInv, [Next]_vars
  PROVE  \/ UNCHANGED made
         \/ \E p \in Clients : \E q \in Clients \ {p} : \E m \in Mail :
              BeginsNew(p, q, m) /\ made' = made \cup {m.key}
<1>1. CASE \E p \in Clients : \E q \in Clients \ {p} : \E m \in Mail : BeginsNew(p, q, m)
  <2>1. PICK p \in Clients, q \in Clients, m \in Mail : p # q /\ BeginsNew(p, q, m)
    BY <1>1
  <2>2. made' = made \cup {m.key}
    BY <2>1 DEF BeginsNew
  <2>3. QED
    BY <2>1, <2>2
<1>2. CASE ~ \E p \in Clients : \E q \in Clients \ {p} : \E m \in Mail : BeginsNew(p, q, m)
  <2>1. ASSUME NEW p \in Clients, ReceiveMail(p) PROVE UNCHANGED made
    BY <2>1, HandlesPulled DEF TypesInv
  <2>2. ASSUME NEW p \in Clients, Restart(p) PROVE UNCHANGED made
    BY <2>2, Restarts DEF TypesInv
  <2>3. ASSUME NEW r \in requests, ServeSend(r) \/ ServePull(r) \/ LoseRequest(r)
        PROVE  UNCHANGED made
    BY <2>3, Posts, Pulls, Loses DEF TypesInv, memoryVars
  <2>4. CASE DeleteServed \/ KeepServed
    BY <2>4, Settles DEF memoryVars
  <2>5. ASSUME NEW p \in Clients, ClientsListUserCommand(p) PROVE UNCHANGED made
    BY <2>5 DEF ClientsListUserCommand
  <2>6. ASSUME NEW p \in Clients, RequestWaitingMessagesUserCommand(p) PROVE UNCHANGED made
    BY <2>6 DEF RequestWaitingMessagesUserCommand, memoryVars
  <2>7. ASSUME NEW p \in Clients, NEW q \in Clients, RequestPublicKeyUserCommand(p, q)
        PROVE  UNCHANGED made
    BY <2>7 DEF RequestPublicKeyUserCommand
  <2>8. ASSUME NEW p \in Clients, NEW q \in Clients, NEW m \in Mail, BeginsKept(p, q, m)
        PROVE  UNCHANGED made
    BY <2>8 DEF BeginsKept
  <2>9. CASE UNCHANGED vars
    BY <2>9 DEF vars, memoryVars
  <2>10. QED
    BY <1>2, <2>1, <2>2, <2>3, <2>4, <2>5, <2>6, <2>7, <2>8, <2>9, Steps
<1>3. QED
  BY <1>1, <1>2

\* What becomes of the entry that a client has for another
LEMMA ContactMoves ==
  ASSUME TypesInv, [Next]_vars, NEW p \in Clients, NEW q \in Clients, Knows(p, q)'
  PROVE  \/ Knows(p, q) /\ contacts'[p][q] = contacts[p][q]
         \/ ~ Knows(p, q) /\ contacts'[p][q] = NewContact
         \/ /\ Knows(p, q)
            /\ contacts'[p][q] = [publicKey |-> q, symmetricKey |-> contacts[p][q].symmetricKey]
         \/ \E m \in Mail :
              /\ BeginsNew(p, q, m) /\ Knows(p, q) /\ p # q
              /\ contacts'[p][q] = [publicKey |-> contacts[p][q].publicKey,
                                    symmetricKey |-> m.key]
         \/ /\ ReceiveMail(p) /\ Knows(p, q)
            /\ contacts'[p][q] = [publicKey |-> contacts[p][q].publicKey,
                                  symmetricKey |-> KeyAt(p, onTheWay[p], q, lastId + 1)]
<1> USE DEF TypesInv
<1>1. CASE UNCHANGED contacts
  BY <1>1 DEF Knows
<1>2. ASSUME NEW z \in Clients, ClientsListUserCommand(z)
      PROVE  \/ Knows(p, q) /\ contacts'[p][q] = contacts[p][q]
             \/ ~ Knows(p, q) /\ contacts'[p][q] = NewContact
  <2>1. contacts'[p][q] # Unknown
    BY DEF Knows
  <2>2. CASE p = z
    BY <1>2, <2>1, <2>2, Lists
  <2>3. CASE p # z
    BY <1>2, <2>1, <2>3, Lists DEF Knows
  <2>4. QED
    BY <2>2, <2>3
<1>3. ASSUME NEW z \in Clients, NEW y \in Clients \ {z}, RequestPublicKeyUserCommand(z, y)
      PROVE  /\ Knows(p, q)
             /\ \/ contacts'[p][q] = contacts[p][q]
                \/ contacts'[p][q] = [publicKey |-> q, symmetricKey |-> contacts[p][q].symmetricKey]
  <2>1. /\ contacts' = [contacts EXCEPT ![z] = [@ EXCEPT ![y] =
              [publicKey |-> y, symmetricKey |-> contacts[z][y].symmetricKey]]]
        /\ Knows(z, y)
    BY <1>3, RequestsPublicKey
  <2>2. QED
    BY <2>1 DEF TypeOK, Knows
<1>4. ASSUME NEW z \in Clients, NEW y \in Clients \ {z}, NEW m \in Mail, BeginsNew(z, y, m)
      PROVE  \/ Knows(p, q) /\ contacts'[p][q] = contacts[p][q]
             \/ /\ BeginsNew(p, q, m) /\ Knows(p, q) /\ p # q
                /\ contacts'[p][q] = [publicKey |-> contacts[p][q].publicKey,
                                      symmetricKey |-> m.key]
  <2>1. /\ contacts' = [contacts EXCEPT ![z] = [@ EXCEPT ![y] =
              [publicKey |-> contacts[z][y].publicKey, symmetricKey |-> m.key]]]
        /\ Knows(z, y)
    BY <1>4, NewContacts
  <2>2. CASE z = p /\ y = q
    BY <1>4, <2>1, <2>2 DEF TypeOK
  <2>3. CASE ~ (z = p /\ y = q)
    BY <2>1, <2>3 DEF TypeOK, Knows
  <2>4. QED
    BY <2>2, <2>3
<1>5. ASSUME NEW z \in Clients, ReceiveMail(z)
      PROVE  \/ Knows(p, q) /\ contacts'[p][q] = contacts[p][q]
             \/ /\ ReceiveMail(p) /\ Knows(p, q)
                /\ contacts'[p][q] = [publicKey |-> contacts[p][q].publicKey,
                                      symmetricKey |-> KeyAt(p, onTheWay[p], q, lastId + 1)]
  <2>1. /\ contacts' = [contacts EXCEPT ![z] = contacts'[z]]
        /\ \A y \in Clients :
              /\ Knows(z, y)' <=> Knows(z, y)
              /\ Knows(z, y) =>
                   contacts'[z][y] = [contacts[z][y] EXCEPT !.symmetricKey =
                                        KeyAt(z, onTheWay[z], y, lastId + 1)]
    BY <1>5, HandlesPulled
  <2>2. CASE z = p
    <3>1. Knows(p, q) /\ contacts[p][q] \in Contacts
      BY <2>1, <2>2, ContactOf
    <3>2. QED
      BY <1>5, <2>1, <2>2, <3>1 DEF Contacts
  <2>3. CASE z # p
    <3>1. contacts'[p] = contacts[p]
      BY <2>1, <2>3 DEF TypeOK
    <3>2. QED
      BY <3>1 DEF Knows
  <2>4. QED
    BY <2>2, <2>3
<1>6. ASSUME NEW z \in Clients, Restart(z)
      PROVE  Knows(p, q) /\ contacts'[p][q] = contacts[p][q]
  <2>1. contacts' = [contacts EXCEPT ![z] = NoContacts] /\ \A y \in Clients : contacts'[z][y] = Unknown
    BY <1>6, Restarts
  <2>2. p # z
    BY <2>1 DEF Knows
  <2>3. QED
    BY <2>1, <2>2 DEF Knows, TypeOK
<1>7. ASSUME NEW r \in requests, ServeSend(r) \/ ServePull(r) \/ LoseRequest(r)
      PROVE  UNCHANGED contacts
  BY <1>7, Posts, Pulls, Loses DEF memoryVars
<1>8. CASE DeleteServed \/ KeepServed
  BY <1>1, <1>8, Settles DEF memoryVars
<1>9. ASSUME NEW z \in Clients, RequestWaitingMessagesUserCommand(z) PROVE UNCHANGED contacts
  BY <1>9 DEF RequestWaitingMessagesUserCommand, memoryVars
<1>10. ASSUME NEW z \in Clients, NEW y \in Clients, NEW m \in Mail, BeginsKept(z, y, m)
       PROVE  UNCHANGED contacts
  BY <1>10 DEF BeginsKept
<1>11. CASE UNCHANGED vars
  BY <1>1, <1>11 DEF vars, memoryVars
<1>12. QED
  BY <1>1, <1>2, <1>3, <1>4, <1>5, <1>6, <1>7, <1>8, <1>9, <1>10, <1>11, Steps

\* A key is for its two clients, in any order.
LEMMA IsForPair ==
  ASSUME NEW key, NEW p, NEW q
  PROVE  IsFor(key, p, q) <=> \/ key = NoKey
                              \/ key.maker = p /\ key.peer = q
                              \/ key.maker = q /\ key.peer = p
  BY DEF IsFor

\* What a command reads from the memory has the properties of a key of the pair.
LEMMA NewMailKeys ==
  ASSUME TypesInv, KeysInv, KeysStayInPair, NEW p \in Clients, NEW q \in Clients \ {p},
         NEW m \in Mail, BeginsKept(p, q, m) \/ BeginsNew(p, q, m)
  PROVE  /\ m.fromClient = p /\ m.toClient = q
         /\ m.key \in made' \cup {NoKey} /\ IsFor(m.key, p, q)
         /\ m.type # "REQUEST_SYMMETRIC_KEY" => m.key # NoKey
         /\ IsKeyMail(m) => m.publicKey = q
<1>1. m.fromClient = p /\ m.toClient = q /\ Knows(p, q)
  BY DEF BeginsKept, BeginsNew, Begins
<1>2. /\ contacts[p][q].symmetricKey \in made \cup {NoKey}
      /\ contacts[p][q].publicKey \in {q, NoKey}
      /\ IsFor(contacts[p][q].symmetricKey, p, q)
  BY <1>1 DEF KeysInv, KeysStayInPair
<1>3. CASE BeginsKept(p, q, m)
  BY <1>1, <1>2, <1>3, IsForPair DEF BeginsKept, HasPublicKey, HasSymmetricKey, IsKeyMail
<1>4. CASE BeginsNew(p, q, m)
  <2>1. /\ m.key # NoKey /\ m.key.maker = p /\ m.key.peer = q
    BY <1>4, NewContacts
  <2>2. made' = made \cup {m.key} /\ m.publicKey = contacts[p][q].publicKey /\ HasPublicKey(p, q)
    BY <1>4 DEF BeginsNew
  <2>3. QED
    BY <1>1, <1>2, <2>1, <2>2, IsForPair DEF HasPublicKey
<1>5. QED
  BY <1>3, <1>4

\* Every step keeps the keys fresh, and the mail and the memories of a pair to its keys.
LEMMA KeysStep ==
  ASSUME TypesInv, PostedInv, KeysInv, KeysStayInPair, [Next]_vars
  PROVE  KeysInv' /\ KeysStayInPair'
<1> USE DEF TypesInv
<1>1. made \subseteq made'
  BY MadeMoves
<1>2. IsFiniteSet(made) /\ IsFiniteSet(made')
  BY TypesStep
<1>3. \A key \in made' : key.n <= Cardinality(made') /\ key.maker # key.peer
  <2>1. CASE UNCHANGED made
    BY <2>1 DEF KeysInv
  <2>2. ASSUME NEW p \in Clients, NEW q \in Clients \ {p}, NEW m \in Mail,
               BeginsNew(p, q, m), made' = made \cup {m.key}
        PROVE  \A key \in made' : key.n <= Cardinality(made') /\ key.maker # key.peer
    <3>1. /\ m.key.n = Cardinality(made) + 1 /\ Cardinality(made) \in Nat
          /\ m.key.maker # m.key.peer
      BY <2>2, NewContacts
    <3>2. m.key \notin made
      BY <3>1 DEF KeysInv
    <3>3. Cardinality(made') = Cardinality(made) + 1
      BY <1>2, <2>2, <3>2, FS_AddElement
    <3>4. \A key \in made : /\ key.n \in Nat /\ key.n <= Cardinality(made)
                            /\ key.maker # key.peer
      BY BoundsAssumption DEF KeysInv, TypeOK, SymmetricKeys
    <3>5. QED
      BY <2>2, <3>1, <3>3, <3>4
  <2>3. QED
    BY <2>1, <2>2, MadeMoves
<1>4. ASSUME NEW m \in EveryMail'
      PROVE  /\ m.key \in made' \cup {NoKey} /\ IsFor(m.key, m.fromClient, m.toClient)
             /\ m.type # "REQUEST_SYMMETRIC_KEY" => m.key # NoKey
             /\ IsKeyMail(m) => m.publicKey = m.toClient
  <2>1. CASE m \in EveryMail
    BY <1>1, <2>1 DEF KeysInv
  <2>2. CASE \E r \in MailUnderWay : Like(m, r.mail)
    <3>1. PICK r \in MailUnderWay : Like(m, r.mail)
      BY <2>2
    <3>2. r.mail \in EveryMail
      BY MailIn
    <3>3. QED
      BY <1>1, <3>1, <3>2 DEF KeysInv, Like, IsKeyMail
  <2>3. ASSUME NEW p \in Clients, NEW q \in Clients \ {p}, m \in Mail,
               BeginsKept(p, q, m) \/ BeginsNew(p, q, m)
        PROVE  /\ m.key \in made' \cup {NoKey} /\ IsFor(m.key, m.fromClient, m.toClient)
               /\ m.type # "REQUEST_SYMMETRIC_KEY" => m.key # NoKey
               /\ IsKeyMail(m) => m.publicKey = m.toClient
    BY <2>3, NewMailKeys
  <2>4. QED
    BY <2>1, <2>2, <2>3, EveryMailMoves
<1>5. ASSUME NEW p \in Clients, NEW q \in Clients, Knows(p, q)'
      PROVE  /\ contacts'[p][q].symmetricKey \in made' \cup {NoKey}
             /\ contacts'[p][q].publicKey \in {q, NoKey}
             /\ IsFor(contacts'[p][q].symmetricKey, p, q)
  <2>1. Knows(p, q) => /\ contacts[p][q].symmetricKey \in made \cup {NoKey}
                       /\ contacts[p][q].publicKey \in {q, NoKey}
                       /\ IsFor(contacts[p][q].symmetricKey, p, q)
    BY DEF KeysInv, KeysStayInPair
  <2>2. CASE Knows(p, q) /\ contacts'[p][q] = contacts[p][q]
    BY <1>1, <2>1, <2>2
  <2>3. CASE ~ Knows(p, q) /\ contacts'[p][q] = NewContact
    BY <2>3, IsForPair DEF NewContact
  <2>4. CASE /\ Knows(p, q)
             /\ contacts'[p][q] = [publicKey |-> q, symmetricKey |-> contacts[p][q].symmetricKey]
    BY <1>1, <2>1, <2>4
  <2>5. CASE \E m \in Mail :
               /\ BeginsNew(p, q, m) /\ Knows(p, q) /\ p # q
               /\ contacts'[p][q] = [publicKey |-> contacts[p][q].publicKey,
                                     symmetricKey |-> m.key]
    <3>1. PICK m \in Mail :
            /\ BeginsNew(p, q, m) /\ Knows(p, q) /\ p # q
            /\ contacts'[p][q] = [publicKey |-> contacts[p][q].publicKey,
                                  symmetricKey |-> m.key]
      BY <2>5
    <3>2. m.key \in made' \cup {NoKey} /\ IsFor(m.key, p, q)
      BY <3>1, NewMailKeys
    <3>3. QED
      BY <2>1, <3>1, <3>2
  <2>6. CASE /\ ReceiveMail(p) /\ Knows(p, q)
             /\ contacts'[p][q] = [publicKey |-> contacts[p][q].publicKey,
                                   symmetricKey |-> KeyAt(p, onTheWay[p], q, lastId + 1)]
    <3>1. onTheWay[p] \in SUBSET Mail /\ lastId + 1 \in Nat
      BY DEF TypeOK
    <3>2. \A m \in onTheWay[p] : m \in EveryMail /\ m \in Reached(p) /\ m.toClient = p
      BY MailIn DEF Reached, PostedInv
    <3>3. ASSUME NEW m \in KeyMail(p, onTheWay[p], q, lastId + 1)
          PROVE  m.key \in made \cup {NoKey} /\ IsFor(m.key, p, q)
      BY <3>2, IsForPair DEF KeyMail, KeysInv
    <3>4. /\ KeyAt(p, onTheWay[p], q, lastId + 1) \in made \cup {NoKey}
          /\ IsFor(KeyAt(p, onTheWay[p], q, lastId + 1), p, q)
      BY <2>1, <2>6, <3>1, <3>3, KeyAtIs
    <3>5. QED
      BY <1>1, <2>1, <2>6, <3>4
  <2>7. QED
    BY <1>5, <2>2, <2>3, <2>4, <2>5, <2>6, ContactMoves
<1>6. KeysInv'
  BY <1>2, <1>3, <1>4, <1>5 DEF KeysInv
<1>7. KeysStayInPair'
  <2>1. \A m \in AllMail' : m \in EveryMail'
    BY DEF EveryMail
  <2>2. QED
    BY <1>4, <1>5, <2>1 DEF KeysStayInPair
<1>8. QED
  BY <1>6, <1>7

\* The invariants of the mail and of the keys hold together.
THEOREM Exchange == Spec => []ExchangeInv
<1>1. Init => ExchangeInv /\ IsFiniteSet(made)
  <2> SUFFICES ASSUME Init PROVE ExchangeInv /\ IsFiniteSet(made)
    OBVIOUS
  <2>1. TypeOK /\ IsFiniteSet(made)
    BY FS_EmptySet DEF Init, M!Init, TypeOK, NoContacts, Nothing
  <2>2. /\ waiting = {} /\ offered = {} /\ requests = {} /\ made = {}
        /\ \A p \in Clients : onTheWay[p] = {} /\ received[p] = <<>>
        /\ \A p, q \in Clients : contacts[p][q] = Unknown
    BY DEF Init, M!Init, NoContacts
  <2>3. MailUnderWay = {} /\ \A p \in Clients : Got(p) = {} /\ Reached(p) = {}
    BY <2>2 DEF MailUnderWay, Got, Reached
  <2>4. Posted = {} /\ EveryMail = {} /\ AllMail = {}
    BY <2>2, <2>3 DEF Posted, EveryMail, AllMail
  <2>5. KeysStayInPair /\ KeysInv
    BY <2>1, <2>2, <2>4 DEF KeysStayInPair, KeysInv, Knows
  <2>6. PostedInv
    BY <2>2, <2>3, <2>4 DEF PostedInv
  <2>7. PulledInv
    BY <2>2, <2>3 DEF PulledInv
  <2>8. QED
    BY <2>1, <2>5, <2>6, <2>7 DEF ExchangeInv
<1>2. ExchangeInv /\ [Next]_vars => ExchangeInv'
  BY TypesStep, PostedStep, PulledStep, KeysStep DEF ExchangeInv, TypesInv, KeysInv
<1>3. QED
  BY <1>1, <1>2, PTL DEF Spec

\* A symmetric key is known to the two clients only whose key it is, and no mail to
\* others carries it (SendSymmetricKeyUserCommand and addSymmetricKey).
THEOREM Confined == Spec => []KeysStayInPair
BY Exchange, PTL DEF ExchangeInv

-----------------------------------------------------------------------------
\* The newest key

\* What a client got, dropped and could not decrypt changes when it receives mail.
LEMMA GotMoves ==
  ASSUME TypesInv, [Next]_vars, NEW p \in Clients, ~ ReceiveMail(p)
  PROVE  /\ Got(p)' = Got(p)
         /\ dropped'[p] = dropped[p] /\ undecrypted'[p] = undecrypted[p]
<1> USE DEF TypesInv
<1>1. CASE UNCHANGED <<received, dropped, undecrypted>>
  BY <1>1, GotSame
<1>2. ASSUME NEW z \in Clients, ReceiveMail(z)
      PROVE  /\ Got(p)' = Got(p)
             /\ dropped'[p] = dropped[p] /\ undecrypted'[p] = undecrypted[p]
  <2>1. z # p
    BY <1>2
  <2>2. Got(p)' = Got(p)
    BY <1>2, <2>1, HandlesPulled, GotGrows
  <2>3. /\ dropped \in [Clients -> SUBSET Mail] /\ undecrypted \in [Clients -> SUBSET Mail]
        /\ \E s : dropped' = [dropped EXCEPT ![z] = s]
        /\ \E s : undecrypted' = [undecrypted EXCEPT ![z] = s]
    BY <1>2 DEF TypeOK, ReceiveMail, HandlePulled
  <2>4. QED
    BY <2>1, <2>2, <2>3
<1>3. ASSUME NEW z \in Clients, Restart(z) PROVE UNCHANGED <<received, dropped, undecrypted>>
  BY <1>3, Restarts
<1>4. ASSUME NEW r \in requests, ServeSend(r) \/ ServePull(r) \/ LoseRequest(r)
      PROVE  UNCHANGED <<received, dropped, undecrypted>>
  BY <1>4, Posts, Pulls, Loses DEF memoryVars, mailboxVars
<1>5. CASE DeleteServed \/ KeepServed
  BY <1>1, <1>5, Settles DEF memoryVars
<1>6. ASSUME NEW z \in Clients,
             \/ ClientsListUserCommand(z)
             \/ RequestWaitingMessagesUserCommand(z)
             \/ \E q \in Clients \ {z} : RequestPublicKeyUserCommand(z, q)
      PROVE  UNCHANGED <<received, dropped, undecrypted>>
  BY <1>6 DEF ClientsListUserCommand, RequestWaitingMessagesUserCommand,
              RequestPublicKeyUserCommand, mailboxVars, memoryVars
<1>7. ASSUME NEW z \in Clients, NEW y \in Clients, NEW m \in Mail,
             BeginsKept(z, y, m) \/ BeginsNew(z, y, m)
      PROVE  UNCHANGED <<received, dropped, undecrypted>>
  BY <1>7 DEF BeginsKept, BeginsNew, Begins, mailboxVars
<1>8. CASE UNCHANGED vars
  BY <1>1, <1>8 DEF vars, memoryVars, mailboxVars
<1>9. QED
  BY <1>1, <1>2, <1>3, <1>4, <1>5, <1>6, <1>7, <1>8, Steps

\* Only its restart ends the life of a client, and with it what it knows.
LEMMA LifeMoves ==
  ASSUME TypesInv, [Next]_vars, NEW p \in Clients
  PROVE  /\ Restart(p) \/ deaths'[p] = deaths[p]
         /\ Restart(p) \/ \A q \in Clients : Knows(p, q) => Knows(p, q)'
<1> USE DEF TypesInv
<1>1. CASE UNCHANGED <<contacts, deaths>>
  BY <1>1 DEF Knows
<1>2. ASSUME NEW z \in Clients, ClientsListUserCommand(z)
      PROVE  UNCHANGED deaths /\ \A q \in Clients : Knows(p, q) => Knows(p, q)'
  <2>1. CASE p = z
    BY <1>2, <2>1, Lists DEF callVars
  <2>2. CASE p # z
    BY <1>2, <2>2, Lists DEF callVars, Knows
  <2>3. QED
    BY <2>1, <2>2
<1>3. ASSUME NEW z \in Clients, NEW y \in Clients \ {z}, RequestPublicKeyUserCommand(z, y)
      PROVE  UNCHANGED deaths /\ \A q \in Clients : Knows(p, q) => Knows(p, q)'
  <2>1. /\ contacts' = [contacts EXCEPT ![z] = [@ EXCEPT ![y] =
              [publicKey |-> y, symmetricKey |-> contacts[z][y].symmetricKey]]]
        /\ Knows(z, y)' /\ UNCHANGED deaths
    BY <1>3, RequestsPublicKey DEF callVars
  <2>2. QED
    BY <2>1 DEF TypeOK, Knows
<1>4. ASSUME NEW z \in Clients, NEW y \in Clients \ {z}, NEW m \in Mail, BeginsNew(z, y, m)
      PROVE  UNCHANGED deaths /\ \A q \in Clients : Knows(p, q) => Knows(p, q)'
  <2>1. /\ contacts' = [contacts EXCEPT ![z] = [@ EXCEPT ![y] =
              [publicKey |-> contacts[z][y].publicKey, symmetricKey |-> m.key]]]
        /\ Knows(z, y)' /\ UNCHANGED deaths
    BY <1>4, NewContacts DEF BeginsNew, Begins
  <2>2. QED
    BY <2>1 DEF TypeOK, Knows
<1>5. ASSUME NEW z \in Clients, ReceiveMail(z)
      PROVE  UNCHANGED deaths /\ \A q \in Clients : Knows(p, q) => Knows(p, q)'
  <2>1. /\ contacts' = [contacts EXCEPT ![z] = contacts'[z]] /\ UNCHANGED deaths
        /\ \A y \in Clients : Knows(z, y)' <=> Knows(z, y)
    BY <1>5, HandlesPulled DEF callVars
  <2>2. CASE p = z
    BY <2>1, <2>2
  <2>3. CASE p # z
    BY <2>1, <2>3 DEF TypeOK, Knows
  <2>4. QED
    BY <2>2, <2>3
<1>6. ASSUME NEW z \in Clients, Restart(z), z # p
      PROVE  deaths'[p] = deaths[p] /\ \A q \in Clients : Knows(p, q) => Knows(p, q)'
  BY <1>6, Restarts DEF TypeOK, Knows
<1>7. ASSUME NEW r \in requests, ServeSend(r) \/ ServePull(r) \/ LoseRequest(r)
      PROVE  UNCHANGED <<contacts, deaths>>
  BY <1>7, Posts, Pulls, Loses DEF memoryVars
<1>8. CASE DeleteServed \/ KeepServed
  BY <1>1, <1>8, Settles DEF memoryVars
<1>9. ASSUME NEW z \in Clients, RequestWaitingMessagesUserCommand(z)
      PROVE  UNCHANGED <<contacts, deaths>>
  BY <1>9 DEF RequestWaitingMessagesUserCommand, memoryVars
<1>10. ASSUME NEW z \in Clients, NEW y \in Clients, NEW m \in Mail, BeginsKept(z, y, m)
       PROVE  UNCHANGED <<contacts, deaths>>
  BY <1>10 DEF BeginsKept, Begins
<1>11. CASE UNCHANGED vars
  BY <1>1, <1>11 DEF vars, memoryVars, callVars
<1>12. QED
  BY <1>1, <1>2, <1>3, <1>4, <1>5, <1>6, <1>7, <1>8, <1>9, <1>10, <1>11, Steps

\* The newest mail of a lot is its only one with the largest id.
LEMMA NewestUnique ==
  ASSUME TypeOK, PostedInv, NEW lot \in SUBSET Posted, NEW m \in lot,
         \A x \in lot : x.id <= m.id
  PROVE  Newest(lot) = m
<1>1. \A x \in lot : x.id \in Nat /\ x.id <= lastId
  BY PostedMailType DEF Mail, PostedInv
<1>2. lastId \in Nat /\ lot # {}
  BY DEF TypeOK
<1>3. Newest(lot) \in lot /\ m.id <= Newest(lot).id
  BY <1>1, <1>2, NewestIs
<1>4. Newest(lot).id = m.id
  BY <1>1, <1>3
<1>5. QED
  BY <1>3, <1>4 DEF PostedInv

\* All the keys of a sender in a lot are stored, one after the other.
LEMMA KeysOfLot ==
  ASSUME ExchangeInv, NEW p \in Clients, NEW q \in Clients
  PROVE  /\ KeyMail(p, onTheWay[p], q, lastId + 1)
              = {m \in onTheWay[p] : IsKeyMail(m) /\ m.fromClient = q}
         /\ \A n \in Nat : KeyMail(p, onTheWay[p], q, n)
              = {m \in onTheWay[p] : IsKeyMail(m) /\ m.fromClient = q /\ m.id < n}
<1>1. ASSUME NEW m \in onTheWay[p]
      PROVE  /\ m.id < lastId + 1
             /\ IsKeyMail(m) => m.publicKey = p
  <2>1. m \in Reached(p) /\ m \in Posted /\ m \in EveryMail
    BY MailIn DEF Reached, Posted
  <2>2. m.toClient = p /\ m.id <= lastId /\ m.id \in Nat /\ lastId \in Nat
    BY <2>1, PostedMailType DEF ExchangeInv, PostedInv, Mail, TypeOK
  <2>3. QED
    BY <2>1, <2>2 DEF ExchangeInv, KeysInv
<1>2. QED
  BY <1>1 DEF KeyMail, IsKeyMail, rsa_decrypts

\* Every step leaves each living client with the newest key it got (handleResponse).
LEMMA NewestStep ==
  ASSUME ExchangeInv, IsFiniteSet(made), NewestInv, [Next]_vars
  PROVE  NewestInv'
<1> SUFFICES ASSUME NEW p \in Clients, NEW q \in Clients, deaths'[p] = 0,
                    KeysGot(p, q)' # {}, KeysGot(p, q)' \cap dropped'[p] = {}
             PROVE  /\ Knows(p, q)'
                    /\ contacts'[p][q].symmetricKey = Newest(KeysGot(p, q)').key
  BY DEF NewestInv
<1>1. TypesInv /\ TypeOK /\ PostedInv
  BY DEF ExchangeInv, TypesInv
<1>2. ~ Restart(p)
  <2>1. Restart(p) => deaths'[p] = deaths[p] + 1 /\ deaths[p] \in Nat
    BY <1>1, Restarts
  <2>2. QED
    BY <2>1
<1>3. deaths[p] = 0 /\ (Knows(p, q) => Knows(p, q)')
  BY <1>1, <1>2, LifeMoves
<1>4. CASE ReceiveMail(p)
  <2>1. /\ onTheWay[p] \in SUBSET Mail /\ lastId + 1 \in Nat
        /\ received' = [received EXCEPT ![p] = Append(@, onTheWay[p])]
        /\ Knows(p, q)' <=> Knows(p, q)
        /\ Knows(p, q) => contacts'[p][q] = [contacts[p][q] EXCEPT !.symmetricKey =
                                               KeyAt(p, onTheWay[p], q, lastId + 1)]
        /\ dropped' = [dropped EXCEPT ![p] = @ \cup
              {m \in onTheWay[p] : ~ Knows(p, m.fromClient)}]
    BY <1>1, <1>4, HandlesPulled DEF TypeOK
  <2>2. dropped'[p] = dropped[p] \cup {m \in onTheWay[p] : ~ Knows(p, m.fromClient)}
    BY <1>1, <2>1 DEF TypeOK
  <2>3. Got(p)' = Got(p) \cup onTheWay[p]
    BY <1>1, <2>1, GotGrows
  <2>4. DEFINE keys == {m \in onTheWay[p] : IsKeyMail(m) /\ m.fromClient = q}
  <2>5. KeysGot(p, q)' = KeysGot(p, q) \cup keys
    BY <2>3 DEF KeysGot, IsKeyMail
  <2>6. KeyMail(p, onTheWay[p], q, lastId + 1) = keys
    BY KeysOfLot
  <2>7. Knows(p, q) => contacts[p][q] \in Contacts
    BY <1>1, ContactOf
  <2>8. Knows(p, q) => contacts'[p][q].symmetricKey = KeyAt(p, onTheWay[p], q, lastId + 1)
    BY <2>1, <2>7 DEF Contacts
  <2>9. CASE keys = {}
    <3>1. KeysGot(p, q)' = KeysGot(p, q)
      BY <2>5, <2>9
    <3>2. KeysGot(p, q) # {} /\ KeysGot(p, q) \cap dropped[p] = {}
      BY <2>2, <3>1
    <3>3. Knows(p, q) /\ contacts[p][q].symmetricKey = Newest(KeysGot(p, q)).key
      BY <1>3, <3>2 DEF NewestInv
    <3>4. KeyAt(p, onTheWay[p], q, lastId + 1) = contacts[p][q].symmetricKey
      BY <2>6, <2>9 DEF KeyAt
    <3>5. QED
      BY <1>3, <2>8, <3>1, <3>3, <3>4
  <2>10. CASE keys # {}
    <3>1. Knows(p, q)
      BY <2>2, <2>5, <2>10
    <3>2. PICK n \in keys : /\ KeyAt(p, onTheWay[p], q, lastId + 1) = n.key
                            /\ \A x \in keys : x.id <= n.id
      BY <1>1, <2>1, <2>6, <2>10, KeyAtIs
    <3>3. ASSUME NEW x \in KeysGot(p, q) PROVE x.id <= n.id
      <4>1. x \in Got(p) /\ IsKeyMail(x) /\ x.fromClient = q /\ n \in onTheWay[p]
        BY DEF KeysGot
      <4>2. x \in Posted /\ n \in Posted
        BY <4>1 DEF Posted, Reached
      <4>3. x.id \in Nat /\ n.id \in Nat
        BY <1>1, <4>2, PostedMailType DEF Mail
      <4>4. CASE n.id < x.id
        <5>1. x \in onTheWay[p]
          BY <4>1, <4>4 DEF ExchangeInv, PulledInv
        <5>2. QED
          BY <3>2, <4>1, <5>1
      <4>5. QED
        BY <4>3, <4>4
    <3>4. KeysGot(p, q)' \in SUBSET Posted
      BY <2>5 DEF KeysGot, Posted, Reached
    <3>5. n \in KeysGot(p, q)' /\ \A x \in KeysGot(p, q)' : x.id <= n.id
      BY <2>5, <3>2, <3>3
    <3>6. Newest(KeysGot(p, q)') = n
      <4> DEFINE lot == KeysGot(p, q)'
      <4>1. lot \in SUBSET Posted /\ n \in lot /\ \A x \in lot : x.id <= n.id
        BY <3>4, <3>5
      <4> HIDE DEF lot
      <4>2. Newest(lot) = n
        BY <1>1, <4>1, NewestUnique
      <4>3. QED
        BY <4>2 DEF lot
    <3>7. QED
      BY <1>3, <2>8, <3>1, <3>2, <3>6
  <2>11. QED
    BY <2>9, <2>10
<1>5. CASE ~ ReceiveMail(p)
  <2>1. KeysGot(p, q)' = KeysGot(p, q) /\ dropped'[p] = dropped[p]
    BY <1>1, <1>5, GotMoves DEF KeysGot, IsKeyMail
  <2>2. Knows(p, q) /\ contacts[p][q].symmetricKey = Newest(KeysGot(p, q)).key
    BY <1>3, <2>1 DEF NewestInv
  <2>3. contacts[p][q].symmetricKey # NoKey
    <3>1. KeysGot(p, q) \in SUBSET Posted /\ KeysGot(p, q) # {}
      BY <2>1 DEF KeysGot, Posted, Reached
    <3>2. \A x \in KeysGot(p, q) : x.id \in Nat /\ x.id <= lastId
      BY <1>1, <3>1, PostedMailType DEF Mail, PostedInv
    <3>3. Newest(KeysGot(p, q)) \in KeysGot(p, q)
      <4> DEFINE lot == KeysGot(p, q)
      <4>1. lot # {} /\ lastId \in Nat /\ \A x \in lot : x.id \in Nat /\ x.id <= lastId
        BY <1>1, <3>1, <3>2 DEF TypeOK
      <4> HIDE DEF lot
      <4>2. Newest(lot) \in lot
        BY <4>1, NewestIs
      <4>3. QED
        BY <4>2 DEF lot
    <3>4. PICK x \in KeysGot(p, q) : contacts[p][q].symmetricKey = x.key
      BY <2>2, <3>3
    <3>5. x \in EveryMail /\ IsKeyMail(x)
      BY MailIn DEF KeysGot, Reached
    <3>6. x.key # NoKey
      BY <3>5 DEF ExchangeInv, KeysInv, IsKeyMail
    <3>7. QED
      BY <3>4, <3>6
  <2>4. contacts'[p][q].symmetricKey = contacts[p][q].symmetricKey
    <3>1. ASSUME NEW m \in Mail, BeginsNew(p, q, m) PROVE FALSE
      BY <2>3, <3>1 DEF BeginsNew
    <3>2. Knows(p, q)'
      BY <1>3, <2>2
    <3>3. \/ contacts'[p][q] = contacts[p][q]
          \/ contacts'[p][q] = [publicKey |-> q, symmetricKey |-> contacts[p][q].symmetricKey]
      BY <1>1, <1>5, <2>2, <3>1, <3>2, ContactMoves
    <3>4. QED
      BY <3>3
  <2>5. QED
    BY <1>3, <2>1, <2>2, <2>4
<1>6. QED
  BY <1>4, <1>5

\* While it lives, a client keeps the newest of the keys that it got.
THEOREM KeepsNewest == Spec => []NewestInv
<1>1. Init => NewestInv
  <2>1. Init => \A p \in Clients : Got(p) = {}
    BY DEF Init, M!Init, Got
  <2>2. QED
    BY <2>1 DEF NewestInv, KeysGot
<1>2. ExchangeInv /\ TypesInv /\ NewestInv /\ [Next]_vars => NewestInv'
  BY NewestStep DEF TypesInv
<1>3. QED
  BY <1>1, <1>2, Exchange, Types, PTL DEF Spec

\* Of the keys that a client got from a contact it keeps the one sent last, also where
\* the server delivers older ones again (handleResponse of a pull, addSymmetricKey).
THEOREM NewestKey == Spec => []NewestKeyWins
<1>1. NewestInv => NewestKeyWins
  BY DEF NewestInv, NewestKeyWins
<1>2. QED
  BY <1>1, KeepsNewest, PTL

-----------------------------------------------------------------------------
\* What a client has had

\* The parts of the invariant.
LEMMA Basics ==
  ASSUME ExchangeInv
  PROVE  TypesInv /\ TypeOK /\ PostedInv /\ PulledInv /\ KeysInv /\ KeysStayInPair
  BY DEF ExchangeInv, TypesInv, KeysInv

\* The keys that were made
LEMMA MadeKey ==
  ASSUME ExchangeInv, NEW key \in made
  PROVE  /\ key \in SymmetricKeys /\ key.maker \in Clients /\ key.peer \in Clients
         /\ key # NoKey /\ key.maker # key.peer
  BY Basics, NoKeyAssumption DEF TypeOK, SymmetricKeys, KeysInv

\* A key that is made is none of those that were.
LEMMA NewKeyFresh ==
  ASSUME ExchangeInv, NEW p \in Clients, NEW q \in Clients \ {p}, NEW m \in Mail,
         BeginsNew(p, q, m)
  PROVE  m.key \notin made
<1>1. m.key.n = Cardinality(made) + 1 /\ Cardinality(made) \in Nat
  BY Basics, NewContacts
<1>2. QED
  BY <1>1, Basics DEF KeysInv

\* Mail that carries a key and is on its way is stored, or dropped.
LEMMA KeyArrives ==
  ASSUME ExchangeInv, NEW p \in Clients, NEW m \in onTheWay[p], IsKeyMail(m), ReceiveMail(p)
  PROVE  m \in dropped'[p] \/ HasSymmetricKey(p, m.fromClient)'
<1> DEFINE q == m.fromClient
<1>1. /\ onTheWay[p] \in SUBSET Mail /\ lastId + 1 \in Nat /\ q \in Clients
      /\ Knows(p, q)' <=> Knows(p, q)
      /\ Knows(p, q) => contacts'[p][q] = [contacts[p][q] EXCEPT !.symmetricKey =
                                             KeyAt(p, onTheWay[p], q, lastId + 1)]
      /\ dropped' = [dropped EXCEPT ![p] = @ \cup
            {x \in onTheWay[p] : ~ Knows(p, x.fromClient)}]
  <2>1. onTheWay[p] \in SUBSET Mail /\ lastId + 1 \in Nat
    BY Basics DEF TypeOK
  <2>2. q \in Clients
    BY <2>1 DEF Mail
  <2>3. QED
    BY <2>1, <2>2, Basics, HandlesPulled
<1>2. CASE ~ Knows(p, q)
  BY <1>1, <1>2, Basics DEF TypeOK
<1>3. CASE Knows(p, q)
  <2>1. m \in KeyMail(p, onTheWay[p], q, lastId + 1)
    BY <1>1, KeysOfLot
  <2>2. PICK n \in KeyMail(p, onTheWay[p], q, lastId + 1) :
          KeyAt(p, onTheWay[p], q, lastId + 1) = n.key
    BY <1>1, <2>1, Basics, KeyAtIs
  <2>3. n \in EveryMail /\ n.type = "SEND_SYMMETRIC_KEY"
    BY MailIn DEF KeyMail, Reached
  <2>4. n.key # NoKey
    BY <2>3, Basics DEF KeysInv
  <2>5. contacts'[p][q].symmetricKey = n.key
    BY <1>1, <1>3, <2>2, Basics, ContactOf DEF Contacts
  <2>6. QED
    BY <1>1, <1>3, <2>4, <2>5 DEF HasSymmetricKey
<1>4. QED
  BY <1>2, <1>3

\* The key that p keeps for q when it received mail is the one it had, or one that q
\* sent and that is in the mail.
LEMMA KeyAtFrom ==
  ASSUME ExchangeInv, NEW p \in Clients, NEW q \in Clients, NEW n \in Nat
  PROVE  \/ /\ KeyAt(p, onTheWay[p], q, n) = contacts[p][q].symmetricKey
            /\ \A m \in onTheWay[p] : IsKeyMail(m) /\ m.fromClient = q => ~ (m.id < n)
         \/ \E m \in onTheWay[p] :
              /\ KeyAt(p, onTheWay[p], q, n) = m.key /\ m.key # NoKey /\ m.key \in made
              /\ IsKeyMail(m) /\ m.fromClient = q /\ m.toClient = p /\ m \in EveryMail
<1>1. onTheWay[p] \in SUBSET Mail
  BY Basics DEF TypeOK
<1>2. KeyMail(p, onTheWay[p], q, n)
        = {m \in onTheWay[p] : IsKeyMail(m) /\ m.fromClient = q /\ m.id < n}
  BY KeysOfLot
<1>3. ASSUME NEW m \in onTheWay[p], IsKeyMail(m)
      PROVE  m.key # NoKey /\ m.key \in made /\ m.toClient = p /\ m \in EveryMail
  <2>1. m \in EveryMail /\ m \in Reached(p)
    BY MailIn DEF Reached
  <2>2. QED
    BY <1>3, <2>1, Basics DEF KeysInv, PostedInv, IsKeyMail
<1>4. QED
  BY <1>1, <1>2, <1>3, Basics, KeyAtIs

\* A client that lives keeps a key for a contact once it has one.
LEMMA HadStays ==
  ASSUME ExchangeInv, [Next]_vars, NEW p \in Clients, NEW q \in Clients, HasHad(p, q)
  PROVE  HasHad(p, q)'
<1>1. CASE Restart(p)
  <2>1. deaths'[p] = deaths[p] + 1 /\ deaths[p] \in Nat
    BY <1>1, Basics, Restarts
  <2>2. QED
    BY <2>1 DEF HasHad
<1>2. CASE ~ Restart(p) /\ deaths[p] > 0
  BY <1>2, Basics, LifeMoves DEF HasHad
<1>3. CASE ~ Restart(p) /\ HasSymmetricKey(p, q)
  <2>1. /\ Knows(p, q) /\ Knows(p, q)'
        /\ contacts[p][q].symmetricKey # NoKey
    BY <1>3, Basics, LifeMoves DEF HasSymmetricKey
  <2>2. lastId + 1 \in Nat
    BY Basics DEF TypeOK
  <2>3. KeyAt(p, onTheWay[p], q, lastId + 1) # NoKey
    BY <2>1, <2>2, KeyAtFrom
  <2>4. ASSUME NEW m \in Mail, BeginsNew(p, q, m) PROVE FALSE
    BY <2>1, <2>4 DEF BeginsNew
  <2>5. \/ contacts'[p][q] = contacts[p][q]
        \/ contacts'[p][q] = [publicKey |-> q, symmetricKey |-> contacts[p][q].symmetricKey]
        \/ contacts'[p][q] = [publicKey |-> contacts[p][q].publicKey,
                              symmetricKey |-> KeyAt(p, onTheWay[p], q, lastId + 1)]
    BY <2>1, <2>4, Basics, ContactMoves
  <2>6. contacts'[p][q].symmetricKey # NoKey
    BY <2>1, <2>3, <2>5
  <2>7. QED
    BY <2>1, <2>6 DEF HasHad, HasSymmetricKey
<1>4. QED
  BY <1>1, <1>2, <1>3 DEF HasHad

\* A client that has not had a key for q makes none for it, and drops those it gets.
LEMMA NotHad ==
  ASSUME ExchangeInv, [Next]_vars, NEW p \in Clients, NEW q \in Clients, ~ HasHad(p, q)'
  PROVE  /\ ~ HasHad(p, q) /\ ~ Restart(p) /\ deaths[p] = 0
         /\ ~ HasSymmetricKey(p, q)
         /\ \A m \in Mail : p # q => ~ BeginsNew(p, q, m)
         /\ ReceiveMail(p) => \A m \in onTheWay[p] :
              IsKeyMail(m) /\ m.fromClient = q => m \in dropped'[p]
<1>1. ~ HasHad(p, q)
  BY HadStays
<1>2. deaths[p] = 0 /\ ~ HasSymmetricKey(p, q)
  BY <1>1, Basics DEF HasHad, TypeOK
<1>3. ~ Restart(p)
  <2>1. Restart(p) => deaths'[p] = deaths[p] + 1
    BY Basics, Restarts
  <2>2. QED
    BY <1>2, <2>1 DEF HasHad
<1>4. ASSUME NEW m \in Mail, p # q, BeginsNew(p, q, m) PROVE FALSE
  <2>1. Knows(p, q)' /\ contacts'[p][q].symmetricKey = m.key /\ m.key # NoKey
    BY <1>4, Basics, NewContacts
  <2>2. QED
    BY <2>1 DEF HasHad, HasSymmetricKey
<1>5. ASSUME ReceiveMail(p), NEW m \in onTheWay[p], IsKeyMail(m), m.fromClient = q
      PROVE  m \in dropped'[p]
  BY <1>5, KeyArrives DEF HasHad
<1>6. QED
  BY <1>1, <1>2, <1>3, <1>4, <1>5

-----------------------------------------------------------------------------
\* What becomes of the mail that brings a key

\* What was lost or dropped stays so.
LEMMA MissedStays ==
  ASSUME ExchangeInv, [Next]_vars
  PROVE  lost \subseteq lost' /\ \A p \in Clients : dropped[p] \subseteq dropped'[p]
<1>1. ASSUME NEW p \in Clients PROVE dropped[p] \subseteq dropped'[p]
  <2>1. CASE ReceiveMail(p)
    BY <2>1, Basics, HandlesPulled DEF TypeOK
  <2>2. CASE ~ ReceiveMail(p)
    BY <2>2, Basics, GotMoves
  <2>3. QED
    BY <2>1, <2>2
<1>2. lost \subseteq lost'
  <2>1. ASSUME NEW p \in Clients,
               \/ ClientsListUserCommand(p)
               \/ RequestWaitingMessagesUserCommand(p)
               \/ \E q \in Clients \ {p} : RequestPublicKeyUserCommand(p, q)
        PROVE  UNCHANGED lost
    BY <2>1 DEF ClientsListUserCommand, RequestWaitingMessagesUserCommand,
                RequestPublicKeyUserCommand, callVars
  <2>2. ASSUME NEW p \in Clients, NEW q \in Clients, NEW m \in Mail,
               BeginsKept(p, q, m) \/ BeginsNew(p, q, m)
        PROVE  UNCHANGED lost
    BY <2>2 DEF BeginsKept, BeginsNew, Begins
  <2>3. ASSUME NEW p \in Clients, ReceiveMail(p) PROVE UNCHANGED lost
    BY <2>3, Basics, HandlesPulled DEF callVars
  <2>4. ASSUME NEW p \in Clients, Restart(p) PROVE UNCHANGED lost
    BY <2>4, Basics, Restarts
  <2>5. ASSUME NEW r \in requests, ServeSend(r) \/ ServePull(r) PROVE UNCHANGED lost
    BY <2>5, Basics, Posts, Pulls
  <2>6. ASSUME NEW r \in requests, LoseRequest(r) PROVE lost \subseteq lost'
    BY <2>6, Basics, Loses
  <2>7. CASE DeleteServed \/ KeepServed
    BY <2>7, Settles
  <2>8. CASE UNCHANGED vars
    BY <2>8 DEF vars, callVars
  <2>9. QED
    BY <2>1, <2>2, <2>3, <2>4, <2>5, <2>6, <2>7, <2>8, Basics, Steps
<1>3. QED
  BY <1>1, <1>2

\* What is on its way to a client stays so until it receives it, or dies; what waits
\* for it is handed over where nothing is on its way.
LEMMA OnTheWayMoves ==
  ASSUME ExchangeInv, [Next]_vars, NEW p \in Clients
  PROVE  \/ onTheWay'[p] = onTheWay[p]
         \/ (ReceiveMail(p) \/ Restart(p)) /\ onTheWay'[p] = {}
         \/ onTheWay[p] = {} /\ onTheWay'[p] = WaitingFor(p)
<1>1. onTheWay \in [Clients -> SUBSET Mail]
  BY Basics DEF TypeOK
<1>2. ASSUME NEW z \in Clients, ReceiveMail(z) \/ Restart(z)
      PROVE  onTheWay'[p] = IF z = p THEN {} ELSE onTheWay[p]
  <2>1. onTheWay' = [onTheWay EXCEPT ![z] = {}]
    <3>1. CASE ReceiveMail(z)
      BY <3>1, Basics, HandlesPulled
    <3>2. CASE Restart(z)
      BY <3>2, Basics, Restarts
    <3>3. QED
      BY <1>2, <3>1, <3>2
  <2>2. QED
    BY <1>1, <2>1
<1>3. ASSUME NEW r \in requests, ServePull(r)
      PROVE  \/ onTheWay'[p] = onTheWay[p]
             \/ onTheWay[p] = {} /\ onTheWay'[p] = WaitingFor(p)
  BY <1>1, <1>3, Basics, Pulls
<1>4. ASSUME NEW r \in requests, ServeSend(r) \/ LoseRequest(r) PROVE UNCHANGED onTheWay
  BY <1>4, Basics, Posts, Loses DEF mailboxVars
<1>5. CASE DeleteServed \/ KeepServed
  BY <1>5, Settles
<1>6. ASSUME NEW z \in Clients,
             \/ ClientsListUserCommand(z)
             \/ RequestWaitingMessagesUserCommand(z)
             \/ \E q \in Clients \ {z} : RequestPublicKeyUserCommand(z, q)
      PROVE  UNCHANGED onTheWay
  BY <1>6 DEF ClientsListUserCommand, RequestWaitingMessagesUserCommand,
              RequestPublicKeyUserCommand, mailboxVars
<1>7. ASSUME NEW z \in Clients, NEW y \in Clients, NEW m \in Mail,
             BeginsKept(z, y, m) \/ BeginsNew(z, y, m)
      PROVE  UNCHANGED onTheWay
  BY <1>7 DEF BeginsKept, BeginsNew, Begins, mailboxVars
<1>8. CASE UNCHANGED vars
  BY <1>8 DEF vars, mailboxVars
<1>9. QED
  BY <1>2, <1>3, <1>4, <1>5, <1>6, <1>7, <1>8, Basics, Steps

\* What waits is what waited, and what is posted.
LEMMA WaitingMoves ==
  ASSUME ExchangeInv, [Next]_vars
  PROVE  /\ \A m \in waiting : m \in waiting' \/ m \in offered
         /\ \A m \in waiting' : \/ m \in waiting
                                \/ \E r \in MailUnderWay : Like(m, r.mail) /\ m.id = lastId + 1
<1>1. CASE UNCHANGED waiting
  BY <1>1
<1>2. ASSUME NEW r \in requests, ServeSend(r)
      PROVE  \E m \in Mail : \E x \in MailUnderWay :
               waiting' = waiting \cup {m} /\ Like(m, x.mail) /\ m.id = lastId + 1
  BY <1>2, Basics, Posts DEF Like
<1>3. CASE DeleteServed \/ KeepServed
  BY <1>3, Settles
<1>4. ASSUME NEW r \in requests, ServePull(r) \/ LoseRequest(r) PROVE UNCHANGED waiting
  BY <1>4, Basics, Pulls, Loses DEF mailboxVars
<1>5. ASSUME NEW z \in Clients, ReceiveMail(z) \/ Restart(z) PROVE UNCHANGED waiting
  BY <1>5, Basics, HandlesPulled, Restarts
<1>6. ASSUME NEW z \in Clients,
             \/ ClientsListUserCommand(z)
             \/ RequestWaitingMessagesUserCommand(z)
             \/ \E q \in Clients \ {z} : RequestPublicKeyUserCommand(z, q)
      PROVE  UNCHANGED waiting
  BY <1>6 DEF ClientsListUserCommand, RequestWaitingMessagesUserCommand,
              RequestPublicKeyUserCommand, mailboxVars
<1>7. ASSUME NEW z \in Clients, NEW y \in Clients, NEW m \in Mail,
             BeginsKept(z, y, m) \/ BeginsNew(z, y, m)
      PROVE  UNCHANGED waiting
  BY <1>7 DEF BeginsKept, BeginsNew, Begins, mailboxVars
<1>8. CASE UNCHANGED vars
  BY <1>8 DEF vars, mailboxVars
<1>9. ASSUME NEW r \in requests, ServeSend(r)
      PROVE  /\ \A m \in waiting : m \in waiting'
             /\ \A m \in waiting' : \/ m \in waiting
                                    \/ \E x \in MailUnderWay : Like(m, x.mail) /\ m.id = lastId + 1
  BY <1>2, <1>9
<1>10. QED
  BY <1>1, <1>3, <1>4, <1>5, <1>6, <1>7, <1>8, <1>9, Basics, Steps

\* A request with mail is posted or lost, and none begins but with new mail.
LEMMA UnderWayMoves ==
  ASSUME ExchangeInv, [Next]_vars
  PROVE  /\ \A r \in MailUnderWay : \/ r \in MailUnderWay'
                                    \/ \E m \in waiting' : Like(m, r.mail)
                                    \/ r.mail \in lost'
         /\ \A r \in MailUnderWay' :
              \/ r \in MailUnderWay
              \/ \E p \in Clients : \E q \in Clients \ {p} : \E m \in Mail :
                   r.mail = m /\ (BeginsKept(p, q, m) \/ BeginsNew(p, q, m))
<1>1. CASE UNCHANGED requests
  <2>1. UNCHANGED MailUnderWay
    BY <1>1 DEF MailUnderWay
  <2>2. QED
    BY <2>1
<1>2. ASSUME NEW r \in requests, ServeSend(r) \/ ServePull(r) \/ LoseRequest(r)
      PROVE  /\ requests' = requests \ {r}
             /\ r \in MailUnderWay => (\E m \in waiting' : Like(m, r.mail)) \/ r.mail \in lost'
  <2>1. CASE ServeSend(r)
    BY <2>1, Basics, Posts DEF Like
  <2>2. CASE ServePull(r)
    BY <2>2, Basics, Pulls
  <2>3. CASE LoseRequest(r)
    BY <2>3, Basics, Loses
  <2>4. QED
    BY <1>2, <2>1, <2>2, <2>3
<1>3. ASSUME NEW r \in requests, requests' = requests \ {r}
      PROVE  /\ MailUnderWay' \subseteq MailUnderWay
             /\ \A x \in MailUnderWay : x \in MailUnderWay' \/ x = r
  BY <1>3 DEF MailUnderWay
<1>4. CASE DeleteServed \/ KeepServed
  BY <1>1, <1>4, Settles
<1>5. ASSUME NEW z \in Clients, ReceiveMail(z) \/ Restart(z) PROVE UNCHANGED requests
  BY <1>5, Basics, HandlesPulled, Restarts DEF callVars
<1>6. ASSUME NEW z \in Clients, RequestWaitingMessagesUserCommand(z)
      PROVE  MailUnderWay' = MailUnderWay
  BY <1>6 DEF RequestWaitingMessagesUserCommand, MailUnderWay
<1>7. ASSUME NEW z \in Clients,
             \/ ClientsListUserCommand(z)
             \/ \E q \in Clients \ {z} : RequestPublicKeyUserCommand(z, q)
      PROVE  UNCHANGED requests
  BY <1>7 DEF ClientsListUserCommand, RequestPublicKeyUserCommand, callVars
<1>8. ASSUME NEW z \in Clients, NEW y \in Clients \ {z}, NEW m \in Mail,
             BeginsKept(z, y, m) \/ BeginsNew(z, y, m)
      PROVE  /\ MailUnderWay \subseteq MailUnderWay'
             /\ \A r \in MailUnderWay' : r \in MailUnderWay \/ r.mail = m
  BY <1>8 DEF BeginsKept, BeginsNew, Begins, MailUnderWay
<1>9. CASE UNCHANGED vars
  BY <1>1, <1>9 DEF vars, callVars
<1>10. CASE \E r \in requests : ServeSend(r) \/ ServePull(r) \/ LoseRequest(r)
  <2>1. PICK r \in requests : ServeSend(r) \/ ServePull(r) \/ LoseRequest(r)
    BY <1>10
  <2>2. /\ requests' = requests \ {r}
        /\ r \in MailUnderWay => (\E m \in waiting' : Like(m, r.mail)) \/ r.mail \in lost'
    BY <1>2, <2>1
  <2>3. /\ MailUnderWay' \subseteq MailUnderWay
        /\ \A x \in MailUnderWay : x \in MailUnderWay' \/ x = r
    BY <1>3, <2>2
  <2>4. ASSUME NEW x \in MailUnderWay
        PROVE  \/ x \in MailUnderWay'
               \/ \E m \in waiting' : Like(m, x.mail)
               \/ x.mail \in lost'
    <3>1. CASE x = r
      BY <2>2, <3>1
    <3>2. QED
      BY <2>3, <3>1
  <2>5. QED
    BY <2>3, <2>4
<1>11. CASE \E z \in Clients : \E y \in Clients \ {z} : \E m \in Mail :
              BeginsKept(z, y, m) \/ BeginsNew(z, y, m)
  BY <1>8, <1>11
<1>12. QED
  BY <1>1, <1>4, <1>5, <1>6, <1>7, <1>9, <1>10, <1>11, Basics, Steps

\* What is to be removed is on its way, unless the client that pulled it died.
LEMMA OfferedMoves ==
  ASSUME ExchangeInv, [Next]_vars, NEW m \in offered'
  PROVE  m \in offered \/ m \in onTheWay'[m.toClient] \/ deaths[m.toClient] > 0
<1>1. CASE UNCHANGED offered
  BY <1>1
<1>2. ASSUME NEW r \in requests, ServePull(r)
      PROVE  m \in offered \/ m \in onTheWay'[m.toClient] \/ deaths[m.toClient] > 0
  <2>1. CASE offered' = offered
    BY <2>1
  <2>2. CASE /\ offered' = WaitingFor(r.from)
             /\ onTheWay'[r.from] = WaitingFor(r.from) \/ r.life # deaths[r.from]
    <3>1. m \in WaitingFor(r.from) /\ m.toClient = r.from
      BY <2>2 DEF WaitingFor
    <3>2. /\ r.life \in Nat /\ deaths[r.from] \in Nat /\ r.life <= deaths[r.from]
      BY Basics, RequestOf DEF TypeOK, PostedInv
    <3>3. r.life # deaths[r.from] => deaths[r.from] > 0
      BY <3>2
    <3>4. QED
      BY <2>2, <3>1, <3>3
  <2>3. QED
    BY <1>2, <2>1, <2>2, Basics, Pulls
<1>3. ASSUME NEW r \in requests, ServeSend(r) \/ LoseRequest(r) PROVE UNCHANGED offered
  BY <1>3, Basics, Posts, Loses DEF mailboxVars
<1>4. CASE DeleteServed \/ KeepServed
  BY <1>4, Settles
<1>5. ASSUME NEW z \in Clients, ReceiveMail(z) \/ Restart(z) PROVE UNCHANGED offered
  BY <1>5, Basics, HandlesPulled, Restarts
<1>6. ASSUME NEW z \in Clients,
             \/ ClientsListUserCommand(z)
             \/ RequestWaitingMessagesUserCommand(z)
             \/ \E q \in Clients \ {z} : RequestPublicKeyUserCommand(z, q)
      PROVE  UNCHANGED offered
  BY <1>6 DEF ClientsListUserCommand, RequestWaitingMessagesUserCommand,
              RequestPublicKeyUserCommand, mailboxVars
<1>7. ASSUME NEW z \in Clients, NEW y \in Clients, NEW x \in Mail,
             BeginsKept(z, y, x) \/ BeginsNew(z, y, x)
      PROVE  UNCHANGED offered
  BY <1>7 DEF BeginsKept, BeginsNew, Begins, mailboxVars
<1>8. CASE UNCHANGED vars
  BY <1>8 DEF vars, mailboxVars
<1>9. QED
  BY <1>1, <1>2, <1>3, <1>4, <1>5, <1>6, <1>7, <1>8, Basics, Steps

-----------------------------------------------------------------------------
\* Causes

\* Every step leaves a pair's keys with their maker until the other has had one.
LEMMA OneSidedStep ==
  ASSUME ExchangeInv, [Next]_vars, OneSidedInv
  PROVE  OneSidedInv'
<1> SUFFICES ASSUME NEW p \in Clients, NEW q \in Clients, p # q, ~ HasHad(p, q)'
             PROVE  OneSided(p, q)'
  BY DEF OneSidedInv
<1>1. /\ ~ HasHad(p, q) /\ ~ HasSymmetricKey(p, q)
      /\ \A m \in Mail : ~ BeginsNew(p, q, m)
  BY NotHad
<1>2. OneSided(p, q)
  BY <1>1 DEF OneSidedInv
<1>3. ASSUME NEW key \in made', key.maker = p, key.peer = q PROVE FALSE
  <2>1. CASE key \in made
    BY <1>2, <1>3, <2>1 DEF OneSided
  <2>2. ASSUME NEW a \in Clients, NEW b \in Clients \ {a}, NEW m \in Mail,
               BeginsNew(a, b, m), key = m.key
        PROVE  FALSE
    <3>1. m.key.maker = a /\ m.key.peer = b
      BY <2>2, Basics, NewContacts
    <3>2. QED
      BY <1>1, <1>3, <2>2, <3>1
  <2>3. QED
    BY <2>1, <2>2, Basics, MadeMoves
<1>4. ASSUME NEW m \in EveryMail', m.fromClient = p, m.toClient = q PROVE m.key = NoKey
  <2>1. CASE m \in EveryMail
    BY <1>2, <1>4, <2>1 DEF OneSided
  <2>2. CASE \E r \in MailUnderWay : Like(m, r.mail)
    <3>1. PICK r \in MailUnderWay : Like(m, r.mail)
      BY <2>2
    <3>2. r.mail \in EveryMail
      BY MailIn
    <3>3. QED
      BY <1>2, <1>4, <3>1, <3>2 DEF OneSided, Like
  <2>3. ASSUME NEW a \in Clients, NEW b \in Clients \ {a}, m \in Mail,
               BeginsKept(a, b, m) \/ BeginsNew(a, b, m)
        PROVE  m.key = NoKey
    <3>1. a = p /\ b = q
      BY <1>4, <2>3 DEF BeginsKept, BeginsNew, Begins
    <3>2. BeginsKept(p, q, m)
      BY <1>1, <2>3, <3>1
    <3>3. QED
      BY <1>1, <3>2 DEF BeginsKept
  <2>4. QED
    BY <2>1, <2>2, <2>3, Basics, EveryMailMoves
<1>5. ASSUME HasSymmetricKey(q, p)' PROVE contacts'[q][p].symmetricKey.maker = q
  <2>1. Knows(q, p)' /\ contacts'[q][p].symmetricKey # NoKey
    BY <1>5 DEF HasSymmetricKey
  <2>2. CASE Knows(q, p) /\ contacts'[q][p].symmetricKey = contacts[q][p].symmetricKey
    BY <1>2, <2>1, <2>2 DEF OneSided, HasSymmetricKey
  <2>3. ASSUME NEW m \in Mail, BeginsNew(q, p, m)
        PROVE  contacts'[q][p].symmetricKey.maker = q
    BY <2>3, Basics, NewContacts
  <2>4. KeyAt(q, onTheWay[q], p, lastId + 1) = contacts[q][p].symmetricKey
    <3>1. lastId + 1 \in Nat
      BY Basics DEF TypeOK
    <3>2. ASSUME NEW m \in onTheWay[q], m.key # NoKey, m.fromClient = p, m.toClient = q,
                 m \in EveryMail
          PROVE  FALSE
      BY <1>2, <3>2 DEF OneSided
    <3>3. QED
      BY <3>1, <3>2, KeyAtFrom
  <2>5. CASE ~ Knows(q, p) /\ contacts'[q][p] = NewContact
    BY <2>1, <2>5 DEF NewContact
  <2>6. CASE contacts'[q][p] = [publicKey |-> p, symmetricKey |-> contacts[q][p].symmetricKey] /\ Knows(q, p)
    BY <2>2, <2>6
  <2>7. CASE /\ ReceiveMail(q) /\ Knows(q, p)
             /\ contacts'[q][p] = [publicKey |-> contacts[q][p].publicKey,
                                   symmetricKey |-> KeyAt(q, onTheWay[q], p, lastId + 1)]
    BY <2>2, <2>4, <2>7
  <2>8. QED
    BY <2>1, <2>2, <2>3, <2>5, <2>6, <2>7, Basics, ContactMoves
<1>6. QED
  BY <1>3, <1>4, <1>5 DEF OneSided

\* Every step leaves a key that is to be removed received or dropped.
LEMMA RemovedStep ==
  ASSUME ExchangeInv, [Next]_vars, RemovedInv
  PROVE  RemovedInv'
<1> SUFFICES ASSUME NEW m \in offered', IsKeyMail(m), ~ HasHad(m.toClient, m.fromClient)'
             PROVE  m \in onTheWay'[m.toClient] \cup dropped'[m.toClient]
  BY DEF RemovedInv, IsKeyMail
<1>1. PICK p \in Clients, q \in Clients : m.toClient = p /\ m.fromClient = q
  <2>1. m \in Mail
    BY Basics, TypesStep DEF TypesInv, TypeOK
  <2>2. QED
    BY <2>1 DEF Mail
<1>2. /\ ~ HasHad(p, q) /\ ~ Restart(p) /\ deaths[p] = 0
      /\ ReceiveMail(p) => \A x \in onTheWay[p] :
           IsKeyMail(x) /\ x.fromClient = q => x \in dropped'[p]
  BY <1>1, NotHad
<1>3. CASE m \in onTheWay'[p]
  BY <1>1, <1>3
<1>4. CASE m \in offered
  <2>1. m \in onTheWay[p] \cup dropped[p]
    BY <1>1, <1>2, <1>4 DEF RemovedInv
  <2>2. CASE m \in dropped[p]
    BY <1>1, <2>2, MissedStays
  <2>3. CASE m \in onTheWay[p]
    BY <1>1, <1>2, <2>3, OnTheWayMoves
  <2>4. QED
    BY <2>1, <2>2, <2>3
<1>5. QED
  BY <1>1, <1>2, <1>3, <1>4, OfferedMoves

\* Mail that brings a key to a client that has had none stays on its way to it, unless
\* it is dropped.
LEMMA BringsOn ==
  ASSUME ExchangeInv, [Next]_vars, NEW key \in made,
         ~ HasHad(key.peer, key.maker)', ~ IsMissed(key)',
         NEW x \in onTheWay[key.peer], Brings(x, key)
  PROVE  x \in onTheWay'[key.peer]
<1> DEFINE p == key.peer
           q == key.maker
<1>1. p \in Clients /\ q \in Clients /\ IsKeyMail(x) /\ x.fromClient = q
  BY MadeKey DEF Brings
<1>2. /\ ~ Restart(p)
      /\ ReceiveMail(p) => x \in dropped'[p]
  BY <1>1, NotHad
<1>3. x \notin dropped'[p]
  BY DEF IsMissed, IsAmong, Brings, IsKeyMail
<1>4. QED
  BY <1>1, <1>2, <1>3, OnTheWayMoves

\* It is not removed before it is on its way.
LEMMA BringsStays ==
  ASSUME ExchangeInv, RemovedInv, [Next]_vars, NEW key \in made,
         ~ HasHad(key.peer, key.maker)', ~ IsMissed(key)',
         NEW x \in waiting \cup onTheWay[key.peer], Brings(x, key)
  PROVE  \/ x \in waiting' /\ x \in waiting
         \/ x \in onTheWay'[key.peer] /\ x \in onTheWay[key.peer]
<1> DEFINE p == key.peer
           q == key.maker
<1>1. /\ p \in Clients /\ q \in Clients
      /\ IsKeyMail(x) /\ x.fromClient = q /\ x.toClient = p
  BY MadeKey DEF Brings
<1>2. ~ HasHad(p, q)
  BY <1>1, NotHad
<1>3. x \notin dropped[p]
  <2>1. dropped[p] \subseteq dropped'[p]
    BY <1>1, MissedStays
  <2>2. QED
    BY <2>1 DEF IsMissed, IsAmong, Brings, IsKeyMail
<1>4. CASE x \in onTheWay[p]
  BY <1>4, BringsOn
<1>5. CASE x \in waiting /\ x \in offered
  BY <1>1, <1>2, <1>3, <1>4, <1>5 DEF RemovedInv
<1>6. CASE x \in waiting /\ x \notin offered
  BY <1>6, WaitingMoves
<1>7. QED
  BY <1>4, <1>5, <1>6

\* Nor is mail that brings a key lost among what waits and what is on its way.
LEMMA AmongStays ==
  ASSUME ExchangeInv, RemovedInv, [Next]_vars, NEW key \in made,
         ~ HasHad(key.peer, key.maker)', ~ IsMissed(key)',
         IsAmong(key, waiting \cup onTheWay[key.peer])
  PROVE  IsAmong(key, waiting' \cup onTheWay'[key.peer])
<1>1. PICK x \in waiting \cup onTheWay[key.peer] : Brings(x, key)
  BY DEF IsAmong
<1>2. x \in waiting' \cup onTheWay'[key.peer]
  BY <1>1, BringsStays
<1>3. QED
  BY <1>1, <1>2 DEF IsAmong

\* The client that made a key sends it before anything else.
LEMMA SentStays ==
  ASSUME ExchangeInv, RemovedInv, [Next]_vars, NEW key \in made,
         ~ HasHad(key.peer, key.maker)', ~ IsMissed(key)',
         IsSent(key), Knows(key.maker, key.peer)'
  PROVE  IsSent(key)'
<1> DEFINE p == key.peer
           q == key.maker
<1>1. p \in Clients /\ q \in Clients
  BY MadeKey
<1>2. CASE IsAmong(key, waiting \cup onTheWay[p])
  <2>1. IsAmong(key, waiting' \cup onTheWay'[p])
    BY <1>2, AmongStays
  <2>2. QED
    BY <2>1 DEF IsSent, IsAmong, Brings, IsKeyMail
<1>3. CASE \E r \in MailUnderWay : Brings(r.mail, key) /\ r.from = q /\ r.life = deaths[q]
  <2>1. PICK r \in MailUnderWay : Brings(r.mail, key) /\ r.from = q /\ r.life = deaths[q]
    BY <1>3
  <2>2. deaths'[q] = deaths[q]
    <3>1. Restart(q) => contacts'[q][p] = Unknown
      BY <1>1, Basics, Restarts
    <3>2. ~ Restart(q)
      BY <3>1 DEF Knows
    <3>3. QED
      BY <1>1, <3>2, Basics, LifeMoves
  <2>3. CASE r \in MailUnderWay'
    BY <2>1, <2>2, <2>3 DEF IsSent, Brings, IsKeyMail
  <2>4. ASSUME NEW m \in waiting', Like(m, r.mail) PROVE IsSent(key)'
    <3>1. Brings(m, key)
      BY <2>1, <2>4 DEF Brings, Like, IsKeyMail
    <3>2. QED
      BY <3>1 DEF IsSent, IsAmong, Brings, IsKeyMail
  <2>5. CASE r.mail \in lost'
    BY <2>1, <2>5 DEF IsMissed, IsAmong, Brings, IsKeyMail
  <2>6. QED
    BY <2>1, <2>3, <2>4, <2>5, UnderWayMoves
<1>4. QED
  BY <1>2, <1>3 DEF IsSent

LEMMA MissedMonotone ==
  ASSUME ExchangeInv, [Next]_vars, NEW key \in made, IsMissed(key)
  PROVE  IsMissed(key)'
<1>1. lost \subseteq lost' /\ dropped[key.peer] \subseteq dropped'[key.peer]
  BY MadeKey, MissedStays
<1>2. QED
  BY <1>1 DEF IsMissed, IsAmong, Brings, IsKeyMail

\* A key that its maker keeps for the peer is the one it made, as long as the peer has
\* had none.
LEMMA KeptIsMade ==
  ASSUME ExchangeInv, OneSidedInv, [Next]_vars, NEW key \in made,
         ~ HasHad(key.peer, key.maker)', Knows(key.maker, key.peer)',
         contacts'[key.maker][key.peer].symmetricKey = key
  PROVE  Knows(key.maker, key.peer) /\ contacts[key.maker][key.peer].symmetricKey = key
<1>1. PICK p \in Clients, q \in Clients :
        p = key.peer /\ q = key.maker /\ p # q /\ key # NoKey
  BY MadeKey
<1>2. OneSided(p, q)
  BY <1>1, NotHad DEF OneSidedInv
<1> Knows(q, p)'
  BY <1>1
<1>3. ASSUME NEW m \in Mail, BeginsNew(q, p, m), m.key = key PROVE FALSE
  BY <1>1, <1>3, NewKeyFresh
<1>4. KeyAt(q, onTheWay[q], p, lastId + 1) = contacts[q][p].symmetricKey
  <2>1. lastId + 1 \in Nat
    BY Basics DEF TypeOK
  <2>2. ASSUME NEW m \in onTheWay[q], m.key # NoKey, m.fromClient = p, m.toClient = q,
               m \in EveryMail
        PROVE  FALSE
    BY <1>2, <2>2 DEF OneSided
  <2>3. QED
    BY <1>1, <2>1, <2>2, KeyAtFrom
<1>5. \/ Knows(q, p) /\ contacts'[q][p] = contacts[q][p]
      \/ ~ Knows(q, p) /\ contacts'[q][p] = NewContact
      \/ Knows(q, p) /\ contacts'[q][p].symmetricKey = contacts[q][p].symmetricKey
      \/ \E m \in Mail : BeginsNew(q, p, m) /\ contacts'[q][p].symmetricKey = m.key
  <2>1. CASE \E m \in Mail :
               /\ BeginsNew(q, p, m) /\ Knows(q, p) /\ q # p
               /\ contacts'[q][p] = [publicKey |-> contacts[q][p].publicKey,
                                     symmetricKey |-> m.key]
    BY <2>1
  <2>2. CASE Knows(q, p) /\ contacts'[q][p] = contacts[q][p]
    BY <2>2
  <2>3. CASE ~ Knows(q, p) /\ contacts'[q][p] = NewContact
    BY <2>3
  <2>4. CASE /\ Knows(q, p)
             /\ contacts'[q][p] = [publicKey |-> p, symmetricKey |-> contacts[q][p].symmetricKey]
    BY <2>4
  <2>5. CASE /\ ReceiveMail(q) /\ Knows(q, p)
             /\ contacts'[q][p] = [publicKey |-> contacts[q][p].publicKey,
                                   symmetricKey |-> KeyAt(q, onTheWay[q], p, lastId + 1)]
    BY <1>4, <2>5
  <2>6. QED
    BY <2>1, <2>2, <2>3, <2>4, <2>5, Basics, ContactMoves
<1>6. QED
  BY <1>1, <1>3, <1>5 DEF NewContact

\* What is encrypted with a key comes from a client that keeps it and waits for nothing:
\* the mail with the key is posted by then.
LEMMA ContentBegins ==
  ASSUME ExchangeInv, AheadInv, NEW key \in made, ~ HasHad(key.peer, key.maker), ~ IsMissed(key),
         NEW a \in Clients, NEW b \in Clients \ {a}, NEW m \in Mail,
         BeginsKept(a, b, m) \/ BeginsNew(a, b, m), IsContent(m, key)
  PROVE  IsAmong(key, waiting \cup onTheWay[key.peer])
<1>1. PICK p \in Clients, q \in Clients :
        p = key.peer /\ q = key.maker /\ p # q /\ key # NoKey
  BY MadeKey
<1>2. /\ m.type \notin KeyMailTypes /\ m.key = key /\ m.fromClient = q
  BY <1>1 DEF IsContent, ContentTypes
<1>3. BeginsKept(a, b, m) /\ Begins(a, b, m)
  BY <1>2 DEF BeginsKept, BeginsNew, IsKeyMail, KeyMailTypes
<1>4. a = q /\ Knows(a, b) /\ ~ InCall(a) /\ contacts[a][b].symmetricKey = key
  BY <1>1, <1>2, <1>3 DEF BeginsKept, Begins, HasSymmetricKey
<1>5. b = p
  <2>1. IsFor(key, q, b)
    BY <1>4, Basics DEF KeysStayInPair
  <2>2. QED
    BY <1>1, <2>1, IsForPair
<1>6. IsSent(key)
  BY <1>1, <1>4, <1>5 DEF AheadInv
<1>7. ASSUME NEW r \in MailUnderWay, r.from = q, r.life = deaths[q] PROVE FALSE
  BY <1>4, <1>7 DEF InCall, MailUnderWay
<1>8. QED
  BY <1>1, <1>6, <1>7 DEF IsSent

\* Every step keeps the mail with a key ahead of what is encrypted with it.
LEMMA AheadStep ==
  ASSUME ExchangeInv, [Next]_vars, OneSidedInv, RemovedInv, AheadInv
  PROVE  AheadInv'
<1> SUFFICES ASSUME NEW key \in made', ~ HasHad(key.peer, key.maker)', ~ IsMissed(key)'
             PROVE  /\ Knows(key.maker, key.peer)'
                         /\ contacts'[key.maker][key.peer].symmetricKey = key
                         => IsSent(key)'
                    /\ IsAhead(key)'
  BY DEF AheadInv
<1>1. ASSUME NEW q \in Clients, NEW p \in Clients \ {q}, NEW m \in Mail,
             BeginsNew(q, p, m), key = m.key
      PROVE  IsSent(key)' /\ IsAhead(key)'
  <2>1. key.maker = q /\ key.peer = p /\ key \notin made /\ key # NoKey
    BY <1>1, Basics, NewContacts, NewKeyFresh
  <2>2. DEFINE r == [op |-> "SEND_MESSAGE", from |-> q, life |-> deaths[q], mail |-> m]
  <2>3. /\ requests' = requests \cup {r} /\ UNCHANGED <<waiting, onTheWay, deaths>>
        /\ IsKeyMail(m) /\ m.fromClient = q /\ m.toClient = p
    BY <1>1 DEF BeginsNew, Begins, mailboxVars
  <2>4. r \in MailUnderWay' /\ \A x \in MailUnderWay' : x \in MailUnderWay \/ x.mail = m
    BY <2>3 DEF MailUnderWay
  <2>5. IsSent(key)'
    <3>1. Brings(r.mail, key) /\ r.from = key.maker /\ r.life = deaths'[key.maker]
      BY <1>1, <2>1, <2>3 DEF Brings
    <3>2. QED
      <4> HIDE DEF r
      <4> QED
        BY <2>4, <3>1 DEF IsSent, Brings, IsKeyMail
  <2>6. ASSUME NEW x \in EveryMail PROVE x.key # key
    BY <2>1, Basics DEF KeysInv
  <2>7. \A x \in waiting' : x.key # key
    BY <2>3, <2>6, MailIn
  <2>8. \A x \in onTheWay'[p] : x.key # key
    BY <2>3, <2>6, MailIn DEF Reached
  <2>9. \A x \in MailUnderWay' : ~ IsContent(x.mail, key)
    <3>1. \A x \in MailUnderWay : x.mail.key # key
      BY <2>6, MailIn
    <3>2. ~ IsContent(m, key)
      BY <2>3 DEF IsContent, ContentTypes, KeyMailTypes, IsKeyMail
    <3>3. QED
      BY <2>4, <3>1, <3>2 DEF IsContent
  <2>10. QED
    BY <2>1, <2>5, <2>7, <2>8, <2>9 DEF IsAhead, IsContent
<1>2. CASE key \in made
  <2>1. PICK p \in Clients, q \in Clients :
          p = key.peer /\ q = key.maker /\ p # q /\ key # NoKey
    BY <1>2, MadeKey
  <2>2. ~ HasHad(key.peer, key.maker) /\ ~ IsMissed(key)
    BY <1>2, <2>1, NotHad, MissedMonotone
  <2>3. /\ Knows(q, p) /\ contacts[q][p].symmetricKey = key => IsSent(key)
        /\ IsAhead(key)
    BY <1>2, <2>1, <2>2 DEF AheadInv
  <2>4. ASSUME Knows(q, p)', contacts'[q][p].symmetricKey = key PROVE IsSent(key)'
    <3>1. Knows(q, p) /\ contacts[q][p].symmetricKey = key
      BY <1>2, <2>1, <2>4, KeptIsMade
    <3>2. QED
      BY <1>2, <2>1, <2>3, <2>4, <3>1, SentStays
  <2>5. IsAmong(key, waiting \cup onTheWay[p]) => IsAmong(key, waiting' \cup onTheWay'[p])
    BY <1>2, <2>1, AmongStays
  <2>6. ASSUME NEW r \in MailUnderWay', IsContent(r.mail, key)
        PROVE  IsAmong(key, waiting' \cup onTheWay'[p])
    <3>1. CASE r \in MailUnderWay
      BY <2>1, <2>3, <2>5, <2>6, <3>1 DEF IsAhead
    <3>2. ASSUME NEW a \in Clients, NEW b \in Clients \ {a}, NEW m \in Mail, r.mail = m,
                 BeginsKept(a, b, m) \/ BeginsNew(a, b, m)
          PROVE  IsAmong(key, waiting \cup onTheWay[p])
      BY <1>2, <2>1, <2>2, <2>6, <3>2, ContentBegins
    <3>3. QED
      BY <2>5, <3>1, <3>2, UnderWayMoves
  <2>7. ASSUME NEW m \in waiting', IsContent(m, key)
        PROVE  IsAmong(key, onTheWay'[p] \cup Earlier(waiting', m))
    <3>1. CASE m \in waiting
      <4>1. PICK x \in onTheWay[p] \cup Earlier(waiting, m) : Brings(x, key)
        BY <2>1, <2>3, <2>7, <3>1 DEF IsAhead, IsAmong
      <4>2. x \in onTheWay[p] \/ (x \in waiting /\ x.id < m.id)
        BY <4>1 DEF Earlier
      <4>3. CASE x \in onTheWay[p]
        <5>1. x \in onTheWay'[p]
          BY <1>2, <2>1, <4>1, <4>3, BringsOn
        <5>2. QED
          BY <4>1, <5>1 DEF IsAmong
      <4>4. CASE x \in waiting /\ x.id < m.id
        <5>1. x \in waiting' \/ x \in onTheWay'[p]
          BY <1>2, <2>1, <4>1, <4>4, BringsStays
        <5>2. x \in onTheWay'[p] \cup Earlier(waiting', m)
          BY <4>4, <5>1 DEF Earlier
        <5>3. QED
          BY <4>1, <5>2 DEF IsAmong
      <4>5. QED
        BY <4>2, <4>3, <4>4
    <3>2. ASSUME NEW r \in MailUnderWay, Like(m, r.mail), m.id = lastId + 1
          PROVE  IsAmong(key, onTheWay'[p] \cup Earlier(waiting', m))
      <4>1. IsContent(r.mail, key)
        BY <2>7, <3>2 DEF IsContent, Like
      <4>2. IsAmong(key, waiting \cup onTheWay[p])
        BY <2>1, <2>3, <4>1 DEF IsAhead
      <4>3. PICK x \in waiting \cup onTheWay[p] : Brings(x, key)
        BY <4>2 DEF IsAmong
      <4>4. (x \in waiting' /\ x \in waiting) \/ x \in onTheWay'[p]
        BY <1>2, <2>1, <4>3, BringsStays
      <4>5. x \in waiting => x.id < m.id
        <5>1. x \in waiting => x \in Posted
          BY DEF Posted
        <5>2. x \in Posted => x.id \in Nat /\ x.id <= lastId
          BY Basics, PostedMailType DEF Mail, PostedInv
        <5>3. QED
          BY <3>2, <5>1, <5>2, Basics DEF TypeOK
      <4>6. x \in onTheWay'[p] \cup Earlier(waiting', m)
        BY <4>4, <4>5 DEF Earlier
      <4>7. QED
        BY <4>3, <4>6 DEF IsAmong
    <3>3. QED
      BY <3>1, <3>2, WaitingMoves
  <2>8. ASSUME NEW m \in onTheWay'[p], IsContent(m, key)
        PROVE  IsAmong(key, Earlier(onTheWay'[p], m))
    <3>1. CASE onTheWay'[p] = onTheWay[p]
      BY <2>1, <2>3, <2>8, <3>1 DEF IsAhead
    <3>2. CASE onTheWay[p] = {} /\ onTheWay'[p] = WaitingFor(p)
      <4>1. m \in waiting
        BY <3>2 DEF WaitingFor
      <4>2. PICK x \in onTheWay[p] \cup Earlier(waiting, m) : Brings(x, key)
        BY <2>1, <2>3, <2>8, <4>1 DEF IsAhead, IsAmong
      <4>3. x \in WaitingFor(p) /\ x.id < m.id
        BY <2>1, <3>2, <4>2 DEF Earlier, WaitingFor, Brings
      <4>4. QED
        BY <3>2, <4>2, <4>3 DEF Earlier, IsAmong
    <3>3. QED
      BY <2>8, <3>1, <3>2, OnTheWayMoves
  <2>9. IsAhead(key)'
    BY <2>1, <2>6, <2>7, <2>8 DEF IsAhead, IsAmong, Earlier, Brings, IsKeyMail, IsContent
  <2>10. QED
    BY <2>1, <2>4, <2>9
<1>3. QED
  BY <1>1, <1>2, Basics, MadeMoves

\* Two keys for a pair are more than one.
LEMMA TwoKeys ==
  ASSUME ExchangeInv, NEW p \in Clients, NEW q \in Clients, NEW k \in made, NEW l \in made,
         k # l, IsFor(k, p, q), IsFor(l, p, q)
  PROVE  Cardinality(KeysOf(p, q)) > 1
<1>1. KeysOf(p, q) \subseteq made /\ IsFiniteSet(made)
  BY Basics DEF KeysOf, KeysInv
<1>2. IsFiniteSet(KeysOf(p, q)) /\ Cardinality(KeysOf(p, q)) \in Nat
  BY <1>1, FS_Subset, FS_CardinalityType
<1>3. IsFiniteSet({k}) /\ Cardinality({k}) = 1
  BY FS_Singleton
<1>4. Cardinality({k} \cup {l}) = 2
  BY <1>3, FS_AddElement
<1>5. {k} \cup {l} \subseteq KeysOf(p, q)
  BY DEF KeysOf
<1>6. Cardinality({k} \cup {l}) <= Cardinality(KeysOf(p, q))
  BY <1>2, <1>5, FS_Subset
<1>7. QED
  BY <1>2, <1>4, <1>6

\* The cause of a text that could not be decrypted
HasCause(p, m) ==
  \/ Cardinality(KeysOf(p, m.fromClient)) > 1
  \/ deaths[p] > 0
  \/ \E x \in lost \cup dropped[p] :
       IsKeyMail(x) /\ x.fromClient = m.fromClient /\ x.toClient = p /\ x.key = m.key

\* A cause lasts.
LEMMA CauseStays ==
  ASSUME ExchangeInv, [Next]_vars, NEW p \in Clients, NEW m \in Mail, HasCause(p, m)
  PROVE  HasCause(p, m)'
<1>1. CASE Cardinality(KeysOf(p, m.fromClient)) > 1
  <2>1. made \subseteq made'
    BY Basics, MadeMoves
  <2>2. IsFiniteSet(made) /\ IsFiniteSet(made')
    BY Basics, TypesStep DEF TypesInv
  <2>3. /\ KeysOf(p, m.fromClient) \subseteq KeysOf(p, m.fromClient)'
        /\ KeysOf(p, m.fromClient) \subseteq made
        /\ KeysOf(p, m.fromClient)' \subseteq made'
    BY <2>1 DEF KeysOf, IsFor
  <2>4. /\ Cardinality(KeysOf(p, m.fromClient)) <= Cardinality(KeysOf(p, m.fromClient)')
        /\ Cardinality(KeysOf(p, m.fromClient)') \in Nat
        /\ Cardinality(KeysOf(p, m.fromClient)) \in Nat
    BY <2>2, <2>3, FS_Subset, FS_CardinalityType
  <2>5. Cardinality(KeysOf(p, m.fromClient)') > 1
    BY <1>1, <2>4
  <2>6. QED
    BY <2>5 DEF HasCause
<1>2. CASE deaths[p] > 0
  <2>1. deaths'[p] > 0
    <3>1. CASE Restart(p)
      <4>1. deaths'[p] = deaths[p] + 1 /\ deaths[p] \in Nat
        BY <3>1, Basics, Restarts
      <4>2. QED
        BY <4>1
    <3>2. CASE ~ Restart(p)
      BY <1>2, <3>2, Basics, LifeMoves
    <3>3. QED
      BY <3>1, <3>2
  <2>2. QED
    BY <2>1 DEF HasCause
<1>3. CASE \E x \in lost \cup dropped[p] :
             IsKeyMail(x) /\ x.fromClient = m.fromClient /\ x.toClient = p /\ x.key = m.key
  BY <1>3, MissedStays DEF HasCause, IsKeyMail
<1>4. QED
  BY <1>1, <1>2, <1>3 DEF HasCause

\* A text that cannot be decrypted when it is received has a cause.
LEMMA CauseAtReceipt ==
  ASSUME ExchangeInv, OneSidedInv, AheadInv, NEW p \in Clients, NEW m \in onTheWay[p],
         Knows(p, m.fromClient), m.type \in ContentTypes,
         ~ aes_decrypts(KeyAt(p, onTheWay[p], m.fromClient, m.id), m.key)
  PROVE  HasCause(p, m)
<1>1. /\ m \in Mail /\ m \in EveryMail /\ m.toClient = p /\ m.fromClient # p
      /\ m.type \notin KeyMailTypes /\ m.id \in Nat
  <2>1. m \in Reached(p) /\ m \in EveryMail
    BY MailIn DEF Reached
  <2>2. QED
    BY <2>1, Basics, PostedMailType DEF PostedInv, ContentTypes, Mail
<1>2. PICK q \in Clients : q = m.fromClient /\ q # p
  BY <1>1 DEF Mail
<1>3. /\ m.key \in made /\ m.key # NoKey /\ IsFor(m.key, p, q)
  BY <1>1, <1>2, Basics, IsForPair DEF KeysInv, KeyMailTypes
<1>4. DEFINE k == KeyAt(p, onTheWay[p], q, m.id)
<1>5. k # m.key
  BY <1>2 DEF aes_decrypts
<1>6. CASE k # NoKey
  <2>1. k \in made /\ IsFor(k, p, q)
    <3>1. /\ contacts[p][q].symmetricKey \in made \cup {NoKey}
          /\ IsFor(contacts[p][q].symmetricKey, p, q)
      BY <1>2, Basics DEF KeysInv, KeysStayInPair
    <3>2. ASSUME NEW x \in onTheWay[p], x.key \in made, x.fromClient = q, x.toClient = p,
                 x \in EveryMail
          PROVE  IsFor(x.key, p, q)
      BY <3>2, Basics, IsForPair DEF KeysInv
    <3>3. QED
      BY <1>1, <1>6, <3>1, <3>2, KeyAtFrom
  <2>2. Cardinality(KeysOf(p, q)) > 1
    <3> HIDE DEF k
    <3> QED
      BY <1>3, <1>5, <2>1, TwoKeys
  <2>3. QED
    BY <1>2, <2>2 DEF HasCause
<1>7. CASE k = NoKey
  <2>1. /\ contacts[p][q].symmetricKey = NoKey
        /\ \A x \in onTheWay[p] : IsKeyMail(x) /\ x.fromClient = q => ~ (x.id < m.id)
    BY <1>1, <1>7, KeyAtFrom
  <2>2. CASE deaths[p] > 0
    BY <2>2 DEF HasCause
  <2>3. CASE ~ (deaths[p] > 0)
    <3>1. ~ HasHad(p, q)
      BY <2>1, <2>3 DEF HasHad, HasSymmetricKey
    <3>2. OneSided(p, q)
      BY <1>2, <3>1 DEF OneSidedInv
    <3>3. m.key.maker = q /\ m.key.peer = p
      BY <1>3, <3>2, IsForPair DEF OneSided
    <3>4. CASE IsMissed(m.key)
      <4>1. PICK x \in lost \cup dropped[p] : Brings(x, m.key)
        BY <3>3, <3>4 DEF IsMissed, IsAmong
      <4>2. IsKeyMail(x) /\ x.fromClient = m.fromClient /\ x.toClient = p /\ x.key = m.key
        BY <1>2, <3>3, <4>1 DEF Brings
      <4>3. QED
        BY <4>2 DEF HasCause
    <3>5. CASE ~ IsMissed(m.key)
      <4>1. IsAhead(m.key)
        BY <1>3, <3>1, <3>3, <3>5 DEF AheadInv
      <4>2. IsContent(m, m.key)
        BY <1>2, <3>3 DEF IsContent
      <4>3. PICK x \in Earlier(onTheWay[p], m) : Brings(x, m.key)
        BY <3>3, <4>1, <4>2 DEF IsAhead, IsAmong
      <4>4. QED
        BY <2>1, <3>3, <4>3 DEF Earlier, Brings
    <3>6. QED
      BY <3>4, <3>5
  <2>4. QED
    BY <2>2, <2>3
<1>8. QED
  BY <1>6, <1>7

\* Every text that a step leaves undecrypted has a cause.
LEMMA UndecryptedStep ==
  ASSUME ExchangeInv, [Next]_vars, OneSidedInv, AheadInv, UndecryptedHasCause
  PROVE  UndecryptedHasCause'
<1>1. UndecryptedHasCause <=> \A p \in Clients : \A m \in undecrypted[p] : HasCause(p, m)
  BY DEF UndecryptedHasCause, HasCause
<1>2. UndecryptedHasCause' <=> \A p \in Clients : \A m \in undecrypted'[p] : HasCause(p, m)'
  BY DEF UndecryptedHasCause, HasCause, KeysOf, IsFor, IsKeyMail
<1>3. ASSUME NEW p \in Clients, NEW m \in undecrypted'[p] PROVE HasCause(p, m)'
  <2>1. CASE m \in undecrypted[p]
    <3>1. m \in Mail
      BY <2>1, Basics DEF TypeOK
    <3>2. QED
      BY <1>1, <2>1, <3>1, CauseStays
  <2>2. CASE m \notin undecrypted[p]
    <3>1. ReceiveMail(p)
      BY <2>2, Basics, GotMoves
    <3>2. /\ m \in onTheWay[p] /\ Knows(p, m.fromClient) /\ m.type \in ContentTypes
          /\ ~ aes_decrypts(KeyAt(p, onTheWay[p], m.fromClient, m.id), m.key)
      BY <2>2, <3>1, Basics, HandlesPulled DEF TypeOK
    <3>3. m \in Mail
      BY <3>2, Basics DEF TypeOK
    <3>4. QED
      BY <3>2, <3>3, CauseAtReceipt, CauseStays
  <2>3. QED
    BY <2>1, <2>2
<1>4. QED
  BY <1>2, <1>3

\* The mail with the key of what cannot be decrypted is lost or dropped, or comes first.
THEOREM Causes == Spec => []CauseInv
<1>1. Init => CauseInv
  <2> SUFFICES ASSUME Init PROVE CauseInv
    OBVIOUS
  <2>1. /\ waiting = {} /\ offered = {} /\ requests = {} /\ made = {}
        /\ \A p \in Clients : onTheWay[p] = {} /\ received[p] = <<>> /\ undecrypted[p] = {}
        /\ \A p, q \in Clients : contacts[p][q] = Unknown
    BY DEF Init, M!Init, NoContacts, Nothing
  <2>2. EveryMail = {}
    <3>1. MailUnderWay = {} /\ \A p \in Clients : Got(p) = {}
      BY <2>1 DEF MailUnderWay, Got
    <3>2. AllMail = {}
      BY <2>1, <3>1 DEF AllMail
    <3>3. QED
      BY <3>1, <3>2 DEF EveryMail
  <2>3. OneSidedInv
    BY <2>1, <2>2 DEF OneSidedInv, OneSided, HasSymmetricKey, Knows
  <2>4. RemovedInv /\ AheadInv /\ UndecryptedHasCause
    BY <2>1 DEF RemovedInv, AheadInv, UndecryptedHasCause
  <2>5. QED
    BY <2>3, <2>4 DEF CauseInv
<1>2. CauseInv /\ ExchangeInv /\ [Next]_vars => CauseInv'
  <2> SUFFICES ASSUME CauseInv, ExchangeInv, [Next]_vars PROVE CauseInv'
    OBVIOUS
  <2>1. OneSidedInv /\ RemovedInv /\ AheadInv /\ UndecryptedHasCause
    BY DEF CauseInv
  <2>2. OneSidedInv' /\ RemovedInv' /\ AheadInv' /\ UndecryptedHasCause'
    BY <2>1, OneSidedStep, RemovedStep, AheadStep, UndecryptedStep
  <2>3. QED
    BY <2>2 DEF CauseInv
<1>3. QED
  BY <1>1, <1>2, Exchange, PTL DEF Spec

\* A text that its addressee cannot decrypt has one of four causes (decrypteMessage).
THEOREM Undecrypted == Spec => []UndecryptedHasCause
<1>1. CauseInv => UndecryptedHasCause
  BY DEF CauseInv
<1>2. QED
  BY <1>1, Causes, PTL
=============================================================================
