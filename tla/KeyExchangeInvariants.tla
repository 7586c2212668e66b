----------------------- MODULE KeyExchangeInvariants ------------------------
(***************************************************************************)
(* Invariants of the key exchange that its properties rest on: where mail  *)
(* is, which keys it carries, what a client keeps of them, and what became *)
(* of the mail that brings a key to the client that it was made for.       *)
(***************************************************************************)
EXTENDS KeyExchange

\* Mail that a client got or is going to get
Reached(p) == onTheWay[p] \cup Got(p)

\* Mail with an id
Posted == waiting \cup UNION {Reached(p) : p \in Clients}

\* All mail, wherever it is
EveryMail == AllMail \cup UNION {Got(p) : p \in Clients}

\* An id names one mail, and mail reaches its addressee only.  Two requests of
\* one life are never under way, and no life is in the future.
PostedInv ==
  /\ \A m \in Posted : m.id <= lastId
  /\ \A m, x \in Posted : m.id = x.id => m = x
  /\ \A p \in Clients : \A m \in Reached(p) : m.toClient = p
  /\ \A r \in requests : r.life <= deaths[r.from]
  /\ \A r \in MailUnderWay : r.mail.fromClient = r.from
  /\ \A m \in EveryMail : m.fromClient # m.toClient

\* What is removed is all that waits for one client, so that what a client has got
\* and what waits for it do not overlap in part.
PulledInv ==
  /\ offered # {} => \E p \in Clients : offered = WaitingFor(p)
  /\ \A p \in Clients : \A m \in Reached(p), x \in WaitingFor(p) :
       x.id < m.id => m \in waiting
  /\ \A p \in Clients : \A m \in Got(p), x \in onTheWay[p] :
       x.id < m.id => m \in onTheWay[p]

\* Every key is new when it is made.  Mail and memories hold keys that were made,
\* and mail with a key can be decrypted by its addressee.
KeysInv ==
  /\ IsFiniteSet(made)
  /\ \A key \in made : key.n <= Cardinality(made) /\ key.maker # key.peer
  /\ \A p, q \in Clients : Knows(p, q) =>
       /\ contacts[p][q].symmetricKey \in made \cup {NoKey}
       /\ contacts[p][q].publicKey \in {q, NoKey}
  /\ \A m \in EveryMail :
       /\ m.key \in made \cup {NoKey} /\ IsFor(m.key, m.fromClient, m.toClient)
       /\ m.type # "REQUEST_SYMMETRIC_KEY" => m.key # NoKey
       /\ IsKeyMail(m) => m.publicKey = m.toClient

ExchangeInv == TypeOK /\ KeysStayInPair /\ PostedInv /\ PulledInv /\ KeysInv

-----------------------------------------------------------------------------
\* While it lives, a client knows the sender of the keys it got and did not drop.
NewestInv ==
  \A p, q \in Clients :
    deaths[p] = 0 /\ KeysGot(p, q) # {} /\ KeysGot(p, q) \cap dropped[p] = {} =>
      Knows(p, q) /\ contacts[p][q].symmetricKey = Newest(KeysGot(p, q)).key

-----------------------------------------------------------------------------
\* Causes: unless p has had a key for q, or died, the mail that brings it a key that
\* q made is lost or dropped, or ahead of all that q encrypts with that key.
HasHad(p, q) == deaths[p] > 0 \/ HasSymmetricKey(p, q)

Brings(m, key) ==
  IsKeyMail(m) /\ m.key = key /\ m.fromClient = key.maker /\ m.toClient = key.peer

IsAmong(key, lot) == \E m \in lot : Brings(m, key)

IsMissed(key) == IsAmong(key, lost \cup dropped[key.peer])

Earlier(lot, m) == {x \in lot : x.id < m.id}

\* q made the key: then p has nothing from q, and sent nothing with a key.
OneSided(p, q) ==
  /\ \A key \in made : ~ (key.maker = p /\ key.peer = q)
  /\ \A m \in EveryMail : m.fromClient = p /\ m.toClient = q => m.key = NoKey
  /\ HasSymmetricKey(q, p) => contacts[q][p].symmetricKey.maker = q

\* The mail with the key is posted, or the request of its sender for it under way.
IsSent(key) ==
  \/ IsAmong(key, waiting \cup onTheWay[key.peer])
  \/ \E r \in MailUnderWay : /\ Brings(r.mail, key)
                             /\ r.from = key.maker
                             /\ r.life = deaths[key.maker]

IsContent(m, key) == m.type \in ContentTypes /\ m.key = key /\ m.fromClient = key.maker

IsAhead(key) ==
  /\ \A r \in MailUnderWay : IsContent(r.mail, key) =>
       IsAmong(key, waiting \cup onTheWay[key.peer])
  /\ \A m \in waiting : IsContent(m, key) =>
       IsAmong(key, onTheWay[key.peer] \cup Earlier(waiting, m))
  /\ \A m \in onTheWay[key.peer] : IsContent(m, key) =>
       IsAmong(key, Earlier(onTheWay[key.peer], m))

\* Of two clients the one that has had no key for the other sent none.
OneSidedInv == \A p, q \in Clients : p # q /\ ~ HasHad(p, q) => OneSided(p, q)

\* A key that is removed was received, or dropped, or its client died.
RemovedInv ==
  \A m \in offered : IsKeyMail(m) =>
    \/ HasHad(m.toClient, m.fromClient)
    \/ m \in onTheWay[m.toClient] \cup dropped[m.toClient]

\* The mail with a key is under way, ahead of all that is encrypted with it.
AheadInv ==
  \A key \in made : ~ HasHad(key.peer, key.maker) /\ ~ IsMissed(key) =>
    /\ Knows(key.maker, key.peer) /\ contacts[key.maker][key.peer].symmetricKey = key
         => IsSent(key)
    /\ IsAhead(key)

CauseInv == OneSidedInv /\ RemovedInv /\ AheadInv /\ UndecryptedHasCause
=============================================================================
