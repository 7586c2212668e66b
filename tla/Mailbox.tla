------------------------------- MODULE Mailbox ------------------------------
(***************************************************************************)
(* What the relay promises, without connections, partitions or sessions:   *)
(* users post mail to each other, and the relay hands over what waits for  *)
(* a user oldest first, and removes what it has handed over.  What is on   *)
(* its way to a user is received once or lost.                             *)
(***************************************************************************)
EXTENDS Integers, Sequences

CONSTANTS
  Users,
  Addresses,
  NoAddress,
  Mail        \* records with the fields id, toClient, fromClient and others

VARIABLES
  address,    \* the address of each user
  lastId,     \* the id of the mail posted last
  waiting,
  offered,    \* what has been handed over and is to be removed
  onTheWay,   \* what has been handed over to each user and is not yet received
  received    \* the lots each user received, in order

mailVars == <<address, lastId, waiting, offered, onTheWay, received>>

Init ==
  /\ address \in [Users -> Addresses \cup {NoAddress}]
  /\ \A p, q \in Users : address[p] = address[q] => p = q \/ address[p] = NoAddress
  /\ lastId = 0
  /\ waiting = {}
  /\ offered = {}
  /\ onTheWay = [p \in Users |-> {}]
  /\ received = [p \in Users |-> <<>>]

\* A user gets an address that nobody else has, once.
Join(p, a) ==
  /\ address[p] = NoAddress
  /\ \A q \in Users : address[q] # a
  /\ address' = [address EXCEPT ![p] = a]
  /\ UNCHANGED <<lastId, waiting, offered, onTheWay, received>>

\* A user posts mail in its own name; its id is larger than every id before.
PostMail(m) ==
  /\ \E p \in Users : address[p] = m.fromClient
  /\ m.id = lastId + 1
  /\ lastId' = m.id
  /\ waiting' = waiting \cup {m}
  /\ UNCHANGED <<address, offered, onTheWay, received>>

Post == \E m \in waiting' : m \in Mail /\ PostMail(m)

\* The oldest mail that waits for the address a, as much of it as the relay likes
IsOldestMail(lot, a) ==
  /\ lot \subseteq {m \in waiting : m.toClient = a}
  /\ \A m \in lot, x \in waiting : x.toClient = a /\ x.id < m.id => x \in lot

\* Mail is handed over to the user who has its address, or to nobody.
HandOver(lot, a) ==
  /\ offered = {}
  /\ lot # {}
  /\ IsOldestMail(lot, a)
  /\ offered' = lot
  /\ \/ UNCHANGED onTheWay
     \/ \E p \in Users : /\ address[p] = a
                         /\ onTheWay[p] = {}
                         /\ onTheWay' = [onTheWay EXCEPT ![p] = lot]
  /\ UNCHANGED <<address, lastId, waiting, received>>

\* The relay removes what it has handed over, or fails and keeps it.
Settle ==
  /\ offered # {}
  /\ offered' = {}
  /\ waiting' \in {waiting, waiting \ offered}
  /\ UNCHANGED <<address, lastId, onTheWay, received>>

Receive(p) ==
  /\ onTheWay[p] # {}
  /\ received' = [received EXCEPT ![p] = Append(@, onTheWay[p])]
  /\ onTheWay' = [onTheWay EXCEPT ![p] = {}]
  /\ UNCHANGED <<address, lastId, waiting, offered>>

Lose(p) ==
  /\ onTheWay[p] # {}
  /\ onTheWay' = [onTheWay EXCEPT ![p] = {}]
  /\ UNCHANGED <<address, lastId, waiting, offered, received>>

Next ==
  \/ \E p \in Users, a \in Addresses : Join(p, a)
  \/ Post
  \/ \E lot \in SUBSET waiting, a \in Addresses : HandOver(lot, a)
  \/ Settle
  \/ \E p \in Users : Receive(p) \/ Lose(p)

Spec == Init /\ [][Next]_mailVars
=============================================================================
