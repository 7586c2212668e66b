------------------------------- MODULE MCRelay ------------------------------
(***************************************************************************)
(* Instances of the relay for TLC: client processes p1 and p2 (and p3),    *)
(* with client ids i1, i2, i3 and i4 and user names n1, n2 and n3.         *)
(***************************************************************************)
EXTENDS RelayInvariants, TLC

CONSTANTS p1, p2, p3, i1, i2, i3, i4, n1, n2, n3, k1

Row(id, name) == [id |-> id, userName |-> name, publicKey |-> k1]
Identity(id, name) == [clientId |-> id, userName |-> name]

\* Two users who registered in an earlier run
TwoRows == {Row(i1, n1), Row(i2, n2)}
TwoUsers == p1 :> Identity(i1, n1) @@ p2 :> Identity(i2, n2)

NoOldContacts == [p \in Processes |-> {}]

\* A server.db that has p1 and not p3, who registered later: both had listed the
\* other.  And p2, a new user.
OneRow == {Row(i1, n1)}
MixedUsers == p1 :> Identity(i1, n1) @@ p2 :> NoInfo @@ p3 :> Identity(i3, n2)
MixedContacts == p1 :> {i3} @@ p2 :> {} @@ p3 :> {i1}

\* How often each process may die in a call
NoDeath == [p \in Processes |-> 0]
OneDeathEach == [p \in Processes |-> 1]
OneDeath == [p \in Processes |-> IF p = p1 THEN 1 ELSE 0]
DeathOfNew == [p \in Processes |-> IF p = p2 THEN 1 ELSE 0]
TwoDeaths == [p \in Processes |-> IF p = p1 THEN 2 ELSE 0]

ConnSymmetry == Permutations(Conns)
RegistrationSymmetry == ConnSymmetry \cup Permutations({i2, i4})
=============================================================================
