---------------------------- MODULE MCRegistration --------------------------
(***************************************************************************)
(* Instances of the registration for TLC: two processes, a good server.info*)
(* and bad ones.                                                           *)
(***************************************************************************)
EXTENDS Registration

Info(exists, port, isAddress) ==
  [exists |-> exists, port |-> port, isAddress |-> isAddress]

Infos == {Info(TRUE, 1234, TRUE), Info(TRUE, 80, TRUE), Info(FALSE, 1234, TRUE)}

ProcessSymmetry == Permutations(Processes)
KeySymmetry == Permutations(PublicKeys)
IdSymmetry == Permutations(ClientIds)
Symmetry == ProcessSymmetry \cup KeySymmetry \cup IdSymmetry
=============================================================================
