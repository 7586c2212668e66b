---------------------------- MODULE MCKeyExchange ---------------------------
(***************************************************************************)
(* Instances of the key exchange for TLC: two or three clients.            *)
(***************************************************************************)
EXTENDS KeyExchangeInvariants, TLC

ClientSymmetry == Permutations(Clients)
=============================================================================
