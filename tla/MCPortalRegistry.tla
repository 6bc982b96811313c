-------------------------- MODULE MCPortalRegistry --------------------------
(* Instances of PortalRegistry for TLC.                                     *)
EXTENDS PortalRegistry, TLC

CONSTANTS k1, k2

\* Every certificate was signed with the first key.
FirstKey == [c \in Certs |-> k1]

\* The slots for requests are alike.
Symmetric == Permutations(Requests)
=============================================================================
