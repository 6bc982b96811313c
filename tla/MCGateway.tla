----------------------------- MODULE MCGateway -----------------------------
(* Instances of Gateway for TLC.                                            *)
EXTENDS Gateway

\* A lookup and an upload on one worker, another upload on the other.
Placement == [l1 |-> "p1", u1 |-> "p1", u2 |-> "p2"]

\* All requests on one worker.
OnePlace == [r \in Requests |-> "p1"]
=============================================================================
