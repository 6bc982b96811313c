------------------------ MODULE CertificateDelivery ------------------------
(***************************************************************************)
(* What the upload of certificates promises, without requests, threads,     *)
(* rows, retries or crashes: a caller is answered about a certificate only  *)
(* when it is in somebody's custody, at the portal or in the queue, and it  *)
(* leaves the queue only when the portal has it, which is for good.         *)
(***************************************************************************)

CONSTANT Certs

VARIABLES
  stored,     \* certificates the portal has
  kept,       \* certificates in the client's queue
  returned,   \* certificates whose caller has an answer
  reported    \* certificates whose caller was told that the portal has them

Init == stored = {} /\ kept = {} /\ returned = {} /\ reported = {}

\* A retry has no caller to answer.
Answer(c) == returned' \in {returned, returned \cup {c}}

Store(c) ==
  /\ c \notin stored
  /\ stored' = stored \cup {c}
  /\ UNCHANGED <<kept, returned, reported>>

Keep(c) ==
  /\ kept' = kept \cup {c}
  /\ Answer(c)
  /\ UNCHANGED <<stored, reported>>

Report(c) ==
  /\ c \in stored
  /\ reported' = reported \cup {c}
  /\ Answer(c)
  /\ UNCHANGED <<stored, kept>>

Release(c) ==
  /\ c \in kept \cap stored
  /\ kept' = kept \ {c}
  /\ UNCHANGED <<stored, returned, reported>>

Next == \E c \in Certs : Store(c) \/ Keep(c) \/ Report(c) \/ Release(c)

Spec == Init /\ [][Next]_<<stored, kept, returned, reported>>
=============================================================================
