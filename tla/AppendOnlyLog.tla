--------------------------- MODULE AppendOnlyLog ---------------------------
(***************************************************************************)
(* What an audit log promises, without files, caches, locks or crashes:     *)
(* events are recorded one after the other, nothing recorded is removed,    *)
(* changed or moved, and a caller is told so only about an event that is    *)
(* recorded.                                                               *)
(***************************************************************************)

CONSTANT Events      \* identities of events

VARIABLES
  recorded,   \* the events recorded so far
  before,     \* the pairs <<d, e>> of them with d recorded before e
  confirmed   \* the events whose caller has been told

Init == recorded = {} /\ before = {} /\ confirmed = {}

Record(e) ==
  /\ e \notin recorded
  /\ recorded' = recorded \cup {e}
  /\ before' = before \cup (recorded \X {e})
  /\ UNCHANGED confirmed

Confirm(e) ==
  /\ e \in recorded
  /\ confirmed' = confirmed \cup {e}
  /\ UNCHANGED <<recorded, before>>

Next == \E e \in Events : Record(e) \/ Confirm(e)

Spec == Init /\ [][Next]_<<recorded, before, confirmed>>
=============================================================================
