--------------------------- MODULE ReleasePointer ---------------------------
(***************************************************************************)
(* What publication promises a client: the pointer names one of the        *)
(* versions that are available, it only moves to a new version whose       *)
(* complete tree is in place or back to one that was published, and an     *)
(* available version never goes away.                                      *)
(***************************************************************************)
CONSTANTS Versions, None

VARIABLES
  current,    \* the version the pointer names
  available   \* the versions a client can read completely

Init == current = None /\ available = {}

Publish(v) ==
  /\ v \notin available
  /\ current' = v /\ available' = available \cup {v}

Rollback(v) ==
  /\ v \in available
  /\ current' = v /\ UNCHANGED available

Next == \E v \in Versions : Publish(v) \/ Rollback(v)

Spec == Init /\ [][Next]_<<current, available>>
=============================================================================
