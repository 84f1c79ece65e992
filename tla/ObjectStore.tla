----------------------------- MODULE ObjectStore -----------------------------
(***************************************************************************)
(* What the callers of put_object may count on, for one key: a PUT that    *)
(* returns has taken effect after it began.  It may take effect more than  *)
(* once, and requests it has abandoned may do so when it has ended.        *)
(***************************************************************************)
CONSTANTS Clients, Values, None

VARIABLES
  object,   \* the object under the key
  put,      \* the value each client is putting, or None
  done,     \* clients whose PUT has taken effect since it began
  answered, \* clients that know that their last PUT has
  ghosts    \* values that may still be stored for a request nobody waits for

vars == <<object, put, done, answered, ghosts>>

Init ==
  /\ object \in Values \cup {None} /\ put = [c \in Clients |-> None]
  /\ done = {} /\ answered = {} /\ ghosts = {}

Begin(c) ==
  /\ put[c] = None /\ \E v \in Values : put' = [put EXCEPT ![c] = v]
  /\ done' = done \ {c} /\ answered' = answered \ {c} /\ UNCHANGED <<object, ghosts>>

Effect(c) ==
  /\ put[c] # None /\ object' = put[c] /\ done' = done \cup {c}
  /\ UNCHANGED <<put, answered, ghosts>>

\* The client stops waiting for a request, which may still be carried out, and sends another.
Abandon(c) ==
  /\ put[c] # None /\ done' = done \ {c} /\ ghosts' \in {ghosts, ghosts \cup {put[c]}}
  /\ UNCHANGED <<object, put, answered>>

Haunt ==
  /\ \E v \in ghosts : object' \in {object, v} /\ ghosts' \in {ghosts, ghosts \ {v}}
  /\ UNCHANGED <<put, done, answered>>

Return(c) ==
  /\ c \in done /\ put[c] # None /\ put' = [put EXCEPT ![c] = None]
  /\ done' = done \ {c} /\ answered' = answered \cup {c} /\ UNCHANGED <<object, ghosts>>

\* A PUT raises: nobody knows whether it has taken effect, or still will.
Raise(c) ==
  /\ put[c] # None /\ put' = [put EXCEPT ![c] = None] /\ done' = done \ {c}
  /\ ghosts' \in {ghosts, ghosts \cup {put[c]}} /\ UNCHANGED <<object, answered>>

\* The client goes on with something else.
Forget(c) == answered' = answered \ {c} /\ UNCHANGED <<object, put, done, ghosts>>

Next ==
  Haunt \/ \E c \in Clients : Begin(c) \/ Effect(c) \/ Abandon(c) \/ Return(c) \/ Raise(c) \/ Forget(c)

Spec == Init /\ [][Next]_vars
=============================================================================
