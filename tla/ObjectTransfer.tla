--------------------------- MODULE ObjectTransfer ---------------------------
(***************************************************************************)
(* put_object and get_object of CliBackend for one key of the bucket, with *)
(* the attempts _run_aws_with_retry makes: each is a subprocess that is    *)
(* killed after _S3_SUBPROCESS_TIMEOUT_SECONDS, when its request may have  *)
(* been carried out, may never be, or may be later, while the next attempt *)
(* or another command is under way.                                        *)
(***************************************************************************)
EXTENDS Integers

CONSTANTS
  Clients,  \* commands, and workers of their pools, that use the key
  Values,   \* bytes
  Attempts, \* _S3_RETRY_ATTEMPTS
  None,     \* no object, no file
  Partial   \* the file a killed get-object has begun to write

ASSUME TransferAssumption ==
         Attempts \in Nat \ {0} /\ None \notin Values /\ Partial \notin Values /\ None # Partial

VARIABLES
  object,  \* the object under the key
  late,    \* values of PUTs whose process was killed and which may still be carried out
  pc,      \* "idle", "running" the process of an attempt, or "waiting" between two
  op,      \* "put" or "get"
  value,   \* what is being put
  attempt, \* number of the attempt
  landed,  \* clients whose current attempt has been carried out
  file,    \* the body or output file of the call
  outcome, \* how the last call ended: "returned" or "raised"
  got,     \* the bytes the last get_object has returned, or None
  alone,   \* history: the client whose PUT began, and has been, without another one
  during,  \* history: what the object has been since the call began
  settled  \* history: a value put by a call that nothing else has interfered with, or None

vars == <<object, late, pc, op, value, attempt, landed, file, outcome, got, alone, during, settled>>

Bytes == Values \cup {None}

TypeOK ==
  /\ object \in Bytes /\ late \subseteq Values /\ settled \in Bytes
  /\ alone \subseteq Clients
  /\ pc \in [Clients -> {"idle", "running", "waiting"}]
  /\ op \in [Clients -> {"put", "get"}] /\ value \in [Clients -> Values]
  /\ attempt \in [Clients -> 1..Attempts] /\ landed \subseteq Clients
  /\ file \in [Clients -> Bytes \cup {Partial}]
  /\ outcome \in [Clients -> {"returned", "raised"}]
  /\ got \in [Clients -> Bytes] /\ during \in [Clients -> SUBSET Bytes]

Init ==
  /\ object \in Bytes /\ late = {} /\ settled = None /\ alone = {}
  /\ pc = [c \in Clients |-> "idle"] /\ op = [c \in Clients |-> "get"]
  /\ value \in [Clients -> Values] /\ attempt = [c \in Clients |-> 1] /\ landed = {}
  /\ file = [c \in Clients |-> None] /\ outcome = [c \in Clients |-> "raised"]
  /\ got = [c \in Clients |-> None] /\ during = [c \in Clients |-> {}]

----------------------------------------------------------------------------
\* The object changes, or is only looked at.
Becomes(v) ==
  /\ object' = v
  /\ during' = [c \in Clients |-> IF pc[c] = "idle" THEN during[c] ELSE during[c] \cup {v}]

Begin(c) ==
  /\ pc[c] = "idle" /\ pc' = [pc EXCEPT ![c] = "running"]
  /\ attempt' = [attempt EXCEPT ![c] = 1] /\ landed' = landed \ {c}
  /\ file' = [file EXCEPT ![c] = None] /\ got' = [got EXCEPT ![c] = None]
  /\ during' = [during EXCEPT ![c] = {object}]
  /\ UNCHANGED <<object, late, outcome>>

\* No other PUT is under way, and no killed one may still be carried out.
Quiet(c) == late = {} /\ \A d \in Clients \ {c} : pc[d] = "idle" \/ op[d] = "get"

BeginPut(c) ==
  /\ Begin(c) /\ alone' = (IF Quiet(c) THEN {c} ELSE {}) /\ op' = [op EXCEPT ![c] = "put"] /\ settled' = None
  /\ \E v \in Values : value' = [value EXCEPT ![c] = v]

BeginGet(c) == Begin(c) /\ op' = [op EXCEPT ![c] = "get"] /\ UNCHANGED <<value, alone, settled>>

\* The service stores the object of the current attempt.
Land(c) ==
  /\ pc[c] = "running" /\ op[c] = "put" /\ c \notin landed
  /\ Becomes(value[c]) /\ landed' = landed \cup {c}
  /\ UNCHANGED <<late, pc, op, value, attempt, file, outcome, got, alone, settled>>

\* It stores, or forgets, one of a killed attempt.
LandLate ==
  /\ \E v \in late : (Becomes(v) \/ Becomes(object)) /\ late' \in {late, late \ {v}}
  /\ UNCHANGED <<pc, op, value, attempt, landed, file, outcome, got, alone, settled>>

\* get-object writes its output file, which takes a while.
Stream(c) ==
  /\ pc[c] = "running" /\ op[c] = "get" /\ c \notin landed /\ object # None
  /\ \/ file' = [file EXCEPT ![c] = Partial] /\ UNCHANGED landed
     \/ file' = [file EXCEPT ![c] = object] /\ landed' = landed \cup {c}
  /\ UNCHANGED <<object, late, pc, op, value, attempt, outcome, got, alone, during, settled>>

----------------------------------------------------------------------------
Return(c) ==
  /\ pc' = [pc EXCEPT ![c] = "idle"] /\ outcome' = [outcome EXCEPT ![c] = "returned"]
  /\ got' = [got EXCEPT ![c] = IF op[c] = "get" THEN file[c] ELSE None]
  /\ settled' = IF op[c] = "put" /\ c \in alone /\ late = {} THEN value[c] ELSE settled
  /\ UNCHANGED <<object, late, op, value, attempt, landed, file, alone, during>>

\* The process of an attempt exits with status 0.
Succeed(c) == pc[c] = "running" /\ c \in landed /\ Return(c)

\* Mutant: after the last attempt the loop ends and the method returns.
AttemptFails_Returns(c) ==
  /\ pc[c] = "running"
  /\ \/ attempt[c] < Attempts /\ pc' = [pc EXCEPT ![c] = "waiting"] /\ UNCHANGED <<outcome, got, settled>>
     \/ /\ attempt[c] = Attempts /\ pc' = [pc EXCEPT ![c] = "idle"]
        /\ outcome' = [outcome EXCEPT ![c] = "returned"]
        /\ got' = [got EXCEPT ![c] = IF op[c] = "get" THEN file[c] ELSE None]
        /\ settled' = IF op[c] = "put" /\ c \in alone /\ late = {} THEN value[c] ELSE settled
  /\ UNCHANGED <<object, op, value, attempt, landed, file, alone, during>>

\* The attempt has failed: another one after a pause, or the error is raised.
AttemptFails(c) ==
  /\ pc[c] = "running"
  /\ \/ attempt[c] < Attempts /\ pc' = [pc EXCEPT ![c] = "waiting"] /\ UNCHANGED outcome
     \/ /\ attempt[c] = Attempts /\ pc' = [pc EXCEPT ![c] = "idle"]
        /\ outcome' = [outcome EXCEPT ![c] = "raised"]
  /\ UNCHANGED <<object, op, value, attempt, landed, file, got, alone, during, settled>>

\* The process exits with another status; the request may have been carried out.
Refuse(c) == AttemptFails(c) /\ UNCHANGED late

\* The process is killed, but its request may be on its way.
TimeOut(c) ==
  /\ AttemptFails(c)
  /\ late' = IF op[c] = "put" /\ c \notin landed THEN late \cup {value[c]} ELSE late

Retry(c) ==
  /\ pc[c] = "waiting" /\ pc' = [pc EXCEPT ![c] = "running"]
  /\ attempt' = [attempt EXCEPT ![c] = @ + 1] /\ landed' = landed \ {c}
  /\ UNCHANGED <<object, late, op, value, file, outcome, got, alone, during, settled>>

Next ==
  \/ LandLate
  \/ \E c \in Clients : \/ BeginPut(c) \/ BeginGet(c) \/ Land(c) \/ Stream(c) \/ Succeed(c)
                        \/ Refuse(c) \/ TimeOut(c) \/ Retry(c)

Spec == Init /\ [][Next]_vars

----------------------------------------------------------------------------
\* A PUT that returns, when no other one has been under way since it began, is what the
\* object is until another one begins: the read-back that follows it is of its own bytes.
SettledStays == settled # None => object = settled

\* What get_object returns has been the object at one moment of the call, never the
\* beginning of one that an earlier attempt has left in the output file.
ReadsWhole ==
  \A c \in Clients :
    op[c] = "get" /\ pc[c] = "idle" /\ outcome[c] = "returned" => got[c] \in during[c]

Putting(c) == pc[c] # "idle" /\ op[c] = "put"

Store == INSTANCE ObjectStore WITH
  put      <- [c \in Clients |-> IF Putting(c) THEN value[c] ELSE None],
  done     <- {c \in landed : pc[c] = "running" /\ op[c] = "put"},
  answered <- {c \in Clients : pc[c] = "idle" /\ op[c] = "put" /\ outcome[c] = "returned"},
  ghosts   <- late

\* The attempts of a call, killed ones included, are to its caller one PUT: it has taken effect
\* when it returns, and only values of abandoned requests may be stored later.
ImplementsStore == Store!Spec
=============================================================================
