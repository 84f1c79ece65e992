--------------------------- MODULE TransferProofs ---------------------------
(***************************************************************************)
(* The attempts inside one PUT or GET, for any number of clients, values   *)
(* and attempts: what a call that returns has done, and that the calls     *)
(* implement ObjectStore.                                                  *)
(***************************************************************************)
EXTENDS ObjectTransfer, TLAPS

\* While a PUT has been alone, whatever may still be carried out is its own, and once its
\* attempt has been carried out the object is what it puts.
AloneOwns ==
  \A c \in alone : Putting(c) =>
    /\ late \subseteq {value[c]} /\ \A d \in Clients \ {c} : ~Putting(d)
    /\ c \in landed => object = value[c]

\* After a settled PUT nothing is under way that could change the object.
SettledRests == settled # None => object = settled /\ late = {} /\ \A c \in Clients : ~Putting(c)

\* What a GET has completely read has been the object during the call.
ReadDuring ==
  \A c \in Clients :
    /\ pc[c] # "idle" => object \in during[c]
    /\ op[c] = "get" /\ pc[c] = "running" /\ c \in landed => file[c] \in during[c]

\* Between two attempts one is left.
AttemptsLeft == \A c \in Clients : pc[c] = "waiting" => attempt[c] < Attempts

TransferInv == TypeOK /\ AttemptsLeft /\ AloneOwns /\ SettledRests /\ ReadDuring /\ ReadsWhole

\* The types are kept by every step.
LEMMA TypeStep == TransferInv /\ [Next]_vars => TypeOK' /\ AttemptsLeft'
<1> SUFFICES ASSUME TransferInv, [Next]_vars PROVE TypeOK' /\ AttemptsLeft'
  OBVIOUS
<1> USE TransferAssumption DEF TransferInv, TypeOK, AttemptsLeft, Bytes
<1>1. CASE LandLate
  BY <1>1 DEF LandLate, Becomes
<1>2. ASSUME NEW c \in Clients, BeginPut(c) PROVE TypeOK' /\ AttemptsLeft'
  BY <1>2 DEF BeginPut, Begin
<1>3. ASSUME NEW c \in Clients, BeginGet(c) PROVE TypeOK' /\ AttemptsLeft'
  BY <1>3 DEF BeginGet, Begin
<1>4. ASSUME NEW c \in Clients, Land(c) PROVE TypeOK' /\ AttemptsLeft'
  BY <1>4 DEF Land, Becomes
<1>5. ASSUME NEW c \in Clients, Stream(c) PROVE TypeOK' /\ AttemptsLeft'
  BY <1>5 DEF Stream
<1>6. ASSUME NEW c \in Clients, Succeed(c) PROVE TypeOK' /\ AttemptsLeft'
  <2>1. op[c] = "get" => file[c] \in Bytes
    BY <1>6 DEF Succeed, ReadDuring
  <2>2. QED
    BY <1>6, <2>1 DEF Succeed, Return
<1>7. ASSUME NEW c \in Clients, Refuse(c) \/ TimeOut(c) PROVE TypeOK' /\ AttemptsLeft'
  BY <1>7 DEF Refuse, TimeOut, AttemptFails
<1>8. ASSUME NEW c \in Clients, Retry(c) PROVE TypeOK' /\ AttemptsLeft'
  BY <1>8 DEF Retry
<1>9. CASE UNCHANGED vars
  BY <1>9 DEF vars
<1>10. QED
  BY <1>1, <1>2, <1>3, <1>4, <1>5, <1>6, <1>7, <1>8, <1>9 DEF Next

\* A PUT that begins is alone only if no other one is under way, and one that was alone is
\* so no more; what an attempt of it stores, late or not, is its own value.
LEMMA AloneStep == TransferInv /\ [Next]_vars => AloneOwns' /\ SettledRests'
<1> SUFFICES ASSUME TransferInv, [Next]_vars PROVE AloneOwns' /\ SettledRests'
  OBVIOUS
<1> USE TransferAssumption DEF TransferInv, TypeOK, AloneOwns, SettledRests, Putting, Bytes
<1>1. CASE LandLate
  BY <1>1 DEF LandLate, Becomes
<1>2. ASSUME NEW c \in Clients, BeginPut(c) PROVE AloneOwns' /\ SettledRests'
  BY <1>2 DEF BeginPut, Begin, Quiet
<1>3. ASSUME NEW c \in Clients, BeginGet(c) PROVE AloneOwns' /\ SettledRests'
  BY <1>3 DEF BeginGet, Begin
<1>4. ASSUME NEW c \in Clients, Land(c) PROVE AloneOwns' /\ SettledRests'
  BY <1>4 DEF Land, Becomes
<1>5. ASSUME NEW c \in Clients, Stream(c) PROVE AloneOwns' /\ SettledRests'
  BY <1>5 DEF Stream
<1>6. ASSUME NEW c \in Clients, Succeed(c) PROVE AloneOwns' /\ SettledRests'
  BY <1>6 DEF Succeed, Return
<1>7. ASSUME NEW c \in Clients, Refuse(c) \/ TimeOut(c) PROVE AloneOwns' /\ SettledRests'
  BY <1>7 DEF Refuse, TimeOut, AttemptFails
<1>8. ASSUME NEW c \in Clients, Retry(c) PROVE AloneOwns' /\ SettledRests'
  BY <1>8 DEF Retry
<1>9. CASE UNCHANGED vars
  BY <1>9 DEF vars
<1>10. QED
  BY <1>1, <1>2, <1>3, <1>4, <1>5, <1>6, <1>7, <1>8, <1>9 DEF Next

\* The history of the object grows with every change of it, until the call has ended.
LEMMA ReadStep == TransferInv /\ [Next]_vars => ReadDuring' /\ ReadsWhole'
<1> SUFFICES ASSUME TransferInv, [Next]_vars PROVE ReadDuring' /\ ReadsWhole'
  OBVIOUS
<1> USE TransferAssumption DEF TransferInv, TypeOK, ReadDuring, ReadsWhole, Bytes
<1>1. CASE LandLate
  BY <1>1 DEF LandLate, Becomes
<1>2. ASSUME NEW c \in Clients, BeginPut(c) PROVE ReadDuring' /\ ReadsWhole'
  BY <1>2 DEF BeginPut, Begin
<1>3. ASSUME NEW c \in Clients, BeginGet(c) PROVE ReadDuring' /\ ReadsWhole'
  BY <1>3 DEF BeginGet, Begin
<1>4. ASSUME NEW c \in Clients, Land(c) PROVE ReadDuring' /\ ReadsWhole'
  BY <1>4 DEF Land, Becomes
<1>5. ASSUME NEW c \in Clients, Stream(c) PROVE ReadDuring' /\ ReadsWhole'
  BY <1>5 DEF Stream
<1>6. ASSUME NEW c \in Clients, Succeed(c) PROVE ReadDuring' /\ ReadsWhole'
  BY <1>6 DEF Succeed, Return
<1>7. ASSUME NEW c \in Clients, Refuse(c) \/ TimeOut(c) PROVE ReadDuring' /\ ReadsWhole'
  BY <1>7 DEF Refuse, TimeOut, AttemptFails
<1>8. ASSUME NEW c \in Clients, Retry(c) PROVE ReadDuring' /\ ReadsWhole'
  BY <1>8 DEF Retry
<1>9. CASE UNCHANGED vars
  BY <1>9 DEF vars
<1>10. QED
  BY <1>1, <1>2, <1>3, <1>4, <1>5, <1>6, <1>7, <1>8, <1>9 DEF Next

\* The invariant holds before the first call.
LEMMA TransferInit == Init => TransferInv
  BY TransferAssumption DEF Init, TransferInv, TypeOK, AttemptsLeft, AloneOwns, SettledRests,
       ReadDuring, ReadsWhole, Bytes

\* The inductive invariant of the transfers.
LEMMA TransferInvariant == Spec => []TransferInv
<1>1. TransferInv /\ [Next]_vars => TransferInv'
  BY TypeStep, AloneStep, ReadStep DEF TransferInv
<1>2. QED
  BY <1>1, TransferInit, PTL DEF Spec

\* What a PUT has stored that was alone stays until another one begins, however many of its
\* attempts were killed: the read-back after it is of its own bytes.
THEOREM SettledPutsStay == Spec => []SettledStays
<1>1. TransferInv => SettledStays
  BY DEF TransferInv, SettledRests, SettledStays
<1>2. QED
  BY <1>1, TransferInvariant, PTL

\* get_object returns what the object was at one moment of the call, never the beginning of
\* it that a killed attempt has left.
THEOREM ReadsAreWhole == Spec => []ReadsWhole
<1>1. TransferInv => ReadsWhole
  BY DEF TransferInv
<1>2. QED
  BY <1>1, TransferInvariant, PTL

----------------------------------------------------------------------------
\* Every step of a call is one of ObjectStore's for the same client, or none.
LEMMA StoreStep == TransferInv /\ [Next]_vars => [Store!Next]_(Store!vars)
<1> SUFFICES ASSUME TransferInv, [Next]_vars PROVE Store!Next \/ UNCHANGED Store!vars
  OBVIOUS
<1> USE TransferAssumption DEF TransferInv, TypeOK, Putting, Bytes
<1>1. CASE LandLate
  <2>1. Store!Haunt
    BY <1>1 DEF LandLate, Becomes, Store!Haunt
  <2>2. QED
    BY <2>1 DEF Store!Next
<1>2. ASSUME NEW c \in Clients, BeginPut(c) PROVE Store!Next
  <2>1. Store!Begin(c)
    BY <1>2 DEF BeginPut, Begin, Store!Begin
  <2>2. QED
    BY <2>1 DEF Store!Next
<1>3. ASSUME NEW c \in Clients, BeginGet(c) PROVE Store!Next
  <2>1. Store!Forget(c)
    BY <1>3 DEF BeginGet, Begin, Store!Forget
  <2>2. QED
    BY <2>1 DEF Store!Next
<1>4. ASSUME NEW c \in Clients, Land(c) PROVE Store!Next
  <2>1. Store!Effect(c)
    BY <1>4 DEF Land, Becomes, Store!Effect
  <2>2. QED
    BY <2>1 DEF Store!Next
<1>5. ASSUME NEW c \in Clients, Stream(c) PROVE UNCHANGED Store!vars
  BY <1>5 DEF Stream, Store!vars
<1>6. ASSUME NEW c \in Clients, Succeed(c) PROVE Store!Next \/ UNCHANGED Store!vars
  <2>1. CASE op[c] = "put"
    <3>1. Store!Return(c)
      BY <1>6, <2>1 DEF Succeed, Return, Store!Return
    <3>2. QED
      BY <3>1 DEF Store!Next
  <2>2. CASE op[c] = "get"
    BY <1>6, <2>2 DEF Succeed, Return, Store!vars
  <2>3. QED
    BY <2>1, <2>2
<1>7. ASSUME NEW c \in Clients, Refuse(c) \/ TimeOut(c)
      PROVE  Store!Next \/ UNCHANGED Store!vars
  <2>1. CASE op[c] = "put" /\ attempt[c] < Attempts
    <3>1. Store!Abandon(c)
      BY <1>7, <2>1 DEF Refuse, TimeOut, AttemptFails, Store!Abandon
    <3>2. QED
      BY <3>1 DEF Store!Next
  <2>2. CASE op[c] = "put" /\ attempt[c] = Attempts
    <3>1. /\ pc[c] = "running" /\ pc' = [pc EXCEPT ![c] = "idle"]
          /\ outcome' = [outcome EXCEPT ![c] = "raised"]
          /\ UNCHANGED <<object, op, value, landed>>
          /\ late' \in {late, late \cup {value[c]}}
      BY <1>7, <2>2 DEF Refuse, TimeOut, AttemptFails
    <3>2. Store!Raise(c)
      BY <2>2, <3>1 DEF Store!Raise
    <3>3. QED
      BY <3>2 DEF Store!Next
  <2>3. CASE op[c] = "get"
    BY <1>7, <2>3 DEF Refuse, TimeOut, AttemptFails, Store!vars
  <2>4. QED
    BY <1>7, <2>1, <2>2, <2>3
<1>8. ASSUME NEW c \in Clients, Retry(c) PROVE UNCHANGED Store!vars
  BY <1>8 DEF Retry, Store!vars
<1>9. CASE UNCHANGED vars
  BY <1>9 DEF vars, Store!vars
<1>10. QED
  BY <1>1, <1>2, <1>3, <1>4, <1>5, <1>6, <1>7, <1>8, <1>9 DEF Next

\* The calls of put_object, with their retries and killed attempts, implement ObjectStore.
THEOREM TransferImplementsStore == Spec => ImplementsStore
<1>1. Init => Store!Init
  BY TransferAssumption DEF Init, Store!Init, Putting, Bytes
<1>2. QED
  BY <1>1, StoreStep, TransferInvariant, PTL DEF Spec, ImplementsStore, Store!Spec
=============================================================================
