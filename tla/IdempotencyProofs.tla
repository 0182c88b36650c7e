-------------------------- MODULE IdempotencyProofs --------------------------
(***************************************************************************)
(* What the Idempotency middleware guarantees for any number of callers,   *)
(* fingerprints and faults.                                                *)
(***************************************************************************)
EXTENDS Idempotency, TLAPS

------------------------------------------------------------------------------
(* Type correctness *)

\* No row and no caller has moved.
LEMMA TypeInit == Init => TypeOK
  <1> SUFFICES ASSUME Init PROVE TypeOK
    OBVIOUS
  <1>1. faults \in 0..MaxFaults
    BY IdempotencyFaultsAssumption DEF Init
  <1>2. stale \in BOOLEAN /\ expired \in BOOLEAN
    BY DEF Init
  <1>3. pc \in [Callers -> Steps] /\ answer \in [Callers -> Callers \cup {"none"}]
    BY DEF Init, Steps
  <1> QED
    BY <1>1, <1>2, <1>3 DEF Init, TypeOK, Statuses

\* A caller that goes to a known step is at one.
LEMMA GotoType ==
  ASSUME TypeOK, NEW c \in Callers, NEW s \in Steps, Goto(c, s)
  PROVE  pc' \in [Callers -> Steps]
  BY DEF TypeOK, Goto

\* Every step of the middleware, of time and of the reaper keeps the types.
LEMMA TypeStep == TypeOK /\ [Next]_vars => TypeOK'
  <1> SUFFICES ASSUME TypeOK, [Next]_vars PROVE TypeOK'
    OBVIOUS
  <1> USE DEF row
  <1>1. ASSUME NEW c \in Callers, Claim(c) \/ Reclaim(c) PROVE TypeOK'
    BY <1>1, GotoType DEF Claim, Reclaim, Insert, TypeOK, Steps, Statuses
  <1>2. ASSUME NEW c \in Callers, Get(c) PROVE TypeOK'
    BY <1>2, GotoType DEF Get, TypeOK, Steps
  <1>3. ASSUME NEW c \in Callers, TakeOver(c) PROVE TypeOK'
    BY <1>3, GotoType DEF TakeOver, TypeOK, Steps
  <1>4. ASSUME NEW c \in Callers, Handle(c) PROVE TypeOK'
    BY <1>4, GotoType DEF Handle, TypeOK, Steps
  <1>5. ASSUME NEW c \in Callers, Complete(c) PROVE TypeOK'
    BY <1>5, GotoType DEF Complete, TypeOK, Steps, Statuses
  <1>6. ASSUME NEW c \in Callers, Vacate(c) PROVE TypeOK'
    BY <1>6, GotoType DEF Vacate, NoRow, TypeOK, Steps, Statuses
  <1>7. ASSUME NEW c \in Callers, StatementFails(c) \/ Crash(c) PROVE TypeOK'
    <2>1. faults' \in 0..MaxFaults
      BY <1>7, IdempotencyFaultsAssumption DEF StatementFails, Crash, Fault, TypeOK
    <2>2. pc' \in [Callers -> Steps]
      BY <1>7, GotoType DEF StatementFails, Crash, Steps
    <2> QED
      BY <1>7, <2>1, <2>2 DEF StatementFails, Crash, TypeOK
  <1>8. CASE FallSilent \/ Expire \/ DeleteExpired
    BY <1>8 DEF FallSilent, Expire, DeleteExpired, NoRow, TypeOK, Statuses
  <1>9. CASE UNCHANGED vars
    BY <1>9 DEF vars, TypeOK
  <1> QED
    BY <1>1, <1>2, <1>3, <1>4, <1>5, <1>6, <1>7, <1>8, <1>9 DEF Next

\* The row and the callers stay in the states the middleware knows; a response
\* is always some attempt's.
THEOREM IdempotencyTypeCorrect == Spec => []TypeOK
  BY TypeInit, TypeStep, PTL DEF Spec

------------------------------------------------------------------------------
(* Replays *)

\* A completed row holds the response to a request with the row's fingerprint:
\* complete's guard compares the hash, whoever holds the row by then.
ResponseMatches ==
    status = "completed" => response \in Callers /\ print[response] = hash

ReplayInv == ResponseMatches /\ ReplayIsOwnRequest

\* ReplayInv is inductive.
LEMMA ReplayStep == TypeOK /\ ReplayInv /\ [Next]_vars => ReplayInv'
  <1> SUFFICES ASSUME TypeOK, ReplayInv, [Next]_vars PROVE ReplayInv'
    OBVIOUS
  <1> USE DEF row, ReplayInv, ResponseMatches, ReplayIsOwnRequest
  <1>1. ASSUME NEW c \in Callers, Claim(c) \/ Reclaim(c) PROVE ReplayInv'
    BY <1>1 DEF Claim, Reclaim, Insert
  <1>2. ASSUME NEW c \in Callers, Get(c) PROVE ReplayInv'
    <2>1. ResponseMatches'
      BY <1>2 DEF Get
    <2>2. ReplayIsOwnRequest'
      BY <1>2 DEF Get, TypeOK
    <2> QED
      BY <2>1, <2>2
  <1>3. ASSUME NEW c \in Callers, TakeOver(c) \/ Handle(c) PROVE ReplayInv'
    BY <1>3 DEF TakeOver, MayTakeOver, Handle
  <1>4. ASSUME NEW c \in Callers, Complete(c) PROVE ReplayInv'
    BY <1>4 DEF Complete, MayFinish
  <1>5. ASSUME NEW c \in Callers, Vacate(c) PROVE ReplayInv'
    BY <1>5 DEF Vacate, NoRow
  <1>6. ASSUME NEW c \in Callers, StatementFails(c) \/ Crash(c) PROVE ReplayInv'
    BY <1>6 DEF StatementFails, Crash
  <1>7. CASE FallSilent \/ Expire \/ DeleteExpired
    BY <1>7 DEF FallSilent, Expire, DeleteExpired, NoRow
  <1>8. CASE UNCHANGED vars
    BY <1>8 DEF vars
  <1> QED
    BY <1>1, <1>2, <1>3, <1>4, <1>5, <1>6, <1>7, <1>8 DEF Next

\* A caller is only ever replayed the response to its own request, for any
\* number of callers, takeovers and vacations.
THEOREM ReplaysAreOwn == Spec => []ReplayIsOwnRequest
  <1>1. Init => ReplayInv
    BY DEF Init, ReplayInv, ResponseMatches, ReplayIsOwnRequest
  <1>2. ReplayInv => ReplayIsOwnRequest
    BY DEF ReplayInv
  <1> QED
    BY <1>1, <1>2, ReplayStep, IdempotencyTypeCorrect, PTL DEF Spec

\* Once a response is stored a step neither touches it, short of the key's
\* expiry, nor starts the handler for any caller.
LEMMA CompletedStep ==
  TypeOK /\ [Next]_vars =>
      /\ [status = "completed" /\ ~expired =>
             status' = "completed" /\ response' = response]_vars
      /\ [status = "completed" =>
             \A c \in Callers : pc'[c] = "running" => pc[c] = "running"]_vars
  <1> SUFFICES ASSUME TypeOK, Next, status = "completed"
               PROVE  /\ ~expired => status' = "completed" /\ response' = response
                      /\ \A c \in Callers : pc'[c] = "running" => pc[c] = "running"
    OBVIOUS
  <1> USE DEF row, Goto, TypeOK
  <1>1. ASSUME NEW c \in Callers, Claim(c) \/ Reclaim(c) \/ Get(c) PROVE
           /\ UNCHANGED row
           /\ \A d \in Callers : pc'[d] = "running" => pc[d] = "running"
    BY <1>1 DEF Claim, Reclaim, Get, Insert
  <1>2. ASSUME NEW c \in Callers, TakeOver(c) \/ Handle(c) PROVE
           /\ UNCHANGED row
           /\ \A d \in Callers : pc'[d] = "running" => pc[d] = "running"
    BY <1>2 DEF TakeOver, MayTakeOver, Handle
  <1>3. ASSUME NEW c \in Callers, Complete(c) \/ Vacate(c) PROVE
           /\ UNCHANGED row
           /\ \A d \in Callers : pc'[d] = "running" => pc[d] = "running"
    BY <1>3 DEF Complete, Vacate, MayFinish
  <1>4. ASSUME NEW c \in Callers, StatementFails(c) \/ Crash(c) PROVE
           /\ UNCHANGED row
           /\ \A d \in Callers : pc'[d] = "running" => pc[d] = "running"
    BY <1>4 DEF StatementFails, Crash
  <1>5. CASE FallSilent \/ Expire
    BY <1>5 DEF FallSilent, Expire
  <1>6. CASE DeleteExpired
    BY <1>6 DEF DeleteExpired
  <1> QED
    BY <1>1, <1>2, <1>3, <1>4, <1>5, <1>6 DEF Next

\* Until the key expires a stored response is neither overwritten by a slower
\* attempt's completion nor vacated by a failing one.
THEOREM StoredResponseIsFinal == Spec => FirstResponseStays
  BY CompletedStep, IdempotencyTypeCorrect, PTL DEF Spec, FirstResponseStays

\* Once a response is stored no caller, however late its takeover comes or
\* however stale the row it read, runs the work again.
THEOREM CompletedWorkIsNotRerun == Spec => CompletedNeverReruns
  BY CompletedStep, IdempotencyTypeCorrect, PTL DEF Spec, CompletedNeverReruns

====
