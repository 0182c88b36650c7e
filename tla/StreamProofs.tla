---------------------------- MODULE StreamProofs ----------------------------
(***************************************************************************)
(* Proofs about Stream for every number of attempts, frames and channel    *)
(* slots.  The inductive invariant has four parts besides the types:       *)
(*   Ahead     nothing has happened on attempts the rotation has not met;  *)
(*   Boundary  what first, ended and hold say of each other at each point; *)
(*   Flow      frames are conserved between body, channel and client;      *)
(*   Clean     what a clean end has seen of its reader.                    *)
(***************************************************************************)
EXTENDS Stream, TLAPS

Sending(h) == IF reader[h] = "sending" THEN 1 ELSE 0

\* Attempts after the current one are untouched, and a dispatched one has no
\* reader before its headers; no context is over before its attempt is.
Ahead ==
    /\ \A h \in Hops : h > hop => reader[h] = "off" /\ timer[h] = "off" /\ cause[h] = "none"
    /\ pc \in {"do", "pump"} => hop \in Hops /\ cause[hop] # "over"
    /\ pc = "do" => reader[hop] = "off"

\* The first byte, the end of the stream and the money, as the request moves on.
Boundary ==
    /\ \A h \in Hops : written[h] > 0 => h = hop /\ first
    /\ first => \/ client = "gone"
                \/ \E h \in Hops : written[h] > 0
    /\ pc \in {"next", "do"} => ~first
    /\ pc \in {"next", "do", "pump"} => ended = "none"
    /\ pc \in {"settle", "done"} /\ first => ended # "none"
    /\ ended # "none" => hop \in Hops /\ Done(hop)
    /\ pc # "done" => hold = "held"
    /\ pc = "done" => (hold = "settled" <=> first)

\* No frame is invented, and none is lost while the attempt's context lives.
FlowAt(h) ==
    /\ written[h] + queued[h] + Sending(h) <= taken[h]
    /\ ~Done(h) => written[h] + queued[h] + Sending(h) = taken[h]
    /\ ~Done(h) /\ reader[h] = "stopped" => readErr[h] # "none"

Flow == \A h \in Hops : FlowAt(h)

Clean ==
    ended = "ok" /\ cause[hop] = "over"
        => /\ reader[hop] = "stopped"
           /\ readErr[hop] = "eof"
           /\ written[hop] = taken[hop]

\* TypeOK in three parts that the provers manage one at a time.
TypeRequest ==
    /\ pc \in {"next", "do", "pump", "settle", "done"}
    /\ hop \in 0 .. MaxAttempts
    /\ client \in {"here", "gone"}
    /\ elapsed \in BOOLEAN
    /\ first \in BOOLEAN
    /\ ended \in {"none", "ok", "canceled", "upstream_error"}
    /\ hold \in {"held", "void", "settled"}

TypeCounts ==
    /\ written \in [Hops -> 0 .. Frames]
    /\ taken \in [Hops -> 0 .. Frames]
    /\ queued \in [Hops -> 0 .. Cap]

TypeHops ==
    /\ cause \in [Hops -> {"none", "client", "budget", "over"}]
    /\ timer \in [Hops -> {"off", "armed", "fired"}]
    /\ reader \in [Hops -> {"off", "reading", "sending", "stopped"}]
    /\ readErr \in [Hops -> {"none", "eof", "broken"}]
    /\ verdict \in [Hops -> {"none", "success", "failure"}]

IInv ==
    /\ TypeRequest /\ TypeCounts /\ TypeHops
    /\ Ahead /\ Boundary /\ Flow /\ Clean

-----------------------------------------------------------------------------
\* Nothing has been read, sent or charged at the start.
LEMMA InitKeeps == Init => IInv
  <1> SUFFICES ASSUME Init PROVE IInv
    OBVIOUS
  <1> USE StreamConstants DEF Hops
  <1>1. TypeRequest
    <2>1. hop \in 0 .. MaxAttempts
      BY DEF Init
    <2> QED BY <2>1 DEF Init, TypeRequest
  <1>5. TypeHops
    BY DEF Init, TypeHops
  <1>4. TypeCounts
    <2>1. 0 \in 0 .. Frames /\ 0 \in 0 .. Cap
      OBVIOUS
    <2> QED BY <2>1 DEF Init, TypeCounts
  <1>2. Ahead /\ Boundary /\ Clean
    BY DEF Init, Ahead, Boundary, Clean, Done
  <1>3. Flow
    BY DEF Init, Flow, FlowAt, Sending, Done
  <1> QED BY <1>1, <1>2, <1>3, <1>4, <1>5 DEF IInv

\* The steps of the rotation: no frame moves.
LEMMA RotationKeeps ==
    IInv /\ (StopRotation \/ NotSent \/ Dispatch \/ Refused \/ TransportError \/ Headers) => IInv'
  <1> SUFFICES ASSUME IInv, StopRotation \/ NotSent \/ Dispatch \/ Refused \/ TransportError \/ Headers PROVE IInv'
    OBVIOUS
  <1> USE StreamConstants DEF Hops, hopVars
  <1>1. CASE StopRotation
    <2>1. TypeRequest'
      BY <1>1 DEF StopRotation, IInv, TypeRequest, Ahead
    <2>2. TypeCounts'
      BY <1>1 DEF StopRotation, IInv, TypeRequest, TypeCounts, Flow, FlowAt, Ahead, Sending
    <2>3. TypeHops'
      BY <1>1 DEF StopRotation, IInv, TypeRequest, TypeHops
    <2>4. Ahead'
      BY <1>1 DEF StopRotation, IInv, TypeRequest, TypeCounts, TypeHops, Ahead
    <2>5. Boundary'
      BY <1>1 DEF StopRotation, IInv, TypeRequest, TypeCounts, TypeHops, Ahead, Boundary, Done
    <2>6. Flow'
      <3> SUFFICES ASSUME NEW g \in Hops PROVE FlowAt(g)'
        BY DEF Flow
      <3>1. FlowAt(g)
        BY DEF IInv, Flow
      <3> QED BY <1>1, <3>1 DEF StopRotation, IInv, TypeRequest, TypeCounts, TypeHops, Ahead, Boundary, FlowAt, Sending, Done
    <2>7. Clean'
      BY <1>1 DEF StopRotation, IInv, TypeRequest, TypeCounts, TypeHops, Boundary, Flow, FlowAt, Clean, Done, Sending
    <2> QED BY <2>1, <2>2, <2>3, <2>4, <2>5, <2>6, <2>7 DEF IInv
  <1>2. CASE NotSent
    <2>1. TypeRequest'
      BY <1>2 DEF NotSent, IInv, TypeRequest, Ahead
    <2>2. TypeCounts'
      BY <1>2 DEF NotSent, IInv, TypeRequest, TypeCounts, Flow, FlowAt, Ahead, Sending
    <2>3. TypeHops'
      BY <1>2 DEF NotSent, IInv, TypeRequest, TypeHops
    <2>4. Ahead'
      BY <1>2 DEF NotSent, IInv, TypeRequest, TypeCounts, TypeHops, Ahead
    <2>5. Boundary'
      BY <1>2 DEF NotSent, IInv, TypeRequest, TypeCounts, TypeHops, Ahead, Boundary, Done
    <2>6. Flow'
      <3> SUFFICES ASSUME NEW g \in Hops PROVE FlowAt(g)'
        BY DEF Flow
      <3>1. FlowAt(g)
        BY DEF IInv, Flow
      <3> QED BY <1>2, <3>1 DEF NotSent, IInv, TypeRequest, TypeCounts, TypeHops, Ahead, Boundary, FlowAt, Sending, Done
    <2>7. Clean'
      BY <1>2 DEF NotSent, IInv, TypeRequest, TypeCounts, TypeHops, Boundary, Flow, FlowAt, Clean, Done, Sending
    <2> QED BY <2>1, <2>2, <2>3, <2>4, <2>5, <2>6, <2>7 DEF IInv
  <1>3. CASE Dispatch
    <2>1. TypeRequest'
      BY <1>3 DEF Dispatch, IInv, TypeRequest, Ahead, Cancel
    <2>2. TypeCounts'
      BY <1>3 DEF Dispatch, IInv, TypeRequest, TypeCounts, Flow, FlowAt, Ahead, Sending, Cancel
    <2>3. TypeHops'
      <3>1. UNCHANGED <<reader, readErr>> /\ hop' \in Hops
        BY <1>3 DEF Dispatch, IInv, TypeRequest
      <3>2. cause' \in [Hops -> {"none", "client", "budget", "over"}]
        <4>1. \/ cause' = cause
              \/ cause' = [cause EXCEPT ![hop'] = IF @ = "none" THEN "client" ELSE @]
          BY <1>3 DEF Dispatch, Cancel
        <4> QED BY <3>1, <4>1 DEF IInv, TypeHops
      <3>3. timer' \in [Hops -> {"off", "armed", "fired"}]
        BY <1>3, <3>1 DEF Dispatch, IInv, TypeHops
      <3>4. verdict' \in [Hops -> {"none", "success", "failure"}]
        BY <1>3, <3>1 DEF Dispatch, IInv, TypeHops
      <3> QED BY <3>1, <3>2, <3>3, <3>4 DEF IInv, TypeHops
    <2>4. Ahead'
      <3>1. hop' = hop + 1 /\ hop' \in Hops /\ hop \in Nat /\ UNCHANGED reader
        BY <1>3 DEF Dispatch, IInv, TypeRequest
      <3>2. cause[hop'] = "none" /\ reader[hop'] = "off"
        BY <3>1 DEF IInv, Ahead
      <3>3. cause'[hop'] # "over"
        BY <1>3, <3>1, <3>2 DEF Dispatch, IInv, TypeHops, Cancel
      <3>4. \A h \in Hops : h # hop' => cause'[h] = cause[h] /\ timer'[h] = timer[h]
        BY <1>3, <3>1 DEF Dispatch, IInv, TypeHops, Cancel
      <3>5. pc' = "do" \/ pc' = "settle"
        BY <1>3 DEF Dispatch
      <3> QED BY <3>1, <3>2, <3>3, <3>4, <3>5 DEF IInv, Ahead
    <2>5. Boundary'
      BY <1>3 DEF Dispatch, IInv, TypeRequest, TypeCounts, TypeHops, Ahead, Boundary, Done, Cancel
    <2>6. Flow'
      <3> SUFFICES ASSUME NEW g \in Hops PROVE FlowAt(g)'
        BY DEF Flow
      <3>1. FlowAt(g)
        BY DEF IInv, Flow
      <3> QED BY <1>3, <3>1 DEF Dispatch, IInv, TypeRequest, TypeCounts, TypeHops, Ahead, Boundary, FlowAt, Sending, Done, Cancel
    <2>7. Clean'
      BY <1>3 DEF Dispatch, IInv, TypeRequest, TypeCounts, TypeHops, Boundary, Flow, FlowAt, Clean, Done, Sending, Cancel
    <2> QED BY <2>1, <2>2, <2>3, <2>4, <2>5, <2>6, <2>7 DEF IInv
  <1>4. CASE Refused
    <2>1. TypeRequest'
      BY <1>4 DEF Refused, IInv, TypeRequest, Ahead, Disarm, Cancel
    <2>2. TypeCounts'
      BY <1>4 DEF Refused, IInv, TypeRequest, TypeCounts, Flow, FlowAt, Ahead, Sending, Disarm, Cancel
    <2>3. TypeHops'
      <3>1. UNCHANGED <<reader, readErr>> /\ hop \in Hops
        BY <1>4 DEF Refused, IInv, Ahead
      <3>2. cause' \in [Hops -> {"none", "client", "budget", "over"}]
        BY <1>4, <3>1 DEF Refused, IInv, TypeHops, Disarm, Cancel
      <3>3. timer' \in [Hops -> {"off", "armed", "fired"}]
        BY <1>4, <3>1 DEF Refused, IInv, TypeHops, Disarm
      <3>4. verdict' \in [Hops -> {"none", "success", "failure"}]
        BY <1>4, <3>1 DEF Refused, IInv, TypeHops
      <3> QED BY <3>1, <3>2, <3>3, <3>4 DEF IInv, TypeHops
    <2>4. Ahead'
      BY <1>4 DEF Refused, IInv, TypeRequest, TypeCounts, TypeHops, Ahead, Disarm, Cancel
    <2>5. Boundary'
      BY <1>4 DEF Refused, IInv, TypeRequest, TypeCounts, TypeHops, Ahead, Boundary, Done, Disarm, Cancel
    <2>6. Flow'
      <3> SUFFICES ASSUME NEW g \in Hops PROVE FlowAt(g)'
        BY DEF Flow
      <3>1. FlowAt(g)
        BY DEF IInv, Flow
      <3> QED BY <1>4, <3>1 DEF Refused, IInv, TypeRequest, TypeCounts, TypeHops, Ahead, Boundary, FlowAt, Sending, Done, Disarm, Cancel
    <2>7. Clean'
      BY <1>4 DEF Refused, IInv, TypeRequest, TypeCounts, TypeHops, Boundary, Flow, FlowAt, Clean, Done, Sending, Disarm, Cancel
    <2> QED BY <2>1, <2>2, <2>3, <2>4, <2>5, <2>6, <2>7 DEF IInv
  <1>5. CASE TransportError
    <2>1. TypeRequest'
      BY <1>5 DEF TransportError, IInv, TypeRequest, Ahead, Disarm, Cancel
    <2>2. TypeCounts'
      BY <1>5 DEF TransportError, IInv, TypeRequest, TypeCounts, Flow, FlowAt, Ahead, Sending, Disarm, Cancel
    <2>3. TypeHops'
      BY <1>5 DEF TransportError, IInv, TypeRequest, TypeHops, Disarm, Cancel
    <2>4. Ahead'
      BY <1>5 DEF TransportError, IInv, TypeRequest, TypeCounts, TypeHops, Ahead, Disarm, Cancel
    <2>5. Boundary'
      BY <1>5 DEF TransportError, IInv, TypeRequest, TypeCounts, TypeHops, Ahead, Boundary, Done, Disarm, Cancel
    <2>6. Flow'
      <3> SUFFICES ASSUME NEW g \in Hops PROVE FlowAt(g)'
        BY DEF Flow
      <3>1. FlowAt(g)
        BY DEF IInv, Flow
      <3> QED BY <1>5, <3>1 DEF TransportError, IInv, TypeRequest, TypeCounts, TypeHops, Ahead, Boundary, FlowAt, Sending, Done, Disarm, Cancel
    <2>7. Clean'
      BY <1>5 DEF TransportError, IInv, TypeRequest, TypeCounts, TypeHops, Boundary, Flow, FlowAt, Clean, Done, Sending, Disarm, Cancel
    <2> QED BY <2>1, <2>2, <2>3, <2>4, <2>5, <2>6, <2>7 DEF IInv
  <1>6. CASE Headers
    <2>1. TypeRequest'
      BY <1>6 DEF Headers, IInv, TypeRequest, Ahead
    <2>2. TypeCounts'
      BY <1>6 DEF Headers, IInv, TypeRequest, TypeCounts, Flow, FlowAt, Ahead, Sending
    <2>3. TypeHops'
      BY <1>6 DEF Headers, IInv, TypeRequest, TypeHops
    <2>4. Ahead'
      BY <1>6 DEF Headers, IInv, TypeRequest, TypeCounts, TypeHops, Ahead
    <2>5. Boundary'
      BY <1>6 DEF Headers, IInv, TypeRequest, TypeCounts, TypeHops, Ahead, Boundary, Done
    <2>6. Flow'
      <3> SUFFICES ASSUME NEW g \in Hops PROVE FlowAt(g)'
        BY DEF Flow
      <3>1. FlowAt(g)
        BY DEF IInv, Flow
      <3> QED BY <1>6, <3>1 DEF Headers, IInv, TypeRequest, TypeCounts, TypeHops, Ahead, Boundary, FlowAt, Sending, Done
    <2>7. Clean'
      BY <1>6 DEF Headers, IInv, TypeRequest, TypeCounts, TypeHops, Boundary, Flow, FlowAt, Clean, Done, Sending
    <2> QED BY <2>1, <2>2, <2>3, <2>4, <2>5, <2>6, <2>7 DEF IInv
  <1> QED BY <1>1, <1>2, <1>3, <1>4, <1>5, <1>6

\* The clock and the client.
LEMMA EnvironmentKeeps ==
    IInv /\ (BudgetRunsOut \/ HangUp) => IInv'
  <1> SUFFICES ASSUME IInv, BudgetRunsOut \/ HangUp PROVE IInv'
    OBVIOUS
  <1> USE StreamConstants DEF Hops, hopVars
  <1>1. CASE BudgetRunsOut
    <2>1. TypeRequest'
      BY <1>1 DEF BudgetRunsOut, IInv, TypeRequest, Ahead
    <2>2. TypeCounts'
      BY <1>1 DEF BudgetRunsOut, IInv, TypeRequest, TypeCounts, Flow, FlowAt, Ahead, Sending
    <2>3. TypeHops'
      BY <1>1 DEF BudgetRunsOut, IInv, TypeRequest, TypeHops
    <2>4. Ahead'
      BY <1>1 DEF BudgetRunsOut, IInv, TypeRequest, TypeCounts, TypeHops, Ahead
    <2>5. Boundary'
      BY <1>1 DEF BudgetRunsOut, IInv, TypeRequest, TypeCounts, TypeHops, Ahead, Boundary, Done
    <2>6. Flow'
      <3> SUFFICES ASSUME NEW g \in Hops PROVE FlowAt(g)'
        BY DEF Flow
      <3>1. FlowAt(g)
        BY DEF IInv, Flow
      <3> QED BY <1>1, <3>1 DEF BudgetRunsOut, IInv, TypeRequest, TypeCounts, TypeHops, Ahead, Boundary, FlowAt, Sending, Done
    <2>7. Clean'
      BY <1>1 DEF BudgetRunsOut, IInv, TypeRequest, TypeCounts, TypeHops, Boundary, Flow, FlowAt, Clean, Done, Sending
    <2> QED BY <2>1, <2>2, <2>3, <2>4, <2>5, <2>6, <2>7 DEF IInv
  <1>2. CASE HangUp
    <2>1. TypeRequest'
      BY <1>2 DEF HangUp, IInv, TypeRequest, Ahead, Cancel
    <2>2. TypeCounts'
      BY <1>2 DEF HangUp, IInv, TypeRequest, TypeCounts, Flow, FlowAt, Ahead, Sending, Cancel
    <2>3. TypeHops'
      BY <1>2 DEF HangUp, IInv, TypeRequest, TypeHops, Cancel
    <2>4. Ahead'
      BY <1>2 DEF HangUp, IInv, TypeRequest, TypeCounts, TypeHops, Ahead, Cancel
    <2>5. Boundary'
      BY <1>2 DEF HangUp, IInv, TypeRequest, TypeCounts, TypeHops, Ahead, Boundary, Done, Cancel
    <2>6. Flow'
      <3> SUFFICES ASSUME NEW g \in Hops PROVE FlowAt(g)'
        BY DEF Flow
      <3>1. FlowAt(g)
        BY DEF IInv, Flow
      <3> QED BY <1>2, <3>1 DEF HangUp, IInv, TypeRequest, TypeCounts, TypeHops, Ahead, Boundary, FlowAt, Sending, Done, Cancel
    <2>7. Clean'
      BY <1>2 DEF HangUp, IInv, TypeRequest, TypeCounts, TypeHops, Boundary, Flow, FlowAt, Clean, Done, Sending, Cancel
    <2> QED BY <2>1, <2>2, <2>3, <2>4, <2>5, <2>6, <2>7 DEF IInv
  <1> QED BY <1>1, <1>2

\* A chunk goes out, and the money is decided.
LEMMA PumpKeeps ==
    IInv /\ (PumpChunk \/ Finish) => IInv'
  <1> SUFFICES ASSUME IInv, PumpChunk \/ Finish PROVE IInv'
    OBVIOUS
  <1> USE StreamConstants DEF Hops, hopVars
  <1>1. CASE PumpChunk
    <2>1. TypeRequest'
      BY <1>1 DEF PumpChunk, IInv, TypeRequest, Ahead
    <2>2. TypeCounts'
      <3>1. hop \in Hops /\ FlowAt(hop) /\ UNCHANGED taken
        BY <1>1 DEF PumpChunk, IInv, Ahead, Flow
      <3>2. written[hop] + 1 \in 0 .. Frames /\ queued[hop] - 1 \in 0 .. Cap
        <4>1. /\ written[hop] \in 0 .. Frames /\ taken[hop] \in 0 .. Frames
              /\ queued[hop] \in 0 .. Cap /\ queued[hop] > 0
          BY <1>1, <3>1 DEF PumpChunk, IInv, TypeCounts
        <4>2. written[hop] + queued[hop] <= taken[hop]
          BY <3>1, <4>1 DEF FlowAt, Sending
        <4> QED BY <4>1, <4>2
      <3>3. written' \in [Hops -> 0 .. Frames]
        BY <1>1, <3>1, <3>2 DEF PumpChunk, IInv, TypeCounts
      <3>4. queued' \in [Hops -> 0 .. Cap]
        BY <1>1, <3>1, <3>2 DEF PumpChunk, IInv, TypeCounts
      <3> QED BY <3>1, <3>3, <3>4 DEF IInv, TypeCounts
    <2>3. TypeHops'
      BY <1>1 DEF PumpChunk, IInv, TypeRequest, TypeHops
    <2>4. Ahead'
      BY <1>1 DEF PumpChunk, IInv, TypeRequest, TypeCounts, TypeHops, Ahead
    <2>5. Boundary'
      BY <1>1 DEF PumpChunk, IInv, TypeRequest, TypeCounts, TypeHops, Ahead, Boundary, Done
    <2>6. Flow'
      <3> SUFFICES ASSUME NEW g \in Hops PROVE FlowAt(g)'
        BY DEF Flow
      <3>1. FlowAt(g)
        BY DEF IInv, Flow
      <3>2. /\ written[g] \in Nat /\ queued[g] \in Nat /\ taken[g] \in Nat
            /\ hop \in Hops
        BY <1>1 DEF PumpChunk, IInv, TypeCounts, Ahead
      <3>3. CASE g = hop
        <4>1. written'[g] = written[g] + 1
          BY <1>1, <3>2, <3>3 DEF PumpChunk, IInv, TypeCounts, TypeHops
        <4>2. queued'[g] = queued[g] - 1
          BY <1>1, <3>2, <3>3 DEF PumpChunk, IInv, TypeCounts, TypeHops
        <4>3. UNCHANGED <<taken[g], reader[g], readErr[g], cause[g]>>
          BY <1>1, <3>2, <3>3 DEF PumpChunk, IInv, TypeCounts, TypeHops
        <4> QED BY <3>1, <3>2, <4>1, <4>2, <4>3 DEF FlowAt, Sending, Done
      <3>4. CASE g # hop
        <4>1. UNCHANGED <<written[g], queued[g], taken[g], reader[g], readErr[g], cause[g]>>
          BY <1>1, <3>2, <3>4 DEF PumpChunk, IInv, TypeCounts, TypeHops
        <4> QED BY <3>1, <4>1 DEF FlowAt, Sending, Done
      <3> QED BY <3>3, <3>4
    <2>7. Clean'
      BY <1>1 DEF PumpChunk, IInv, TypeRequest, TypeCounts, TypeHops, Boundary, Flow, FlowAt, Clean, Done, Sending
    <2> QED BY <2>1, <2>2, <2>3, <2>4, <2>5, <2>6, <2>7 DEF IInv
  <1>2. CASE Finish
    <2>1. TypeRequest'
      BY <1>2 DEF Finish, IInv, TypeRequest, Ahead
    <2>2. TypeCounts'
      BY <1>2 DEF Finish, IInv, TypeRequest, TypeCounts, Flow, FlowAt, Ahead, Sending
    <2>3. TypeHops'
      BY <1>2 DEF Finish, IInv, TypeRequest, TypeHops
    <2>4. Ahead'
      BY <1>2 DEF Finish, IInv, TypeRequest, TypeCounts, TypeHops, Ahead
    <2>5. Boundary'
      BY <1>2 DEF Finish, IInv, TypeRequest, TypeCounts, TypeHops, Ahead, Boundary, Done
    <2>6. Flow'
      <3> SUFFICES ASSUME NEW g \in Hops PROVE FlowAt(g)'
        BY DEF Flow
      <3>1. FlowAt(g)
        BY DEF IInv, Flow
      <3> QED BY <1>2, <3>1 DEF Finish, IInv, TypeRequest, TypeCounts, TypeHops, Ahead, Boundary, FlowAt, Sending, Done
    <2>7. Clean'
      BY <1>2 DEF Finish, IInv, TypeRequest, TypeCounts, TypeHops, Boundary, Flow, FlowAt, Clean, Done, Sending
    <2> QED BY <2>1, <2>2, <2>3, <2>4, <2>5, <2>6, <2>7 DEF IInv
  <1> QED BY <1>1, <1>2

\* The reader goroutines and the timers.
LEMMA ReaderKeeps ==
    ASSUME NEW h \in Hops
    PROVE  IInv /\ (ReadFrame(h) \/ Send(h) \/ SendAborted(h) \/ ReadEnds(h) \/ TimerFires(h)) => IInv'
  <1> SUFFICES ASSUME IInv, ReadFrame(h) \/ Send(h) \/ SendAborted(h) \/ ReadEnds(h) \/ TimerFires(h) PROVE IInv'
    OBVIOUS
  <1> USE StreamConstants DEF Hops, hopVars
  <1>1. CASE ReadFrame(h)
    <2>1. TypeRequest'
      BY <1>1 DEF ReadFrame, IInv, TypeRequest, Ahead
    <2>2. TypeCounts'
      <3>1. taken[h] + 1 \in 0 .. Frames
        BY <1>1 DEF ReadFrame, IInv, TypeCounts
      <3>2. taken' \in [Hops -> 0 .. Frames]
        BY <1>1, <3>1 DEF ReadFrame, IInv, TypeCounts
      <3> QED BY <1>1, <3>2 DEF ReadFrame, IInv, TypeCounts
    <2>3. TypeHops'
      BY <1>1 DEF ReadFrame, IInv, TypeRequest, TypeHops
    <2>4. Ahead'
      BY <1>1 DEF ReadFrame, IInv, TypeRequest, TypeCounts, TypeHops, Ahead
    <2>5. Boundary'
      BY <1>1 DEF ReadFrame, IInv, TypeRequest, TypeCounts, TypeHops, Ahead, Boundary, Done
    <2>6. Flow'
      <3> SUFFICES ASSUME NEW g \in Hops PROVE FlowAt(g)'
        BY DEF Flow
      <3>1. FlowAt(g)
        BY DEF IInv, Flow
      <3>2. /\ written[g] \in Nat /\ queued[g] \in Nat /\ taken[g] \in Nat
            /\ h \in Hops
        BY <1>1 DEF ReadFrame, IInv, TypeCounts, Ahead
      <3>3. CASE g = h
        <4>1. taken'[g] = taken[g] + 1
          BY <1>1, <3>2, <3>3 DEF ReadFrame, IInv, TypeCounts, TypeHops
        <4>2. reader[g] = "reading" /\ reader'[g] = "sending"
          BY <1>1, <3>2, <3>3 DEF ReadFrame, IInv, TypeCounts, TypeHops
        <4>3. UNCHANGED <<written[g], queued[g], readErr[g], cause[g]>>
          BY <1>1, <3>2, <3>3 DEF ReadFrame, IInv, TypeCounts, TypeHops
        <4> QED BY <3>1, <3>2, <4>1, <4>2, <4>3 DEF FlowAt, Sending, Done
      <3>4. CASE g # h
        <4>1. UNCHANGED <<written[g], queued[g], taken[g], reader[g], readErr[g], cause[g]>>
          BY <1>1, <3>2, <3>4 DEF ReadFrame, IInv, TypeCounts, TypeHops
        <4> QED BY <3>1, <4>1 DEF FlowAt, Sending, Done
      <3> QED BY <3>3, <3>4
    <2>7. Clean'
      BY <1>1 DEF ReadFrame, IInv, TypeRequest, TypeCounts, TypeHops, Boundary, Flow, FlowAt, Clean, Done, Sending
    <2> QED BY <2>1, <2>2, <2>3, <2>4, <2>5, <2>6, <2>7 DEF IInv
  <1>2. CASE Send(h)
    <2>1. TypeRequest'
      BY <1>2 DEF Send, IInv, TypeRequest, Ahead
    <2>2. TypeCounts'
      <3>1. queued[h] + 1 \in 0 .. Cap
        BY <1>2 DEF Send, IInv, TypeCounts
      <3>2. queued' \in [Hops -> 0 .. Cap]
        BY <1>2, <3>1 DEF Send, IInv, TypeCounts
      <3> QED BY <1>2, <3>2 DEF Send, IInv, TypeCounts
    <2>3. TypeHops'
      BY <1>2 DEF Send, IInv, TypeRequest, TypeHops
    <2>4. Ahead'
      BY <1>2 DEF Send, IInv, TypeRequest, TypeCounts, TypeHops, Ahead
    <2>5. Boundary'
      BY <1>2 DEF Send, IInv, TypeRequest, TypeCounts, TypeHops, Ahead, Boundary, Done
    <2>6. Flow'
      <3> SUFFICES ASSUME NEW g \in Hops PROVE FlowAt(g)'
        BY DEF Flow
      <3>1. FlowAt(g)
        BY DEF IInv, Flow
      <3>2. /\ written[g] \in Nat /\ queued[g] \in Nat /\ taken[g] \in Nat
            /\ h \in Hops
        BY <1>2 DEF Send, IInv, TypeCounts, Ahead
      <3>3. CASE g = h
        <4>1. queued'[g] = queued[g] + 1
          BY <1>2, <3>2, <3>3 DEF Send, IInv, TypeCounts, TypeHops
        <4>2. reader[g] = "sending" /\ reader'[g] = "reading"
          BY <1>2, <3>2, <3>3 DEF Send, IInv, TypeCounts, TypeHops
        <4>3. UNCHANGED <<written[g], taken[g], readErr[g], cause[g]>>
          BY <1>2, <3>2, <3>3 DEF Send, IInv, TypeCounts, TypeHops
        <4> QED BY <3>1, <3>2, <4>1, <4>2, <4>3 DEF FlowAt, Sending, Done
      <3>4. CASE g # h
        <4>1. UNCHANGED <<written[g], queued[g], taken[g], reader[g], readErr[g], cause[g]>>
          BY <1>2, <3>2, <3>4 DEF Send, IInv, TypeCounts, TypeHops
        <4> QED BY <3>1, <4>1 DEF FlowAt, Sending, Done
      <3> QED BY <3>3, <3>4
    <2>7. Clean'
      BY <1>2 DEF Send, IInv, TypeRequest, TypeCounts, TypeHops, Boundary, Flow, FlowAt, Clean, Done, Sending
    <2> QED BY <2>1, <2>2, <2>3, <2>4, <2>5, <2>6, <2>7 DEF IInv
  <1>3. CASE SendAborted(h)
    <2>1. TypeRequest'
      BY <1>3 DEF SendAborted, IInv, TypeRequest, Ahead
    <2>2. TypeCounts'
      BY <1>3 DEF SendAborted, IInv, TypeRequest, TypeCounts, Flow, FlowAt, Ahead, Sending
    <2>3. TypeHops'
      BY <1>3 DEF SendAborted, IInv, TypeRequest, TypeHops
    <2>4. Ahead'
      BY <1>3 DEF SendAborted, IInv, TypeRequest, TypeCounts, TypeHops, Ahead
    <2>5. Boundary'
      BY <1>3 DEF SendAborted, IInv, TypeRequest, TypeCounts, TypeHops, Ahead, Boundary, Done
    <2>6. Flow'
      <3> SUFFICES ASSUME NEW g \in Hops PROVE FlowAt(g)'
        BY DEF Flow
      <3>1. FlowAt(g)
        BY DEF IInv, Flow
      <3>2. /\ written[g] \in Nat /\ queued[g] \in Nat /\ taken[g] \in Nat
            /\ h \in Hops
        BY <1>3 DEF SendAborted, IInv, TypeCounts, Ahead
      <3>3. CASE g = h
        <4>1. reader[g] = "sending" /\ reader'[g] = "stopped" /\ Done(g)
          BY <1>3, <3>2, <3>3 DEF SendAborted, IInv, TypeCounts, TypeHops
        <4>2. UNCHANGED <<written[g], queued[g], taken[g], readErr[g], cause[g]>>
          BY <1>3, <3>2, <3>3 DEF SendAborted, IInv, TypeCounts, TypeHops
        <4> QED BY <3>1, <3>2, <4>1, <4>2 DEF FlowAt, Sending, Done
      <3>4. CASE g # h
        <4>1. UNCHANGED <<written[g], queued[g], taken[g], reader[g], readErr[g], cause[g]>>
          BY <1>3, <3>2, <3>4 DEF SendAborted, IInv, TypeCounts, TypeHops
        <4> QED BY <3>1, <4>1 DEF FlowAt, Sending, Done
      <3> QED BY <3>3, <3>4
    <2>7. Clean'
      BY <1>3 DEF SendAborted, IInv, TypeRequest, TypeCounts, TypeHops, Boundary, Flow, FlowAt, Clean, Done, Sending
    <2> QED BY <2>1, <2>2, <2>3, <2>4, <2>5, <2>6, <2>7 DEF IInv
  <1>4. CASE ReadEnds(h)
    <2>1. TypeRequest'
      BY <1>4 DEF ReadEnds, IInv, TypeRequest, Ahead
    <2>2. TypeCounts'
      BY <1>4 DEF ReadEnds, IInv, TypeRequest, TypeCounts, Flow, FlowAt, Ahead, Sending
    <2>3. TypeHops'
      BY <1>4 DEF ReadEnds, IInv, TypeRequest, TypeHops
    <2>4. Ahead'
      BY <1>4 DEF ReadEnds, IInv, TypeRequest, TypeCounts, TypeHops, Ahead
    <2>5. Boundary'
      BY <1>4 DEF ReadEnds, IInv, TypeRequest, TypeCounts, TypeHops, Ahead, Boundary, Done
    <2>6. Flow'
      <3> SUFFICES ASSUME NEW g \in Hops PROVE FlowAt(g)'
        BY DEF Flow
      <3>1. FlowAt(g)
        BY DEF IInv, Flow
      <3> QED BY <1>4, <3>1 DEF ReadEnds, IInv, TypeRequest, TypeCounts, TypeHops, Ahead, Boundary, FlowAt, Sending, Done
    <2>7. Clean'
      BY <1>4 DEF ReadEnds, IInv, TypeRequest, TypeCounts, TypeHops, Boundary, Flow, FlowAt, Clean, Done, Sending
    <2> QED BY <2>1, <2>2, <2>3, <2>4, <2>5, <2>6, <2>7 DEF IInv
  <1>5. CASE TimerFires(h)
    <2>1. TypeRequest'
      BY <1>5 DEF TimerFires, IInv, TypeRequest, Ahead, Cancel
    <2>2. TypeCounts'
      BY <1>5 DEF TimerFires, IInv, TypeRequest, TypeCounts, Flow, FlowAt, Ahead, Sending, Cancel
    <2>3. TypeHops'
      BY <1>5 DEF TimerFires, IInv, TypeRequest, TypeHops, Cancel
    <2>4. Ahead'
      BY <1>5 DEF TimerFires, IInv, TypeRequest, TypeCounts, TypeHops, Ahead, Cancel
    <2>5. Boundary'
      BY <1>5 DEF TimerFires, IInv, TypeRequest, TypeCounts, TypeHops, Ahead, Boundary, Done, Cancel
    <2>6. Flow'
      <3> SUFFICES ASSUME NEW g \in Hops PROVE FlowAt(g)'
        BY DEF Flow
      <3>1. FlowAt(g)
        BY DEF IInv, Flow
      <3> QED BY <1>5, <3>1 DEF TimerFires, IInv, TypeRequest, TypeCounts, TypeHops, Ahead, Boundary, FlowAt, Sending, Done, Cancel
    <2>7. Clean'
      BY <1>5 DEF TimerFires, IInv, TypeRequest, TypeCounts, TypeHops, Boundary, Flow, FlowAt, Clean, Done, Sending, Cancel
    <2> QED BY <2>1, <2>2, <2>3, <2>4, <2>5, <2>6, <2>7 DEF IInv
  <1> QED BY <1>1, <1>2, <1>3, <1>4, <1>5

\* Pump returns: what the four ways of returning have in common.
LEMMA LeaveKeeps ==
    ASSUME NEW sent \in BOOLEAN, NEW timedOut \in BOOLEAN,
           NEW how \in {"ok", "canceled", "upstream_error"},
           IInv, pc = "pump", Leave(sent, how, timedOut), UNCHANGED written,
           first => sent,
           sent => first \/ client = "gone",
           how = "ok" /\ ~Done(hop) => /\ reader[hop] = "stopped"
                                      /\ readErr[hop] = "eof"
                                      /\ written[hop] = taken[hop]
    PROVE  IInv'
  <1> USE StreamConstants DEF Hops
  <1>1. /\ hop \in Hops
        /\ UNCHANGED <<hop, client, elapsed, hold, written, reader, taken, queued, readErr>>
        /\ first' = sent
        /\ ended' = IF how = "canceled" \/ sent THEN how ELSE "none"
        /\ pc' = IF how = "canceled" \/ sent \/ timedOut THEN "settle" ELSE "next"
    BY DEF Leave, IInv, Ahead
  <1>2. /\ cause' = [cause EXCEPT ![hop] = IF @ = "none" THEN "over" ELSE @]
        /\ timer' = [timer EXCEPT ![hop] = IF @ = "armed" THEN "off" ELSE @]
    BY DEF Leave, Disarm, Cancel
  <1>3. TypeRequest'
    BY <1>1 DEF IInv, TypeRequest
  <1>4. TypeCounts'
    BY <1>1 DEF IInv, TypeCounts
  <1>5. TypeHops'
    <2>1. cause' \in [Hops -> {"none", "client", "budget", "over"}]
      BY <1>1, <1>2 DEF IInv, TypeHops
    <2>2. timer' \in [Hops -> {"off", "armed", "fired"}]
      BY <1>1, <1>2 DEF IInv, TypeHops
    <2>3. verdict' \in [Hops -> {"none", "success", "failure"}]
      BY <1>1 DEF Leave, IInv, TypeHops
    <2> QED BY <1>1, <2>1, <2>2, <2>3 DEF IInv, TypeHops
  <1>6. /\ Done(hop)'
        /\ \A h \in Hops : /\ h # hop => cause'[h] = cause[h] /\ timer'[h] = timer[h]
                           /\ Done(h) => Done(h)'
    BY <1>1, <1>2 DEF IInv, TypeHops, Done
  <1>7. Ahead'
    <2>1. \A h \in Hops : h > hop => h # hop
      BY DEF IInv, TypeRequest
    <2>2. \A h \in Hops : h > hop => reader'[h] = "off" /\ timer'[h] = "off" /\ cause'[h] = "none"
      BY <1>1, <1>6, <2>1 DEF IInv, Ahead
    <2>3. pc' = "settle" \/ pc' = "next"
      BY <1>1
    <2> QED BY <1>1, <2>2, <2>3 DEF Ahead
  <1>8. Boundary'
    BY <1>1, <1>6 DEF IInv, TypeRequest, TypeCounts, Boundary
  <1>9. Flow'
    <2> SUFFICES ASSUME NEW h \in Hops PROVE FlowAt(h)'
      BY DEF Flow
    <2>1. FlowAt(h) /\ (Done(h) => Done(h)')
      BY <1>6 DEF IInv, Flow
    <2> QED BY <1>1, <2>1 DEF FlowAt, Sending
  <1>10. Clean'
    <2> SUFFICES ASSUME ended' = "ok", cause'[hop] = "over"
                 PROVE  /\ reader[hop] = "stopped" /\ readErr[hop] = "eof"
                        /\ written[hop] = taken[hop]
      BY <1>1 DEF Clean
    <2>1. how = "ok"
      BY <1>1
    <2>2. ~Done(hop)
      BY <1>1, <1>2 DEF IInv, Ahead, TypeHops, Done
    <2> QED BY <2>1, <2>2
  <1> QED BY <1>3, <1>4, <1>5, <1>7, <1>8, <1>9, <1>10 DEF IInv

\* The four ways in which Pump returns.
LEMMA PumpReturnKeeps ==
    IInv /\ (PumpCanceled \/ PumpWriteFails \/ PumpClosed \/ PumpTimeout) => IInv'
  <1> SUFFICES ASSUME IInv, PumpCanceled \/ PumpWriteFails \/ PumpClosed \/ PumpTimeout
               PROVE  IInv'
    OBVIOUS
  <1>0. first \in BOOLEAN
    BY DEF IInv, TypeRequest
  <1>1. CASE PumpCanceled
    BY <1>0, <1>1, LeaveKeeps DEF PumpCanceled
  <1>2. CASE PumpWriteFails
    BY <1>0, <1>2, LeaveKeeps DEF PumpWriteFails
  <1>3. CASE PumpClosed
    <2> DEFINE how == IF readErr[hop] = "broken" THEN "upstream_error" ELSE "ok"
    <2>1. how \in {"ok", "canceled", "upstream_error"}
      OBVIOUS
    <2>2. ASSUME how = "ok", ~Done(hop)
          PROVE  /\ reader[hop] = "stopped" /\ readErr[hop] = "eof"
                 /\ written[hop] = taken[hop]
      <3>1. hop \in Hops /\ FlowAt(hop) /\ reader[hop] = "stopped" /\ queued[hop] = 0
        BY <1>3 DEF PumpClosed, IInv, Ahead, Flow
      <3>2. readErr[hop] \in {"none", "eof", "broken"} /\ written[hop] \in Nat
        BY <3>1 DEF IInv, TypeHops, TypeCounts
      <3> QED BY <2>2, <3>1, <3>2 DEF FlowAt, Sending
    <2>3. pc = "pump" /\ Leave(first, how, FALSE) /\ UNCHANGED written
      BY <1>3 DEF PumpClosed
    <2> HIDE DEF how
    <2> QED BY <1>0, <2>1, <2>2, <2>3, LeaveKeeps
  <1>4. CASE PumpTimeout
    BY <1>0, <1>4, LeaveKeeps DEF PumpTimeout
  <1> QED BY <1>1, <1>2, <1>3, <1>4

\* The inductive invariant holds throughout.
LEMMA IInvHolds == Spec => []IInv
  <1>1. IInv /\ [Next]_vars => IInv'
    <2> SUFFICES ASSUME IInv, [Next]_vars PROVE IInv'
      OBVIOUS
    <2>1. CASE RequestStep
      BY <2>1, RotationKeeps, PumpKeeps, PumpReturnKeeps DEF RequestStep
    <2>2. CASE \E h \in Hops : ReaderStep(h) \/ TimerFires(h)
      BY <2>2, ReaderKeeps DEF ReaderStep
    <2>3. CASE BudgetRunsOut \/ HangUp
      BY <2>3, EnvironmentKeeps
    <2>4. CASE UNCHANGED vars
      BY <2>4 DEF vars, hopVars, IInv, TypeRequest, TypeCounts, TypeHops, Ahead,
                  Boundary, Flow, FlowAt, Clean, Sending, Done
    <2> QED BY <2>1, <2>2, <2>3, <2>4 DEF Next
  <1> QED BY InitKeeps, <1>1, PTL DEF Spec

\* Type correctness: in particular the channel never holds more than its
\* capacity and the client never gets more frames than were read.
THEOREM TypeCorrect == Spec => []TypeOK
  <1>1. IInv => TypeOK
    BY DEF IInv, TypeRequest, TypeCounts, TypeHops, TypeOK
  <1> QED BY <1>1, IInvHolds, PTL

\* Whatever readers, timers, rotation and client do, all frames that reach the
\* client come from one upstream.
THEOREM OneUpstream == Spec => []OneUpstreamSpeaks
  <1>1. IInv => OneUpstreamSpeaks
    BY DEF IInv, Boundary, OneUpstreamSpeaks
  <1> QED BY <1>1, IInvHolds, PTL

\* The billing boundary of a stream: settled exactly when something went out.
THEOREM BillingBoundary == Spec => []DeliveredIsCharged
  <1>1. IInv => DeliveredIsCharged
    BY DEF IInv, Boundary, DeliveredIsCharged
  <1> QED BY <1>1, IInvHolds, PTL

\* Closing the channel loses no frame of a stream that is recorded as ended well.
THEOREM CleanEnd == Spec => []CleanEndIsWhole
  <1>1. IInv => CleanEndIsWhole
    BY DEF IInv, Clean, CleanEndIsWhole
  <1> QED BY <1>1, IInvHolds, PTL

-----------------------------------------------------------------------------
(* What attempts leave behind                                              *)

\* NothingLeftBehind, attempt by attempt
BehindAt(h) ==
    ~(hop = h /\ pc \in {"do", "pump"}) =>
        /\ timer[h] # "armed"
        /\ reader[h] \in {"reading", "sending"} => Done(h)

\* Disarm stops the timer of the attempt under way and ends its context; the
\* other attempts keep theirs.
LEMMA DisarmEnds ==
    ASSUME IInv, hop \in Hops, Disarm
    PROVE  /\ timer'[hop] # "armed" /\ cause'[hop] # "none"
           /\ \A h \in Hops : h # hop => timer'[h] = timer[h] /\ cause'[h] = cause[h]
  <1>1. timer[hop] = "armed" => timer'[hop] = "off"
    BY DEF Disarm, IInv, TypeHops
  <1>2. timer[hop] # "armed" => timer'[hop] = timer[hop]
    BY DEF Disarm, IInv, TypeHops
  <1>3. cause'[hop] # "none"
    BY DEF Disarm, Cancel, IInv, TypeHops
  <1>4. \A h \in Hops : h # hop => timer'[h] = timer[h] /\ cause'[h] = cause[h]
    BY DEF Disarm, Cancel, IInv, TypeHops
  <1> QED BY <1>1, <1>2, <1>3, <1>4

\* A step that ends the attempt under way, by any of its exits
LEMMA ExitLeavesNothing ==
    ASSUME IInv, \A h \in Hops : BehindAt(h), pc \in {"do", "pump"}, Disarm,
           UNCHANGED <<hop, reader>>, NEW h \in Hops
    PROVE  BehindAt(h)'
  <1>1. hop \in Hops
    BY DEF IInv, Ahead
  <1>2. CASE h = hop
    BY <1>1, <1>2, DisarmEnds DEF BehindAt, Done
  <1>3. CASE h # hop
    BY <1>1, <1>3, DisarmEnds DEF BehindAt, Done
  <1> QED BY <1>2, <1>3

\* Every step of the request goroutine leaves nothing behind.
LEMMA RequestLeavesNothing ==
    ASSUME IInv, \A h \in Hops : BehindAt(h), RequestStep, NEW h \in Hops
    PROVE  BehindAt(h)'
  <1> USE DEF hopVars
  <1>1. CASE StopRotation \/ NotSent \/ Finish
    <2>1. pc \notin {"do", "pump"} /\ UNCHANGED <<timer, reader, cause>>
      BY <1>1 DEF StopRotation, NotSent, Finish
    <2> QED BY <2>1 DEF BehindAt, Done
  <1>2. CASE Dispatch
    <2>1. pc \notin {"do", "pump"} /\ UNCHANGED reader /\ hop' = hop + 1
      BY <1>2 DEF Dispatch
    <2>2. CASE elapsed
      BY <1>2, <2>1, <2>2 DEF Dispatch, BehindAt, Done
    <2>3. CASE ~elapsed
      <3>1. pc' = "do" /\ timer' = [timer EXCEPT ![hop'] = "armed"]
        BY <1>2, <2>3 DEF Dispatch
      <3>2. Done(h) => Done(h)'
        BY <1>2, <2>3 DEF Dispatch, Done, Cancel, IInv, TypeHops
      <3>3. h # hop' => timer'[h] = timer[h]
        BY <3>1 DEF IInv, TypeHops
      <3> QED BY <2>1, <3>1, <3>2, <3>3 DEF BehindAt
    <2> QED BY <2>2, <2>3
  <1>3. CASE Refused \/ TransportError
    BY <1>3, ExitLeavesNothing DEF Refused, TransportError
  <1>4. CASE Headers
    <2>1. /\ pc = "do" /\ pc' = "pump" /\ UNCHANGED <<hop, timer, cause>>
          /\ h # hop => reader'[h] = reader[h]
      BY <1>4 DEF Headers, IInv, TypeHops
    <2> QED BY <2>1 DEF BehindAt, Done
  <1>5. CASE PumpChunk
    <2>1. UNCHANGED <<pc, hop, timer, reader, cause>>
      BY <1>5 DEF PumpChunk
    <2> QED BY <2>1 DEF BehindAt, Done
  <1>6. CASE PumpCanceled \/ PumpWriteFails \/ PumpClosed \/ PumpTimeout
    <2>1. pc = "pump" /\ Disarm /\ UNCHANGED <<hop, reader>>
      BY <1>6 DEF PumpCanceled, PumpWriteFails, PumpClosed, PumpTimeout, Leave
    <2> QED BY <2>1, ExitLeavesNothing
  <1> QED BY <1>1, <1>2, <1>3, <1>4, <1>5, <1>6 DEF RequestStep

\* Readers, timers, the clock and the client only stop things.
LEMMA OthersLeaveNothing ==
    ASSUME IInv, \A h \in Hops : BehindAt(h), NEW h \in Hops,
           \/ \E g \in Hops : ReaderStep(g) \/ TimerFires(g)
           \/ BudgetRunsOut \/ HangUp
    PROVE  BehindAt(h)'
  <1> USE DEF hopVars
  <1>1. UNCHANGED <<pc, hop>>
    BY DEF ReaderStep, ReadFrame, Send, SendAborted, ReadEnds, TimerFires, BudgetRunsOut, HangUp
  <1>2. Done(h) => Done(h)'
    BY DEF ReaderStep, ReadFrame, Send, SendAborted, ReadEnds, TimerFires, BudgetRunsOut,
       HangUp, Done, Cancel, IInv, TypeHops
  <1>3. timer'[h] = "armed" => timer[h] = "armed"
    BY DEF ReaderStep, ReadFrame, Send, SendAborted, ReadEnds, TimerFires, BudgetRunsOut,
       HangUp, IInv, TypeHops
  <1>4. reader'[h] \in {"reading", "sending"} => reader[h] \in {"reading", "sending"}
    BY DEF ReaderStep, ReadFrame, Send, SendAborted, ReadEnds, TimerFires, BudgetRunsOut,
       HangUp, IInv, TypeHops
  <1> QED BY <1>1, <1>2, <1>3, <1>4 DEF BehindAt

\* For any number of attempts, frames and channel slots: an attempt that is over
\* has no armed timer, and a reader of its that still runs has a context that is
\* done.  This is the safety half of EveryStreamEnds.
THEOREM NoLeak == Spec => []NothingLeftBehind
  <1>1. Init => \A h \in Hops : BehindAt(h)
    BY DEF Init, BehindAt
  <1>2. IInv /\ (\A h \in Hops : BehindAt(h)) /\ [Next]_vars => (\A h \in Hops : BehindAt(h))'
    <2> SUFFICES ASSUME IInv, \A h \in Hops : BehindAt(h), [Next]_vars,
                        NEW h \in Hops
                 PROVE  BehindAt(h)'
      BY DEF Hops
    <2>1. CASE UNCHANGED vars
      BY <2>1 DEF vars, hopVars, BehindAt, Done
    <2>2. CASE Next
      BY <2>2, RequestLeavesNothing, OthersLeaveNothing DEF Next
    <2> QED BY <2>1, <2>2
  <1>3. (\A h \in Hops : BehindAt(h)) => NothingLeftBehind
    BY DEF BehindAt, NothingLeftBehind
  <1> QED BY <1>1, <1>2, <1>3, IInvHolds, PTL DEF Spec

-----------------------------------------------------------------------------
(* What the breaker is told                                                *)

\* Attempts not come to have no verdict, a success ended the rotation at its
\* attempt, and a pump whose first byte is out has written a frame.
HealedAt(h) ==
    /\ h > hop => verdict[h] = "none"
    /\ verdict[h] = "success" => h = hop /\ written[h] > 0 /\ pc \in {"settle", "done"}
    /\ pc = "pump" /\ first /\ h = hop => written[h] > 0

\* The rotation reports failures only.
LEMMA RotationHealsNothing ==
    ASSUME IInv, NEW h \in Hops, HealedAt(h),
           StopRotation \/ NotSent \/ Dispatch \/ Refused \/ TransportError \/ Headers
    PROVE  HealedAt(h)'
  <1> USE DEF hopVars
  <1>0. pc \in {"next", "do"} /\ ~first /\ verdict[h] # "success"
    BY DEF StopRotation, NotSent, Dispatch, Refused, TransportError, Headers, IInv, Boundary,
       HealedAt
  <1>1. UNCHANGED <<first, written>>
    BY DEF StopRotation, NotSent, Dispatch, Refused, TransportError, Headers
  <1>2. verdict'[h] # "success"
    BY <1>0 DEF StopRotation, NotSent, Dispatch, Refused, TransportError, Headers, IInv, TypeHops
  <1>3. h > hop' => verdict'[h] = "none"
    <2>1. CASE NotSent \/ Dispatch
      <3>1. hop \in Nat /\ h \in Nat /\ hop' = hop + 1
        BY <2>1, StreamConstants DEF NotSent, Dispatch, IInv, TypeRequest, Hops
      <3>2. h # hop' => verdict'[h] = verdict[h]
        BY <2>1 DEF NotSent, Dispatch, IInv, TypeHops
      <3>3. h > hop' => h > hop /\ h # hop'
        BY <3>1
      <3> QED BY <3>2, <3>3 DEF HealedAt
    <2>2. CASE StopRotation \/ Refused \/ TransportError \/ Headers
      <3>1. hop \in Nat /\ h \in Nat /\ hop' = hop
        BY <2>2, StreamConstants DEF StopRotation, Refused, TransportError, Headers, IInv,
           TypeRequest, Hops
      <3>2. h # hop => verdict'[h] = verdict[h]
        BY <2>2 DEF StopRotation, Refused, TransportError, Headers, IInv, TypeHops
      <3>3. h > hop => h # hop
        BY <3>1
      <3> QED BY <3>1, <3>2, <3>3 DEF HealedAt
    <2> QED BY <2>1, <2>2
  <1> QED BY <1>0, <1>1, <1>2, <1>3 DEF HealedAt

\* Pump returns: RecordSuccess is called after a first byte only, and an attempt
\* that had one is the last.
LEMMA LeaveHealsByDelivery ==
    ASSUME IInv, NEW h \in Hops, HealedAt(h), pc = "pump", UNCHANGED written,
           NEW sent \in BOOLEAN, NEW timedOut \in BOOLEAN,
           NEW how \in {"ok", "canceled", "upstream_error"},
           Leave(sent, how, timedOut), how = "ok" => sent = first
    PROVE  HealedAt(h)'
  <1>1. hop \in Hops /\ hop' = hop /\ first' = sent /\ verdict[h] # "success"
    BY DEF Leave, IInv, Ahead, HealedAt
  <1>2. /\ pc' = IF how = "canceled" \/ sent \/ timedOut THEN "settle" ELSE "next"
        /\ h # hop => verdict'[h] = verdict[h]
        /\ h = hop /\ verdict'[h] = "success" => how = "ok" /\ sent
    <2>1. verdict' = [verdict EXCEPT ![hop] =
                        CASE how = "canceled"    -> @
                          [] how = "ok" /\ sent  -> "success"
                          [] OTHER               -> "failure"]
      BY DEF Leave
    <2>2. h # hop => verdict'[h] = verdict[h]
      BY <2>1 DEF IInv, TypeHops
    <2>3. h = hop /\ verdict'[h] = "success" => how = "ok" /\ sent
      BY <1>1, <2>1 DEF IInv, TypeHops
    <2> QED BY <2>2, <2>3 DEF Leave
  <1>3. h > hop => h # hop
    BY <1>1, StreamConstants DEF Hops
  <1> QED BY <1>1, <1>2, <1>3 DEF HealedAt

\* The steps of the request goroutine.
LEMMA RequestHealsByDelivery ==
    ASSUME IInv, NEW h \in Hops, HealedAt(h), RequestStep
    PROVE  HealedAt(h)'
  <1> USE DEF hopVars
  <1>0. first \in BOOLEAN
    BY DEF IInv, TypeRequest
  <1>1. CASE StopRotation \/ NotSent \/ Dispatch \/ Refused \/ TransportError \/ Headers
    BY <1>1, RotationHealsNothing
  <1>2. CASE PumpCanceled \/ PumpTimeout
    BY <1>0, <1>2, LeaveHealsByDelivery DEF PumpCanceled, PumpTimeout
  <1>3. CASE PumpWriteFails
    BY <1>3, LeaveHealsByDelivery DEF PumpWriteFails
  <1>4. CASE PumpClosed
    BY <1>0, <1>4, LeaveHealsByDelivery DEF PumpClosed
  <1>5. CASE PumpChunk
    <2>1. /\ UNCHANGED <<pc, hop, verdict>> /\ pc = "pump"
          /\ written' = [written EXCEPT ![hop] = @ + 1]
      BY <1>5 DEF PumpChunk
    <2>2. written[h] \in Nat /\ (h = hop => written'[h] > 0) /\ (h # hop => written'[h] = written[h])
      BY <2>1 DEF IInv, TypeCounts
    <2> QED BY <2>1, <2>2 DEF HealedAt
  <1>6. CASE Finish
    BY <1>6 DEF Finish, HealedAt
  <1> QED BY <1>1, <1>2, <1>3, <1>4, <1>5, <1>6 DEF RequestStep

\* Whatever timers, readers and the client do, RecordSuccess is called only for an
\* attempt whose frames reached the client, and none is contacted after it.
THEOREM SuccessIsDelivery == Spec => []HealedByDelivery
  <1>1. Init => \A h \in Hops : HealedAt(h)
    BY DEF Init, HealedAt
  <1>2. IInv /\ (\A h \in Hops : HealedAt(h)) /\ [Next]_vars => (\A h \in Hops : HealedAt(h))'
    <2> SUFFICES ASSUME IInv, \A h \in Hops : HealedAt(h), [Next]_vars,
                        NEW h \in Hops
                 PROVE  HealedAt(h)'
      BY DEF Hops
    <2>1. CASE RequestStep
      BY <2>1, RequestHealsByDelivery
    <2>2. CASE UNCHANGED vars \/ BudgetRunsOut \/ HangUp
               \/ \E g \in Hops : ReaderStep(g) \/ TimerFires(g)
      <3>1. UNCHANGED <<pc, hop, first, written, verdict>>
        BY <2>2 DEF vars, hopVars, BudgetRunsOut, HangUp, ReaderStep, ReadFrame, Send,
           SendAborted, ReadEnds, TimerFires
      <3> QED BY <3>1 DEF HealedAt
    <2> QED BY <2>1, <2>2 DEF Next
  <1>3. IInv /\ (\A h \in Hops : HealedAt(h)) => HealedByDelivery
    <2> SUFFICES ASSUME IInv, \A h \in Hops : HealedAt(h), NEW h \in Hops,
                        verdict[h] = "success"
                 PROVE  /\ written[h] > 0
                        /\ \A g \in Hops : g > h => verdict[g] = "none" /\ timer[g] = "off"
      BY DEF HealedByDelivery
    <2>1. h = hop /\ written[h] > 0
      BY DEF HealedAt
    <2> QED BY <2>1 DEF HealedAt, IInv, Ahead
  <1> QED BY <1>1, <1>2, <1>3, IInvHolds, PTL DEF Spec
=============================================================================
