-------------------------- MODULE SettlementProofs --------------------------
(***************************************************************************)
(* What the billing boundary and its replay queue guarantee for any number *)
(* of requests, overlapping rounds, attempts and faults.                   *)
(***************************************************************************)
EXTENDS Settlement, FiniteSetTheorems, TLAPS

-----------------------------------------------------------------------------
(* The inductive invariant *)

\* A phase past the executor is one of a request that was served; a released
\* reservation is one of a request that is over and was not.
ServedFirst ==
    \A r \in Requests :
        /\ phase[r] \in {"served", "settling", "recording", "protecting", "queueing"}
              => served[r]
        /\ hold[r] = "voided" => ~served[r] /\ phase[r] = "done"
        /\ phase[r] \in {"new", "executing", "failing"} => ~served[r]

\* Where the price sends a request: only a missing rate leads to the manual
\* queue, and what leads there never enters the automatic one.
PriceDecides ==
    \A r \in Requests :
        /\ phase[r] \in {"new", "executing", "failing", "served"} => quote[r] = "none"
        /\ phase[r] \in {"settling", "recording"} => quote[r] # "missing"
        /\ phase[r] \in {"protecting", "queueing"} => quote[r] = "missing"
        /\ manual[r] => quote[r] = "missing" /\ phase[r] = "done"
        /\ phase[r] = "queueing" => hold[r] = "protected"

\* The queue, and with it every list read from it, has only requests that were
\* served and are not waiting for a manual price.
QueueOwed ==
    /\ \A r \in Requests : queued[r] => served[r] /\ quote[r] # "missing"
                                        /\ phase[r] = "done"
    /\ \A w \in Replayers, r \in Requests : r \in batch[w] => queued[r]

\* A debit is of a served request that is past pricing.
DebitAfterService ==
    \A r \in Requests :
        charged[r] > 0 => served[r] /\ phase[r] \in {"recording", "done", "crashed"}

\* A ledger's debit is a settled reservation, and there is one of each.
LedgerOnce ==
    Ledger => \A r \in Requests :
        /\ charged[r] <= 1
        /\ charged[r] = 1 <=> hold[r] = "settled"
        /\ phase[r] = "new" => hold[r] = "none"

SettlementInv ==
    /\ ServedFirst /\ PriceDecides /\ QueueOwed /\ DebitAfterService /\ LedgerOnce
    /\ DebitHasRow /\ ManualHoldStands

-----------------------------------------------------------------------------
(* Type correctness *)

\* Nothing is in any queue before the first request.
LEMMA TypeInit == Init => TypeOK
  BY SettlementFaultsAssumption DEF Init, TypeOK, Phases, Quotes, Holds

\* A settlement and its usage row are well-formed.
LEMMA SettleType ==
  ASSUME TypeOK, NEW r \in Requests, SettleAndInsert(r)
  PROVE  /\ hold' \in [Requests -> Holds]
         /\ charged' \in [Requests -> Nat]
         /\ paidRows' \in [Requests -> Nat]
  BY DEF TypeOK, SettleAndInsert, Holds

\* A fault stays within the bound.
LEMMA FaultType ==
  ASSUME TypeOK, Fault
  PROVE  faults' \in 0..MaxFaults
  BY SettlementFaultsAssumption DEF TypeOK, Fault

\* Run and RunStream keep every variable in its type.
LEMMA ServeType ==
  ASSUME TypeOK, NEW r \in Requests, Serve(r) \/ ExpireHold(r)
  PROVE  TypeOK'
  <1> USE FaultType DEF requestVars, moneyVars, queueVars, replayVars
  <1>1. CASE ReserveFor(r)
    BY <1>1 DEF ReserveFor, TypeOK, Phases, Holds
  <1>2. CASE Execute(r)
    BY <1>2 DEF Execute, TypeOK, Phases
  <1>3. CASE RecordExecutionFailure(r)
    BY <1>3 DEF RecordExecutionFailure, TypeOK, Phases, Holds
  <1>4. CASE Price(r)
    BY <1>4 DEF Price, TypeOK, Phases, Quotes
  <1>5. CASE SettleAndLog(r)
    <2>1. /\ hold' \in [Requests -> Holds]
          /\ charged' \in [Requests -> Nat]
          /\ paidRows' \in [Requests -> Nat]
      BY <1>5, SettleType DEF SettleAndLog, TypeOK
    <2> QED
      BY <1>5, <2>1 DEF SettleAndLog, TypeOK, Phases
  <1>6. CASE RecordUnsettled(r)
    <2>1. attempts' \in [Requests -> Nat]
      BY <1>6 DEF RecordUnsettled, TypeOK
    <2>2. queued' \in [Requests -> BOOLEAN] /\ faults' \in 0..MaxFaults
      BY <1>6 DEF RecordUnsettled, TypeOK
    <2> QED
      BY <1>6, <2>1, <2>2 DEF RecordUnsettled, TypeOK, Phases
  <1>7. CASE ProtectHold(r)
    BY <1>7 DEF ProtectHold, TypeOK, Phases, Holds
  <1>8. CASE RecordUnsettledPricing(r)
    BY <1>8 DEF RecordUnsettledPricing, TypeOK, Phases
  <1>9. CASE Crash(r)
    BY <1>9 DEF Crash, TypeOK, Phases
  <1>10. CASE ExpireHold(r)
    BY <1>10 DEF ExpireHold, TypeOK, Holds
  <1> QED
    BY <1>1, <1>2, <1>3, <1>4, <1>5, <1>6, <1>7, <1>8, <1>9, <1>10 DEF Serve

\* Going on to the next row keeps the round well-formed.
LEMMA NextRowType ==
  ASSUME TypeOK, NEW w \in Replayers, NextRow(w)
  PROVE  /\ current' \in [Replayers -> Requests \cup {"none"}]
         /\ replay' \in [Replayers -> {"idle", "next", "mark", "failed", "undecodable"}]
         /\ batch' = batch /\ copy' = copy
  BY DEF TypeOK, NextRow

\* A round of UnsettledWorker keeps every variable in its type.
LEMMA WorkType ==
  ASSUME TypeOK, NEW w \in Replayers, Work(w)
  PROVE  TypeOK'
  <1> USE FaultType DEF requestVars, moneyVars, queueVars, replayVars
  <1>1. CASE ListUnsettledPending(w)
    BY <1>1 DEF ListUnsettledPending, TypeOK
  <1>2. CASE ReplayerDies(w)
    BY <1>2 DEF ReplayerDies, TypeOK
  <1>3. ASSUME NEW r \in Requests, Retry(w, r) PROVE TypeOK'
    <2>1. /\ hold' \in [Requests -> Holds]
          /\ charged' \in [Requests -> Nat]
          /\ paidRows' \in [Requests -> Nat]
      BY <1>3, SettleType DEF Retry, TypeOK
    <2>2. replay' \in [Replayers -> {"idle", "next", "mark", "failed", "undecodable"}]
      BY <1>3 DEF Retry, TypeOK
    <2> QED
      BY <1>3, <2>1, <2>2 DEF Retry, TypeOK
  <1>4. ASSUME NEW r \in Requests, MarkUnsettledResolved(w, r) PROVE TypeOK'
    BY <1>4, NextRowType DEF MarkUnsettledResolved, TypeOK
  <1>5. ASSUME NEW r \in Requests, BumpUnsettledAttempt(w, r) PROVE TypeOK'
    <2>1. attempts' \in [Requests -> Nat]
      BY <1>5 DEF BumpUnsettledAttempt, TypeOK
    <2> QED
      BY <1>5, <2>1, NextRowType DEF BumpUnsettledAttempt, TypeOK
  <1>6. ASSUME NEW r \in Requests, AbandonUnsettled(w, r) PROVE TypeOK'
    BY <1>6, NextRowType DEF AbandonUnsettled, TypeOK
  <1> QED
    BY <1>1, <1>2, <1>3, <1>4, <1>5, <1>6 DEF Work

\* TypeOK is inductive.
LEMMA TypeStep == TypeOK /\ [Next]_vars => TypeOK'
  <1> SUFFICES ASSUME TypeOK, [Next]_vars PROVE TypeOK'
    OBVIOUS
  <1>1. CASE Next
    BY <1>1, ServeType, WorkType DEF Next
  <1>2. CASE UNCHANGED vars
    BY <1>2 DEF vars, requestVars, moneyVars, queueVars, replayVars, TypeOK
  <1> QED
    BY <1>1, <1>2

\* Every variable of the billing boundary and the replay queue keeps its type:
\* a reservation and a phase never leave the states the code knows.
THEOREM SettlementTypeCorrect == Spec => []TypeOK
  BY TypeInit, TypeStep, PTL DEF Spec


-----------------------------------------------------------------------------
(* The money *)

\* Before the first request there is no debit, no entry and no list.
LEMMA MoneyInit == Init => SettlementInv
  BY DEF Init, SettlementInv, ServedFirst, PriceDecides, QueueOwed, DebitAfterService,
     LedgerOnce, DebitHasRow, ManualHoldStands

\* Every step of a request keeps the invariant.
LEMMA ServeMoney ==
  ASSUME TypeOK, SettlementInv, NEW r \in Requests, Serve(r) \/ ExpireHold(r)
  PROVE  SettlementInv'
  <1> USE DEF requestVars, moneyVars, queueVars, replayVars, SettlementInv, ServedFirst,
              PriceDecides, QueueOwed, DebitAfterService, LedgerOnce, DebitHasRow,
              ManualHoldStands, TypeOK, Phases, Quotes, Holds
  <1>1. CASE ReserveFor(r)
    <2>1. ServedFirst'
      BY <1>1 DEF ReserveFor
    <2>2. PriceDecides'
      BY <1>1 DEF ReserveFor
    <2>3. QueueOwed'
      BY <1>1 DEF ReserveFor
    <2>4. DebitAfterService'
      BY <1>1 DEF ReserveFor
    <2>5. LedgerOnce'
      BY <1>1 DEF ReserveFor
    <2>6. DebitHasRow'
      BY <1>1 DEF ReserveFor
    <2>7. ManualHoldStands'
      BY <1>1 DEF ReserveFor
    <2> QED
      BY <2>1, <2>2, <2>3, <2>4, <2>5, <2>6, <2>7
  <1>2. CASE Execute(r)
    BY <1>2 DEF Execute
  <1>3. CASE RecordExecutionFailure(r)
    BY <1>3 DEF RecordExecutionFailure
  <1>4. CASE Price(r)
    BY <1>4 DEF Price
  <1>5. CASE SettleAndLog(r)
    <2>1. ServedFirst'
      BY <1>5 DEF SettleAndLog, SettleAndInsert
    <2>2. PriceDecides'
      BY <1>5 DEF SettleAndLog, SettleAndInsert
    <2>3. QueueOwed'
      BY <1>5 DEF SettleAndLog, SettleAndInsert
    <2>4. DebitAfterService'
      BY <1>5 DEF SettleAndLog, SettleAndInsert
    <2>5. LedgerOnce'
      BY <1>5 DEF SettleAndLog, SettleAndInsert
    <2>6. DebitHasRow'
      BY <1>5 DEF SettleAndLog, SettleAndInsert
    <2>7. ManualHoldStands'
      BY <1>5 DEF SettleAndLog, SettleAndInsert
    <2> QED
      BY <2>1, <2>2, <2>3, <2>4, <2>5, <2>6, <2>7
  <1>6. CASE RecordUnsettled(r)
    BY <1>6 DEF RecordUnsettled
  <1>7. CASE ProtectHold(r)
    <2>1. ServedFirst'
      BY <1>7 DEF ProtectHold
    <2>2. PriceDecides'
      BY <1>7 DEF ProtectHold
    <2>3. QueueOwed'
      BY <1>7 DEF ProtectHold
    <2>4. DebitAfterService'
      BY <1>7 DEF ProtectHold
    <2>5. LedgerOnce'
      BY <1>7 DEF ProtectHold
    <2>6. DebitHasRow'
      BY <1>7 DEF ProtectHold
    <2>7. ManualHoldStands'
      BY <1>7 DEF ProtectHold
    <2> QED
      BY <2>1, <2>2, <2>3, <2>4, <2>5, <2>6, <2>7
  <1>8. CASE RecordUnsettledPricing(r)
    <2>1. ServedFirst'
      BY <1>8 DEF RecordUnsettledPricing
    <2>2. PriceDecides'
      BY <1>8 DEF RecordUnsettledPricing
    <2>3. QueueOwed'
      BY <1>8 DEF RecordUnsettledPricing
    <2>4. DebitAfterService'
      BY <1>8 DEF RecordUnsettledPricing
    <2>5. LedgerOnce'
      BY <1>8 DEF RecordUnsettledPricing
    <2>6. DebitHasRow'
      BY <1>8 DEF RecordUnsettledPricing
    <2>7. ManualHoldStands'
      BY <1>8 DEF RecordUnsettledPricing
    <2> QED
      BY <2>1, <2>2, <2>3, <2>4, <2>5, <2>6, <2>7
  <1>9. CASE Crash(r)
    BY <1>9 DEF Crash, Running
  <1>10. CASE ExpireHold(r)
    BY <1>10 DEF ExpireHold
  <1> QED
    BY <1>1, <1>2, <1>3, <1>4, <1>5, <1>6, <1>7, <1>8, <1>9, <1>10 DEF Serve

\* Every step of a replay round keeps the invariant.
LEMMA WorkMoney ==
  ASSUME TypeOK, SettlementInv, NEW w \in Replayers, Work(w)
  PROVE  SettlementInv'
  <1> USE DEF requestVars, moneyVars, queueVars, replayVars, SettlementInv, ServedFirst,
              PriceDecides, QueueOwed, DebitAfterService, LedgerOnce, DebitHasRow,
              ManualHoldStands, TypeOK, Phases, Quotes, Holds
  <1>1. CASE ListUnsettledPending(w)
    BY <1>1 DEF ListUnsettledPending, Pending
  <1>2. CASE ReplayerDies(w)
    BY <1>2 DEF ReplayerDies
  <1>3. ASSUME NEW r \in Requests, Retry(w, r) PROVE SettlementInv'
    <2>1. served[r] /\ quote[r] # "missing" /\ phase[r] = "done"
      BY <1>3 DEF Retry
    <2>2. /\ UNCHANGED <<phase, served, quote, queued, manual>>
          /\ \A v \in Replayers : batch'[v] \subseteq batch[v]
      BY <1>3 DEF Retry
    <2>3. QueueOwed'
      BY <2>2
    <2>4. CASE UNCHANGED moneyVars
      BY <2>2, <2>3, <2>4
    <2>5. CASE SettleAndInsert(r)
      <3>1. ASSUME NEW q \in Requests
            PROVE  /\ charged[q] \in Nat /\ paidRows[q] \in Nat
                   /\ q # r => hold'[q] = hold[q] /\ charged'[q] = charged[q]
                               /\ paidRows'[q] = paidRows[q]
        BY <2>5 DEF SettleAndInsert
      <3>2. /\ hold'[r] = IF Ledger THEN "settled" ELSE hold[r]
            /\ charged'[r] = IF Ledger /\ hold[r] = "settled" THEN charged[r]
                                                               ELSE charged[r] + 1
            /\ paidRows'[r] = paidRows[r] + 1
        BY <2>5 DEF SettleAndInsert
      <3>3. ServedFirst' /\ PriceDecides' /\ ManualHoldStands'
        BY <2>1, <2>2, <3>1, <3>2
      <3>4. DebitAfterService'
        BY <2>1, <2>2, <3>1
      <3>5. LedgerOnce'
        BY <2>1, <2>2, <3>1, <3>2
      <3>6. DebitHasRow'
        BY <3>1, <3>2
      <3> QED
        BY <2>3, <3>3, <3>4, <3>5, <3>6
    <2> QED
      BY <1>3, <2>4, <2>5 DEF Retry
  <1>4. ASSUME NEW r \in Requests,
               \/ MarkUnsettledResolved(w, r) \/ BumpUnsettledAttempt(w, r)
               \/ AbandonUnsettled(w, r)
        PROVE  SettlementInv'
    BY <1>4 DEF MarkUnsettledResolved, BumpUnsettledAttempt, AbandonUnsettled, NextRow
  <1> QED
    BY <1>1, <1>2, <1>3, <1>4 DEF Work


\* The invariant is inductive.
LEMMA MoneyStep == TypeOK /\ SettlementInv /\ [Next]_vars => SettlementInv'
  <1> SUFFICES ASSUME TypeOK, SettlementInv, [Next]_vars PROVE SettlementInv'
    OBVIOUS
  <1>1. CASE Next
    BY <1>1, ServeMoney, WorkMoney DEF Next
  <1>2. CASE UNCHANGED vars
    BY <1>2 DEF vars, requestVars, moneyVars, queueVars, replayVars, SettlementInv,
       ServedFirst, PriceDecides, QueueOwed, DebitAfterService, LedgerOnce, DebitHasRow,
       ManualHoldStands
  <1> QED
    BY <1>1, <1>2

\* The inductive invariant of the billing boundary holds in every reachable
\* state: the request path, the two queues and every list read from them agree
\* on what was served, priced and debited.
THEOREM SettlementInvariant == Spec => [](TypeOK /\ SettlementInv)
  <1>1. Init => TypeOK /\ SettlementInv
    BY TypeInit, MoneyInit
  <1>2. TypeOK /\ SettlementInv /\ [Next]_vars => (TypeOK /\ SettlementInv)'
    BY TypeStep, MoneyStep
  <1> QED
    BY <1>1, <1>2, PTL DEF Spec

\* Nobody is debited for a request that produced nothing, and what
\* RecordExecutionFailure released no replay ever debits.
THEOREM NothingServedNothingCharged == Spec => []NoServiceNoCharge
  <1>1. TypeOK /\ SettlementInv => NoServiceNoCharge
    BY DEF TypeOK, SettlementInv, ServedFirst, QueueOwed, DebitAfterService, NoServiceNoCharge
  <1> QED
    BY <1>1, SettlementInvariant, PTL

\* SettleTx and InsertUsageLog commit together, on the request path and in
\* every replay, so no debit is ever without its usage row.
THEOREM EveryDebitHasItsRow == Spec => []DebitHasRow
  <1>1. TypeOK /\ SettlementInv => DebitHasRow
    BY DEF SettlementInv
  <1> QED
    BY <1>1, SettlementInvariant, PTL

\* RecordPricingMissing protects before it queues: whoever prices the request
\* by hand finds its reservation standing.
THEOREM ManualPriceFindsItsHold == Spec => []ManualHoldStands
  <1>1. TypeOK /\ SettlementInv => ManualHoldStands
    BY DEF SettlementInv
  <1> QED
    BY <1>1, SettlementInvariant, PTL

-----------------------------------------------------------------------------
(* No charge is lost to a single failure *)

\* Where the charge of a priced request is, counted in faults: one to get it to
\* RecordUnsettled, a second to lose it there; and what is resolved was debited.
Accounted ==
    /\ \A r \in Requests :
          /\ phase[r] = "recording" /\ quote[r] = "priced" => faults >= 1
          /\ phase[r] = "done" /\ quote[r] = "priced" =>
                charged[r] > 0 \/ queued[r] \/ faults >= 2
          /\ resolved[r] => charged[r] > 0
    /\ \A w \in Replayers, r \in Requests :
          replay[w] = "mark" /\ current[w] = r => charged[r] > 0

\* Debits are never taken back.
LEMMA SettleGrows ==
  ASSUME TypeOK, NEW r \in Requests, SettleAndInsert(r),
         Ledger => (charged[r] = 1 <=> hold[r] = "settled")
  PROVE  /\ \A q \in Requests : charged[q] > 0 => charged'[q] > 0
         /\ charged'[r] > 0
  BY DEF TypeOK, SettleAndInsert

\* Every step of a request leaves its charge accounted for.
LEMMA ServeAccounted ==
  ASSUME TypeOK, SettlementInv, Accounted, NEW r \in Requests, Serve(r) \/ ExpireHold(r)
  PROVE  Accounted'
  <1> faults \in Nat
    BY SettlementFaultsAssumption DEF TypeOK
  <1> USE DEF requestVars, moneyVars, queueVars, replayVars, Accounted
  <1>1. CASE ReserveFor(r) \/ Execute(r) \/ RecordExecutionFailure(r)
    BY <1>1 DEF ReserveFor, Execute, RecordExecutionFailure, Fault, TypeOK, SettlementInv,
       PriceDecides
  <1>2. CASE Price(r)
    BY <1>2 DEF Price, TypeOK
  <1>3. CASE SettleAndLog(r)
    <2>1. CASE SettleAndInsert(r)
      <3>1. /\ \A q \in Requests : charged[q] > 0 => charged'[q] > 0
            /\ charged'[r] > 0
        BY <2>1, SettleGrows DEF SettlementInv, LedgerOnce
      <3> QED
        BY <1>3, <3>1 DEF SettleAndLog, Fault, TypeOK
    <2>2. CASE UNCHANGED moneyVars /\ Fault
      BY <1>3, <2>2 DEF SettleAndLog, Fault, TypeOK
    <2> QED
      BY <1>3, <2>1, <2>2 DEF SettleAndLog
  <1>4. CASE RecordUnsettled(r)
    BY <1>4 DEF RecordUnsettled, Encodable, Fault, TypeOK
  <1>5. CASE ProtectHold(r) \/ RecordUnsettledPricing(r)
    BY <1>5 DEF ProtectHold, RecordUnsettledPricing, Fault, TypeOK, SettlementInv,
       PriceDecides
  <1>6. CASE Crash(r)
    BY <1>6 DEF Crash, Fault, TypeOK
  <1>7. CASE ExpireHold(r)
    BY <1>7 DEF ExpireHold, TypeOK
  <1> QED
    BY <1>1, <1>2, <1>3, <1>4, <1>5, <1>6, <1>7 DEF Serve

\* A round that goes on to its next row has nothing left to mark.
LEMMA NextRowKeeps ==
  ASSUME TypeOK, NEW w \in Replayers, NextRow(w)
  PROVE  \A v \in Replayers, q \in Requests :
            replay'[v] = "mark" /\ current'[v] = q => replay[v] = "mark" /\ current[v] = q
  BY DEF TypeOK, NextRow

\* Every step of a round leaves every charge accounted for.
LEMMA WorkAccounted ==
  ASSUME TypeOK, SettlementInv, Accounted, NEW w \in Replayers, Work(w)
  PROVE  Accounted'
  <1> faults \in Nat
    BY SettlementFaultsAssumption DEF TypeOK
  <1> USE DEF requestVars, moneyVars, queueVars, replayVars, Accounted
  <1>1. CASE ListUnsettledPending(w)
    BY <1>1 DEF ListUnsettledPending, TypeOK
  <1>2. CASE ReplayerDies(w)
    BY <1>2 DEF ReplayerDies, Fault, TypeOK
  <1>3. ASSUME NEW r \in Requests, Retry(w, r) PROVE Accounted'
    <2>1. CASE SettleAndInsert(r)
      <3>1. /\ \A q \in Requests : charged[q] > 0 => charged'[q] > 0
            /\ charged'[r] > 0
        BY <2>1, SettleGrows DEF SettlementInv, LedgerOnce
      <3> QED
        BY <1>3, <3>1 DEF Retry, Fault, TypeOK
    <2>2. CASE UNCHANGED moneyVars /\ Fault /\ replay'[w] # "mark"
      BY <1>3, <2>2 DEF Retry, Fault, TypeOK
    <2> QED
      BY <1>3, <2>1, <2>2 DEF Retry, TypeOK
  <1>4. ASSUME NEW r \in Requests, MarkUnsettledResolved(w, r) PROVE Accounted'
    <2>1. /\ charged[r] > 0
          /\ UNCHANGED <<phase, quote, charged, queued>>
      BY <1>4 DEF MarkUnsettledResolved
    <2>2. \A q \in Requests : resolved'[q] => resolved[q] \/ q = r
      BY <1>4 DEF MarkUnsettledResolved, TypeOK
    <2>3. faults' \in Nat /\ faults' >= faults
      BY <1>4 DEF MarkUnsettledResolved, Fault
    <2>4. \A v \in Replayers, q \in Requests :
             replay'[v] = "mark" /\ current'[v] = q => replay[v] = "mark" /\ current[v] = q
      BY <1>4, NextRowKeeps DEF MarkUnsettledResolved
    <2> QED
      BY <2>1, <2>2, <2>3, <2>4
  <1>5. ASSUME NEW r \in Requests, BumpUnsettledAttempt(w, r) \/ AbandonUnsettled(w, r)
        PROVE  Accounted'
    <2>1. UNCHANGED <<phase, quote, charged, queued, resolved>>
      BY <1>5 DEF BumpUnsettledAttempt, AbandonUnsettled
    <2>2. faults' \in Nat /\ faults' >= faults
      BY <1>5 DEF BumpUnsettledAttempt, AbandonUnsettled, Fault
    <2>3. \A v \in Replayers, q \in Requests :
             replay'[v] = "mark" /\ current'[v] = q => replay[v] = "mark" /\ current[v] = q
      BY <1>5, NextRowKeeps DEF BumpUnsettledAttempt, AbandonUnsettled
    <2> QED
      BY <2>1, <2>2, <2>3
  <1> QED
    BY <1>1, <1>2, <1>3, <1>4, <1>5 DEF Work

\* A served and priced request is debited, queued or given to a human unless
\* two statements fail: SettleAndLog's fallback is on the pool, outside the
\* transaction that failed, and the replay resolves only what it has debited.
THEOREM OneFaultLosesNoCharge == Spec => []ChargeSurvivesOneFault
  <1>1. Init => Accounted
    BY DEF Init, Accounted
  <1>2. TypeOK /\ SettlementInv /\ Accounted /\ [Next]_vars => Accounted'
    <2> SUFFICES ASSUME TypeOK, SettlementInv, Accounted, [Next]_vars PROVE Accounted'
      OBVIOUS
    <2>1. CASE Next
      BY <2>1, ServeAccounted, WorkAccounted DEF Next
    <2>2. CASE UNCHANGED vars
      BY <2>2 DEF vars, requestVars, moneyVars, queueVars, replayVars, Accounted
    <2> QED
      BY <2>1, <2>2
  <1>3. TypeOK /\ Accounted => ChargeSurvivesOneFault
    BY SettlementFaultsAssumption DEF TypeOK, Accounted, ChargeSurvivesOneFault, Pending
  <1> QED
    BY <1>1, <1>2, <1>3, SettlementInvariant, PTL DEF Spec

-----------------------------------------------------------------------------
(* The abstract specification *)

\* What one step may do to request r, as its bill sees it: nothing, the service,
\* the release of its reservation, or the debit.
SameBill(r) ==
    /\ served'[r] = served[r] /\ charged'[r] = charged[r]
    /\ hold'[r] = "voided" <=> hold[r] = "voided"
Serves(r) ==
    /\ ~served[r] /\ served'[r] /\ charged[r] = 0 /\ charged'[r] = 0
    /\ hold[r] # "voided"
Releases(r) ==
    /\ ~served[r] /\ ~served'[r] /\ charged[r] = 0 /\ charged'[r] = 0
    /\ hold[r] # "voided" /\ hold'[r] = "voided"
Pays(r) ==
    /\ served[r] /\ charged[r] = 0 /\ charged'[r] = 1

BillMoves ==
    \/ \A r \in Requests : SameBill(r)
    \/ \E r \in Requests :
          /\ Serves(r) \/ Releases(r) \/ Pays(r)
          /\ \A q \in Requests \ {r} : SameBill(q)

\* With a ledger a settlement is the one debit, or repeats one and does nothing.
LEMMA SettleMoves ==
  ASSUME TypeOK, SettlementInv, Ledger, NEW r \in Requests, SettleAndInsert(r),
         served[r], UNCHANGED served
  PROVE  BillMoves
  <1>1. /\ charged[r] \in Nat /\ charged[r] <= 1
        /\ charged[r] = 1 <=> hold[r] = "settled"
        /\ hold[r] # "voided"
    BY DEF TypeOK, SettlementInv, LedgerOnce, ServedFirst
  <1>2. \A q \in Requests \ {r} : SameBill(q)
    BY DEF SettleAndInsert, SameBill, TypeOK
  <1>3. /\ hold'[r] = "settled"
        /\ charged'[r] = IF hold[r] = "settled" THEN charged[r] ELSE charged[r] + 1
    BY DEF SettleAndInsert, TypeOK
  <1>4. CASE hold[r] = "settled"
    BY <1>1, <1>2, <1>3, <1>4 DEF SameBill, BillMoves
  <1>5. CASE hold[r] # "settled"
    BY <1>1, <1>2, <1>3, <1>5 DEF Pays, BillMoves
  <1> QED
    BY <1>4, <1>5

\* Every step of the gateway moves at most one bill, one way.
LEMMA NextBills ==
  ASSUME TypeOK, SettlementInv, Ledger, Next
  PROVE  BillMoves
  <1> USE DEF requestVars, moneyVars, queueVars, replayVars
  <1>1. ASSUME UNCHANGED <<served, charged, hold>> PROVE BillMoves
    BY <1>1 DEF BillMoves, SameBill
  <1>2. ASSUME NEW r \in Requests, Execute(r) PROVE BillMoves
    <2>1. /\ ~served[r] /\ hold[r] # "voided" /\ charged[r] = 0
      BY <1>2 DEF Execute, TypeOK, SettlementInv, ServedFirst, DebitAfterService
    <2>2. \A q \in Requests \ {r} : SameBill(q)
      BY <1>2 DEF Execute, SameBill, TypeOK
    <2>3. charged' = charged /\ hold' = hold /\ served'[r] \in BOOLEAN
      BY <1>2 DEF Execute, TypeOK
    <2> QED
      BY <2>1, <2>2, <2>3 DEF BillMoves, SameBill, Serves, TypeOK
  <1>3. ASSUME NEW r \in Requests, RecordExecutionFailure(r) PROVE BillMoves
    <2>1. /\ ~served[r] /\ hold[r] # "voided" /\ charged[r] = 0
      BY <1>3 DEF RecordExecutionFailure, TypeOK, SettlementInv, ServedFirst, DebitAfterService
    <2>2. \A q \in Requests \ {r} : SameBill(q)
      BY <1>3 DEF RecordExecutionFailure, SameBill, TypeOK
    <2>3. charged' = charged /\ served' = served
      BY <1>3 DEF RecordExecutionFailure
    <2> QED
      BY <2>1, <2>2, <2>3 DEF BillMoves, SameBill, Releases
  <1>4. ASSUME NEW r \in Requests, ReserveFor(r) \/ ProtectHold(r) \/ ExpireHold(r)
        PROVE  BillMoves
    <2>1. hold[r] # "voided" \/ hold' = hold
      BY <1>4 DEF ReserveFor, ProtectHold, ExpireHold, SettlementInv, ServedFirst
    <2>2. \A q \in Requests : SameBill(q)
      BY <1>4, <2>1 DEF ReserveFor, ProtectHold, ExpireHold, SameBill, TypeOK
    <2> QED
      BY <2>2 DEF BillMoves
  <1>5. ASSUME NEW r \in Requests, SettleAndLog(r) PROVE BillMoves
    <2>1. served[r] /\ UNCHANGED served /\ (SettleAndInsert(r) \/ UNCHANGED moneyVars)
      BY <1>5 DEF SettleAndLog, SettlementInv, ServedFirst
    <2> QED
      BY <1>1, <2>1, SettleMoves
  <1>6. ASSUME NEW w \in Replayers, NEW r \in Requests, Retry(w, r) PROVE BillMoves
    <2>1. served[r] /\ UNCHANGED served /\ (SettleAndInsert(r) \/ UNCHANGED moneyVars)
      BY <1>6 DEF Retry, SettlementInv, QueueOwed
    <2> QED
      BY <1>1, <2>1, SettleMoves
  <1>7. ASSUME NEW r \in Requests, Price(r) \/ RecordUnsettled(r)
                                   \/ RecordUnsettledPricing(r) \/ Crash(r)
        PROVE  BillMoves
    BY <1>1, <1>7 DEF Price, RecordUnsettled, RecordUnsettledPricing, Crash
  <1>8. ASSUME NEW w \in Replayers, ListUnsettledPending(w) \/ ReplayerDies(w)
        PROVE  BillMoves
    BY <1>1, <1>8 DEF ListUnsettledPending, ReplayerDies
  <1>9. ASSUME NEW w \in Replayers, NEW r \in Requests,
               \/ MarkUnsettledResolved(w, r) \/ BumpUnsettledAttempt(w, r)
               \/ AbandonUnsettled(w, r)
        PROVE  BillMoves
    BY <1>1, <1>9 DEF MarkUnsettledResolved, BumpUnsettledAttempt, AbandonUnsettled
  <1> QED
    BY <1>2, <1>3, <1>4, <1>5, <1>6, <1>7, <1>8, <1>9 DEF Next, Serve, Work


\* A bill that was moved one way is the abstract step of that name.
LEMMA BillStep ==
  ASSUME TypeOK, BillMoves
  PROVE  [Billing!Next]_Bill
  <1> USE DEF Bill
  <1>1. ASSUME NEW q \in Requests, SameBill(q) PROVE Bill'[q] = Bill[q]
    <2>1. charged[q] \in Nat /\ charged'[q] = charged[q] /\ (served'[q] <=> served[q])
      BY <1>1 DEF SameBill, TypeOK
    <2>2. CASE charged[q] = 1
      <3>1. Bill[q] = "paid" /\ Bill'[q] = "paid"
        BY <2>1, <2>2
      <3> QED
        BY <3>1
    <2>3. CASE charged[q] > 1
      <3>1. Bill[q] = "paid twice" /\ Bill'[q] = "paid twice"
        BY <2>1, <2>3
      <3> QED
        BY <3>1
    <2>4. CASE charged[q] = 0
      <3>1. CASE served[q]
        <4>1. Bill[q] = "owed" /\ Bill'[q] = "owed"
          BY <2>1, <2>4, <3>1
        <4> QED
          BY <4>1
      <3>2. CASE ~served[q] /\ hold[q] = "voided"
        <4>1. Bill[q] = "released" /\ Bill'[q] = "released"
          BY <1>1, <2>1, <2>4, <3>2 DEF SameBill
        <4> QED
          BY <4>1
      <3>3. CASE ~served[q] /\ hold[q] # "voided"
        <4>1. Bill[q] = "open" /\ Bill'[q] = "open"
          BY <1>1, <2>1, <2>4, <3>3 DEF SameBill
        <4> QED
          BY <4>1
      <3> QED
        BY <3>1, <3>2, <3>3
    <2> QED
      BY <2>1, <2>2, <2>3, <2>4
  <1>2. CASE \A r \in Requests : SameBill(r)
    <2>1. \A r \in Requests : Bill'[r] = Bill[r]
      BY <1>1, <1>2
    <2>2. Bill' = Bill
      BY <2>1
    <2> QED
      BY <2>2
  <1>3. ASSUME NEW r \in Requests, Serves(r) \/ Releases(r) \/ Pays(r),
               \A q \in Requests \ {r} : SameBill(q)
        PROVE  Billing!Next
    <2>1. ASSUME NEW b, Bill'[r] = b PROVE Bill' = [Bill EXCEPT ![r] = b]
      <3>1. \A q \in Requests : q # r => Bill'[q] = Bill[q]
        BY <1>1, <1>3
      <3>2. Bill = [q \in Requests |-> Bill[q]] /\ Bill' = [q \in Requests |-> Bill'[q]]
        OBVIOUS
      <3> HIDE DEF Bill
      <3> QED
        BY <2>1, <3>1, <3>2
    <2>2. CASE Serves(r)
      <3>1. Bill[r] = "open" /\ Bill'[r] \in {"owed"}
        BY <2>2 DEF Serves
      <3> QED
        BY <2>1, <3>1 DEF Billing!Next, Billing!Serve
    <2>3. CASE Releases(r)
      <3>1. Bill[r] = "open" /\ Bill'[r] = "released"
        BY <2>3 DEF Releases
      <3> QED
        BY <2>1, <3>1 DEF Billing!Next, Billing!Release
    <2>4. CASE Pays(r)
      <3>1. Bill[r] = "owed" /\ Bill'[r] = "paid"
        BY <2>4 DEF Pays
      <3> QED
        BY <2>1, <3>1 DEF Billing!Next, Billing!Pay
    <2> QED
      BY <1>3, <2>2, <2>3, <2>4
  <1> QED
    BY <1>2, <1>3 DEF BillMoves

\* With a ledger the billing boundary, its queues and its replays implement
\* Charge: whatever fails, repeats or overlaps, a bill only goes from open to
\* owed to paid, or from open to released.
THEOREM GatewayImplementsCharge ==
  ASSUME Ledger
  PROVE  Spec => ImplementsCharge
  <1>1. Init => Billing!Init
    BY DEF Init, Billing!Init, Bill
  <1>2. TypeOK /\ SettlementInv /\ [Next]_vars => [Billing!Next]_Bill
    <2> SUFFICES ASSUME TypeOK, SettlementInv, [Next]_vars PROVE [Billing!Next]_Bill
      OBVIOUS
    <2>1. CASE Next
      BY <2>1, NextBills, BillStep
    <2>2. CASE UNCHANGED vars
      BY <2>2 DEF vars, requestVars, moneyVars, Bill
    <2> QED
      BY <2>1, <2>2
  <1> QED
    BY <1>1, <1>2, SettlementInvariant, PTL DEF Spec, ImplementsCharge, Billing!Spec

-----------------------------------------------------------------------------
(* The overcharge budget, for every settler *)

\* A settler that debits whenever it is called, as the Recorder does, still
\* debits a request more than once only within a budget: one debit for each
\* failed statement and one for each round that can hold the entry in its list.
\* RecordUnsettled is only reached after a failure, MarkUnsettledResolved follows
\* each successful replay, and no list is read that has a resolved entry.
OverchargeBounded ==
    \A r \in Requests :
        charged[r] > 1 => charged[r] <= faults + Cardinality(Replayers)

\* The rounds that have replayed r and not yet marked it, and those that have r
\* still ahead of them in their list.
Marking(r) == {w \in Replayers : replay[w] = "mark" /\ current[w] = r}
Listing(r) == {w \in Replayers : r \in batch[w]}

\* Why the budget holds.  Until its entry is resolved, each debit of r was paid
\* for by a fault or is about to be marked; from then on the lists that still
\* have r can only shrink.
BudgetAt(r) ==
    /\ ~resolved[r] /\ (queued[r] \/ phase[r] = "recording") =>
          charged[r] <= faults + Cardinality(Marking(r))
    /\ resolved[r] => charged[r] + Cardinality(Listing(r)) <= faults + Cardinality(Replayers)
    /\ ~queued[r] => charged[r] <= 1 /\ ~resolved[r]

\* A round has no row both in hand and ahead, and an idle round has neither.
RoundAt(w) ==
    /\ current[w] # "none" => current[w] \notin batch[w] /\ queued[current[w]]
    /\ replay[w] = "idle" => batch[w] = {} /\ current[w] = "none"

BudgetInv == (\A r \in Requests : BudgetAt(r)) /\ (\A w \in Replayers : RoundAt(w))

\* Sets of rounds have a size, and a round added or removed counts for one.
LEMMA RoundSets ==
  /\ Cardinality(Replayers) \in Nat
  /\ \A S \in SUBSET Replayers : Cardinality(S) \in Nat /\ Cardinality(S) <= Cardinality(Replayers)
  /\ \A S, T \in SUBSET Replayers : S \subseteq T => Cardinality(S) <= Cardinality(T)
  /\ \A S \in SUBSET Replayers, w \in Replayers :
        /\ Cardinality(S \ {w}) = IF w \in S THEN Cardinality(S) - 1 ELSE Cardinality(S)
        /\ Cardinality(S \cup {w}) = IF w \in S THEN Cardinality(S) ELSE Cardinality(S) + 1
  /\ \A S, T \in SUBSET Replayers :
        S \cap T = {} => Cardinality(S) + Cardinality(T) <= Cardinality(Replayers)
  <1> USE ReplayersAssumption
  <1>1. ASSUME NEW S \in SUBSET Replayers
        PROVE  /\ IsFiniteSet(S) /\ Cardinality(S) \in Nat
               /\ Cardinality(S) <= Cardinality(Replayers)
    BY FS_Subset, FS_CardinalityType
  <1>2. ASSUME NEW S \in SUBSET Replayers, NEW T \in SUBSET Replayers, S \subseteq T
        PROVE  Cardinality(S) <= Cardinality(T)
    BY <1>1, <1>2, FS_Subset
  <1>3. ASSUME NEW S \in SUBSET Replayers, NEW w \in Replayers
        PROVE  /\ Cardinality(S \ {w}) = IF w \in S THEN Cardinality(S) - 1 ELSE Cardinality(S)
               /\ Cardinality(S \cup {w}) = IF w \in S THEN Cardinality(S)
                                            ELSE Cardinality(S) + 1
    BY <1>1, FS_AddElement, FS_RemoveElement
  <1>4. ASSUME NEW S \in SUBSET Replayers, NEW T \in SUBSET Replayers, S \cap T = {}
        PROVE  Cardinality(S) + Cardinality(T) <= Cardinality(Replayers)
    <2>1. IsFiniteSet(S) /\ IsFiniteSet(T) /\ Cardinality(S) \in Nat /\ Cardinality(T) \in Nat
      BY <1>1
    <2>2. Cardinality(S \cup T) = Cardinality(S) + Cardinality(T) - Cardinality(S \cap T)
      BY <2>1, FS_Union
    <2>3. Cardinality(S \cap T) = 0
      BY <1>4, FS_EmptySet
    <2>4. S \cup T \in SUBSET Replayers
      OBVIOUS
    <2>5. Cardinality(S \cup T) <= Cardinality(Replayers)
      BY <1>1, <2>4
    <2> QED
      BY <2>1, <2>2, <2>3, <2>5
  <1> QED
    BY <1>1, <1>2, <1>3, <1>4, FS_CardinalityType

\* A settlement debits one request, at most once.
LEMMA SettleDebits ==
  ASSUME TypeOK, NEW r \in Requests, SettleAndInsert(r)
  PROVE  /\ charged'[r] \in {charged[r], charged[r] + 1}
         /\ \A q \in Requests \ {r} : charged'[q] = charged[q]
  BY DEF SettleAndInsert, TypeOK

\* A request that is not r keeps its budget when the rounds do not move.
LEMMA BudgetRests ==
  ASSUME TypeOK, NEW q \in Requests, BudgetAt(q), UNCHANGED replayVars,
         faults' \in {faults, faults + 1}, charged'[q] = charged[q],
         resolved'[q] = resolved[q], queued'[q] = queued[q],
         phase'[q] = "recording" => phase[q] = "recording"
  PROVE  BudgetAt(q)'
  <1>1. Marking(q)' = Marking(q) /\ Listing(q)' = Listing(q)
    BY DEF Marking, Listing, replayVars
  <1>2. /\ Cardinality(Marking(q)) \in Nat /\ Cardinality(Listing(q)) \in Nat
        /\ Cardinality(Replayers) \in Nat
    BY RoundSets DEF Marking, Listing
  <1>3. faults \in Nat /\ charged[q] \in Nat
    BY SettlementFaultsAssumption DEF TypeOK
  <1> QED
    BY <1>1, <1>2, <1>3 DEF BudgetAt

\* Run and RunStream: the first debit is free, and the fallback record is only
\* written by a request that has not been debited or whose commit was lost.
LEMMA ServeBudget ==
  ASSUME TypeOK, SettlementInv, BudgetInv, NEW r \in Requests, Serve(r) \/ ExpireHold(r)
  PROVE  BudgetInv'
  <1> USE DEF requestVars, moneyVars, queueVars
  <1>1. UNCHANGED replayVars /\ UNCHANGED resolved /\ faults' \in {faults, faults + 1}
    BY DEF Serve, ReserveFor, Execute, RecordExecutionFailure, Price, SettleAndLog,
       RecordUnsettled, ProtectHold, RecordUnsettledPricing, Crash, ExpireHold, Fault
  <1>2. \A q \in Requests : queued[q] => queued'[q]
    BY DEF Serve, ReserveFor, Execute, RecordExecutionFailure, Price, SettleAndLog,
       RecordUnsettled, ProtectHold, RecordUnsettledPricing, Crash, ExpireHold, TypeOK
  <1>3. \A w \in Replayers : RoundAt(w)'
    BY <1>1, <1>2 DEF BudgetInv, RoundAt, replayVars, TypeOK
  <1>4. ASSUME NEW q \in Requests, q # r
        PROVE  BudgetAt(q)'
    <2>1. charged'[q] = charged[q] /\ queued'[q] = queued[q] /\ phase'[q] = phase[q]
      BY <1>4, SettleDebits
      DEF Serve, ReserveFor, Execute, RecordExecutionFailure, Price, SettleAndLog,
          RecordUnsettled, ProtectHold, RecordUnsettledPricing, Crash, ExpireHold, TypeOK
    <2> QED
      BY <1>1, <2>1, BudgetRests DEF BudgetInv
  <1>5. BudgetAt(r)'
    <2>1. /\ Marking(r)' = Marking(r) /\ Cardinality(Marking(r)) \in Nat
          /\ faults \in Nat /\ charged[r] \in Nat
      BY <1>1, RoundSets, SettlementFaultsAssumption DEF Marking, replayVars, TypeOK
    <2>2. BudgetAt(r)
      BY DEF BudgetInv
    <2>3. CASE SettleAndLog(r)
      <3>1. ~queued[r] /\ charged[r] = 0 /\ ~queued'[r] /\ ~resolved'[r]
        BY <1>1, <2>1, <2>2, <2>3
        DEF SettleAndLog, SettlementInv, QueueOwed, DebitAfterService, BudgetAt
      <3>2. charged'[r] \in {0, 1}
        BY <2>1, <2>3, <3>1, SettleDebits DEF SettleAndLog
      <3>3. phase'[r] = "recording" => faults' = faults + 1
        BY <2>3 DEF SettleAndLog, Fault, TypeOK
      <3> QED
        BY <2>1, <3>1, <3>2, <3>3 DEF BudgetAt
    <2>4. CASE Price(r)
      <3>1. ~queued[r] /\ charged[r] = 0 /\ ~queued'[r] /\ ~resolved'[r]
        BY <1>1, <2>1, <2>2, <2>4
        DEF Price, SettlementInv, QueueOwed, DebitAfterService, BudgetAt
      <3>2. charged'[r] = 0 /\ faults' = faults
        BY <2>4, <3>1 DEF Price
      <3> QED
        BY <2>1, <3>1, <3>2 DEF BudgetAt
    <2>5. CASE RecordUnsettled(r)
      <3>1. charged'[r] = charged[r] /\ phase[r] = "recording" /\ phase'[r] = "done"
        BY <2>5 DEF RecordUnsettled, TypeOK
      <3>2. ~queued[r] /\ ~resolved[r]
        BY <2>2, <3>1 DEF SettlementInv, QueueOwed, BudgetAt
      <3> QED
        BY <1>1, <2>1, <2>2, <3>1, <3>2 DEF BudgetAt
    <2>6. CASE \/ ReserveFor(r) \/ Execute(r) \/ RecordExecutionFailure(r) \/ ProtectHold(r)
               \/ RecordUnsettledPricing(r) \/ Crash(r) \/ ExpireHold(r)
      <3>1. /\ charged'[r] = charged[r] /\ queued'[r] = queued[r]
            /\ phase'[r] = "recording" => phase[r] = "recording"
        BY <2>6 DEF ReserveFor, Execute, RecordExecutionFailure, ProtectHold,
           RecordUnsettledPricing, Crash, ExpireHold, TypeOK
      <3> QED
        BY <1>1, <2>2, <3>1, BudgetRests
    <2> QED
      BY <2>3, <2>4, <2>5, <2>6 DEF Serve
  <1> QED
    BY <1>3, <1>4, <1>5 DEF BudgetInv

\* A request that a round does not have in hand keeps its budget, whatever the
\* round's list does, as long as no list gets back a resolved entry.
LEMMA BudgetElsewhere ==
  ASSUME TypeOK, NEW q \in Requests, BudgetAt(q), UNCHANGED phase,
         faults' \in {faults, faults + 1}, charged'[q] = charged[q],
         resolved'[q] = resolved[q], queued'[q] = queued[q],
         Marking(q) \subseteq Marking(q)', resolved[q] => Listing(q)' \subseteq Listing(q)
  PROVE  BudgetAt(q)'
  <1>1. /\ Cardinality(Marking(q)) \in Nat /\ Cardinality(Listing(q)) \in Nat
        /\ Cardinality(Marking(q)') \in Nat /\ Cardinality(Listing(q)') \in Nat
        /\ Cardinality(Replayers) \in Nat
        /\ Cardinality(Marking(q)) <= Cardinality(Marking(q)')
        /\ resolved[q] => Cardinality(Listing(q)') <= Cardinality(Listing(q))
    BY RoundSets DEF Marking, Listing
  <1>2. faults \in Nat /\ charged[q] \in Nat
    BY SettlementFaultsAssumption DEF TypeOK
  <1> QED
    BY <1>1, <1>2 DEF BudgetAt

\* ListUnsettledPending gives a round no resolved entry.
LEMMA ListBudget ==
  ASSUME TypeOK, BudgetInv, NEW w \in Replayers, ListUnsettledPending(w)
  PROVE  BudgetInv'
  <1> USE DEF requestVars, moneyVars, queueVars
  <1>1. /\ UNCHANGED <<phase, charged, resolved, queued, current, faults>>
        /\ replay[w] = "idle" /\ replay' = [replay EXCEPT ![w] = "next"]
        /\ batch' = [batch EXCEPT ![w] = {r \in Requests : Pending(r)}]
    BY DEF ListUnsettledPending
  <1>2. ASSUME NEW q \in Requests
        PROVE  BudgetAt(q)'
    <2>1. Marking(q) \subseteq Marking(q)'
      BY <1>1 DEF Marking, TypeOK
    <2>2. resolved[q] => Listing(q)' \subseteq Listing(q)
      BY <1>1 DEF Listing, Pending, TypeOK
    <2> QED
      BY <1>1, <2>1, <2>2, BudgetElsewhere DEF BudgetInv
  <1>3. ASSUME NEW v \in Replayers
        PROVE  RoundAt(v)'
    <2>1. RoundAt(v) /\ RoundAt(w)
      BY DEF BudgetInv
    <2>2. CASE v = w
      BY <1>1, <2>1, <2>2 DEF RoundAt, TypeOK
    <2>3. CASE v # w
      BY <1>1, <2>1, <2>3 DEF RoundAt, TypeOK
    <2> QED
      BY <2>2, <2>3
  <1> QED
    BY <1>2, <1>3 DEF BudgetInv

\* A debit by retry moves the round from those that list the entry to those that
\* are about to mark it, or spends a fault.
LEMMA RetryBudget ==
  ASSUME TypeOK, SettlementInv, BudgetInv, NEW w \in Replayers, NEW r \in Requests,
         Retry(w, r)
  PROVE  BudgetInv'
  <1> USE DEF requestVars, moneyVars, queueVars
  <1>1. /\ UNCHANGED <<phase, resolved, queued>>
        /\ replay[w] = "next" /\ r \in batch[w] /\ queued[r]
        /\ batch' = [batch EXCEPT ![w] = @ \ {r}]
        /\ current' = [current EXCEPT ![w] = r]
        /\ \/ replay' = [replay EXCEPT ![w] = "mark"] /\ faults' = faults
           \/ /\ \E s \in {"failed", "undecodable"} : replay' = [replay EXCEPT ![w] = s]
              /\ faults' = faults + 1
    BY DEF Retry, Fault, SettlementInv, QueueOwed
  <1>2. /\ charged'[r] \in {charged[r], charged[r] + 1}
        /\ \A q \in Requests \ {r} : charged'[q] = charged[q]
    BY SettleDebits DEF Retry, TypeOK
  <1>3. ASSUME NEW v \in Replayers
        PROVE  RoundAt(v)'
    <2>1. RoundAt(v)
      BY DEF BudgetInv
    <2>2. CASE v = w
      BY <1>1, <2>2 DEF RoundAt, TypeOK
    <2>3. CASE v # w
      BY <1>1, <2>1, <2>3 DEF RoundAt, TypeOK
    <2> QED
      BY <2>2, <2>3
  <1>4. ASSUME NEW q \in Requests, q # r
        PROVE  BudgetAt(q)'
    <2>1. Marking(q) \subseteq Marking(q)'
      BY <1>1 DEF Marking, TypeOK
    <2>2. Listing(q)' \subseteq Listing(q)
      BY <1>1 DEF Listing, TypeOK
    <2> QED
      BY <1>1, <1>2, <1>4, <2>1, <2>2, BudgetElsewhere DEF BudgetInv
  <1>5. BudgetAt(r)'
    <2>1. Listing(r)' = Listing(r) \ {w} /\ w \in Listing(r)
      BY <1>1 DEF Listing, TypeOK
    <2>2. w \notin Marking(r)
      BY <1>1 DEF Marking
    <2>3. /\ Cardinality(Marking(r)) \in Nat /\ Cardinality(Listing(r)) \in Nat
          /\ Cardinality(Listing(r)') = Cardinality(Listing(r)) - 1
          /\ Cardinality(Replayers) \in Nat
      BY <2>1, RoundSets DEF Marking, Listing
    <2>4. faults \in Nat /\ charged[r] \in Nat
      BY SettlementFaultsAssumption DEF TypeOK
    <2>5. BudgetAt(r)
      BY DEF BudgetInv
    <2>6. CASE replay' = [replay EXCEPT ![w] = "mark"] /\ faults' = faults
      <3>1. Marking(r)' = Marking(r) \cup {w}
        BY <1>1, <2>6 DEF Marking, TypeOK
      <3>2. Cardinality(Marking(r)') = Cardinality(Marking(r)) + 1
        BY <2>2, <3>1, RoundSets DEF Marking
      <3> QED
        BY <1>1, <1>2, <2>3, <2>4, <2>5, <2>6, <3>2 DEF BudgetAt
    <2>7. CASE /\ \E s \in {"failed", "undecodable"} : replay' = [replay EXCEPT ![w] = s]
               /\ faults' = faults + 1
      <3>1. Marking(r)' = Marking(r)
        BY <1>1, <2>7 DEF Marking, TypeOK
      <3> QED
        BY <1>1, <1>2, <2>3, <2>4, <2>5, <2>7, <3>1 DEF BudgetAt
    <2> QED
      BY <1>1, <2>6, <2>7
  <1> QED
    BY <1>3, <1>4, <1>5 DEF BudgetInv

\* A round that leaves the row it has in hand resolves it, spends a fault, or had
\* not replayed it with success.
LEMMA LeaveBudget ==
  ASSUME TypeOK, BudgetInv, NEW w \in Replayers,
         UNCHANGED <<phase, charged, queued>>, faults' \in {faults, faults + 1},
         batch' \in {batch, [batch EXCEPT ![w] = {}]},
         current' = [current EXCEPT ![w] = "none"],
         NEW s \in {"idle", "next"}, replay' = [replay EXCEPT ![w] = s],
         s = "idle" => batch'[w] = {},
         \A q \in Requests : \/ resolved'[q] = resolved[q]
                             \/ resolved'[q] /\ w \in Marking(q) /\ faults' = faults,
         replay[w] = "mark" /\ faults' = faults => resolved'[current[w]]
  PROVE  BudgetInv'
  <1>1. ASSUME NEW v \in Replayers
        PROVE  RoundAt(v)'
    <2>1. RoundAt(v)
      BY DEF BudgetInv
    <2>2. CASE v = w
      BY <2>2 DEF RoundAt, TypeOK
    <2>3. CASE v # w
      BY <2>1, <2>3 DEF RoundAt, TypeOK
    <2> QED
      BY <2>2, <2>3
  <1>2. ASSUME NEW q \in Requests
        PROVE  BudgetAt(q)'
    <2>1. /\ Marking(q)' = Marking(q) \ {w}
          /\ Listing(q)' \subseteq Listing(q)
      BY DEF Marking, Listing, TypeOK
    <2>2. /\ Cardinality(Marking(q)) \in Nat /\ Cardinality(Listing(q)) \in Nat
          /\ Cardinality(Marking(q)') \in Nat /\ Cardinality(Listing(q)') \in Nat
          /\ Cardinality(Replayers) \in Nat
          /\ Cardinality(Listing(q)') <= Cardinality(Listing(q))
          /\ Cardinality(Marking(q)') =
                IF w \in Marking(q) THEN Cardinality(Marking(q)) - 1
                                    ELSE Cardinality(Marking(q))
      <3>1. /\ Marking(q) \in SUBSET Replayers /\ Listing(q) \in SUBSET Replayers
            /\ Marking(q)' \in SUBSET Replayers /\ Listing(q)' \in SUBSET Replayers
        BY DEF Marking, Listing
      <3>2. /\ Cardinality(Marking(q)) \in Nat /\ Cardinality(Listing(q)) \in Nat
            /\ Cardinality(Marking(q)') \in Nat /\ Cardinality(Listing(q)') \in Nat
            /\ Cardinality(Replayers) \in Nat
        BY <3>1, RoundSets
      <3>3. Cardinality(Listing(q)') <= Cardinality(Listing(q))
        BY <2>1, <3>1, RoundSets
      <3>4. Cardinality(Marking(q) \ {w}) =
                IF w \in Marking(q) THEN Cardinality(Marking(q)) - 1
                                    ELSE Cardinality(Marking(q))
        BY <3>1, RoundSets
      <3> QED
        BY <2>1, <3>2, <3>3, <3>4
    <2>3. faults \in Nat /\ charged[q] \in Nat /\ resolved[q] \in BOOLEAN
      BY SettlementFaultsAssumption DEF TypeOK
    <2>4. BudgetAt(q)
      BY DEF BudgetInv
    <2>5. CASE resolved'[q] /\ ~resolved[q]
      <3>1. w \in Marking(q) /\ queued[q] /\ faults' = faults
        <4>1. w \in Marking(q) /\ faults' = faults
          BY <2>5
        <4>2. current[w] = q /\ q # "none"
          BY <4>1, SettlementRequestsAssumption DEF Marking
        <4> QED
          BY <4>1, <4>2 DEF BudgetInv, RoundAt
      <3>2. Marking(q) \cap Listing(q) = {}
        <4> SUFFICES ASSUME NEW v \in Replayers, current[v] = q, q \in batch[v]
                     PROVE  FALSE
          BY DEF Marking, Listing
        <4> QED
          BY SettlementRequestsAssumption DEF BudgetInv, RoundAt
      <3>3. Cardinality(Marking(q)) + Cardinality(Listing(q)) <= Cardinality(Replayers)
        BY <3>2, RoundSets DEF Marking, Listing
      <3>4. charged[q] <= faults + Cardinality(Marking(q))
        BY <2>4, <2>5, <3>1 DEF BudgetAt
      <3>5. charged'[q] + Cardinality(Listing(q)') <= faults' + Cardinality(Replayers)
        BY <2>2, <2>3, <3>1, <3>3, <3>4
      <3> QED
        BY <2>5, <3>1, <3>5 DEF BudgetAt
    <2>6. CASE resolved'[q] = resolved[q]
      <3>1. CASE w \in Marking(q) /\ faults' = faults
        <4>1. resolved'[q]
          BY <3>1 DEF Marking
        <4> QED
          BY <2>2, <2>3, <2>4, <2>6, <3>1, <4>1 DEF BudgetAt
      <3>2. CASE w \notin Marking(q) \/ faults' = faults + 1
        <4>1. faults + Cardinality(Marking(q)) <= faults' + Cardinality(Marking(q)')
          BY <2>2, <2>3, <3>2
        <4> QED
          BY <2>2, <2>3, <2>4, <2>6, <4>1 DEF BudgetAt
      <3> QED
        BY <3>1, <3>2
    <2> QED
      BY <2>3, <2>5, <2>6
  <1> QED
    BY <1>1, <1>2 DEF BudgetInv

\* Every step of a replay round keeps the budget.
LEMMA WorkBudget ==
  ASSUME TypeOK, SettlementInv, BudgetInv, NEW w \in Replayers, Work(w)
  PROVE  BudgetInv'
  <1> USE DEF requestVars, moneyVars, queueVars
  <1>1. CASE ListUnsettledPending(w)
    BY <1>1, ListBudget
  <1>2. CASE ReplayerDies(w)
    <2>1. /\ UNCHANGED <<phase, charged, queued, resolved>> /\ faults' = faults + 1
          /\ batch' = [batch EXCEPT ![w] = {}]
          /\ current' = [current EXCEPT ![w] = "none"]
          /\ replay' = [replay EXCEPT ![w] = "idle"]
      BY <1>2 DEF ReplayerDies, Fault
    <2>2. batch'[w] = {} /\ faults' # faults
      BY <2>1, SettlementFaultsAssumption DEF TypeOK
    <2> QED
      BY <2>1, <2>2, LeaveBudget
  <1>3. ASSUME NEW r \in Requests, Retry(w, r) PROVE BudgetInv'
    BY <1>3, RetryBudget
  <1>4. ASSUME NEW r \in Requests,
               \/ MarkUnsettledResolved(w, r) \/ BumpUnsettledAttempt(w, r)
               \/ AbandonUnsettled(w, r)
        PROVE  BudgetInv'
    <2>1. PICK s \in {"idle", "next"} : /\ replay' = [replay EXCEPT ![w] = s]
                                        /\ s = "idle" => batch'[w] = {}
      BY <1>4 DEF MarkUnsettledResolved, BumpUnsettledAttempt, AbandonUnsettled, NextRow
    <2>2. /\ UNCHANGED <<phase, charged, queued>> /\ faults' \in {faults, faults + 1}
          /\ batch' = batch /\ current' = [current EXCEPT ![w] = "none"]
      BY <1>4 DEF MarkUnsettledResolved, BumpUnsettledAttempt, AbandonUnsettled, NextRow,
         Fault
    <2>3. CASE MarkUnsettledResolved(w, r)
      <3>1. replay[w] = "mark" /\ current[w] = r /\ w \in Marking(r)
        BY <2>3 DEF MarkUnsettledResolved, Marking
      <3>2. \A q \in Requests : \/ resolved'[q] = resolved[q]
                                \/ resolved'[q] /\ w \in Marking(q) /\ faults' = faults
        BY <2>3, <3>1 DEF MarkUnsettledResolved, TypeOK
      <3>3. faults' = faults => resolved'[current[w]]
        BY <2>3, <3>1, SettlementFaultsAssumption DEF MarkUnsettledResolved, Fault, TypeOK
      <3> QED
        BY <2>1, <2>2, <3>2, <3>3, LeaveBudget
    <2>4. CASE BumpUnsettledAttempt(w, r) \/ AbandonUnsettled(w, r)
      <3>1. UNCHANGED resolved /\ replay[w] # "mark"
        BY <2>4 DEF BumpUnsettledAttempt, AbandonUnsettled
      <3> QED
        BY <2>1, <2>2, <3>1, LeaveBudget
    <2> QED
      BY <1>4, <2>3, <2>4
  <1> QED
    BY <1>1, <1>2, <1>3, <1>4 DEF Work

\* The budget follows from its invariant.
LEMMA BudgetImplies == TypeOK /\ BudgetInv => OverchargeBounded
  <1> SUFFICES ASSUME TypeOK, BudgetInv, NEW r \in Requests, charged[r] > 1
               PROVE  charged[r] <= faults + Cardinality(Replayers)
    BY DEF OverchargeBounded
  <1>1. Marking(r) \in SUBSET Replayers /\ Listing(r) \in SUBSET Replayers
    BY DEF Marking, Listing
  <1>2. /\ Cardinality(Marking(r)) \in Nat /\ Cardinality(Listing(r)) \in Nat
        /\ Cardinality(Marking(r)) <= Cardinality(Replayers)
        /\ Cardinality(Replayers) \in Nat
    BY <1>1, RoundSets
  <1>3. faults \in Nat /\ charged[r] \in Nat
    BY SettlementFaultsAssumption DEF TypeOK
  <1>4. BudgetAt(r)
    BY DEF BudgetInv
  <1>5. queued[r]
    BY <1>3, <1>4 DEF BudgetAt
  <1> QED
    BY <1>2, <1>3, <1>4, <1>5 DEF BudgetAt

\* For every settler, also one that debits whenever SettleTx is called: however
\* many rounds of UnsettledWorker overlap and however often commits are lost, a
\* request is debited more than once only within faults + rounds.
THEOREM OverchargeIsBounded == Spec => []OverchargeBounded
  <1>1. Init => BudgetInv
    BY DEF Init, BudgetInv, BudgetAt, RoundAt
  <1>2. TypeOK /\ SettlementInv /\ BudgetInv /\ [Next]_vars => BudgetInv'
    <2> SUFFICES ASSUME TypeOK, SettlementInv, BudgetInv, [Next]_vars PROVE BudgetInv'
      OBVIOUS
    <2>1. CASE Next
      BY <2>1, ServeBudget, WorkBudget DEF Next
    <2>2. CASE UNCHANGED vars
      BY <2>2 DEF vars, requestVars, moneyVars, queueVars, replayVars, BudgetInv, BudgetAt,
         RoundAt, Marking, Listing
    <2> QED
      BY <2>1, <2>2
  <1> QED
    BY <1>1, <1>2, BudgetImplies, SettlementInvariant, PTL DEF Spec

====
