----------------------------- MODULE Settlement -----------------------------
(***************************************************************************)
(* The billing boundary of a synchronous request, and the queue that       *)
(* replays what it could not settle: internal/gateway/proxy/pipeline.go,   *)
(* pipeline_stream.go, buffered_settlement.go, images.go and               *)
(* internal/gateway/usage/unsettled.go.                                    *)
(*                                                                         *)
(* A request reserves, calls an upstream, prices what came back and then   *)
(* settles, or writes down that it could not.  Replayers are rounds of     *)
(* UnsettledWorker; nothing keeps two of them (of one replica or of        *)
(* several) from overlapping, and each works from the list it read first.  *)
(*                                                                         *)
(* Simplifications:                                                        *)
(*  - a request costs one unit; charged counts the debits made for it;     *)
(*  - the settler is one of two.  With Ledger it keeps reservations and    *)
(*    settles a request once, as unsettled.go expects of it; without, it   *)
(*    is the Recorder of internal/community/settle;                        *)
(*  - a failed statement, a commit whose answer is lost and a crash spend  *)
(*    one of MaxFaults faults each.                                        *)
(***************************************************************************)
EXTENDS Integers, FiniteSets

CONSTANTS
    Requests,               \* synchronous requests
    Replayers,              \* rounds of UnsettledWorker that may overlap
    Ledger,                 \* whether the settler keeps reservations
    unsettledMaxAttempts,   \* 8 in the code
    MaxFaults               \* bound on failed statements and crashes

ASSUME SettlementRequestsAssumption == IsFiniteSet(Requests) /\ "none" \notin Requests
ASSUME ReplayersAssumption == IsFiniteSet(Replayers)
ASSUME LedgerAssumption == Ledger \in BOOLEAN
ASSUME AttemptsAssumption == unsettledMaxAttempts \in Nat \ {0}
ASSUME SettlementFaultsAssumption == MaxFaults \in Nat

VARIABLES
    phase,          \* where a request is in Run or RunStream
    served,         \* whether its upstream produced the answer
    quote,          \* what pricing it came to
    hold,           \* its reservation, as the settler keeps it
    charged,        \* debits made for it
    paidRows,       \* rows of usage_logs written together with a settlement
    resolved, abandoned, queued, attempts,  \* its row of gateway_unsettled
    manual,         \* whether gateway_pricing_unsettled has a row for it
    batch, copy, current,   \* a replayer's list, the attempts read with it, its row
    replay,         \* a replayer's program counter
    faults

requestVars == <<phase, served, quote>>
moneyVars == <<hold, charged, paidRows>>
queueVars == <<resolved, abandoned, queued, attempts>>
replayVars == <<batch, copy, current, replay>>
vars == <<requestVars, moneyVars, queueVars, manual, replayVars, faults>>

Phases == {"new", "executing", "failing", "served", "settling", "recording",
           "protecting", "queueing", "done", "crashed"}
Running == Phases \ {"new", "done", "crashed"}
Quotes == {"none", "priced", "missing", "empty"}
Holds == {"none", "held", "protected", "expired", "voided", "settled"}

\* Every variable holds a value of its declared kind.
TypeOK ==
    /\ phase \in [Requests -> Phases]
    /\ served \in [Requests -> BOOLEAN]
    /\ quote \in [Requests -> Quotes]
    /\ hold \in [Requests -> Holds]
    /\ charged \in [Requests -> Nat]
    /\ paidRows \in [Requests -> Nat]
    /\ resolved \in [Requests -> BOOLEAN]
    /\ abandoned \in [Requests -> BOOLEAN]
    /\ queued \in [Requests -> BOOLEAN]
    /\ attempts \in [Requests -> Nat]
    /\ manual \in [Requests -> BOOLEAN]
    /\ batch \in [Replayers -> SUBSET Requests]
    /\ copy \in [Replayers -> [Requests -> Nat]]
    /\ current \in [Replayers -> Requests \cup {"none"}]
    /\ replay \in [Replayers -> {"idle", "next", "mark", "failed", "undecodable"}]
    /\ faults \in 0..MaxFaults

Init ==
    /\ phase = [r \in Requests |-> "new"]
    /\ served = [r \in Requests |-> FALSE]
    /\ quote = [r \in Requests |-> "none"]
    /\ hold = [r \in Requests |-> "none"]
    /\ charged = [r \in Requests |-> 0]
    /\ paidRows = [r \in Requests |-> 0]
    /\ resolved = [r \in Requests |-> FALSE]
    /\ abandoned = [r \in Requests |-> FALSE]
    /\ queued = [r \in Requests |-> FALSE]
    /\ attempts = [r \in Requests |-> 0]
    /\ manual = [r \in Requests |-> FALSE]
    /\ batch = [w \in Replayers |-> {}]
    /\ copy = [w \in Replayers |-> [r \in Requests |-> 0]]
    /\ current = [w \in Replayers |-> "none"]
    /\ replay = [w \in Replayers |-> "idle"]
    /\ faults = 0

Fault == faults < MaxFaults /\ faults' = faults + 1

-----------------------------------------------------------------------------
(* The settler *)

\* Mutant of SettleAndInsert: the usage row is left out.
SettleOnly(r) ==
    /\ hold' = [hold EXCEPT ![r] = IF Ledger THEN "settled" ELSE @]
    /\ charged' = [charged EXCEPT ![r] = IF Ledger /\ hold[r] = "settled" THEN @ ELSE @ + 1]
    /\ UNCHANGED paidRows

\* SettleTx and InsertUsageLog, committed together.  The ledger debits a
\* reservation that is held, protected or swept, and does nothing for one it
\* has settled; the Recorder adds to the key's spend whenever it is called.
\* A ledger would refuse a voided reservation: NoServiceNoCharge shows that
\* the gateway never asks.
SettleAndInsert(r) ==
    /\ hold' = [hold EXCEPT ![r] = IF Ledger THEN "settled" ELSE @]
    /\ charged' = [charged EXCEPT ![r] = IF Ledger /\ hold[r] = "settled" THEN @ ELSE @ + 1]
    /\ paidRows' = [paidRows EXCEPT ![r] = @ + 1]

\* The reservation's deadline passes and the ledger's sweeper takes it back.
ExpireHold(r) ==
    /\ hold[r] = "held"
    /\ hold' = [hold EXCEPT ![r] = "expired"]
    /\ UNCHANGED <<requestVars, charged, paidRows, queueVars, manual, replayVars, faults>>

-----------------------------------------------------------------------------
(* Request r: Run and RunStream. *)

\* ReserveFor: the reservation is made, or refused and the request with it.
ReserveFor(r) ==
    /\ phase[r] = "new"
    /\ \/ /\ phase' = [phase EXCEPT ![r] = "executing"]
          /\ hold' = [hold EXCEPT ![r] = IF Ledger THEN "held" ELSE @]
       \/ phase' = [phase EXCEPT ![r] = "done"] /\ UNCHANGED hold
    /\ UNCHANGED <<served, quote, charged, paidRows, queueVars, manual, replayVars, faults>>

\* The executor's verdict: an answer (or a first byte), or nothing at all.
Execute(r) ==
    /\ phase[r] = "executing"
    /\ \E ok \in BOOLEAN :
          /\ phase' = [phase EXCEPT ![r] = IF ok THEN "served" ELSE "failing"]
          /\ served' = [served EXCEPT ![r] = ok]
    /\ UNCHANGED <<quote, moneyVars, queueVars, manual, replayVars, faults>>

\* Mutant of RecordExecutionFailure: what failed is settled all the same.
FailureSettles(r) ==
    /\ phase[r] = "failing"
    /\ phase' = [phase EXCEPT ![r] = "settling"]
    /\ hold' = [hold EXCEPT ![r] = IF @ = "held" THEN "voided" ELSE @]
    /\ UNCHANGED <<served, quote, charged, paidRows, queueVars, manual, replayVars, faults>>

\* RecordExecutionFailure: VoidHold, whose failure is only logged, and the
\* failure row, which carries no charge.
RecordExecutionFailure(r) ==
    /\ phase[r] = "failing"
    /\ phase' = [phase EXCEPT ![r] = "done"]
    /\ \/ hold' = [hold EXCEPT ![r] = IF @ = "held" THEN "voided" ELSE @] /\ UNCHANGED faults
       \/ Fault /\ UNCHANGED hold
    /\ UNCHANGED <<served, quote, charged, paidRows, queueVars, manual, replayVars>>

\* Pricing what came back: an amount (computed, or the held one); a dimension
\* the locked price has no rate for; or no amount at all, for a unit-billed
\* request whose rate card has changed, which is recorded with an empty quote.
Price(r) ==
    /\ phase[r] = "served"
    /\ \E q \in {"priced", "missing", "empty"} :
          /\ quote' = [quote EXCEPT ![r] = q]
          /\ phase' = [phase EXCEPT ![r] = CASE q = "priced" -> "settling"
                                             [] q = "missing" -> "protecting"
                                             [] q = "empty" -> "recording"]
    /\ UNCHANGED <<served, moneyVars, queueVars, manual, replayVars, faults>>

\* SettleAndLog: the transaction commits; it does not; or it does and the
\* answer is lost.
SettleAndLog(r) ==
    /\ phase[r] = "settling"
    /\ \/ /\ SettleAndInsert(r)
          /\ phase' = [phase EXCEPT ![r] = "done"]
          /\ UNCHANGED faults
       \/ /\ Fault
          /\ phase' = [phase EXCEPT ![r] = "recording"]
          /\ SettleAndInsert(r) \/ UNCHANGED moneyVars
    /\ UNCHANGED <<served, quote, queueVars, manual, replayVars>>

\* EncodeUsageReplayPayload refuses a row without an fx_rate, and an empty
\* quote has none.
Encodable(r) == quote[r] # "empty"

\* Mutant of RecordUnsettled: written in the transaction that failed.
RecordInFailedTx(r) ==
    /\ phase[r] = "recording"
    /\ phase' = [phase EXCEPT ![r] = "done"]
    /\ UNCHANGED <<served, quote, moneyVars, queueVars, manual, replayVars, faults>>

\* RecordUnsettled, on the pool: a row, or one more attempt on the row there
\* is.  A payload that cannot be encoded, or a failed write, is only logged.
RecordUnsettled(r) ==
    /\ phase[r] = "recording"
    /\ phase' = [phase EXCEPT ![r] = "done"]
    /\ \/ /\ Encodable(r)
          /\ queued' = [queued EXCEPT ![r] = TRUE]
          /\ attempts' = [attempts EXCEPT ![r] = IF queued[r] THEN @ + 1 ELSE @]
          /\ UNCHANGED faults
       \/ ~Encodable(r) /\ UNCHANGED <<queued, attempts, faults>>
       \/ Fault /\ UNCHANGED <<queued, attempts>>
    /\ UNCHANGED <<served, quote, moneyVars, resolved, abandoned, manual, replayVars>>

\* Mutant of ProtectHold: the row is queued before the hold is protected.
QueueFirst(r) ==
    /\ phase[r] = "protecting"
    /\ manual' = [manual EXCEPT ![r] = TRUE]
    /\ phase' = [phase EXCEPT ![r] = "queueing"]
    /\ UNCHANGED <<served, quote, moneyVars, queueVars, replayVars, faults>>

\* RecordPricingMissing, first half: ProtectHold.  Nothing is queued for a
\* reservation that is gone, or that does not exist.
ProtectHold(r) ==
    /\ phase[r] = "protecting"
    /\ \/ /\ hold[r] \in {"held", "protected"}
          /\ hold' = [hold EXCEPT ![r] = "protected"]
          /\ phase' = [phase EXCEPT ![r] = "queueing"]
          /\ UNCHANGED faults
       \/ /\ hold[r] \notin {"held", "protected"}
          /\ phase' = [phase EXCEPT ![r] = "done"]
          /\ UNCHANGED <<hold, faults>>
       \/ Fault /\ phase' = [phase EXCEPT ![r] = "done"] /\ UNCHANGED hold
    /\ UNCHANGED <<served, quote, charged, paidRows, queueVars, manual, replayVars>>

\* Second half: the row of gateway_pricing_unsettled.
RecordUnsettledPricing(r) ==
    /\ phase[r] = "queueing"
    /\ phase' = [phase EXCEPT ![r] = "done"]
    /\ \/ manual' = [manual EXCEPT ![r] = TRUE] /\ UNCHANGED faults
       \/ Fault /\ UNCHANGED manual
    /\ UNCHANGED <<served, quote, moneyVars, queueVars, replayVars>>

\* The process serving the request dies.
Crash(r) ==
    /\ phase[r] \in Running /\ Fault
    /\ phase' = [phase EXCEPT ![r] = "crashed"]
    /\ UNCHANGED <<served, quote, moneyVars, queueVars, manual, replayVars>>

-----------------------------------------------------------------------------
(* A round of UnsettledWorker. *)

Pending(r) == queued[r] /\ ~resolved[r] /\ ~abandoned[r]

\* Mutant of ListUnsettledPending: only rows that were never retried.
ListFresh(w) ==
    /\ replay[w] = "idle"
    /\ \E r \in Requests : Pending(r) /\ attempts[r] = 0
    /\ batch' = [batch EXCEPT ![w] = {r \in Requests : Pending(r) /\ attempts[r] = 0}]
    /\ copy' = [copy EXCEPT ![w] = attempts]
    /\ replay' = [replay EXCEPT ![w] = "next"]
    /\ UNCHANGED <<requestVars, moneyVars, queueVars, manual, current, faults>>

\* ListUnsettledPending: the batch and each row's attempts, read once.
ListUnsettledPending(w) ==
    /\ replay[w] = "idle"
    /\ \E r \in Requests : Pending(r)
    /\ batch' = [batch EXCEPT ![w] = {r \in Requests : Pending(r)}]
    /\ copy' = [copy EXCEPT ![w] = attempts]
    /\ replay' = [replay EXCEPT ![w] = "next"]
    /\ UNCHANGED <<requestVars, moneyVars, queueVars, manual, current, faults>>

\* retry: the settlement of row r is replayed from the list, whatever has
\* happened to the row since.  A payload of another build does not decode.
Retry(w, r) ==
    /\ replay[w] = "next" /\ r \in batch[w]
    /\ batch' = [batch EXCEPT ![w] = @ \ {r}]
    /\ current' = [current EXCEPT ![w] = r]
    /\ \/ /\ SettleAndInsert(r)
          /\ replay' = [replay EXCEPT ![w] = "mark"]
          /\ UNCHANGED faults
       \/ /\ Fault
          /\ replay' = [replay EXCEPT ![w] = "failed"]
          /\ SettleAndInsert(r) \/ UNCHANGED moneyVars
       \/ /\ Fault
          /\ replay' = [replay EXCEPT ![w] = "undecodable"]
          /\ UNCHANGED moneyVars
    /\ UNCHANGED <<requestVars, queueVars, manual, copy>>

\* On to the next row of the batch; the round ends with the last.
NextRow(w) ==
    /\ current' = [current EXCEPT ![w] = "none"]
    /\ replay' = [replay EXCEPT ![w] = IF batch[w] = {} THEN "idle" ELSE "next"]
    /\ UNCHANGED <<batch, copy>>

\* MarkUnsettledResolved; its failure is only logged.
MarkUnsettledResolved(w, r) ==
    /\ replay[w] = "mark" /\ current[w] = r
    /\ NextRow(w)
    /\ \/ resolved' = [resolved EXCEPT ![r] = TRUE] /\ UNCHANGED faults
       \/ Fault /\ UNCHANGED resolved
    /\ UNCHANGED <<requestVars, moneyVars, abandoned, queued, attempts, manual>>

\* Whether this failure is the last: the list's attempts decide, not the row's.
OutOfAttempts(w, r) == copy[w][r] + 1 >= unsettledMaxAttempts

\* Mutant of BumpUnsettledAttempt: the attempts left are counted down.
CountDown(w, r) ==
    /\ replay[w] = "failed" /\ current[w] = r /\ ~OutOfAttempts(w, r)
    /\ NextRow(w)
    /\ attempts' = [attempts EXCEPT ![r] = @ - 1]
    /\ UNCHANGED <<requestVars, moneyVars, resolved, abandoned, queued, manual, faults>>

\* BumpUnsettledAttempt; its failure is only logged.
BumpUnsettledAttempt(w, r) ==
    /\ replay[w] = "failed" /\ current[w] = r /\ ~OutOfAttempts(w, r)
    /\ NextRow(w)
    /\ \/ attempts' = [attempts EXCEPT ![r] = @ + 1] /\ UNCHANGED faults
       \/ Fault /\ UNCHANGED attempts
    /\ UNCHANGED <<requestVars, moneyVars, resolved, abandoned, queued, manual>>

\* AbandonUnsettled and the alert to a human; its failure is only logged.
AbandonUnsettled(w, r) ==
    /\ current[w] = r
    /\ replay[w] = "undecodable" \/ (replay[w] = "failed" /\ OutOfAttempts(w, r))
    /\ NextRow(w)
    /\ \/ abandoned' = [abandoned EXCEPT ![r] = TRUE] /\ UNCHANGED faults
       \/ Fault /\ UNCHANGED abandoned
    /\ UNCHANGED <<requestVars, moneyVars, resolved, queued, attempts, manual>>

\* The round dies where it stands; its list is forgotten.
ReplayerDies(w) ==
    /\ replay[w] # "idle" /\ Fault
    /\ batch' = [batch EXCEPT ![w] = {}]
    /\ current' = [current EXCEPT ![w] = "none"]
    /\ replay' = [replay EXCEPT ![w] = "idle"]
    /\ UNCHANGED <<requestVars, moneyVars, queueVars, manual, copy>>

-----------------------------------------------------------------------------

Serve(r) ==
    \/ ReserveFor(r) \/ Execute(r) \/ RecordExecutionFailure(r) \/ Price(r)
    \/ SettleAndLog(r) \/ RecordUnsettled(r) \/ ProtectHold(r)
    \/ RecordUnsettledPricing(r) \/ Crash(r)

Work(w) ==
    \/ ListUnsettledPending(w) \/ ReplayerDies(w)
    \/ \E r \in Requests : \/ Retry(w, r) \/ MarkUnsettledResolved(w, r)
                           \/ BumpUnsettledAttempt(w, r) \/ AbandonUnsettled(w, r)

Next == \/ \E r \in Requests : Serve(r) \/ ExpireHold(r)
        \/ \E w \in Replayers : Work(w)

Spec == Init /\ [][Next]_vars

\* The job queue starts a round every UnsettledInterval and a round handles
\* its whole list; nothing is assumed of the requests.
FairSpec == Spec /\ \A w \in Replayers : WF_vars(Work(w))

-----------------------------------------------------------------------------
(* Properties *)

\* A single failure never loses a charge: once the handler of a request that
\* was served and priced returns, the request has been debited, waits in
\* gateway_unsettled or has been given to a human, unless two statements of
\* SettleAndLog, RecordUnsettled and the replay have failed.
ChargeSurvivesOneFault ==
    \A r \in Requests :
        phase[r] = "done" /\ quote[r] = "priced" /\ faults <= 1 =>
            charged[r] > 0 \/ Pending(r) \/ abandoned[r]

\* Nobody is debited for a request that produced nothing, and a reservation
\* that VoidHold released is never debited late by the replay.
NoServiceNoCharge ==
    \A r \in Requests :
        /\ charged[r] > 0 => served[r]
        /\ hold[r] = "voided" => charged[r] = 0 /\ ~queued[r]

\* A debit is never without its usage row: SettleTx and InsertUsageLog share a
\* transaction on the request path and in the replay.
DebitHasRow == \A r \in Requests : charged[r] <= paidRows[r]

\* A request waiting for a manual price still has its reservation: ProtectHold
\* comes before the row, so the sweeper cannot take the money in between.
ManualHoldStands == \A r \in Requests : manual[r] => hold[r] = "protected"

\* However often and however concurrently it is replayed, a request is debited
\* once.  unsettled.go: "settlement is idempotent per request_id (the
\* reservation is already settled), so nobody is charged twice."
ChargedOnce == \A r \in Requests : charged[r] <= 1

\* No entry stays pending: a round settles it, or uses up its attempts and
\* gives it to a human, also where rounds die or overlap.
EntryLeavesQueue == \A r \in Requests : Pending(r) ~> ~Pending(r)

\* A request's bill, as Charge sees it.
Bill == [r \in Requests |-> CASE charged[r] = 1 -> "paid"
                              [] charged[r] > 1 -> "paid twice"
                              [] charged[r] = 0 /\ served[r] -> "owed"
                              [] charged[r] = 0 /\ ~served[r] /\ hold[r] = "voided" -> "released"
                              [] OTHER -> "open"]

Billing == INSTANCE Charge WITH bill <- Bill

\* The gateway with a ledger implements Charge: through failed and repeated
\* settlements, lost commits and overlapping replays, a request's bill only
\* goes from open to owed to paid, or from open to released.
ImplementsCharge == Billing!Spec

====
