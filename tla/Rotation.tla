------------------------------ MODULE Rotation ------------------------------
(***************************************************************************)
(* Requests on their way through the data plane: the key's spend limit,    *)
(* the rotation over candidate routes with its cap on attempts, the global *)
(* retry budget, the per-provider concurrency semaphores, and the spend    *)
(* that is added when the request is settled, or later when its settlement *)
(* failed or it started a video job.  A worker serves one request after    *)
(* another; the workers interleave at every shared counter.                *)
(*                                                                         *)
(* Which routes the breaker lets through, and what an attempt comes to, is *)
(* any outcome here (modules Breaker and Stream); the declared minute      *)
(* allowance of a provider may refuse at any time.  The spend limit is a   *)
(* daily or monthly one, read from the database, within one of its         *)
(* periods; a total limit is read from the cached identity and not         *)
(* modelled.  A semaphore's identity is reused once nothing refers to it,  *)
(* as a collected object's is.                                             *)
(***************************************************************************)
EXTENDS Integers, FiniteSets

CONSTANTS Workers,       \* requests in flight at a time
          Routes,        \* candidate routes of the model
          Providers,
          ProviderOf,    \* the provider of each route
          Priority,      \* the priority number of each route
          Ids,           \* bound: identities of semaphores
          None,          \* no semaphore, no route
          Limits,        \* values max_concurrency is configured to
          MaxAttempts,   \* maxRouteAttempts
          MinSamples,    \* RetryBudget.minSamples
          RatioNum, RatioDen, \* RetryBudget.maxRatio
          SpendLimit,    \* the key's spend_limit_nano, daily or monthly
          Cost,          \* what one served request costs
          MaxRequests,   \* bound: requests the process serves
          MaxLate        \* bound: charges left for later, and late debits

ASSUME RotationConstants ==
    /\ IsFiniteSet(Workers) /\ Workers # {} /\ IsFiniteSet(Routes)
    /\ ProviderOf \in [Routes -> Providers]
    /\ Priority \in [Routes -> Nat]
    /\ None \notin Ids \cup Routes
    /\ Limits \subseteq Nat \ {0}
    /\ MaxAttempts \in Nat /\ MinSamples \in Nat /\ MaxRequests \in Nat
    /\ RatioNum \in Nat /\ RatioDen \in Nat \ {0}
    /\ SpendLimit \in Nat \ {0} /\ Cost \in Nat /\ MaxLate \in Nat

VARIABLES
    pc,        \* where each worker is
    left,      \* the candidates its loop has not come to
    cur,       \* the candidate it is on
    attempts,  \* upstream calls of its request
    lim,       \* max_concurrency as its request resolved it
    sem,       \* the semaphore it uses
    cap,       \* max_concurrency in the catalog
    current,   \* the semaphore registered for each provider
    size,      \* capacity of each semaphore
    used,      \* slots taken of each semaphore
    requests,  \* RetryBudget.requests
    retries,   \* RetryBudget.retries
    spent,     \* the key's recorded spend
    owed,      \* charges left for later: gateway_unsettled and running video jobs
    late       \* debits made for one of those

loopVars == <<left, cur, attempts, lim>>
semVars == <<current, size, used>>
spendVars == <<spent, owed, late>>
vars == <<pc, loopVars, sem, cap, semVars, requests, retries, spendVars>>

TypeOK ==
    /\ pc \in [Workers -> {"idle", "loop", "count", "load", "store", "try", "sent", "settle"}]
    /\ left \in [Workers -> SUBSET Routes]
    /\ cur \in [Workers -> Routes \cup {None}]
    /\ attempts \in [Workers -> 0 .. MaxAttempts]
    /\ lim \in [Workers -> Limits \cup {0}]
    /\ sem \in [Workers -> Ids \cup {None}]
    /\ cap \in Limits
    /\ current \in [Providers -> Ids \cup {None}]
    /\ size \in [Ids -> Limits]
    /\ used \in [Ids -> Nat]
    /\ requests \in 0 .. MaxRequests
    /\ retries \in Nat
    /\ spent \in Nat
    /\ owed \in 0 .. MaxLate /\ late \in 0 .. MaxLate

Init ==
    /\ pc = [w \in Workers |-> "idle"]
    /\ left = [w \in Workers |-> {}]
    /\ cur = [w \in Workers |-> None]
    /\ attempts = [w \in Workers |-> 0]
    /\ cap \in Limits
    /\ lim = [w \in Workers |-> 0]
    /\ sem = [w \in Workers |-> None]
    /\ current = [p \in Providers |-> None]
    /\ size = [i \in Ids |-> cap]
    /\ used = [i \in Ids |-> 0]
    /\ requests = 0 /\ retries = 0
    /\ spent = 0 /\ owed = 0 /\ late = 0

-----------------------------------------------------------------------------
(* Admission and the loop of rotate                                        *)

\* The rotation is over: nothing of its loop is kept.
Leave(w, next) ==
    /\ pc' = [pc EXCEPT ![w] = next]
    /\ left' = [left EXCEPT ![w] = {}]
    /\ cur' = [cur EXCEPT ![w] = None]
    /\ attempts' = [attempts EXCEPT ![w] = 0]
    /\ lim' = [lim EXCEPT ![w] = 0]

\* Mutant of Admit: a key exactly at its limit still passes the gate.
AdmitAtLimit(w) ==
    /\ pc[w] = "idle" /\ requests < MaxRequests
    /\ spent <= SpendLimit
    /\ requests' = requests + 1
    /\ \E open \in SUBSET Routes : left' = [left EXCEPT ![w] = open]
    /\ lim' = [lim EXCEPT ![w] = cap]
    /\ pc' = [pc EXCEPT ![w] = "loop"]
    /\ UNCHANGED <<cur, attempts, sem, cap, semVars, retries, spendVars>>

\* The gates: routes are resolved with the limit of that moment, a key that has
\* reached its limit is refused.  rotate counts the request and keeps the
\* candidates whose circuit is closed, of which there may be none.
Admit(w) ==
    /\ pc[w] = "idle" /\ requests < MaxRequests
    /\ spent < SpendLimit
    /\ requests' = requests + 1
    /\ \E open \in SUBSET Routes : left' = [left EXCEPT ![w] = open]
    /\ lim' = [lim EXCEPT ![w] = cap]
    /\ pc' = [pc EXCEPT ![w] = "loop"]
    /\ UNCHANGED <<cur, attempts, sem, cap, semVars, retries, spendVars>>

\* Order: within a priority any candidate may come next, and a higher number
\* only after every lower one.
First(S) == {r \in S : \A q \in S : Priority[r] <= Priority[q]}

\* The next candidate: the minute allowance may skip it, at no attempt.
Take(w) ==
    /\ \E r \in First(left[w]) :
          /\ left' = [left EXCEPT ![w] = @ \ {r}]
          /\ \/ /\ cur' = [cur EXCEPT ![w] = r]
                /\ pc' = [pc EXCEPT ![w] = "load"]
             \/ /\ pc' = [pc EXCEPT ![w] = "loop"]
                /\ UNCHANGED cur
    /\ UNCHANGED <<attempts, lim, sem, cap, semVars, requests, spendVars>>

\* Mutant of RetryRefused: the retry asking is not counted.
RetryRefusedLate == retries * RatioDen > requests * RatioNum

\* AllowRetry's two loads and its comparison
RetryRefused == (retries + 1) * RatioDen > requests * RatioNum

\* Mutant of GiveUp: a rotation whose candidates were all skipped is not ended.
GiveUpUnlessSkipped(w) ==
    /\ pc[w] = "loop"
    /\ \/ left[w] = {} /\ attempts[w] > 0
       \/ attempts[w] >= MaxAttempts
       \/ attempts[w] > 0 /\ requests >= MinSamples /\ RetryRefused
    /\ Leave(w, "idle")
    /\ UNCHANGED <<sem, cap, semVars, requests, retries, spendVars>>

\* The candidates are used up, or the attempts are, or the retry budget is.
GiveUp(w) ==
    /\ pc[w] = "loop"
    /\ \/ left[w] = {} \/ attempts[w] >= MaxAttempts
       \/ attempts[w] > 0 /\ requests >= MinSamples /\ RetryRefused
    /\ Leave(w, "idle")
    /\ UNCHANGED <<sem, cap, semVars, requests, retries, spendVars>>

\* Mutant of TakeFreely: the cap on attempts is checked only with the budget.
TakeUncapped(w) ==
    /\ pc[w] = "loop"
    /\ attempts[w] = 0 \/ requests < MinSamples
    /\ Take(w)
    /\ UNCHANGED retries

\* A first attempt, or a retry while too few requests were seen to measure.
TakeFreely(w) ==
    /\ pc[w] = "loop" /\ attempts[w] < MaxAttempts
    /\ attempts[w] = 0 \/ requests < MinSamples
    /\ Take(w)
    /\ UNCHANGED retries

AllowRetry(w) ==
    /\ pc[w] = "loop" /\ left[w] # {} /\ attempts[w] < MaxAttempts
    /\ attempts[w] > 0 /\ requests >= MinSamples /\ ~RetryRefused
    /\ pc' = [pc EXCEPT ![w] = "count"]
    /\ UNCHANGED <<loopVars, sem, cap, semVars, requests, retries, spendVars>>

\* retries.Add(1), and on to the candidate
CountRetry(w) ==
    /\ pc[w] = "count"
    /\ retries' = retries + 1
    /\ Take(w)

-----------------------------------------------------------------------------
(* Backpressure                                                            *)

\* semaphoreFor: the registered semaphore if it has the capacity asked for
LoadSemaphore(w) ==
    /\ pc[w] = "load"
    /\ LET i == current[ProviderOf[cur[w]]]
       IN  IF i # None /\ size[i] = lim[w]
             THEN /\ sem' = [sem EXCEPT ![w] = i]
                  /\ pc' = [pc EXCEPT ![w] = "try"]
             ELSE /\ pc' = [pc EXCEPT ![w] = "store"]
                  /\ UNCHANGED sem
    /\ UNCHANGED <<loopVars, cap, semVars, requests, retries, spendVars>>

Live == {current[p] : p \in Providers} \cup {sem[w] : w \in Workers}

\* Otherwise a new one, which replaces whatever is registered by now
StoreSemaphore(w) ==
    /\ pc[w] = "store"
    /\ Ids \ Live # {}
    /\ LET i == CHOOSE i \in Ids \ Live : TRUE
       IN  /\ size' = [size EXCEPT ![i] = lim[w]]
           /\ used' = [used EXCEPT ![i] = 0]
           /\ current' = [current EXCEPT ![ProviderOf[cur[w]]] = i]
           /\ sem' = [sem EXCEPT ![w] = i]
    /\ pc' = [pc EXCEPT ![w] = "try"]
    /\ UNCHANGED <<loopVars, cap, requests, retries, spendVars>>

\* Mutant of TryAcquire: a busy candidate goes back into the loop.
AcquireOrRequeue(w) ==
    /\ pc[w] = "try"
    /\ IF used[sem[w]] < size[sem[w]]
         THEN /\ used' = [used EXCEPT ![sem[w]] = @ + 1]
              /\ attempts' = [attempts EXCEPT ![w] = @ + 1]
              /\ pc' = [pc EXCEPT ![w] = "sent"]
              /\ UNCHANGED <<sem, cur, left>>
         ELSE /\ pc' = [pc EXCEPT ![w] = "loop"]
              /\ sem' = [sem EXCEPT ![w] = None]
              /\ cur' = [cur EXCEPT ![w] = None]
              /\ left' = [left EXCEPT ![w] = @ \cup {cur[w]}]
              /\ UNCHANGED <<used, attempts>>
    /\ UNCHANGED <<lim, cap, current, size, requests, retries, spendVars>>

\* TryAcquire: a full semaphore skips the candidate
TryAcquire(w) ==
    /\ pc[w] = "try"
    /\ IF used[sem[w]] < size[sem[w]]
         THEN /\ used' = [used EXCEPT ![sem[w]] = @ + 1]
              /\ attempts' = [attempts EXCEPT ![w] = @ + 1]
              /\ pc' = [pc EXCEPT ![w] = "sent"]
              /\ UNCHANGED <<sem, cur>>
         ELSE /\ pc' = [pc EXCEPT ![w] = "loop"]
              /\ sem' = [sem EXCEPT ![w] = None]
              /\ cur' = [cur EXCEPT ![w] = None]
              /\ UNCHANGED <<used, attempts>>
    /\ UNCHANGED <<left, lim, cap, current, size, requests, retries, spendVars>>

\* Mutant of Return: the slot goes to the semaphore registered by then.
ReturnToCurrent(w) ==
    /\ pc[w] = "sent"
    /\ used' = [used EXCEPT ![current[ProviderOf[cur[w]]]] = IF @ = 0 THEN 0 ELSE @ - 1]
    /\ sem' = [sem EXCEPT ![w] = None]
    /\ \/ Leave(w, "settle")
       \/ Leave(w, "idle")
       \/ /\ pc' = [pc EXCEPT ![w] = "loop"]
          /\ cur' = [cur EXCEPT ![w] = None]
          /\ UNCHANGED <<left, attempts, lim>>
    /\ UNCHANGED <<cap, current, size, requests, retries, spendVars>>

\* The attempt returns and its slot goes back to the semaphore it was taken
\* from.  It served the request, which is then settled, or it failed and the
\* request goes on to another candidate or is over.
Return(w) ==
    /\ pc[w] = "sent"
    /\ used' = [used EXCEPT ![sem[w]] = IF @ = 0 THEN 0 ELSE @ - 1]
    /\ sem' = [sem EXCEPT ![w] = None]
    /\ \/ Leave(w, "settle")
       \/ Leave(w, "idle")
       \/ /\ pc' = [pc EXCEPT ![w] = "loop"]
          /\ cur' = [cur EXCEPT ![w] = None]
          /\ UNCHANGED <<left, attempts, lim>>
    /\ UNCHANGED <<cap, current, size, requests, retries, spendVars>>

\* A charge is left for later, as far as the bound lets it.
LeaveOwed == owed < MaxLate /\ owed' = owed + 1

\* SettleAndLog: the settler adds the spend to the key
Settle(w) ==
    /\ pc[w] = "settle"
    /\ spent' = spent + Cost
    /\ pc' = [pc EXCEPT ![w] = "idle"]
    /\ UNCHANGED <<loopVars, sem, cap, semVars, requests, retries, owed, late>>

\* SettleAndLog reports an error, which a lost answer to its commit is too.
\* RecordUnsettled leaves the charge to the replay; that write may fail as well.
SettleFails(w) ==
    /\ pc[w] = "settle"
    /\ spent' \in {spent, spent + Cost}
    /\ LeaveOwed \/ UNCHANGED owed
    /\ pc' = [pc EXCEPT ![w] = "idle"]
    /\ UNCHANGED <<loopVars, sem, cap, semVars, requests, retries, late>>

\* A video submit passes the same gate; its job is charged when the film is done.
AdmitVideo ==
    /\ spent < SpendLimit
    /\ LeaveOwed
    /\ UNCHANGED <<pc, loopVars, sem, cap, semVars, requests, retries, spent, late>>

\* UnsettledWorker.retry or terminateVideoJob debits a charge left for later.  An
\* entry whose commit or mark was lost stays, and is debited again.
LateDebit ==
    /\ owed > 0 /\ late < MaxLate
    /\ spent' = spent + Cost
    /\ late' = late + 1
    /\ owed' \in {owed - 1, owed}
    /\ UNCHANGED <<pc, loopVars, sem, cap, semVars, requests, retries>>

\* The job failed, or the entry was abandoned: its charge is not made.
DropOwed ==
    /\ owed > 0
    /\ owed' = owed - 1
    /\ UNCHANGED <<pc, loopVars, sem, cap, semVars, requests, retries, spent, late>>

\* An operator changes max_concurrency.
Reconfigure ==
    /\ \E n \in Limits \ {cap} : cap' = n
    /\ UNCHANGED <<pc, loopVars, sem, semVars, requests, retries, spendVars>>

-----------------------------------------------------------------------------
Step(w) ==
    \/ GiveUp(w) \/ TakeFreely(w) \/ AllowRetry(w) \/ CountRetry(w)
    \/ LoadSemaphore(w) \/ StoreSemaphore(w) \/ TryAcquire(w)
    \/ Return(w) \/ Settle(w) \/ SettleFails(w)

\* What happens to charges outside of requests
Later == AdmitVideo \/ LateDebit \/ DropOwed

Next ==
    \/ \E w \in Workers : Admit(w) \/ Step(w)
    \/ Later
    \/ Reconfigure

Spec == Init /\ [][Next]_vars

-----------------------------------------------------------------------------
(* Properties                                                              *)

\* Requests that hold a slot of semaphore i
Holding(i) == {w \in Workers : pc[w] = "sent" /\ sem[w] = i}

\* A slot is neither leaked nor given back twice, although the limit may change
\* and the semaphore be replaced while requests hold slots of the old one.
SlotsConserved ==
    \A i \in Ids : i \in Live => used[i] = Cardinality(Holding(i)) /\ used[i] <= size[i]

\* Retries stay within their share of the requests, exceeded by no more than the
\* other requests that may have passed the check before one of them counted.
RetryBudgetHolds ==
    retries * RatioDen <= requests * RatioNum + (Cardinality(Workers) - 1) * RatioDen

\* The limit is checked before a request and its cost added after it, or later
\* still by the replay of a failed settlement or at the end of a video job: the
\* spend passes the limit by less than the requests that were in flight and the
\* debits that came late could cost.
OvershootBounded ==
    spent <= SpendLimit - 1 + (Cardinality(Workers) + late) * Cost

\* How many steps a request has ahead of it at most: six for every candidate its
\* loop has not come to, and what the present one may still take.
Ahead == [idle |-> 0, settle |-> 1, count |-> 1, loop |-> 2, sent |-> 3, try |-> 4,
          store |-> 5, load |-> 6]
Remaining(w) == 6 * Cardinality(left[w]) + Ahead[pc[w]]
Request(w) == <<pc[w], left[w], cur[w], attempts[w], lim[w], sem[w]>>

\* A request gets nearer to its end with every step it takes, and no step of
\* another request or of the operator moves it: rotate goes round no candidate
\* twice, however often one is skipped, busy or refused by the retry budget.
RotationAdvances ==
    [][\A w \in Workers : pc[w] # "idle" =>
          Request(w)' = Request(w) \/ Remaining(w)' < Remaining(w)]_vars

\* A busy provider, an exhausted budget and a replaced semaphore refuse or skip,
\* they never make a request wait: an admitted request always has a step of its
\* own to take.  With RotationAdvances, every admitted request comes to its end.
NeverWaits == \A w \in Workers : pc[w] # "idle" => ENABLED Step(w)

=============================================================================
