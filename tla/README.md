# A verification of the fairlb gateway

fairlb is an LLM gateway: it takes requests of customers' API keys, routes each
to an upstream provider, meters what came back and charges for it. This
directory holds TLA+ models of the parts of it where several processes, a
database and unreliable upstreams meet, the TLC runs that check them on small
instances, and TLAPS proofs of what matters most for all instances. Paths are
relative to `src/`.

## 1. Inventory

| Component | State it keeps | Operations | Hard behaviour |
| --- | --- | --- | --- |
| **Asynchronous video plane** (`internal/gateway/proxy/video_*.go`, `internal/gateway/queries/videojobs.sql`) | rows of `gateway_async_jobs` (status, settlement, upstream id, deadlines, artifact key), the stored clip | submit with rotation over routes, claim and poll, three sweeps (unsubmitted, stale, retention), cancel, delete, custody of the artifact | pollers of several replicas, sweeps and API handlers act on copies of a row read before an upstream call; crashes between row and call; lost upstream answers |
| **Billing boundary of a synchronous request** (`proxy/pipeline.go`, `pipeline_stream.go`, `buffered_settlement.go`, `images.go`) | the request's phase, its reservation, its price | reserve, execute, price, settle and log, or record what could not be settled | each statement may fail, a commit may be lost, the process may die |
| **Unsettled replay queue** (`internal/gateway/usage/unsettled.go`) | rows of `gateway_unsettled` | list, replay, resolve, bump, abandon | rounds overlap, work from a stale list and die |
| **Settlers** (`internal/community/settle`, interface in `internal/gateway/settle`) | spend of a key; reservations in a ledger | Hold, SettleTx, Void, ProtectHold | the community Recorder has no memory of a request; a ledger does |
| **Idempotency-Key middleware** (`foundation/httpx/idempotency*.go`) | one row of `idempotency_keys` per scope and key | claim, read, take over, complete, vacate, reap | an attempt that is only slow is taken over and both run |
| **Streaming pass-through** (`proxy/stream.go`, `pipeline_stream.go`) | the attempt's context and its cause, the first-byte timer, the reader goroutine and its channel, what was written | rotate, dispatch, pump, finish | reader, timer, rotation and a client that leaves race for one attempt; what was delivered decides what is charged |
| **Circuit breaker** (`proxy/breaker.go`) | per-credential and per-provider entries in a store, cooldown rows | record success or failure, open, reset, restore | get-then-set without a lock; write-behind persistence; restarts |
| **Rotation and failover** (`proxy/rotation.go`, `router.go`, `pipeline.go`) | attempt and retry budgets; per-provider semaphores | the candidate loop | counters checked and raised in two steps; a limit that changes under load |
| **Spend guard** (`proxy/guard.go`) | the key's recorded spend | check before, add when settled | check-then-act over concurrent requests |
| Rate guards, authentication and its key cache (`proxy/guard.go`, `auth.go`) | buckets; cached identities | allow; look up, invalidate | a snapshot cached after its key was revoked |
| Catalog, pricing and quotes | price tables | quote, cost | arithmetic; a rate card that changes in flight |
| Keys and organizations, rollups and reconciliation, vendor mappers, probes, management APIs, web console | rows | CRUD, aggregation, shaping | little protocol of their own |

How they interact. A synchronous request goes through guards and rotation,
consults the breaker for each candidate, and ends at the billing boundary; what
that cannot settle it hands to the replay queue, which calls the settler again.
A video job has a billing boundary of its own (the `settlement_state` column)
and uses the same settler and, for a reservation that was lost under it, the
same replay queue. Management calls run under the Idempotency middleware. All
of them share state only through the database; nothing is locked across an
upstream call.

What makes each of them correct:

- *video plane*: money moves once per job, only for a finished clip, on every
  end, and is never revised; a row is not dropped while it owes; every job ends;
  one key buys one clip.
- *billing boundary and queue*: one failure never loses a charge; nobody pays
  for nothing or twice; a debit has its usage row; a manual price finds its
  reservation standing; the queue drains.
- *idempotency*: a replay is the response to the same request; the first stored
  response stays; stored work is not done again.
- *streams*: a client hears one upstream; what was delivered is charged and
  nothing else is; a stream recorded as complete is; nothing is left running.
- *breaker*: one blip opens nothing, no scope is kept out for ever, and a
  restart neither revives a failing provider nor bans a recovered one.
- *rotation, spend guard*: slots are conserved while limits change; retries and
  spend pass their budgets by a known amount only; every request ends.

`PROJECT.json` lists every component, and under `hazards` the places in the code
where these can go wrong in ways tests hardly reach.

## 2. Plan

Done:

1. `VideoJobs`, its runs, and the proofs of all its safety properties.
2. `Settlement` with the replay queue, and the proof that it implements the
   abstract `Charge`.
3. `Idempotency` and its proofs.
4. `Stream`, `Breaker`, `Rotation` with the spend guard, and the proofs of all
   their safety properties.
5. How far things go wrong when they do: bounds on the jobs whose books are off
   and on a request's overcharges, the rank that ends a rotation, what an
   attempt leaves behind, what lets a cooling provider back in.

Next, in this order:

6. `Auth`: lookups that load a key's identity, a revocation and its
   invalidation, and the entry that an earlier lookup stores afterwards
   (`auth.go:159`). Worth stating: the comment "Revocation cuts through
   immediately via the invalidation callback; the TTL only bounds how stale a
   snapshot can get if that callback is lost", and how far a total spend limit
   overshoots when it is read from that snapshot.
7. Pricing as operators, checked against a reference definition.

## 3. Modules and the code

`PROJECT.json`'s `map` gives, for each definition, the lines it stands for.

### VideoJobs

Requests are submits that carry one Idempotency-Key; a request names the row it
creates. Each column that takes part in the protocol is a function of requests:
`status`, `settlement`, `upstreamID`, `notFound`, `due` (next_poll_at reached),
`artifactKey`, `passed` (the deadlines behind the row). `charged`, `usageRows`
and `unsettled` are what the settler, usage_logs and gateway_unsettled hold;
`film` is the upstream's own view. `step` is a submit's program counter,
`work` a worker's program counter together with its copy of the row.

| Actions | Code |
| --- | --- |
| AdmitSubmit, SkipCandidate, CreateVideoJobRow, CallVideoUpstream, RefuseSubmit, MarkVideoJobSubmitted, SubmitUnrecorded, SubmitCrash | `admitAndSubmitVideo`, `submitVideoJob`, `submitToRoute`, `createVideoJobRow`, `callVideoUpstream`, `failVideoJob` |
| ClaimDueVideoJob, Poll..., KeepVideoHoldAlive, MarkVideoJobProgress | `VideoScanWorker.Work`, `pollVideoJob`, `keepVideoHoldAlive` |
| TerminateVideoJob, TerminateRollsBack, FailVideoJob | `terminateVideoJob`, `failVideoJob` |
| SweepUnsubmitted, SweepStale, SweepExpired, UnlinkArtifact, RetireVideoJob | `VideoSweepWorker.Work` |
| CaptureVideoArtifact, RecordVideoJobArtifact | `captureVideoArtifact` |
| CancelVideoJob, DeleteVideoJob | `VideoJobs.Cancel`, `VideoJobs.Delete` |
| PollFallsDue, DeadlinePasses, FilmEnds | time and the upstream |

A worker reads, calls, writes; each statement or transaction is one step, and
what it decides from is its copy wherever the code decides from the copy, and
the row wherever a WHERE clause does. A price is one unit. Hold and Void do
nothing (as in the community settler); ProtectHold's answer is a parameter.

The submit and everything that handles its row are concurrent. `GET /v1/videos`
and the answer to a repeated key hand out the id of a row as soon as it is
inserted, so Delete may come while the submit is in its upstream call, and so
may the unsubmitted sweep and, for a short `max_job_seconds`, the stale one; only
the end of the hold (thirty minutes) and of the retention (an hour or more) lie
past the call's two-minute timeout (DeadlinePasses). A submit whose row is
deleted before it rotates inserts a new one; a row has the name of a request in
the model, so it goes on under the name of an unsent one (`RowNames`, step
"moved").

### Settlement and Charge

`phase` is where a request is in `Run` or `RunStream`; `quote` is what pricing
came to; `hold`, `charged`, `paidRows` are the settler's and usage_logs' side;
`resolved`, `abandoned`, `queued`, `attempts` are the row of gateway_unsettled,
`manual` the one of gateway_pricing_unsettled. A replayer is one round of
`UnsettledWorker`, with the list it read (`batch`, `copy`) and the row it is at.
`Ledger` chooses the settler: the Recorder of this repository, or a ledger as
the settler interface and unsettled.go describe one (external).

`Charge` is the promise: a request's bill goes from open to owed to paid, or
from open to released, and nothing else. `ImplementsCharge` shows Settlement to
implement it under the mapping `Bill`.

### Idempotency

One row, any number of callers with request fingerprints, each statement of
`idempotencyStore` a step. The row's two clocks are the marks `stale`
(inFlightTimeout since the last write) and `expired`. `owner` and `answer` are
history variables for the properties.

### Stream

One streamed request. `pc` is where its goroutine is, in the rotation or in an
attempt (`hop`); each attempt has a context with a `cause`, a first-byte `timer`,
a `reader` goroutine with its channel (`queued`, and `taken` of the upstream) and
the frames `written`, and the breaker's `verdict` on it. `ended` is what Pump
returned, `hold` what became of the reservation.

| Actions | Code |
| --- | --- |
| StopRotation, NotSent, Dispatch, Refused, TransportError, Headers | `rotate` and the attempt function of `RunStream` up to the response header |
| PumpCanceled, PumpChunk, PumpWriteFails, PumpClosed, PumpTimeout | the select of `Pump`, one case each |
| ReadFrame, Send, SendAborted, ReadEnds | the reader goroutine `Pump` starts |
| Finish | the switch on Pump's result, settlement or release |
| BudgetRunsOut, TimerFires, HangUp | time, the `AfterFunc`, the client |

A select whose cases are ready together takes any of them, as Go's does. Frames
are counted, not looked into.

### Breaker

A `store` entry per provider and per credential, a cooldown row for each, and
workers that are on a hop. A report is three steps: read the entry
(ReadCircuit), write what was decided on it (Reset, RecordKeyFailure,
RecordProviderFailure), persist or delete the row (PersistRow, which may fail).
A success reports on two scopes, one after the other. Times are what is left of
them, so Tick moves all of them down, and Restart is the loss of the store
followed by RestoreCooldowns. `reports` and `apart` are history variables. The
random jitter, and errors of the store's driver, are left out.

### Rotation

Workers serve one request after another. Admit is the spend gate, the resolved
limit and the count of `RetryBudget`; GiveUp, TakeFreely, AllowRetry and
CountRetry are an iteration of `rotate`'s loop, with AllowRetry's loads and its
add two steps; LoadSemaphore, StoreSemaphore and TryAcquire are `semaphoreFor`
and the acquisition; Return is the end of the attempt and the release, a plain
call after it (`rotation.go:177`). Reconfigure is an operator. What the breaker
admits and what an attempt comes to is any outcome: `Breaker` and `Stream` go
into those.

The spend is that of one day or month. Settle is SettleAndLog with the settler's
AddSpend. SettleFails is its error path: the spend may have been added (a lost
answer) or not, and the charge is left in gateway_unsettled (`owed`) or, if that
write fails too, lost. AdmitVideo is a video submit, which passes the same gate
and owes its charge until the film is done. LateDebit is the replay of an entry
or the end of a video job, after its request ended and whatever the limit is by
then; an entry whose mark was lost stays and is debited again. DropOwed is a job
that failed or an entry that was abandoned.

## 4. Runs

| Run | Checks | Bounds |
| --- | --- | --- |
| `video_safety` | TypeOK, TerminalMoneyMoved, NoFilmNoCharge, SettlementTruthful, OneDebit, OwingRowKept, MoneyFinal, BooksOffCostFaults | 1 submit over 2 routes, 2 workers, 1 fault; 1,548,283 states |
| `video_key` | OneFilmPerKey | 2 submits of one key over 2 routes, 1 worker, no row reaches the end of its hold or retention (`YoungRows`); 2,599,191 states |
| `video_liveness` | EveryJobEnds, under fairness | 1 submit, 1 worker, 1 fault; 65,855 states |
| `settlement` | TypeOK, ChargeSurvivesOneFault, NoServiceNoCharge, DebitHasRow, ManualHoldStands, EntryLeavesQueue, ImplementsCharge | 2 requests, 2 overlapping rounds, 3 faults, a ledger, 2 attempts; 70,380 states |
| `idempotency` | TypeOK, ReplayIsOwnRequest, FirstResponseStays, CompletedNeverReruns | 4 callers, 2 fingerprints, 1 fault; 19,905 states |
| `stream` | TypeOK, OneUpstreamSpeaks, DeliveredIsCharged, CleanEndIsWhole, NothingLeftBehind, HealedByDelivery, and EveryStreamEnds under fairness | 3 attempts, 3 frames each, a channel of 2; 99,550 states |
| `breaker` | TypeOK, NoOpenOnABlip, RowMirrorsCircuit, OnlySuccessLetsBackIn, and CooldownsEnd under fairness | 2 workers, 1 provider with 1 credential, threshold 2, a ladder of 2 rungs; 339,467 states |
| `rotation` | TypeOK, SlotsConserved, RetryBudgetHolds, OvershootBounded, NeverWaits, RotationAdvances | 2 workers, 3 routes of one provider, 2 attempts, 2 limits, 3 requests, 2 late debits; 3,216,024 states up to symmetry of the workers |

Why the bounds are enough. Jobs meet only through the unique index on the key,
so one job suffices for the money properties and two for the key. A race for a
row needs two holders of copies; a third would find what the second left, and
the theorems of section 6 hold for any number. Two routes are the least that
rotate. One fault puts a failure, a lost commit or a crash at every place; three
in `settlement` let the request path, its fallback and the replay all fail. Two
attempts reach both the bump and the abandonment (the code has eight). Four
callers allow an attempt, the one that takes it over, a third after a vacation
and a reader of the result. A channel of two and three frames let the reader fill it, wait, and be
aborted; three attempts, as many as the code makes, let the first byte be late
on one and the next go on. Two workers are the least whose reports overlap; with
a threshold of two one failure is counted and the next opens, and the second
rung is also the last. Three routes are one more than the attempts, so the cap
is what ends some rotations; two samples let the third request's retry be
measured and the first one's go free; the two workers are both past the gate
when the limit of one is reached; three semaphores are enough for each worker to
hold an old one while a third is registered. Two late debits are the least of
which one passes the limit that an earlier one has reached. In `video_key` the
late deadlines are left out by a constraint: what they add for the key is the
drop of a row, which Delete does there as well, and `KeyBuysOneFilm` holds with
them.

Bounds in the guards: faults (`MaxFaults`), and requests (`MaxRequests`) and
charges left for later (`MaxLate`) of Rotation. `Longest` of Breaker bounds what an upstream may ask for. Counts are
cut off where the code no longer tells them apart (`Threshold`, `Rungs`).

CHECK_DEADLOCK is off except in `breaker`, where time always passes: requests,
jobs and rounds are finitely many and the system may come to rest.

The other runs state what a comment or a design document says, and TLC shows
the code to do otherwise:

| Run | What the code does |
| --- | --- |
| `video_one_charge` | An entry of the unsettled queue outlives the rollback of the transaction it was written for; a poller with an older copy then debits directly, and the job is charged twice (OneCharge). |
| `video_rotation` | A submit's second candidate collides with the row its first, refused one left under the same key, and the caller gets that failed job (ExistingIsAnothers). |
| `settlement_replay` | With the community Recorder, a replay after a lost answer counts the spend twice (ChargedOnce). |
| `stream_timer` | The first-byte timer is stopped only when Pump has returned, so every stream that outlives the first-byte budget, however healthy, is cancelled by the gateway in the middle and recorded as cancelled by a client that is still there (CanceledMeansHungUp). |

Four disagreements are found beside properties that hold:

- a video job is never completed with its money held, because status and
  settlement are written in one transaction (TerminalMoneyMoved); the schema and
  `docs/design/video-jobs.md` list completed/held among "states that really
  happen";
- Delete may drop a running job: a row the sweep failed and voided is brought
  back by its submit between Delete's read and its statement. OwingRowKept says
  what is left of the rule, namely that such a row's hold was voided before;
- a candidate that is skipped has taken a unit of the retry budget, since
  AllowRetry counts before the filters; the comment at `rotation.go:140-144` says
  it must not. RetryBudgetHolds bounds the counter as it is;
- `semaphoreFor` loads and then stores, so concurrent first users, or repeated
  changes of the limit, leave more than two semaphores with requests in flight;
  the comment at `pipeline.go:224-229` has "the old cap plus the new one" as the
  most. Only each semaphore is bounded (SlotsConserved): with three workers and
  a limit of one, TLC has three requests in flight.

Five more behaviours are visible in the models and in the code, without a run of
their own: failVideoJob writes no usage row for a job it ends; a unit-billed
request whose price moved in flight reaches neither repair queue; an attempt of
an idempotent call that was taken over and then fails deletes its successor's
row; a streamed attempt keeps its concurrency slot until the stream ends
(`rotation.go:176`), where the comment speaks of the first byte; and a hang-up
that Pump notices by the failed read instead of the done context (a select with
both ready takes either) is told to the breaker as the provider's failure and,
before the first byte, rotates, where `docs/design/failover-and-cooldowns.md:32`
says "Nothing counted".

## 5. Fairness

Safety runs assume none. `video_liveness`: a submit and a worker that has a row
go on unless a fault strikes (they are goroutines with timeouts on every call);
time passes; and the stale sweep is strongly fair for each job, because the job
queue runs it every `videoSweepInterval`, whatever else the workers are doing.
Nothing is assumed of the poller, the upstream, cancel or delete, so the
property shows that the sweep alone ends every job. `settlement`: rounds are
weakly fair, since the job queue starts one every `UnsettledInterval` and a
round handles its whole list; nothing is assumed of the requests.

`stream`: the request's goroutine runs, time passes and armed timers fire; a
reader that waits to send runs when it can, and one that is blocked in a read is
only sure to return once its attempt is over and the body closed. Headers and
frames need not arrive and the client need not leave. `breaker`: only Tick.
Reports may stop or go on failing, and still every scope is available again and
again. `rotation` assumes none: NeverWaits says that an admitted request always
has a step of its own and RotationAdvances that each brings it nearer to its
end, so it ends if its goroutine runs and its upstream calls return.

## 6. Proofs

### VideoJobsProofs

For any finite set of submits, any set of workers, any number of routes and
faults, any answers of ProtectHold, with or without cancel and custody:

- `TypeCorrect`: `Spec => []TypeOK`, action by action;
- `MoneyInvariant`: `Spec => [](TypeOK /\ MoneyInv)`, and from it
  `MoneyMovedOnEveryEnd`, `SettlementIsTruthful` and `DebitedAtMostOnce`, the
  properties of the run `video_safety`;
- `SettledAndVoidedAreFinal`: `Spec => MoneyFinal`;
- `BooksNeedFaults`: `Spec => []BooksOffCostFaults`. The run `video_one_charge`
  shows that a job can be charged twice; this bounds how often. A job's books
  are off when the debits made and queued for it (`Taken`) are not what its row
  says was moved (`Recorded`), and there are never more such jobs than there
  have been faults: each fault costs at most one job's books, whatever the
  workers do with their stale copies before and after it. Every fault of the
  model is counted, also those that cannot harm the books.

The argument. None of the first three properties is inductive alone. A terminal
status with unmoved money would follow from a terminate step that found the row
settled already; that a voided job was not queued needs the queue's entries to
be behind orphaned or settled jobs only (`UnsettledOwed`); and that in turn
needs to know that a worker whose *copy* says orphaned is right about it, or the
job has been settled since (`CopyFaithful`). `MoneyInv` is the conjunction of
the five. The proof is in two halves: every step of every action is, for each
job, one of five moves of its row's money (`Rests`, `Voids`, `Settles`,
`Keeps`, `Queues`; lemma `NextMoves`), and each move preserves `MoneyInv`
(lemma `MovesKeepMoney`); the copies are followed separately (`CopyNext`). For
the books, a step either leaves every job's books as they are or touches those
of one job: a step without a fault leaves them balanced if they were
(`OthersLeaveBooks`, `EndBooks`), and one with a fault adds at most that job to
the set whose cardinality is compared with `faults`.

### VideoLifeProofs

For the same constants:

- `LifeInvariant`: `Spec => [](TypeOK /\ MoneyInv /\ LifeInv)`, and from it
  `ChargedForFilmsOnly` (`[]NoFilmNoCharge`), `OwingRowIsKept` (`OwingRowKept`)
  and `KeyBuysOneFilm` (`[]OneFilmPerKey`).

The argument. A worker acts on what it saw earlier, so `LifeInv` says what its
intentions still stand for. A worker that means to complete a job has seen its
film done, and a film that is done stays done (`CompletionSeen`). A worker that
drops a row found the job over and its money moved; that the money has moved is
still so, since settled and voided are final and orphaned becomes settled at
most (`DropStillAllowed`). The job may be running again: of all statements
MarkVideoJobSubmitted takes a job out of a terminal status, and it may come
between Delete's read and its statement. Then the row had no upstream id until
that moment, and a hold is kept, orphaned or settled only by a poller that has
the id (`IDBeforeMoney`, `VerdictReached`), so the money of a revived row can
only have been voided (`Droppable`). The proof has two halves: what a step may
do to a job's life, its charge and a worker's intention (`Advances`,
`ChargesFilm`, `Carries`; lemmas `NextAdvances`, `NextCharges`, `NextCarries`),
and that this keeps `LifeInv` (`AdvancesKeepLife`). One film per key follows from
the row before the film (`RowBeforeFilm`) and from `OneRow`, which the insert's
unique index keeps (`RowsAppear`).

### SettlementProofs

For any finite sets of requests and of overlapping rounds, any number of
attempts and faults:

- `SettlementTypeCorrect` and `SettlementInvariant`, and from the latter, under
  either settler, `NothingServedNothingCharged`, `EveryDebitHasItsRow` and
  `ManualPriceFindsItsHold`;
- `OneFaultLosesNoCharge`: a charge is lost only after two faults;
- `OverchargeIsBounded`: under either settler, a request that is charged more
  than once is charged at most as often as there are faults and rounds together
  (`OverchargeBounded`);
- `GatewayImplementsCharge`: with a ledger, `Spec => ImplementsCharge`.

The argument. `SettlementInv` says where a request can be: what is past the
executor was served and what was released is over and was not (`ServedFirst`);
only a missing rate leads to the manual queue, and nothing that leads there
enters the automatic one (`PriceDecides`), so no replay takes a reservation away
from a manual price; and a round's list, stale as it is, names only requests
that were queued (`QueueOwed`), because entries are never removed. With a
ledger, a debit and a settled reservation are the same thing (`LedgerOnce`, an
assumption about the external ledger more than a result about the gateway, and
stated as no theorem of its own), which makes a repeated settlement harmless. `Accounted` counts faults: one takes
a priced request to RecordUnsettled, a second loses it there.

For the bound on overcharges, which is what is left of ChargedOnce with the
community Recorder, `BudgetAt` keeps an account per request. While its row is
open it has been debited at most once for each fault (a fault put it into the
queue, and a fault keeps a debited row there) and once for each round that has
debited it and not yet marked it. Once the row is marked no later round lists
it, so what is still to come are the rounds that have it on their list: debits
and those rounds together stay within faults and rounds. No run states it: with
the ledger of the passing run it says nothing, and the Recorder's run is the one
that shows ChargedOnce violated. TLC checks it on the Recorder's instance with three rounds and three faults (1,946 states), and there
the bound is reached, so it cannot be lowered.

For the refinement every step is shown to move at most one bill, one way
(`NextBills`), and each such move to be the abstract step of that name (`BillStep`).

### IdempotencyProofs

For any finite set of callers, any fingerprints and faults:
`IdempotencyTypeCorrect`, `ReplaysAreOwn`, `StoredResponseIsFinal`
(`FirstResponseStays`) and `CompletedWorkIsNotRerun` (`CompletedNeverReruns`). The
strengthening is `ResponseMatches`: the response of a completed row is to a
request with the row's fingerprint, because complete's WHERE clause compares the
hash with the row as it is then. The two action properties need no more than the
types: each statement that changes the row asks for one in flight, which a
single lemma says of every step that finds the row completed (`CompletedStep`).

### StreamProofs

For any number of attempts, frames and any capacity of the channel:
`TypeCorrect`, `OneUpstream`, `BillingBoundary`, `CleanEnd`, `NoLeak`,
`SuccessIsDelivery`. The inductive
invariant has four parts beside the types. `Ahead`: attempts the rotation has
not come to are untouched. `Boundary`: only the attempt the rotation is on can
have written, `first` says that it has (or that its client was gone), nothing
rotates after it, and the reservation is settled exactly when `first` holds.
`Flow`: for each attempt, the frames taken are written, queued or in the
reader's hand, and none is missing while its context lives. `Clean`: a stream
that ended "ok" has a reader that stopped at an end of file. `Flow` is what
makes the last step inductive: a closed channel is drained before Pump returns.
`NoLeak` (`[]NothingLeftBehind`) is the safety half of EveryStreamEnds: whichever
way an attempt is left, its timer is stopped and its context done, so a reader
it started has nothing that could keep it waiting. `SuccessIsDelivery`
(`[]HealedByDelivery`) adds that a pump whose first byte is out has written a
frame and that a success is where the rotation ended (`HealedAt`).

### BreakerProofs

For any workers, providers and credentials, any threshold, ladder, hints and
memory:

- `TypeCorrect`; its strengthening `TypeInv` adds what a hop's variables are
  worth at each step and that an entry's cooldown never outlives it;
- `OneBlip`: `Spec => []NoOpenOnABlip`. A report decides on an entry it read
  two steps ago, so the invariant speaks of it too (`BlipHop`): the count it read
  is one less than what has been reported, an open circuit it read was paid for,
  and so is the row it is about to write;
- `RowsMirror`: `Spec => []RowMirrorsCircuit`. `MirrorAt` says for a scope whose
  reports did not overlap that at most one is under way, that between its two
  writes it holds the row's next value (which time takes down with the entry),
  and that it did not read "closed" of a circuit that is open now;
- `FailuresKeepOut`: `Spec => OnlySuccessLetsBackIn`, from the same `MirrorAt`. A
  failure that is reported while a cooldown runs has read an open circuit, and
  opens it again; time ends a cooldown only at its last unit; and what a restart
  brings back differs from what was running only while a row is owed. The order
  of the ladder's rungs does not matter, and neither does the jitter that is left
  out: the claim is that a cooldown runs on, not that it grows.

### RotationProofs

For any finite sets of workers and routes, any limits, ratio, cost and spend limit:

- `TypeCorrect`: in particular no request makes more than MaxAttempts calls;
- `RetryBudget` (`[]RetryBudgetHolds`) by `RetryInv`, which counts with the
  retries the workers between AllowRetry's check and its add: at the check there
  are at most all the others, and the add only moves one of them over;
- `SpendOvershoot` (`[]OvershootBounded`) by `SpendInv`, which counts a Cost for
  each worker in flight: Admit sees the spend below the limit, a settlement moves
  one Cost over, leaving without service lowers the sum, and a late debit adds
  one Cost to both sides. The debits that come late, repeated ones included, are
  part of the bound because nothing in the code limits them: the gate looks at
  what has been debited, not at what is owed;
- `SlotConservation` (`[]SlotsConserved`), semaphore by semaphore (`SlotAt`): a
  step that does not take from, give back to or newly refer to one leaves it
  alone (`SlotUntouched`), a new semaphore has no holder because no worker
  refers to its identity, and a slot is returned to where it was taken;
- `RotationShortens`: `Spec => RotationAdvances`. `Remaining` ranks a request: six for each candidate not yet
  tried and one for each step before its attempt's end. Every step of the
  request lowers the rank and none of another's raises it; with NeverWaits, which
  only TLC checks, that is why requests end.

### Assumptions, and what is only model-checked

The assumptions are the named ASSUMEs of the modules: finitely many requests,
callers, workers, replay rounds or routes, at least one route and one attempt, Boolean flags, natural
numbers for bounds, ladder rungs that are positive and within the longest
cooldown, and that the values for "none" name nothing else.

Only model-checked: liveness (`EveryJobEnds`, `EntryLeavesQueue`,
`EveryStreamEnds`, `CooldownsEnd`), and `NeverWaits`, which speaks of ENABLED:
both are out of the prover's reach. `NoLeak` proves the safety half of
EveryStreamEnds, `RotationShortens` the other half of what NeverWaits is for.

## 7. Not modelled

- Prices and amounts: one unit per job or request. Whether the *right* amount is
  charged is a question for the pricing operators of the plan.
- Clock values: deadlines pass in any order. That a submit has ended before its
  hold runs out or its row is retired rests on the two-minute timeout of its call.
- The connection pool. RecordUnsettled inside a transaction takes a second
  connection; that it can starve is a listed hazard without a property.
- Consecutiveness of 404s: the model counts them as the code does.
- A capture that outlives Delete leaves an object behind; the model has the
  behaviour, and the code promises nothing about it.
- In `Breaker`, that failures be consecutive: `reset` returns early while a
  circuit is closed, so successes in between are not counted against it. The
  model has the behaviour; no property is stated of it.
- In `Breaker`, other processes: replicas share the cooldowns table but not the
  store, so a row may be another replica's; the model has one process and its
  restarts.
- In `Rotation`, a panic between the acquisition and the release, which is a
  plain call and would leak the slot; the attempt function is taken to return.
- In `Rotation`, which provider's minute allowance refuses (it may skip any
  candidate) and why a failed attempt ends the rotation (any may). A *total* spend limit
  is read from the cached identity and can be stale by the cache's lifetime; the
  theorem is about daily and monthly limits.
- Authentication and its key cache, and the rate buckets: planned next.
- Vendor mappers, probes, management handlers, rollups and the web console, for
  the reasons `PROJECT.json` gives. They, together with code generated from the
  OpenAPI and SQL files, are most of the repository's lines: handlers that read
  or write one row, and shaping of requests and responses. They hold no protocol
  of several steps, so models of them would restate assignments.
