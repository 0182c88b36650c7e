------------------------------ MODULE VideoJobs ------------------------------
(***************************************************************************)
(* The asynchronous video plane: internal/gateway/proxy/video_submit.go,   *)
(* video_worker.go, video_jobs.go and the statements of videojobs.sql.     *)
(*                                                                         *)
(* Requests are HTTP submits that carry one and the same Idempotency-Key   *)
(* and the same body; a job row is named by the request that created it,   *)
(* because gateway_async_jobs.request_id is UNIQUE.  A submit whose row is *)
(* deleted under it goes on with a second row under the name of a request  *)
(* that has not been sent.  Workers are the goroutines that touch an       *)
(* existing row: pollers and sweepers of any replica, and the API handlers *)
(* Cancel and Delete.  A worker reads a row once, keeps that copy, calls   *)
(* an upstream and only then writes, so every database statement (or       *)
(* transaction) is a step of its own.                                      *)
(*                                                                         *)
(* Simplifications:                                                        *)
(*  - a job's price is one unit; charged counts debits by SettleTx;        *)
(*  - Hold and Void are the no-ops of internal/community/settle.  What     *)
(*    ProtectHold answers is drawn from HoldAnswers: {FALSE} for that      *)
(*    recorder, BOOLEAN for any Settler;                                   *)
(*  - deadlines are marks a row passes, in any order, not clock values;    *)
(*  - a failed statement, a lost commit, a crash of a worker and a crash   *)
(*    of a submit each spend one of MaxFaults faults.                      *)
(***************************************************************************)
EXTENDS Integers, FiniteSets

CONSTANTS
    Requests,       \* submits of one Idempotency-Key
    Workers,        \* pollers, sweepers and API handlers, over all replicas
    Routes,         \* how many candidate routes a submit may rotate through
    HoldAnswers,    \* what Settler.ProtectHold may answer
    CancelMode,     \* what the route's envelope declares and its mapper can do
    Custody,        \* whether the artifact store takes custody
    MaxFaults       \* bound on failed statements and crashes

ASSUME RequestsAssumption == IsFiniteSet(Requests)
ASSUME RoutesAssumption == Routes \in Nat \ {0}
ASSUME HoldAnswersAssumption == HoldAnswers \subseteq BOOLEAN
ASSUME FlagsAssumption == /\ CancelMode \in {"never", "queued_only", "anytime"}
                          /\ Custody \in BOOLEAN
ASSUME FaultsAssumption == MaxFaults \in Nat

VARIABLES
    \* columns of gateway_async_jobs, by request_id
    status, settlement, upstreamID, notFound, due, artifactKey, passed,
    \* what other tables and stores hold
    charged,        \* debits SettleTx made for the job
    usageRows,      \* rows of usage_logs with the job's request_id
    unsettled,      \* whether gateway_unsettled has a row for the job
    object,         \* whether the artifact store holds the job's bytes
    \* the upstream's own view of the job
    film,
    \* processes
    step, tried,    \* a submit's program counter and candidates used up
    work,           \* a worker's program counter and its copy of the row
    faults

rowVars == <<status, settlement, upstreamID, notFound, due, artifactKey, passed>>
moneyVars == <<charged, usageRows, unsettled>>
vars == <<rowVars, moneyVars, object, film, step, tried, work, faults>>

------------------------------------------------------------------------------
(* Types *)

Active == {"queued", "in_progress"}
Terminal == {"completed", "failed", "canceled", "expired"}
Present == Active \cup Terminal
Statuses == Present \cup {"none", "deleted"}
Unmoved == {"held", "protected"}
Owing == Unmoved \cup {"orphaned"}
Settlements == Owing \cup {"settled", "voided"}

\* Deadlines a row passes: two minutes since creation, hold_expires_at less
\* fifteen minutes, twice max_job_seconds, expires_at.
Marks == {"unsubmitted", "nearExpiry", "stale", "retention"}

notFoundStrikes == 2

Steps == {"new", "route", "calling", "refused", "hopeless", "accepted",
          "unrecorded", "submitted", "existing", "replayed", "failed", "crashed",
          "moved"}
Finished == {"submitted", "existing", "replayed", "failed", "crashed", "moved"}

WorkSteps == {"idle", "poll", "keep", "progress", "terminate", "fail",
              "capture", "record", "unlink", "retire"}
Idle == [step |-> "idle", job |-> "none", seen |-> "held", addressed |-> FALSE,
         to |-> "none", stored |-> FALSE, refused |-> FALSE]
Copies == [step : WorkSteps, job : Requests \cup {"none"}, seen : Settlements,
           addressed : BOOLEAN, to : Terminal \cup {"none"},
           stored : BOOLEAN, refused : BOOLEAN]

\* Every variable holds a value of its declared kind.
TypeOK ==
    /\ status \in [Requests -> Statuses]
    /\ settlement \in [Requests -> Settlements]
    /\ upstreamID \in [Requests -> BOOLEAN]
    /\ notFound \in [Requests -> 0..notFoundStrikes]
    /\ due \in [Requests -> BOOLEAN]
    /\ artifactKey \in [Requests -> BOOLEAN]
    /\ passed \in [Requests -> SUBSET Marks]
    /\ charged \in [Requests -> Nat]
    /\ usageRows \in [Requests -> Nat]
    /\ unsettled \in [Requests -> BOOLEAN]
    /\ object \in [Requests -> BOOLEAN]
    /\ film \in [Requests -> {"none", "running", "done", "failed"}]
    /\ step \in [Requests -> Steps]
    /\ tried \in [Requests -> 0..Routes]
    /\ work \in [Workers -> Copies]
    /\ faults \in 0..MaxFaults

Init ==
    /\ status = [r \in Requests |-> "none"]
    /\ settlement = [r \in Requests |-> "held"]
    /\ upstreamID = [r \in Requests |-> FALSE]
    /\ notFound = [r \in Requests |-> 0]
    /\ due = [r \in Requests |-> FALSE]
    /\ artifactKey = [r \in Requests |-> FALSE]
    /\ passed = [r \in Requests |-> {}]
    /\ charged = [r \in Requests |-> 0]
    /\ usageRows = [r \in Requests |-> 0]
    /\ unsettled = [r \in Requests |-> FALSE]
    /\ object = [r \in Requests |-> FALSE]
    /\ film = [r \in Requests |-> "none"]
    /\ step = [r \in Requests |-> "new"]
    /\ tried = [r \in Requests |-> 0]
    /\ work = [w \in Workers |-> Idle]
    /\ faults = 0

Fault == faults < MaxFaults /\ faults' = faults + 1

------------------------------------------------------------------------------
(* Submitting: one HTTP request r, its candidate routes in turn. *)

\* The row the unique index (org_id, kind, idempotency_key) would collide with.
KeyTaken == \E r \in Requests : status[r] \in Present

\* A repeat of a key is answered with the job it already created.
AdmitSubmit(r) ==
    /\ step[r] = "new"
    /\ step' = [step EXCEPT ![r] = IF KeyTaken THEN "replayed" ELSE "route"]
    /\ UNCHANGED <<rowVars, moneyVars, object, film, tried, work, faults>>

\* Where a submit goes once a candidate has refused: the loop over routes
\* moves on while retryableVideoSubmit holds and a route is left.
AfterRefusal(r, retryable) ==
    IF retryable /\ tried[r] < Routes THEN "route" ELSE "failed"

\* A candidate is ruled out before the row is written: no mapper, credential
\* or quote, the hold was refused, or the insert failed.
SkipCandidate(r) ==
    /\ step[r] = "route" /\ tried[r] < Routes
    /\ tried' = [tried EXCEPT ![r] = @ + 1]
    /\ \E retryable \in BOOLEAN :
          step' = [step EXCEPT ![r] = IF retryable /\ tried[r] + 1 < Routes
                                      THEN "route" ELSE "failed"]
    /\ UNCHANGED <<rowVars, moneyVars, object, film, work, faults>>

\* The name of the next row of submit r: its own while it has had no row, that
\* of an unsent request when the row of an earlier candidate has been deleted.
RowNames(r) == IF status[r] = "none" THEN {r} ELSE {q \in Requests : step[q] = "new"}

\* The insert: row q is there, and the submit r goes on under its name.
InsertRow(r, q) ==
    /\ tried' = [tried EXCEPT ![q] = tried[r] + 1]
    /\ step' = [step EXCEPT ![r] = "moved", ![q] = "calling"]
    /\ status' = [status EXCEPT ![q] = "queued"]
    /\ due' = [due EXCEPT ![q] = TRUE]

\* Mutant of CreateVideoJobRow: the index has no idempotency_key.
CreateUnkeyed(r) ==
    /\ step[r] = "route" /\ tried[r] < Routes
    /\ \E q \in RowNames(r) : InsertRow(r, q)
    /\ UNCHANGED <<settlement, upstreamID, notFound, artifactKey, passed, moneyVars,
                   object, film, work, faults>>

\* The row is written before the upstream is called.  An insert that hits the
\* key's unique index hands back the row that holds the key; the upstream is
\* then not called.  (A row that is gone by then is a SkipCandidate.)
CreateVideoJobRow(r) ==
    /\ step[r] = "route" /\ tried[r] < Routes
    /\ \/ /\ KeyTaken
          /\ tried' = [tried EXCEPT ![r] = @ + 1]
          /\ step' = [step EXCEPT ![r] = "existing"]
          /\ UNCHANGED <<status, due>>
       \/ ~KeyTaken /\ \E q \in RowNames(r) : InsertRow(r, q)
    /\ UNCHANGED <<settlement, upstreamID, notFound, artifactKey, passed, moneyVars,
                   object, film, work, faults>>

\* The upstream's answer to a submit.  A lost answer looks like a refusal here
\* although the upstream has the job.
CallVideoUpstream(r) ==
    /\ step[r] = "calling"
    /\ \/ /\ film' = [film EXCEPT ![r] = "running"]
          /\ step' = [step EXCEPT ![r] = "accepted"]
       \/ /\ film' \in {film, [film EXCEPT ![r] = "running"]}
          /\ step' \in {[step EXCEPT ![r] = s] : s \in {"refused", "hopeless"}}
    /\ UNCHANGED <<rowVars, moneyVars, object, tried, work, faults>>

\* Mutant of FailVideoJobTx: the void is forgotten.
FailNoVoid(j) ==
    /\ status' = [status EXCEPT ![j] = IF @ \in Active THEN "failed" ELSE @]
    /\ due' = [due EXCEPT ![j] = IF status[j] \in Active THEN FALSE ELSE @]
    /\ UNCHANGED settlement

\* Mutant of FailVideoJobTx: VoidVideoJob has lost its guard.
FailVoidsAll(j) ==
    /\ status' = [status EXCEPT ![j] = IF @ \in Active THEN "failed" ELSE @]
    /\ due' = [due EXCEPT ![j] = IF status[j] \in Active THEN FALSE ELSE @]
    /\ settlement' = [settlement EXCEPT ![j] = IF status[j] \in Present THEN "voided" ELSE @]

\* MarkVideoJobTerminal(failed) and VoidVideoJob in one transaction; each
\* statement has its own guard and neither looks at the other's row count.
FailVideoJobTx(j) ==
    /\ status' = [status EXCEPT ![j] = IF @ \in Active THEN "failed" ELSE @]
    /\ due' = [due EXCEPT ![j] = IF status[j] \in Active THEN FALSE ELSE @]
    /\ settlement' = [settlement EXCEPT ![j] =
            IF status[j] \in Present /\ @ \in Unmoved THEN "voided" ELSE @]

\* failVideoJob after a refused submit; the loop then moves on or gives up.
RefuseSubmit(r) ==
    /\ step[r] \in {"refused", "hopeless", "unrecorded"}
    /\ step' = [step EXCEPT ![r] = AfterRefusal(r, step[r] = "refused")]
    /\ \/ FailVideoJobTx(r) /\ UNCHANGED faults
       \/ Fault /\ UNCHANGED <<status, due, settlement>>
    /\ UNCHANGED <<upstreamID, notFound, artifactKey, passed, moneyVars, object, film,
                   tried, work>>

\* MarkVideoJobSubmitted: the row learns the upstream's id.  Its only guard is
\* the id, whatever has happened to the row in the meantime.
MarkVideoJobSubmitted(r) ==
    /\ step[r] = "accepted"
    /\ step' = [step EXCEPT ![r] = "submitted"]
    /\ upstreamID' = [upstreamID EXCEPT ![r] = @ \/ status[r] \in Present]
    /\ status' = [status EXCEPT ![r] = IF @ \in Present THEN "in_progress" ELSE @]
    /\ due' = [due EXCEPT ![r] = FALSE]
    /\ UNCHANGED <<settlement, notFound, artifactKey, passed, moneyVars, object, film,
                   tried, work, faults>>

\* The statement above fails: the job is failed although the upstream has it.
SubmitUnrecorded(r) ==
    /\ step[r] = "accepted" /\ Fault
    /\ step' = [step EXCEPT ![r] = "unrecorded"]
    /\ UNCHANGED <<rowVars, moneyVars, object, film, tried, work>>

\* The process serving the submit dies.
SubmitCrash(r) ==
    /\ step[r] \notin Finished \cup {"new"} /\ Fault
    /\ step' = [step EXCEPT ![r] = "crashed"]
    /\ UNCHANGED <<rowVars, moneyVars, object, film, tried, work>>

------------------------------------------------------------------------------
(* Workers: the copy of the row they act on, and how they come by it. *)

\* Mutant of VideoDeleteRefused: only the money is looked at.
RefusedForMoney(j) == settlement[j] \in Unmoved

\* videoDeleteRefusal: a running job, or one whose money has not moved.
VideoDeleteRefused(j) == status[j] \in Active \/ settlement[j] \in Unmoved

\* Worker w reads row j and continues at step s, meaning to end it in `to`.
Read(w, j, s, to) ==
    /\ work[w] = Idle
    /\ status[j] \in Present
    /\ work' = [work EXCEPT ![w] =
          [step |-> s, job |-> j, seen |-> settlement[j], addressed |-> upstreamID[j],
           to |-> to, stored |-> artifactKey[j], refused |-> VideoDeleteRefused(j)]]

\* Worker w moves on to step s, keeping its copy, or is done.
Goto(w, s) == work' = [work EXCEPT ![w].step = s]
Done(w) == work' = [work EXCEPT ![w] = Idle]
At(w, s, j) == work[w].step = s /\ work[w].job = j

\* ClaimDueVideoJobs: selecting a due row and pushing its next poll out by the
\* lease are one statement.
ClaimDueVideoJob(w, j) ==
    /\ status[j] \in Active /\ due[j]
    /\ Read(w, j, "poll", "none")
    /\ due' = [due EXCEPT ![j] = FALSE]
    /\ UNCHANGED <<status, settlement, upstreamID, notFound, artifactKey, passed,
                   moneyVars, object, film, step, tried, faults>>

\* Sweep 1: the row is two minutes old and has no upstream id.
SweepUnsubmitted(w, j) ==
    /\ status[j] = "queued" /\ ~upstreamID[j] /\ "unsubmitted" \in passed[j]
    /\ Read(w, j, "fail", "failed")
    /\ UNCHANGED <<rowVars, moneyVars, object, film, step, tried, faults>>

\* Mutant of SweepStale: the list has only jobs that are in progress.
SweepInProgress(w, j) ==
    /\ status[j] = "in_progress" /\ "stale" \in passed[j]
    /\ Read(w, j, "terminate", "expired")
    /\ UNCHANGED <<rowVars, moneyVars, object, film, step, tried, faults>>

\* Sweep 2: the job is older than twice its model's ceiling.
SweepStale(w, j) ==
    /\ status[j] \in Active /\ "stale" \in passed[j]
    /\ Read(w, j, "terminate", "expired")
    /\ UNCHANGED <<rowVars, moneyVars, object, film, step, tried, faults>>

\* Sweep 3: the row is past its retention deadline.
SweepExpired(w, j) ==
    /\ "retention" \in passed[j]
    /\ Read(w, j, "unlink", "none")
    /\ UNCHANGED <<rowVars, moneyVars, object, film, step, tried, faults>>

\* VideoJobs.Cancel, up to the upstream's own verdict: only a 2xx goes on.
\* The upstream stops the job at once when it accepts.
CancelVideoJob(w, j) ==
    /\ CancelMode # "never"
    /\ status[j] \in IF CancelMode = "queued_only" THEN {"queued"} ELSE Active
    /\ upstreamID[j]
    /\ film[j] = "running"
    /\ Read(w, j, "terminate", "canceled")
    /\ film' = [film EXCEPT ![j] = "failed"]
    /\ UNCHANGED <<rowVars, moneyVars, object, step, tried, faults>>

\* VideoJobs.Delete.  The list of jobs and the answer to a repeated key hand out
\* the id as soon as there is a row, so the job's submit may still be in its call.
DeleteVideoJob(w, j) ==
    /\ ~VideoDeleteRefused(j)
    /\ Read(w, j, "unlink", "none")
    /\ UNCHANGED <<rowVars, moneyVars, object, film, step, tried, faults>>

------------------------------------------------------------------------------
(* pollVideoJob, statement by statement. *)

\* The route or credential the job was pinned to is gone.
PollUnroutable(w, j) ==
    /\ At(w, "poll", j)
    /\ Goto(w, "fail")
    /\ UNCHANGED <<rowVars, moneyVars, object, film, step, tried, faults>>

\* No verdict: no id to poll with, a transport failure, an unreadable answer.
PollUnanswered(w, j) ==
    /\ At(w, "poll", j)
    /\ Done(w)
    /\ UNCHANGED <<rowVars, moneyVars, object, film, step, tried, faults>>

\* A 404, which any upstream may answer at any time.  MarkVideoJobNotFound
\* counts it (counts past the strikes are not told apart).
PollNotFound(w, j) ==
    /\ At(w, "poll", j) /\ work[w].addressed
    /\ IF status[j] \notin Present
       THEN Done(w) /\ UNCHANGED <<notFound, due>>
       ELSE /\ notFound' = [notFound EXCEPT ![j] =
                    IF @ < notFoundStrikes THEN @ + 1 ELSE @]
            /\ due' = [due EXCEPT ![j] = FALSE]
            /\ IF notFound'[j] >= notFoundStrikes
               THEN work' = [work EXCEPT ![w].step = "terminate", ![w].to = "expired"]
               ELSE Done(w)
    /\ UNCHANGED <<status, settlement, upstreamID, artifactKey, passed, moneyVars,
                   object, film, step, tried, faults>>

\* The upstream is still working; keepVideoHoldAlive looks at the copy.
PollRunning(w, j) ==
    /\ At(w, "poll", j) /\ work[w].addressed /\ film[j] = "running"
    /\ Goto(w, IF work[w].seen = "held" /\ "nearExpiry" \in passed[j]
               THEN "keep" ELSE "progress")
    /\ UNCHANGED <<rowVars, moneyVars, object, film, step, tried, faults>>

\* Mutant of PollFinished: the upstream's own word is written to the row.
FinishedUnmapped(w, j) ==
    /\ At(w, "poll", j) /\ work[w].addressed /\ film[j] \in {"done", "failed"}
    /\ work' = [work EXCEPT ![w].step = "terminate", ![w].to = film[j]]
    /\ UNCHANGED <<rowVars, moneyVars, object, film, step, tried, faults>>

\* Mutant of PollFinished: every end is taken for a completion.
FinishedCompleted(w, j) ==
    /\ At(w, "poll", j) /\ work[w].addressed /\ film[j] \in {"done", "failed"}
    /\ work' = [work EXCEPT ![w].step = "terminate", ![w].to = "completed"]
    /\ UNCHANGED <<rowVars, moneyVars, object, film, step, tried, faults>>

\* The upstream has finished, one way or the other.
PollFinished(w, j) ==
    /\ At(w, "poll", j) /\ work[w].addressed /\ film[j] \in {"done", "failed"}
    /\ \E end \in IF film[j] = "done" THEN {"completed"} ELSE {"failed", "canceled"} :
          work' = [work EXCEPT ![w].step = "terminate", ![w].to = end]
    /\ UNCHANGED <<rowVars, moneyVars, object, film, step, tried, faults>>

\* Mutant of KeepVideoHoldAlive: OrphanVideoJobHold has lost its guard.
KeepUnguarded(w, j) ==
    /\ At(w, "keep", j)
    /\ Goto(w, "progress")
    /\ settlement' = [settlement EXCEPT ![j] = IF status[j] \in Present THEN "orphaned" ELSE @]
    /\ UNCHANGED <<status, upstreamID, notFound, due, artifactKey, passed, moneyVars,
                   object, film, step, tried, faults>>

\* keepVideoHoldAlive: ProtectVideoJobHold when the reservation was kept,
\* OrphanVideoJobHold when it was already gone.
KeepVideoHoldAlive(w, j) ==
    /\ At(w, "keep", j)
    /\ Goto(w, "progress")
    /\ \/ \E kept \in HoldAnswers :
             settlement' = [settlement EXCEPT ![j] =
                 IF status[j] \notin Present THEN @
                 ELSE IF kept THEN (IF @ = "held" THEN "protected" ELSE @)
                 ELSE (IF @ \in Unmoved THEN "orphaned" ELSE @)]
          /\ UNCHANGED faults
       \/ Fault /\ UNCHANGED settlement
    /\ UNCHANGED <<status, upstreamID, notFound, due, artifactKey, passed, moneyVars,
                   object, film, step, tried>>

\* MarkVideoJobProgress, guarded on an active status.
MarkVideoJobProgress(w, j) ==
    /\ At(w, "progress", j)
    /\ Done(w)
    /\ IF status[j] \in Active
       THEN /\ \E s \in Active : status' = [status EXCEPT ![j] = s]
            /\ due' = [due EXCEPT ![j] = FALSE]
       ELSE UNCHANGED <<status, due>>
    /\ UNCHANGED <<settlement, upstreamID, notFound, artifactKey, passed, moneyVars,
                   object, film, step, tried, faults>>

------------------------------------------------------------------------------
(* terminateVideoJob and failVideoJob, run by a worker. *)

\* Mutant of TerminateTakes: the copy decides, not the row.
CopyTakes(w, j) ==
    /\ status[j] \in Present
    /\ work[w].to = "completed" => work[w].seen \in Owing

\* Whether the transaction of terminateVideoJob gets past both row counts.
TerminateTakes(w, j) ==
    /\ status[j] \in Active
    /\ work[w].to = "completed" => settlement[j] \in Owing

\* After terminateVideoJob a poller that saw a finished film takes custody of
\* it, whether or not the transaction took.
AfterTerminate(w) == IF work[w].to = "completed" /\ Custody
                     THEN Goto(w, "capture") ELSE Done(w)

\* Mutant of Debits: a charge left to the unsettled queue is debited as well.
DebitsLate(w) == work[w].to = "completed"

\* terminateVideoJob debits a finished job unless its copy says orphaned.
Debits(w) == work[w].to = "completed" /\ work[w].seen # "orphaned"

\* The committed transaction: MarkVideoJobTerminal, then SettleVideoJob and
\* SettleTx, or VoidVideoJob; then the usage row.  A copy that says orphaned
\* defers the debit to the unsettled queue, written on the pool; a failure of
\* that write is only logged and the transaction commits all the same.
TerminateVideoJob(w, j) ==
    /\ At(w, "terminate", j)
    /\ AfterTerminate(w)
    /\ IF TerminateTakes(w, j)
       THEN LET settling == work[w].to = "completed"
                late == settling /\ work[w].seen = "orphaned"
            IN /\ status' = [status EXCEPT ![j] = work[w].to]
               /\ due' = [due EXCEPT ![j] = FALSE]
               /\ settlement' = [settlement EXCEPT ![j] =
                      IF settling THEN "settled"
                      ELSE IF @ \in Unmoved THEN "voided" ELSE @]
               /\ charged' = [charged EXCEPT ![j] = IF Debits(w) THEN @ + 1 ELSE @]
               /\ usageRows' = [usageRows EXCEPT ![j] = @ + 1]
               /\ \/ late /\ unsettled' = [unsettled EXCEPT ![j] = TRUE] /\ UNCHANGED faults
                  \/ late /\ Fault /\ UNCHANGED unsettled
                  \/ ~late /\ UNCHANGED <<unsettled, faults>>
       ELSE UNCHANGED <<status, due, settlement, moneyVars, faults>>
    /\ UNCHANGED <<upstreamID, notFound, artifactKey, passed, object, film, step, tried>>

\* The transaction does not commit.  The unsettled record is not part of it
\* and stays.
TerminateRollsBack(w, j) ==
    /\ At(w, "terminate", j) /\ Fault
    /\ AfterTerminate(w)
    /\ \/ UNCHANGED unsettled
       \/ /\ TerminateTakes(w, j) /\ work[w].to = "completed" /\ work[w].seen = "orphaned"
          /\ unsettled' = [unsettled EXCEPT ![j] = TRUE]
    /\ UNCHANGED <<rowVars, charged, usageRows, object, film, step, tried>>

FailVideoJob(w, j) ==
    /\ At(w, "fail", j)
    /\ Done(w)
    /\ FailVideoJobTx(j)
    /\ UNCHANGED <<upstreamID, notFound, artifactKey, passed, moneyVars, object, film,
                   step, tried, faults>>

\* The worker dies, or its next statement fails and it gives up.
WorkerFails(w) ==
    /\ work[w] # Idle /\ Fault
    /\ Done(w)
    /\ UNCHANGED <<rowVars, moneyVars, object, film, step, tried>>

------------------------------------------------------------------------------
(* Custody and retention. *)

\* captureVideoArtifact: fetch the bytes and Put them ...
CaptureVideoArtifact(w, j) ==
    /\ At(w, "capture", j)
    /\ \/ object' = [object EXCEPT ![j] = TRUE] /\ Goto(w, "record")
       \/ UNCHANGED object /\ Done(w)
    /\ UNCHANGED <<rowVars, moneyVars, film, step, tried, faults>>

\* ... then record the key on the row, if there still is one.
RecordVideoJobArtifact(w, j) ==
    /\ At(w, "record", j)
    /\ Done(w)
    /\ artifactKey' = [artifactKey EXCEPT ![j] = @ \/ status[j] \in Present]
    /\ UNCHANGED <<status, settlement, upstreamID, notFound, due, passed, moneyVars,
                   object, film, step, tried, faults>>

\* Delete and the retention sweep drop the stored bytes before the row.
UnlinkArtifact(w, j) ==
    /\ At(w, "unlink", j)
    /\ object' = [object EXCEPT ![j] = @ /\ ~work[w].stored]
    /\ Goto(w, "retire")
    /\ UNCHANGED <<rowVars, moneyVars, film, step, tried, faults>>

\* Then the row goes, or, where the copy says it must stay, only its key.
RetireVideoJob(w, j) ==
    /\ At(w, "retire", j)
    /\ Done(w)
    /\ IF work[w].refused
       THEN /\ artifactKey' = [artifactKey EXCEPT ![j] = FALSE]
            /\ UNCHANGED <<status, due>>
       ELSE /\ status' = [status EXCEPT ![j] = "deleted"]
            /\ due' = [due EXCEPT ![j] = FALSE]
            /\ artifactKey' = [artifactKey EXCEPT ![j] = FALSE]
    /\ UNCHANGED <<settlement, upstreamID, notFound, passed, moneyVars, object, film,
                   step, tried, faults>>

------------------------------------------------------------------------------
(* The environment: time, and the upstream. *)

\* next_poll_at is reached: a backoff or a lease has run out.
PollFallsDue(j) ==
    /\ status[j] \in Active /\ ~due[j]
    /\ due' = [due EXCEPT ![j] = TRUE]
    /\ UNCHANGED <<status, settlement, upstreamID, notFound, artifactKey, passed,
                   moneyVars, object, film, step, tried, work, faults>>

\* A deadline of row j passes.  A submit's call is bounded by the two minutes of
\* nonStreamTimeout, a hold lasts thirty minutes and a row an hour at least, so
\* the submit has ended by then; two minutes since the insert, or twice a short
\* max_job_seconds, may be over before it has.
DeadlinePasses(j, m) ==
    /\ status[j] \in Present /\ m \notin passed[j]
    /\ m \in {"nearExpiry", "retention"} => step[j] \in Finished
    /\ passed' = [passed EXCEPT ![j] = @ \cup {m}]
    /\ UNCHANGED <<status, settlement, upstreamID, notFound, due, artifactKey, moneyVars,
                   object, film, step, tried, work, faults>>

FilmEnds(j) ==
    /\ film[j] = "running"
    /\ \E end \in {"done", "failed"} : film' = [film EXCEPT ![j] = end]
    /\ UNCHANGED <<rowVars, moneyVars, object, step, tried, work, faults>>

------------------------------------------------------------------------------

Submit(r) ==
    \/ AdmitSubmit(r) \/ SkipCandidate(r) \/ CreateVideoJobRow(r)
    \/ CallVideoUpstream(r) \/ RefuseSubmit(r) \/ MarkVideoJobSubmitted(r)
    \/ SubmitUnrecorded(r) \/ SubmitCrash(r)

Poll(w, j) ==
    \/ ClaimDueVideoJob(w, j) \/ PollUnroutable(w, j) \/ PollUnanswered(w, j)
    \/ PollNotFound(w, j) \/ PollRunning(w, j) \/ PollFinished(w, j)
    \/ KeepVideoHoldAlive(w, j) \/ MarkVideoJobProgress(w, j)
    \/ CaptureVideoArtifact(w, j) \/ RecordVideoJobArtifact(w, j)

Sweep(w, j) ==
    \/ SweepUnsubmitted(w, j) \/ SweepStale(w, j) \/ SweepExpired(w, j)
    \/ UnlinkArtifact(w, j) \/ RetireVideoJob(w, j)

End(w, j) ==
    \/ TerminateVideoJob(w, j) \/ TerminateRollsBack(w, j) \/ FailVideoJob(w, j)

Caller(w, j) == CancelVideoJob(w, j) \/ DeleteVideoJob(w, j)

Environment(j) ==
    \/ PollFallsDue(j) \/ FilmEnds(j)
    \/ \E m \in Marks : DeadlinePasses(j, m)

Next ==
    \/ \E r \in Requests : Submit(r) \/ Environment(r)
    \/ \E w \in Workers : WorkerFails(w)
    \/ \E w \in Workers, j \in Requests :
          Poll(w, j) \/ Sweep(w, j) \/ End(w, j) \/ Caller(w, j)

Spec == Init /\ [][Next]_vars

\* A worker that has read a row goes on with it.
Proceed(w, j) == (Poll(w, j) \/ Sweep(w, j) \/ End(w, j)) /\ work[w] # Idle

\* A submit runs to its answer and a worker to the end of its task unless it
\* fails; time passes; the sweep is run every videoSweepInterval by the job
\* queue, so a row that stays on its list is taken up although the workers are
\* busy with other jobs in between.  Nothing is assumed of the poller, of the
\* upstream or of the callers.
Fairness ==
    /\ \A r \in Requests : WF_vars(Submit(r))
    /\ \A w \in Workers : WF_vars(\E j \in Requests : Proceed(w, j))
    /\ \A j \in Requests :
          /\ \A m \in {"unsubmitted", "stale"} : WF_vars(DeadlinePasses(j, m))
          /\ SF_vars(\E w \in Workers : SweepStale(w, j))

FairSpec == Spec /\ Fairness

------------------------------------------------------------------------------
(* Properties *)

\* A terminal job's money has moved: terminateVideoJob and failVideoJob write
\* the terminal status and settle, void or leave it to the unsettled queue in
\* one transaction, so CountStuckMoneyJobs finds nothing, whatever fails.
TerminalMoneyMoved ==
    \A j \in Requests : status[j] \in Terminal => settlement[j] \notin Unmoved

\* Nobody pays for a clip the upstream did not finish: neither a debit nor an
\* entry in the unsettled queue exists unless the film was produced, whichever
\* of poll, sweep, cancel and submit failure got to the row first.
NoFilmNoCharge ==
    \A j \in Requests : charged[j] > 0 \/ unsettled[j] => film[j] = "done"

\* The settlement column tells the truth: a voided job was neither debited nor
\* queued, a settled one was unless a statement failed, and a debit is only
\* ever behind a settled job.
SettlementTruthful ==
    \A j \in Requests :
        /\ settlement[j] = "voided" => charged[j] = 0 /\ ~unsettled[j]
        /\ settlement[j] = "settled" => charged[j] > 0 \/ unsettled[j] \/ faults > 0
        /\ charged[j] > 0 => settlement[j] = "settled"

\* However many pollers race with stale copies, SettleTx runs at most once per
\* job: the guards of MarkVideoJobTerminal and SettleVideoJob see to it.
OneDebit == \A j \in Requests : charged[j] <= 1

\* A row is only dropped once its money has moved, though Delete and the
\* retention sweep decide on a copy read earlier.  The job may be running again
\* by then, brought back by its submit's late MarkVideoJobSubmitted, but only
\* one whose hold was voided before, so that nothing is left to be charged.
OwingRowKept ==
    [][\A j \in Requests : status'[j] = "deleted" /\ status[j] # "deleted" =>
          /\ settlement[j] \notin Unmoved
          /\ status[j] \in Active => settlement[j] = "voided"]_vars

\* What happened to the money is never revised: settled and voided are final,
\* even where MarkVideoJobSubmitted brings an ended job back to in_progress.
MoneyFinal ==
    [][\A j \in Requests : settlement[j] \in {"settled", "voided"} =>
          settlement'[j] = settlement[j]]_vars

\* Every job row that is running ends, with its money moved: also one whose
\* submit died between the row and the upstream call, one whose poller died,
\* and one that MarkVideoJobSubmitted brought back after it had been failed.
EveryJobEnds ==
    \A j \in Requests : status[j] \in Active ~>
        status[j] \notin Active /\ settlement[j] \notin Unmoved

\* A key buys one film at a time: two submits of one key never both have an
\* upstream job while both rows exist, although each looks for the key first
\* and inserts later, and although a refusal may hide an accepted job.
OneFilmPerKey ==
    \A r, q \in Requests :
        r # q /\ film[r] # "none" /\ film[q] # "none" =>
            status[r] = "deleted" \/ status[q] = "deleted"

\* What was taken or will be taken for job j, and what its row says was.
Taken(j) == charged[j] + (IF unsettled[j] THEN 1 ELSE 0)
Recorded(j) == IF settlement[j] = "settled" THEN 1 ELSE 0

\* A job whose debits and queued charges are not what its row says costs a fault
\* of its own: pollers, sweeps, cancels and resubmitted rows may race as they
\* like, and a charge is still only doubled or lost where the commit of
\* terminateVideoJob or the write of RecordUnsettled failed for that very job.
BooksOffCostFaults ==
    Cardinality({j \in Requests : Taken(j) # Recorded(j)}) <= faults

\* docs/design/video-jobs.md: "Repeated polls, concurrent replicas and job
\* retries all converge on one charge through that one predicate."
OneCharge ==
    \A j \in Requests : charged[j] + (IF unsettled[j] THEN 1 ELSE 0) <= 1

\* createVideoJobRow: "A concurrent retry of the same key won the insert" -- a
\* submit told that its row exists already lost to another submit, never to
\* the row its own refused candidate left behind.
ExistingIsAnothers ==
    \A r \in Requests : step[r] = "existing" => status[r] \notin Present

====
