--------------------------- MODULE VideoJobsProofs ---------------------------
(***************************************************************************)
(* What the video plane guarantees for any number of submits, workers,     *)
(* routes and faults and for every answer of the settler.                  *)
(***************************************************************************)
EXTENDS VideoJobs, FiniteSetTheorems, TLAPS

------------------------------------------------------------------------------
(* Type correctness *)

\* A worker that starts, moves on or is done still holds a well-formed copy.
LEMMA IdleType == Idle \in Copies
  BY DEF Idle, Copies, WorkSteps, Settlements, Owing, Unmoved

\* Reading a row gives a worker a well-formed copy of it.
LEMMA ReadType ==
  ASSUME TypeOK, NEW w \in Workers, NEW j \in Requests, NEW s \in WorkSteps,
         NEW to \in Terminal \cup {"none"}, Read(w, j, s, to)
  PROVE  work' \in [Workers -> Copies]
  <1> DEFINE copy == [step |-> s, job |-> j, seen |-> settlement[j],
                      addressed |-> upstreamID[j], to |-> to,
                      stored |-> artifactKey[j], refused |-> VideoDeleteRefused(j)]
  <1>1. VideoDeleteRefused(j) \in BOOLEAN
    BY DEF VideoDeleteRefused
  <1>2. copy \in Copies
    BY <1>1 DEF Copies, TypeOK
  <1>3. work' = [work EXCEPT ![w] = copy]
    BY DEF Read
  <1> QED
    BY <1>2, <1>3 DEF TypeOK

\* Moving on within pollVideoJob or a sweep keeps the copy well-formed.
LEMMA GotoType ==
  ASSUME TypeOK, NEW w \in Workers, NEW s \in WorkSteps, Goto(w, s)
  PROVE  work' \in [Workers -> Copies]
  <1>1. work[w] \in Copies
    BY DEF TypeOK
  <1>2. [work[w] EXCEPT !.step = s] \in Copies
    BY <1>1 DEF Copies
  <1> QED
    BY <1>2 DEF Goto, TypeOK

\* Giving the copy up leaves the worker idle.
LEMMA DoneType ==
  ASSUME TypeOK, NEW w \in Workers, Done(w)
  PROVE  work' \in [Workers -> Copies]
  BY IdleType DEF Done, TypeOK

\* A worker that has its verdict keeps the rest of its copy.
LEMMA VerdictType ==
  ASSUME TypeOK, NEW w \in Workers, NEW v \in Terminal,
         work' = [work EXCEPT ![w].step = "terminate", ![w].to = v]
  PROVE  work' \in [Workers -> Copies]
  <1>1. work[w] \in Copies
    BY DEF TypeOK
  <1>2. [work[w] EXCEPT !.step = "terminate", !.to = v] \in Copies
    BY <1>1 DEF Copies, WorkSteps
  <1>3. work' = [work EXCEPT ![w] = [work[w] EXCEPT !.step = "terminate", !.to = v]]
    BY DEF TypeOK
  <1> QED
    BY <1>2, <1>3 DEF TypeOK

\* failVideoJob's transaction keeps the columns it writes well-formed.
LEMMA FailTxType ==
  ASSUME TypeOK, NEW j \in Requests, FailVideoJobTx(j)
  PROVE  /\ status' \in [Requests -> Statuses]
         /\ settlement' \in [Requests -> Settlements]
         /\ due' \in [Requests -> BOOLEAN]
  BY DEF TypeOK, FailVideoJobTx, Statuses, Present, Terminal, Settlements

\* submitVideoJob keeps every variable in its type.
LEMMA SubmitType ==
  ASSUME TypeOK, NEW r \in Requests, Submit(r)
  PROVE  TypeOK'
  <1> USE DEF rowVars, moneyVars
  <1>1. CASE AdmitSubmit(r)
    BY <1>1 DEF AdmitSubmit, TypeOK, Steps
  <1>2. CASE SkipCandidate(r)
    BY <1>2, RoutesAssumption DEF SkipCandidate, TypeOK, Steps
  <1>3. CASE CreateVideoJobRow(r)
    <2>1. tried[r] + 1 \in 0..Routes
      BY <1>3, RoutesAssumption DEF CreateVideoJobRow, TypeOK
    <2>2. /\ tried' \in [Requests -> 0..Routes]
          /\ step' \in [Requests -> Steps]
          /\ status' \in [Requests -> Statuses]
          /\ due' \in [Requests -> BOOLEAN]
      <3>1. CASE KeyTaken
        BY <1>3, <2>1, <3>1 DEF CreateVideoJobRow, TypeOK, Steps
      <3>2. CASE ~KeyTaken
        <4>1. PICK q \in Requests : InsertRow(r, q)
          BY <1>3, <3>2 DEF CreateVideoJobRow, RowNames
        <4>2. /\ tried' \in [Requests -> 0..Routes]
              /\ due' \in [Requests -> BOOLEAN]
          BY <2>1, <4>1 DEF InsertRow, TypeOK
        <4>3. step' \in [Requests -> Steps]
          BY <4>1 DEF InsertRow, TypeOK, Steps
        <4>4. status' \in [Requests -> Statuses]
          BY <4>1 DEF InsertRow, TypeOK, Statuses, Present, Active
        <4> QED
          BY <4>2, <4>3, <4>4
      <3> QED
        BY <3>1, <3>2
    <2> QED
      BY <1>3, <2>2 DEF CreateVideoJobRow, TypeOK
  <1>4. CASE CallVideoUpstream(r)
    BY <1>4 DEF CallVideoUpstream, TypeOK, Steps
  <1>5. CASE RefuseSubmit(r)
    <2>1. step' \in [Requests -> Steps]
      BY <1>5 DEF RefuseSubmit, AfterRefusal, TypeOK, Steps
    <2>2. CASE FailVideoJobTx(r) /\ UNCHANGED faults
      BY <1>5, <2>1, <2>2, FailTxType DEF RefuseSubmit, TypeOK
    <2>3. CASE Fault /\ UNCHANGED <<status, due, settlement>>
      BY <1>5, <2>1, <2>3, FaultsAssumption DEF RefuseSubmit, Fault, TypeOK
    <2> QED
      BY <1>5, <2>2, <2>3 DEF RefuseSubmit
  <1>6. CASE MarkVideoJobSubmitted(r)
    BY <1>6 DEF MarkVideoJobSubmitted, TypeOK, Steps, Statuses, Present, Active
  <1>7. CASE SubmitUnrecorded(r)
    BY <1>7, FaultsAssumption DEF SubmitUnrecorded, Fault, TypeOK, Steps
  <1>8. CASE SubmitCrash(r)
    BY <1>8, FaultsAssumption DEF SubmitCrash, Fault, TypeOK, Steps
  <1> QED
    BY <1>1, <1>2, <1>3, <1>4, <1>5, <1>6, <1>7, <1>8 DEF Submit

\* pollVideoJob, from the claim to the recorded artifact, keeps every variable
\* in its type; not_found_count stays within the strikes.
LEMMA PollType ==
  ASSUME TypeOK, NEW w \in Workers, NEW j \in Requests, Poll(w, j)
  PROVE  TypeOK'
  <1> USE DEF rowVars, moneyVars
  <1>1. CASE ClaimDueVideoJob(w, j)
    <2>1. Read(w, j, "poll", "none")
      BY <1>1 DEF ClaimDueVideoJob
    <2>2. work' \in [Workers -> Copies]
      BY <2>1, ReadType DEF WorkSteps
    <2> QED
      BY <1>1, <2>2 DEF ClaimDueVideoJob, TypeOK
  <1>2. CASE PollUnroutable(w, j)
    <2>1. work' \in [Workers -> Copies]
      BY <1>2, GotoType DEF PollUnroutable, WorkSteps
    <2> QED
      BY <1>2, <2>1 DEF PollUnroutable, TypeOK
  <1>3. CASE PollUnanswered(w, j)
    <2>1. work' \in [Workers -> Copies]
      BY <1>3, DoneType DEF PollUnanswered
    <2> QED
      BY <1>3, <2>1 DEF PollUnanswered, TypeOK
  <1>4. CASE PollNotFound(w, j)
    <2>1. /\ notFound' \in [Requests -> 0..notFoundStrikes]
          /\ due' \in [Requests -> BOOLEAN]
      <3>1. CASE status[j] \notin Present
        BY <1>4, <3>1 DEF PollNotFound, TypeOK
      <3>2. CASE status[j] \in Present
        <4>1. notFound' = [notFound EXCEPT ![j] = IF @ < notFoundStrikes THEN @ + 1 ELSE @]
          BY <1>4, <3>2 DEF PollNotFound
        <4>2. due' = [due EXCEPT ![j] = FALSE]
          BY <1>4, <3>2 DEF PollNotFound
        <4> QED
          BY <4>1, <4>2 DEF TypeOK, notFoundStrikes
      <3> QED
        BY <3>1, <3>2
    <2>2. work' \in [Workers -> Copies]
      <3>1. \/ Done(w)
            \/ work' = [work EXCEPT ![w].step = "terminate", ![w].to = "expired"]
        BY <1>4, Zenon DEF PollNotFound
      <3> QED
        BY <3>1, DoneType, VerdictType DEF Terminal
    <2> QED
      BY <1>4, <2>1, <2>2 DEF PollNotFound, TypeOK
  <1>5. CASE PollRunning(w, j)
    <2>1. work' \in [Workers -> Copies]
      BY <1>5, GotoType DEF PollRunning, WorkSteps
    <2> QED
      BY <1>5, <2>1 DEF PollRunning, TypeOK
  <1>6. CASE PollFinished(w, j)
    <2>1. PICK end \in Terminal :
             work' = [work EXCEPT ![w].step = "terminate", ![w].to = end]
      BY <1>6 DEF PollFinished, Terminal
    <2>2. work' \in [Workers -> Copies]
      BY <2>1, VerdictType
    <2> QED
      BY <1>6, <2>2 DEF PollFinished, TypeOK
  <1>7. CASE KeepVideoHoldAlive(w, j)
    <2>1. work' \in [Workers -> Copies]
      BY <1>7, GotoType DEF KeepVideoHoldAlive, WorkSteps
    <2>2. /\ settlement' \in [Requests -> Settlements]
          /\ faults' \in 0..MaxFaults
      BY <1>7, FaultsAssumption
      DEF KeepVideoHoldAlive, Fault, TypeOK, Settlements, Owing, Unmoved
    <2> QED
      BY <1>7, <2>1, <2>2 DEF KeepVideoHoldAlive, TypeOK
  <1>8. CASE MarkVideoJobProgress(w, j)
    <2>1. work' \in [Workers -> Copies]
      BY <1>8, DoneType DEF MarkVideoJobProgress
    <2>2. /\ status' \in [Requests -> Statuses]
          /\ due' \in [Requests -> BOOLEAN]
      BY <1>8 DEF MarkVideoJobProgress, TypeOK, Statuses, Present
    <2> QED
      BY <1>8, <2>1, <2>2 DEF MarkVideoJobProgress, TypeOK
  <1>9. CASE CaptureVideoArtifact(w, j)
    <2>1. work' \in [Workers -> Copies]
      BY <1>9, GotoType, DoneType DEF CaptureVideoArtifact, WorkSteps
    <2> QED
      BY <1>9, <2>1 DEF CaptureVideoArtifact, TypeOK
  <1>10. CASE RecordVideoJobArtifact(w, j)
    <2>1. work' \in [Workers -> Copies]
      BY <1>10, DoneType DEF RecordVideoJobArtifact
    <2> QED
      BY <1>10, <2>1 DEF RecordVideoJobArtifact, TypeOK
  <1> QED
    BY <1>1, <1>2, <1>3, <1>4, <1>5, <1>6, <1>7, <1>8, <1>9, <1>10 DEF Poll

\* The three sweeps and the retirement of a row keep every variable in its type.
LEMMA SweepType ==
  ASSUME TypeOK, NEW w \in Workers, NEW j \in Requests, Sweep(w, j)
  PROVE  TypeOK'
  <1> USE DEF rowVars, moneyVars
  <1>1. CASE SweepUnsubmitted(w, j)
    <2>1. work' \in [Workers -> Copies]
      BY <1>1, ReadType DEF SweepUnsubmitted, WorkSteps, Terminal
    <2> QED
      BY <1>1, <2>1 DEF SweepUnsubmitted, TypeOK
  <1>2. CASE SweepStale(w, j)
    <2>1. work' \in [Workers -> Copies]
      BY <1>2, ReadType DEF SweepStale, WorkSteps, Terminal
    <2> QED
      BY <1>2, <2>1 DEF SweepStale, TypeOK
  <1>3. CASE SweepExpired(w, j)
    <2>1. work' \in [Workers -> Copies]
      BY <1>3, ReadType DEF SweepExpired, WorkSteps
    <2> QED
      BY <1>3, <2>1 DEF SweepExpired, TypeOK
  <1>4. CASE UnlinkArtifact(w, j)
    <2>1. work' \in [Workers -> Copies]
      BY <1>4, GotoType DEF UnlinkArtifact, WorkSteps
    <2>2. object' \in [Requests -> BOOLEAN]
      BY <1>4 DEF UnlinkArtifact, TypeOK
    <2> QED
      BY <1>4, <2>1, <2>2 DEF UnlinkArtifact, TypeOK
  <1>5. CASE RetireVideoJob(w, j)
    <2>1. work' \in [Workers -> Copies]
      BY <1>5, DoneType DEF RetireVideoJob
    <2>2. /\ status' \in [Requests -> Statuses]
          /\ due' \in [Requests -> BOOLEAN]
          /\ artifactKey' \in [Requests -> BOOLEAN]
      BY <1>5 DEF RetireVideoJob, TypeOK, Statuses
    <2> QED
      BY <1>5, <2>1, <2>2 DEF RetireVideoJob, TypeOK
  <1> QED
    BY <1>1, <1>2, <1>3, <1>4, <1>5 DEF Sweep

\* terminateVideoJob and failVideoJob keep every variable in its type.
LEMMA EndType ==
  ASSUME TypeOK, NEW w \in Workers, NEW j \in Requests, End(w, j)
  PROVE  TypeOK'
  <1> USE DEF rowVars, moneyVars
  <1>1. ASSUME AfterTerminate(w) PROVE work' \in [Workers -> Copies]
    BY <1>1, GotoType, DoneType DEF AfterTerminate, WorkSteps
  <1>2. CASE TerminateVideoJob(w, j)
    <2>1. work' \in [Workers -> Copies]
      BY <1>1, <1>2 DEF TerminateVideoJob
    <2>2. CASE ~TerminateTakes(w, j)
      BY <1>2, <2>1, <2>2 DEF TerminateVideoJob, TypeOK
    <2>3. CASE TerminateTakes(w, j)
      <3>1. /\ status' \in [Requests -> Statuses]
            /\ due' \in [Requests -> BOOLEAN]
        <4>1. work[w].to \in Statuses
          <5>1. work[w].to \in Terminal \cup {"none"}
            BY DEF TypeOK, Copies
          <5> QED
            BY <5>1 DEF Statuses, Present
        <4> QED
          BY <1>2, <2>3, <4>1 DEF TerminateVideoJob, TypeOK
      <3>2. settlement' \in [Requests -> Settlements]
        BY <1>2, <2>3 DEF TerminateVideoJob, TypeOK, Settlements
      <3>3. /\ charged' \in [Requests -> Nat]
            /\ usageRows' \in [Requests -> Nat]
        BY <1>2, <2>3 DEF TerminateVideoJob, TypeOK
      <3>4. unsettled' \in [Requests -> BOOLEAN]
        BY <1>2, <2>3 DEF TerminateVideoJob, TypeOK
      <3>5. faults' \in 0..MaxFaults
        BY <1>2, <2>3, FaultsAssumption DEF TerminateVideoJob, Fault, TypeOK
      <3> QED
        BY <1>2, <2>1, <3>1, <3>2, <3>3, <3>4, <3>5 DEF TerminateVideoJob, TypeOK
    <2> QED
      BY <2>2, <2>3
  <1>3. CASE TerminateRollsBack(w, j)
    <2>1. work' \in [Workers -> Copies]
      BY <1>1, <1>3 DEF TerminateRollsBack
    <2>2. unsettled' \in [Requests -> BOOLEAN]
      BY <1>3 DEF TerminateRollsBack, TypeOK
    <2>3. faults' \in 0..MaxFaults
      BY <1>3, FaultsAssumption DEF TerminateRollsBack, Fault, TypeOK
    <2> QED
      BY <1>3, <2>1, <2>2, <2>3 DEF TerminateRollsBack, TypeOK
  <1>4. CASE FailVideoJob(w, j)
    <2>1. work' \in [Workers -> Copies]
      BY <1>4, DoneType DEF FailVideoJob
    <2>2. /\ status' \in [Requests -> Statuses]
          /\ settlement' \in [Requests -> Settlements]
          /\ due' \in [Requests -> BOOLEAN]
      BY <1>4, FailTxType DEF FailVideoJob
    <2> QED
      BY <1>4, <2>1, <2>2 DEF FailVideoJob, TypeOK
  <1> QED
    BY <1>2, <1>3, <1>4 DEF End

\* The handlers Cancel and Delete keep every variable in its type.
LEMMA CallerType ==
  ASSUME TypeOK, NEW w \in Workers, NEW j \in Requests, Caller(w, j)
  PROVE  TypeOK'
  <1> USE DEF rowVars, moneyVars
  <1>1. CASE CancelVideoJob(w, j)
    <2>1. work' \in [Workers -> Copies]
      <3>1. Read(w, j, "terminate", "canceled")
        BY <1>1 DEF CancelVideoJob
      <3> QED
        BY <3>1, ReadType DEF WorkSteps, Terminal
    <2>2. film' \in [Requests -> {"none", "running", "done", "failed"}]
      BY <1>1 DEF CancelVideoJob, TypeOK
    <2> QED
      BY <1>1, <2>1, <2>2 DEF CancelVideoJob, TypeOK
  <1>2. CASE DeleteVideoJob(w, j)
    <2>1. work' \in [Workers -> Copies]
      BY <1>2, ReadType DEF DeleteVideoJob, WorkSteps
    <2> QED
      BY <1>2, <2>1 DEF DeleteVideoJob, TypeOK
  <1> QED
    BY <1>1, <1>2 DEF Caller

\* Time and the upstream keep every variable in its type.
LEMMA EnvironmentType ==
  ASSUME TypeOK, NEW j \in Requests, Environment(j)
  PROVE  TypeOK'
  <1> USE DEF rowVars, moneyVars
  <1>1. CASE PollFallsDue(j)
    BY <1>1 DEF PollFallsDue, TypeOK
  <1>2. CASE FilmEnds(j)
    BY <1>2 DEF FilmEnds, TypeOK
  <1>3. ASSUME NEW m \in Marks, DeadlinePasses(j, m) PROVE TypeOK'
    <2>1. passed' = [passed EXCEPT ![j] = passed[j] \cup {m}]
      BY <1>3 DEF DeadlinePasses
    <2>2. passed' \in [Requests -> SUBSET Marks]
      BY <2>1 DEF TypeOK
    <2> QED
      BY <1>3, <2>2 DEF DeadlinePasses, TypeOK
  <1> QED
    BY <1>1, <1>2, <1>3 DEF Environment

\* The kinds of all variables survive any step.
LEMMA TypeStep == TypeOK /\ [Next]_vars => TypeOK'
  <1> SUFFICES ASSUME TypeOK, [Next]_vars PROVE TypeOK'
    OBVIOUS
  <1>1. CASE UNCHANGED vars
    BY <1>1 DEF vars, rowVars, moneyVars, TypeOK
  <1>2. ASSUME NEW w \in Workers, WorkerFails(w) PROVE TypeOK'
    <2>1. work' \in [Workers -> Copies]
      BY <1>2, DoneType DEF WorkerFails
    <2>2. faults' \in 0..MaxFaults
      BY <1>2, FaultsAssumption DEF WorkerFails, Fault, TypeOK
    <2> QED
      BY <1>2, <2>1, <2>2 DEF WorkerFails, TypeOK, rowVars, moneyVars
  <1> QED
    BY <1>1, <1>2, SubmitType, PollType, SweepType, EndType, CallerType, EnvironmentType
    DEF Next

\* An empty gateway_async_jobs is well-typed.
LEMMA TypeInit == Init => TypeOK
  <1> SUFFICES ASSUME Init PROVE TypeOK
    OBVIOUS
  <1>1. work \in [Workers -> Copies]
    BY IdleType DEF Init
  <1> QED
    BY <1>1, RoutesAssumption, FaultsAssumption
    DEF Init, TypeOK, Statuses, Settlements, Owing, Unmoved, Steps, notFoundStrikes

\* Every reachable state is well-formed, for any submits, workers, routes and
\* faults: in particular a row's status and settlement stay in the sets the
\* CHECK constraints of gateway_async_jobs allow.
THEOREM TypeCorrect == Spec => []TypeOK
  BY TypeInit, TypeStep, PTL DEF Spec

------------------------------------------------------------------------------
(* Money *)

Owed == {"orphaned", "settled"}

\* An entry of the unsettled queue is behind a job that is orphaned or settled.
UnsettledOwed == \A j \in Requests : unsettled[j] => settlement[j] \in Owed

\* A copy that says orphaned is stale only if the job has been settled since:
\* without it an entry could be queued for a job voided behind the copy's back.
CopyFaithful ==
    \A w \in Workers, j \in Requests :
        work[w].job = j /\ work[w].seen = "orphaned" => settlement[j] \in Owed

MoneyInv == TerminalMoneyMoved /\ SettlementTruthful /\ OneDebit
            /\ UnsettledOwed /\ CopyFaithful

\* What one step may do to the money of job j: nothing, and then the job does
\* not end with its money unmoved; void it; settle it, queue it or fail to; keep
\* the hold alive or give it up; queue it and lose the commit.
Rests(j) ==
    /\ settlement'[j] = settlement[j] /\ charged'[j] = charged[j]
    /\ unsettled'[j] = unsettled[j]
    /\ status'[j] \in Terminal => status[j] \in Terminal \/ settlement[j] \notin Unmoved
Voids(j) ==
    /\ settlement[j] \in Unmoved /\ settlement'[j] = "voided"
    /\ charged'[j] = charged[j] /\ unsettled'[j] = unsettled[j]
Settles(j) ==
    /\ settlement[j] \in Owing /\ settlement'[j] = "settled"
    /\ \/ charged'[j] = charged[j] + 1 /\ unsettled'[j] = unsettled[j]
       \/ charged'[j] = charged[j] /\ unsettled'[j]
       \/ charged'[j] = charged[j] /\ unsettled'[j] = unsettled[j] /\ faults' > 0
Keeps(j) ==
    /\ settlement[j] \in Unmoved /\ settlement'[j] \in {"protected", "orphaned"}
    /\ charged'[j] = charged[j] /\ unsettled'[j] = unsettled[j]
    /\ status'[j] = status[j]
Queues(j) ==
    /\ settlement[j] \in Owed /\ settlement'[j] = settlement[j]
    /\ charged'[j] = charged[j] /\ unsettled'[j]
    /\ status'[j] = status[j]
Moves(j) == Rests(j) \/ Voids(j) \/ Settles(j) \/ Keeps(j) \/ Queues(j)

\* A worker keeps what it read, forgets it, or has read the row just now.
CopyKept(w) ==
    \/ work'[w].job = work[w].job /\ work'[w].seen = work[w].seen
    \/ work'[w].seen # "orphaned"
    \/ work'[w].seen = settlement[work'[w].job]

\* The argument in one place: whatever moves money that way keeps MoneyInv.
LEMMA MovesKeepMoney ==
  ASSUME TypeOK, MoneyInv, faults' >= faults, faults' \in Nat,
         \A j \in Requests : Moves(j), \A w \in Workers : CopyKept(w)
  PROVE  MoneyInv'
  <1> USE DEF Unmoved, Owing, Owed
  <1>1. /\ \A j \in Requests : /\ charged[j] \in Nat /\ settlement[j] \in Settlements
                               /\ unsettled[j] \in BOOLEAN
        /\ faults \in Nat
    BY FaultsAssumption DEF TypeOK
  <1>2. ASSUME NEW j \in Requests
        PROVE  /\ status'[j] \in Terminal => settlement'[j] \notin Unmoved
               /\ settlement'[j] = "voided" => charged'[j] = 0 /\ ~unsettled'[j]
               /\ settlement'[j] = "settled" => charged'[j] > 0 \/ unsettled'[j] \/ faults' > 0
               /\ charged'[j] > 0 => settlement'[j] = "settled"
               /\ charged'[j] <= 1
               /\ unsettled'[j] => settlement'[j] \in Owed
               /\ settlement[j] \in Owed => settlement'[j] \in Owed
    <2>1. /\ status[j] \in Terminal => settlement[j] \notin Unmoved
          /\ settlement[j] = "voided" => charged[j] = 0 /\ ~unsettled[j]
          /\ settlement[j] = "settled" => charged[j] > 0 \/ unsettled[j] \/ faults > 0
          /\ charged[j] > 0 => settlement[j] = "settled"
          /\ charged[j] <= 1
          /\ unsettled[j] => settlement[j] \in Owed
      BY DEF MoneyInv, TerminalMoneyMoved, SettlementTruthful, OneDebit, UnsettledOwed
    <2>2. CASE Rests(j)
      BY <1>1, <2>1, <2>2 DEF Rests
    <2>3. CASE Voids(j)
      BY <1>1, <2>1, <2>3 DEF Voids
    <2>4. CASE Settles(j)
      BY <1>1, <2>1, <2>4 DEF Settles
    <2>5. CASE Keeps(j)
      BY <1>1, <2>1, <2>5 DEF Keeps
    <2>6. CASE Queues(j)
      BY <1>1, <2>1, <2>6 DEF Queues
    <2> QED
      BY <2>2, <2>3, <2>4, <2>5, <2>6 DEF Moves
  <1>3. CopyFaithful'
    <2> SUFFICES ASSUME NEW w \in Workers, NEW j \in Requests,
                        work'[w].job = j, work'[w].seen = "orphaned"
                 PROVE  settlement'[j] \in Owed
      BY DEF CopyFaithful
    <2>1. settlement[j] \in Owed
      BY DEF CopyKept, CopyFaithful, MoneyInv
    <2> QED
      BY <1>2, <2>1
  <1> QED
    BY <1>2, <1>3
    DEF MoneyInv, TerminalMoneyMoved, SettlementTruthful, OneDebit, UnsettledOwed

\* What the workers' own steps do to their copies.
LEMMA CopySteps ==
  ASSUME TypeOK, NEW w \in Workers
  PROVE  /\ \A j \in Requests : \A s, to : Read(w, j, s, to) => \A v \in Workers : CopyKept(v)
         /\ \A s : Goto(w, s) => \A v \in Workers : CopyKept(v)
         /\ Done(w) => \A v \in Workers : CopyKept(v)
         /\ \A to : work' = [work EXCEPT ![w].step = "terminate", ![w].to = to]
                       => \A v \in Workers : CopyKept(v)
  <1>1. \A v \in Workers : work[v] \in Copies
    BY DEF TypeOK
  <1>2. ASSUME NEW j \in Requests, NEW s, NEW to, Read(w, j, s, to), NEW v \in Workers
        PROVE  CopyKept(v)
    <2> DEFINE copy == [step |-> s, job |-> j, seen |-> settlement[j],
                        addressed |-> upstreamID[j], to |-> to,
                        stored |-> artifactKey[j], refused |-> VideoDeleteRefused(j)]
    <2>1. work' = [work EXCEPT ![w] = copy]
      BY <1>2 DEF Read
    <2>2. copy.job = j /\ copy.seen = settlement[j]
      OBVIOUS
    <2> HIDE DEF copy
    <2> QED
      BY <2>1, <2>2 DEF CopyKept, TypeOK
  <1>3. ASSUME NEW s, Goto(w, s), NEW v \in Workers PROVE CopyKept(v)
    BY <1>1, <1>3 DEF Goto, CopyKept, TypeOK, Copies
  <1>4. ASSUME Done(w), NEW v \in Workers PROVE CopyKept(v)
    BY <1>4 DEF Done, Idle, CopyKept, TypeOK
  <1>5. ASSUME NEW to, work' = [work EXCEPT ![w].step = "terminate", ![w].to = to],
               NEW v \in Workers
        PROVE  CopyKept(v)
    BY <1>1, <1>5 DEF CopyKept, TypeOK, Copies
  <1> QED
    BY <1>2, <1>3, <1>4, <1>5

\* No step makes a worker's copy claim an orphaned hold its row did not have.
LEMMA CopyNext ==
  ASSUME TypeOK, Next
  PROVE  \A v \in Workers : CopyKept(v)
  <1>1. ASSUME UNCHANGED work PROVE \A v \in Workers : CopyKept(v)
    BY <1>1 DEF CopyKept
  <1>2. ASSUME NEW r \in Requests, Submit(r) \/ Environment(r) PROVE UNCHANGED work
    BY <1>2 DEF Submit, AdmitSubmit, SkipCandidate, CreateVideoJobRow, CallVideoUpstream,
       RefuseSubmit, MarkVideoJobSubmitted, SubmitUnrecorded, SubmitCrash,
       Environment, PollFallsDue, FilmEnds, DeadlinePasses
  <1>3. ASSUME NEW w \in Workers, WorkerFails(w) PROVE Done(w)
    BY <1>3 DEF WorkerFails
  <1>4. ASSUME NEW w \in Workers, NEW j \in Requests, Poll(w, j)
        PROVE  \/ Read(w, j, "poll", "none") \/ Done(w) \/ \E s : Goto(w, s)
               \/ \E to : work' = [work EXCEPT ![w].step = "terminate", ![w].to = to]
    <2>1. CASE ClaimDueVideoJob(w, j)
      BY <2>1 DEF ClaimDueVideoJob
    <2>2. CASE PollUnroutable(w, j) \/ PollUnanswered(w, j) \/ PollRunning(w, j)
      BY <2>2, Zenon DEF PollUnroutable, PollUnanswered, PollRunning
    <2>3. CASE PollNotFound(w, j)
      BY <2>3, Zenon DEF PollNotFound
    <2>4. CASE PollFinished(w, j)
      BY <2>4, Zenon DEF PollFinished
    <2>5. CASE KeepVideoHoldAlive(w, j) \/ MarkVideoJobProgress(w, j)
      BY <2>5, Zenon DEF KeepVideoHoldAlive, MarkVideoJobProgress
    <2>6. CASE CaptureVideoArtifact(w, j) \/ RecordVideoJobArtifact(w, j)
      BY <2>6, Zenon DEF CaptureVideoArtifact, RecordVideoJobArtifact
    <2> QED
      BY <1>4, <2>1, <2>2, <2>3, <2>4, <2>5, <2>6 DEF Poll
  <1>5. ASSUME NEW w \in Workers, NEW j \in Requests, Sweep(w, j) \/ Caller(w, j)
        PROVE  (\E s, to : Read(w, j, s, to)) \/ Done(w) \/ \E s : Goto(w, s)
    <2>1. CASE Sweep(w, j)
      BY <2>1, Zenon DEF Sweep, SweepUnsubmitted, SweepStale, SweepExpired, UnlinkArtifact,
         RetireVideoJob
    <2>2. CASE Caller(w, j)
      BY <2>2, Zenon DEF Caller, CancelVideoJob, DeleteVideoJob
    <2> QED
      BY <1>5, <2>1, <2>2
  <1>6. ASSUME NEW w \in Workers, NEW j \in Requests, End(w, j)
        PROVE  Done(w) \/ \E s : Goto(w, s)
    BY <1>6, Zenon DEF End, TerminateVideoJob, TerminateRollsBack, FailVideoJob,
       AfterTerminate
  <1> QED
    BY <1>1, <1>2, <1>3, <1>4, <1>5, <1>6, CopySteps DEF Next

\* A step that leaves settlement, debits and queue alone and ends no job.
LEMMA RestsAll ==
  ASSUME UNCHANGED <<settlement, charged, unsettled>>,
         \A j \in Requests : status'[j] \in Terminal => status[j] \in Terminal
  PROVE  \A j \in Requests : Moves(j)
  BY DEF Moves, Rests

\* failVideoJob's transaction voids the job it ends, or its money has moved.
LEMMA FailMoves ==
  ASSUME TypeOK, NEW j \in Requests, FailVideoJobTx(j), UNCHANGED <<charged, unsettled>>
  PROVE  \A i \in Requests : Moves(i)
  <1> SUFFICES ASSUME NEW i \in Requests PROVE Rests(i) \/ Voids(i)
    BY DEF Moves
  <1>1. CASE i = j
    BY <1>1 DEF FailVideoJobTx, TypeOK, Rests, Voids, Present, Terminal, Active
  <1>2. CASE i # j
    BY <1>2 DEF FailVideoJobTx, TypeOK, Rests
  <1> QED
    BY <1>1, <1>2

\* A submit moves money only by failVideoJob.
LEMMA SubmitMoves ==
  ASSUME TypeOK, NEW r \in Requests, Submit(r)
  PROVE  \A j \in Requests : Moves(j)
  <1> USE DEF rowVars, moneyVars
  <1>1. CASE \/ AdmitSubmit(r) \/ SkipCandidate(r) \/ CallVideoUpstream(r)
             \/ SubmitUnrecorded(r) \/ SubmitCrash(r)
    BY <1>1, RestsAll DEF AdmitSubmit, SkipCandidate, CallVideoUpstream, SubmitUnrecorded,
       SubmitCrash
  <1>2. CASE CreateVideoJobRow(r)
    <2>1. status' = status \/ \E q \in Requests : status' = [status EXCEPT ![q] = "queued"]
      BY <1>2 DEF CreateVideoJobRow, RowNames, InsertRow
    <2>2. \A j \in Requests : status'[j] \in Terminal => status[j] \in Terminal
      BY <2>1 DEF TypeOK, Terminal
    <2> QED
      BY <1>2, <2>2, RestsAll DEF CreateVideoJobRow
  <1>3. CASE RefuseSubmit(r)
    <2>1. CASE FailVideoJobTx(r)
      BY <1>3, <2>1, FailMoves DEF RefuseSubmit
    <2>2. CASE UNCHANGED <<status, due, settlement>>
      BY <1>3, <2>2, RestsAll DEF RefuseSubmit
    <2> QED
      BY <1>3, <2>1, <2>2 DEF RefuseSubmit
  <1>4. CASE MarkVideoJobSubmitted(r)
    <2>1. \A j \in Requests : status'[j] \in Terminal => status[j] \in Terminal
      BY <1>4 DEF MarkVideoJobSubmitted, TypeOK, Terminal
    <2> QED
      BY <1>4, <2>1, RestsAll DEF MarkVideoJobSubmitted
  <1> QED
    BY <1>1, <1>2, <1>3, <1>4 DEF Submit

\* A poll, short of terminateVideoJob, moves no money: it keeps or orphans a hold.
LEMMA PollMoves ==
  ASSUME TypeOK, NEW w \in Workers, NEW j \in Requests, Poll(w, j)
  PROVE  \A i \in Requests : Moves(i)
  <1> USE DEF rowVars, moneyVars
  <1>1. CASE \/ ClaimDueVideoJob(w, j) \/ PollUnroutable(w, j) \/ PollUnanswered(w, j)
             \/ PollNotFound(w, j) \/ PollRunning(w, j) \/ PollFinished(w, j)
             \/ CaptureVideoArtifact(w, j) \/ RecordVideoJobArtifact(w, j)
    <2>1. UNCHANGED <<status, settlement, charged, unsettled>>
      BY <1>1 DEF ClaimDueVideoJob, PollUnroutable, PollUnanswered, PollNotFound,
         PollRunning, PollFinished, CaptureVideoArtifact, RecordVideoJobArtifact
    <2> QED
      BY <2>1, RestsAll
  <1>2. CASE MarkVideoJobProgress(w, j)
    <2>1. \A i \in Requests : status'[i] \in Terminal => status[i] \in Terminal
      BY <1>2 DEF MarkVideoJobProgress, TypeOK, Active, Terminal
    <2> QED
      BY <1>2, <2>1, RestsAll DEF MarkVideoJobProgress
  <1>3. CASE KeepVideoHoldAlive(w, j)
    <2>1. CASE UNCHANGED settlement
      BY <1>3, <2>1, RestsAll DEF KeepVideoHoldAlive
    <2>2. ASSUME NEW kept \in HoldAnswers,
                 settlement' = [settlement EXCEPT ![j] =
                     IF status[j] \notin Present THEN @
                     ELSE IF kept THEN (IF @ = "held" THEN "protected" ELSE @)
                     ELSE (IF @ \in Unmoved THEN "orphaned" ELSE @)],
                 NEW i \in Requests
          PROVE  Rests(i) \/ Keeps(i)
      <3>1. CASE i = j
        BY <1>3, <2>2, <3>1 DEF KeepVideoHoldAlive, TypeOK, Rests, Keeps, Unmoved
      <3>2. CASE i # j
        BY <1>3, <2>2, <3>2 DEF KeepVideoHoldAlive, TypeOK, Rests
      <3> QED
        BY <3>1, <3>2
    <2> QED
      BY <1>3, <2>1, <2>2 DEF KeepVideoHoldAlive, Moves
  <1> QED
    BY <1>1, <1>2, <1>3 DEF Poll

\* Sweeps and callers move no money themselves: they hand the row to
\* terminateVideoJob and failVideoJob, or drop it.
LEMMA SweepMoves ==
  ASSUME TypeOK, NEW w \in Workers, NEW j \in Requests, Sweep(w, j) \/ Caller(w, j)
  PROVE  \A i \in Requests : Moves(i)
  <1> USE DEF rowVars, moneyVars
  <1>1. CASE \/ SweepUnsubmitted(w, j) \/ SweepStale(w, j) \/ SweepExpired(w, j)
             \/ UnlinkArtifact(w, j) \/ Caller(w, j)
    <2>1. UNCHANGED <<status, settlement, charged, unsettled>>
      BY <1>1 DEF SweepUnsubmitted, SweepStale, SweepExpired, UnlinkArtifact, Caller,
         CancelVideoJob, DeleteVideoJob
    <2> QED
      BY <2>1, RestsAll
  <1>2. CASE RetireVideoJob(w, j)
    <2>1. status' = status \/ status' = [status EXCEPT ![j] = "deleted"]
      BY <1>2 DEF RetireVideoJob
    <2>2. \A i \in Requests : status'[i] \in Terminal => status[i] \in Terminal
      BY <2>1 DEF TypeOK, Terminal
    <2> QED
      BY <1>2, <2>2, RestsAll DEF RetireVideoJob
  <1> QED
    BY <1>1, <1>2 DEF Sweep

\* terminateVideoJob settles, voids or queues, once, and failVideoJob voids.
LEMMA EndMoves ==
  ASSUME TypeOK, MoneyInv, NEW w \in Workers, NEW j \in Requests, End(w, j)
  PROVE  \A i \in Requests : Moves(i)
  <1> USE DEF rowVars, moneyVars
  <1>1. CASE FailVideoJob(w, j)
    BY <1>1, FailMoves DEF FailVideoJob
  <1>2. CASE TerminateVideoJob(w, j)
    <2>1. CASE ~TerminateTakes(w, j)
      BY <1>2, <2>1, RestsAll DEF TerminateVideoJob
    <2>2. CASE TerminateTakes(w, j) /\ work[w].to = "completed"
      <3> SUFFICES ASSUME NEW i \in Requests PROVE Rests(i) \/ Settles(i)
        BY DEF Moves
      <3>1. CASE i = j
        <4>1. settlement[j] \in Owing /\ settlement'[j] = "settled"
          BY <1>2, <2>2 DEF TerminateVideoJob, TerminateTakes, TypeOK
        <4>2. CASE work[w].seen = "orphaned"
          <5>1. charged'[j] = charged[j]
            BY <1>2, <2>2, <4>2 DEF TerminateVideoJob, Debits, TypeOK
          <5>2. \/ unsettled'[j]
                \/ unsettled'[j] = unsettled[j] /\ faults' > 0
            BY <1>2, <2>2, <4>2, FaultsAssumption DEF TerminateVideoJob, Fault, TypeOK
          <5> QED
            BY <3>1, <4>1, <5>1, <5>2 DEF Settles
        <4>3. CASE work[w].seen # "orphaned"
          <5>1. charged'[j] = charged[j] + 1
            BY <1>2, <2>2, <4>3 DEF TerminateVideoJob, Debits, TypeOK
          <5>2. unsettled'[j] = unsettled[j]
            BY <1>2, <2>2, <4>3 DEF TerminateVideoJob, TypeOK
          <5> QED
            BY <3>1, <4>1, <5>1, <5>2 DEF Settles
        <4> QED
          BY <4>2, <4>3
      <3>2. CASE i # j
        BY <1>2, <2>2, <3>2 DEF TerminateVideoJob, TypeOK, Rests
      <3> QED
        BY <3>1, <3>2
    <2>3. CASE TerminateTakes(w, j) /\ work[w].to # "completed"
      <3> SUFFICES ASSUME NEW i \in Requests PROVE Rests(i) \/ Voids(i)
        BY DEF Moves
      <3>1. CASE i = j
        BY <1>2, <2>3, <3>1 DEF TerminateVideoJob, Debits, TypeOK, Rests, Voids
      <3>2. CASE i # j
        BY <1>2, <2>3, <3>2 DEF TerminateVideoJob, TypeOK, Rests
      <3> QED
        BY <3>1, <3>2
    <2> QED
      BY <2>1, <2>2, <2>3
  <1>3. CASE TerminateRollsBack(w, j)
    <2>1. CASE UNCHANGED unsettled
      BY <1>3, <2>1, RestsAll DEF TerminateRollsBack
    <2>2. CASE /\ work[w].seen = "orphaned"
               /\ unsettled' = [unsettled EXCEPT ![j] = TRUE]
      <3> SUFFICES ASSUME NEW i \in Requests PROVE Rests(i) \/ Queues(i)
        BY DEF Moves
      <3>1. settlement[j] \in Owed
        BY <1>3, <2>2 DEF TerminateRollsBack, At, MoneyInv, CopyFaithful
      <3>2. CASE i = j
        BY <1>3, <2>2, <3>1, <3>2 DEF TerminateRollsBack, TypeOK, Queues
      <3>3. CASE i # j
        BY <1>3, <2>2, <3>3 DEF TerminateRollsBack, TypeOK, Rests
      <3> QED
        BY <3>2, <3>3
    <2> QED
      BY <1>3, <2>1, <2>2 DEF TerminateRollsBack
  <1> QED
    BY <1>1, <1>2, <1>3 DEF End

\* Neither time nor the upstream moves money.
LEMMA EnvironmentMoves ==
  ASSUME NEW j \in Requests, Environment(j) \/ \E w \in Workers : WorkerFails(w)
  PROVE  \A i \in Requests : Moves(i)
  <1>1. UNCHANGED <<status, settlement, charged, unsettled>>
    BY DEF Environment, PollFallsDue, FilmEnds, DeadlinePasses, WorkerFails, rowVars,
       moneyVars
  <1> QED
    BY <1>1, RestsAll

\* Every step does to every job's money one of the five things Moves lists.
LEMMA NextMoves ==
  ASSUME TypeOK, MoneyInv, Next
  PROVE  \A j \in Requests : Moves(j)
  BY SubmitMoves, PollMoves, SweepMoves, EndMoves, EnvironmentMoves DEF Next

\* Faults are counted, never forgotten.
LEMMA FaultsGrow ==
  ASSUME TypeOK, Next
  PROVE  faults' >= faults
  <1> faults \in Nat
    BY FaultsAssumption DEF TypeOK
  <1>1. Fault => faults' >= faults
    BY DEF Fault
  <1>2. UNCHANGED faults => faults' >= faults
    OBVIOUS
  <1>3. ASSUME NEW r \in Requests, Submit(r) \/ Environment(r)
        PROVE  Fault \/ UNCHANGED faults
    BY <1>3 DEF Submit, AdmitSubmit, SkipCandidate, CreateVideoJobRow, CallVideoUpstream,
       RefuseSubmit, MarkVideoJobSubmitted, SubmitUnrecorded, SubmitCrash,
       Environment, PollFallsDue, FilmEnds, DeadlinePasses
  <1>4. ASSUME NEW w \in Workers, NEW j \in Requests, Poll(w, j)
        PROVE  Fault \/ UNCHANGED faults
    BY <1>4 DEF Poll, ClaimDueVideoJob, PollUnroutable, PollUnanswered, PollNotFound,
       PollRunning, PollFinished, KeepVideoHoldAlive, MarkVideoJobProgress,
       CaptureVideoArtifact, RecordVideoJobArtifact
  <1>5. ASSUME NEW w \in Workers, NEW j \in Requests, Sweep(w, j) \/ Caller(w, j)
        PROVE  UNCHANGED faults
    BY <1>5 DEF Sweep, SweepUnsubmitted, SweepStale, SweepExpired, UnlinkArtifact,
       RetireVideoJob, Caller, CancelVideoJob, DeleteVideoJob
  <1>6. ASSUME NEW w \in Workers, NEW j \in Requests, End(w, j)
        PROVE  Fault \/ UNCHANGED faults
    BY <1>6 DEF End, TerminateVideoJob, TerminateRollsBack, FailVideoJob
  <1>7. ASSUME NEW w \in Workers, WorkerFails(w) PROVE Fault
    BY <1>7 DEF WorkerFails
  <1> QED
    BY <1>1, <1>2, <1>3, <1>4, <1>5, <1>6, <1>7 DEF Next

\* No job, no money.
LEMMA MoneyInit == Init => MoneyInv
  BY DEF Init, Idle, MoneyInv, TerminalMoneyMoved, SettlementTruthful, OneDebit,
     UnsettledOwed, CopyFaithful, Terminal

\* The money invariant is inductive.
LEMMA MoneyStep == TypeOK /\ MoneyInv /\ [Next]_vars => MoneyInv'
  <1> SUFFICES ASSUME TypeOK, MoneyInv, [Next]_vars PROVE MoneyInv'
    OBVIOUS
  <1>1. CASE Next
    <2>1. faults' >= faults /\ faults' \in Nat
      BY <1>1, FaultsGrow, TypeStep, FaultsAssumption DEF TypeOK
    <2> QED
      BY <1>1, <2>1, NextMoves, CopyNext, MovesKeepMoney
  <1>2. CASE UNCHANGED vars
    BY <1>2 DEF vars, rowVars, moneyVars, MoneyInv, TerminalMoneyMoved,
       SettlementTruthful, OneDebit, UnsettledOwed, CopyFaithful
  <1> QED
    BY <1>1, <1>2

\* The inductive invariant holds in every reachable state.
THEOREM MoneyInvariant == Spec => [](TypeOK /\ MoneyInv)
  <1>1. Init => TypeOK /\ MoneyInv
    BY TypeInit, MoneyInit
  <1>2. TypeOK /\ MoneyInv /\ [Next]_vars => (TypeOK /\ MoneyInv)'
    BY TypeStep, MoneyStep
  <1> QED
    BY <1>1, <1>2, PTL DEF Spec

\* terminateVideoJob, failVideoJob and the sweeps never leave a job that is
\* over with its money still on hold, however their transactions interleave.
THEOREM MoneyMovedOnEveryEnd == Spec => []TerminalMoneyMoved
  <1>1. TypeOK /\ MoneyInv => TerminalMoneyMoved
    BY DEF MoneyInv
  <1> QED
    BY <1>1, MoneyInvariant, PTL

\* The settlement column agrees with the debits and the unsettled queue.
THEOREM SettlementIsTruthful == Spec => []SettlementTruthful
  <1>1. TypeOK /\ MoneyInv => SettlementTruthful
    BY DEF MoneyInv
  <1> QED
    BY <1>1, MoneyInvariant, PTL

\* Any number of pollers with stale copies debit a job at most once.
THEOREM DebitedAtMostOnce == Spec => []OneDebit
  <1>1. TypeOK /\ MoneyInv => OneDebit
    BY DEF MoneyInv
  <1> QED
    BY <1>1, MoneyInvariant, PTL

\* Settled and voided are final: no statement of the video plane revises them.
THEOREM SettledAndVoidedAreFinal == Spec => MoneyFinal
  <1>1. TypeOK /\ MoneyInv /\ [Next]_vars =>
           [\A j \in Requests : settlement[j] \in {"settled", "voided"} =>
               settlement'[j] = settlement[j]]_vars
    <2> SUFFICES ASSUME TypeOK, MoneyInv, Next, NEW j \in Requests,
                        settlement[j] \in {"settled", "voided"}
                 PROVE  settlement'[j] = settlement[j]
      OBVIOUS
    <2>1. Moves(j)
      BY NextMoves
    <2> QED
      BY <2>1 DEF Moves, Rests, Voids, Settles, Keeps, Queues, Unmoved, Owing
  <1> QED
    BY <1>1, MoneyInvariant, PTL DEF Spec, MoneyFinal

------------------------------------------------------------------------------
(* The books: doubled and lost charges against faults. *)

\* The jobs whose debits and queued charges are not what their rows say.
BooksOff == {j \in Requests : Taken(j) # Recorded(j)}

\* A step that moves no money and settles nothing leaves the books of j alone.
LEMMA BooksRest ==
  ASSUME NEW j \in Requests, charged'[j] = charged[j], unsettled'[j] = unsettled[j],
         settlement'[j] = "settled" <=> settlement[j] = "settled"
  PROVE  (Taken(j) # Recorded(j))' <=> Taken(j) # Recorded(j)
  BY DEF Taken, Recorded

\* Only terminateVideoJob touches the books: a submit, a poll, a sweep, a caller
\* and the environment leave every job's debits, queued charges and settledness.
LEMMA OthersLeaveBooks ==
  ASSUME TypeOK, Next, ~ \E w \in Workers, j \in Requests : End(w, j)
  PROVE  BooksOff' \subseteq BooksOff
  <1> USE DEF rowVars, moneyVars
  <1>1. UNCHANGED <<charged, unsettled>>
    <2>1. ASSUME NEW r \in Requests, Submit(r) \/ Environment(r)
          PROVE  UNCHANGED <<charged, unsettled>>
      BY <2>1 DEF Submit, AdmitSubmit, SkipCandidate, CreateVideoJobRow, CallVideoUpstream,
         RefuseSubmit, MarkVideoJobSubmitted, SubmitUnrecorded, SubmitCrash,
         Environment, PollFallsDue, FilmEnds, DeadlinePasses
    <2>2. ASSUME NEW w \in Workers, NEW j \in Requests, Poll(w, j)
          PROVE  UNCHANGED <<charged, unsettled>>
      BY <2>2 DEF Poll, ClaimDueVideoJob, PollUnroutable, PollUnanswered, PollNotFound,
         PollRunning, PollFinished, KeepVideoHoldAlive, MarkVideoJobProgress,
         CaptureVideoArtifact, RecordVideoJobArtifact
    <2>3. ASSUME NEW w \in Workers, NEW j \in Requests, Sweep(w, j) \/ Caller(w, j)
          PROVE  UNCHANGED <<charged, unsettled>>
      BY <2>3 DEF Sweep, SweepUnsubmitted, SweepStale, SweepExpired, UnlinkArtifact,
         RetireVideoJob, Caller, CancelVideoJob, DeleteVideoJob
    <2>4. ASSUME NEW w \in Workers, WorkerFails(w)
          PROVE  UNCHANGED <<charged, unsettled>>
      BY <2>4 DEF WorkerFails
    <2> QED
      BY <2>1, <2>2, <2>3, <2>4 DEF Next
  <1>2. ASSUME NEW j \in Requests
        PROVE  settlement'[j] = "settled" <=> settlement[j] = "settled"
    <2>1. ASSUME NEW r \in Requests, Submit(r) \/ Environment(r)
          PROVE  UNCHANGED settlement \/ FailVideoJobTx(r)
      BY <2>1 DEF Submit, AdmitSubmit, SkipCandidate, CreateVideoJobRow, CallVideoUpstream,
         RefuseSubmit, MarkVideoJobSubmitted, SubmitUnrecorded, SubmitCrash,
         Environment, PollFallsDue, FilmEnds, DeadlinePasses
    <2>2. ASSUME NEW r \in Requests, FailVideoJobTx(r)
          PROVE  settlement'[j] = "settled" <=> settlement[j] = "settled"
      BY <2>2 DEF FailVideoJobTx, TypeOK, Unmoved
    <2>3. ASSUME NEW w \in Workers, NEW i \in Requests, Poll(w, i)
          PROVE  UNCHANGED settlement \/ KeepVideoHoldAlive(w, i)
      BY <2>3 DEF Poll, ClaimDueVideoJob, PollUnroutable, PollUnanswered, PollNotFound,
         PollRunning, PollFinished, MarkVideoJobProgress, CaptureVideoArtifact,
         RecordVideoJobArtifact
    <2>4. ASSUME NEW w \in Workers, NEW i \in Requests, KeepVideoHoldAlive(w, i)
          PROVE  settlement'[j] = "settled" <=> settlement[j] = "settled"
      BY <2>4 DEF KeepVideoHoldAlive, TypeOK, Unmoved
    <2>5. ASSUME NEW w \in Workers, NEW i \in Requests, Sweep(w, i) \/ Caller(w, i)
          PROVE  UNCHANGED settlement
      BY <2>5 DEF Sweep, SweepUnsubmitted, SweepStale, SweepExpired, UnlinkArtifact,
         RetireVideoJob, Caller, CancelVideoJob, DeleteVideoJob
    <2>6. ASSUME NEW w \in Workers, WorkerFails(w)
          PROVE  UNCHANGED settlement
      BY <2>6 DEF WorkerFails
    <2> QED
      BY <2>1, <2>2, <2>3, <2>4, <2>5, <2>6 DEF Next
  <1> QED
    BY <1>1, <1>2, BooksRest DEF BooksOff

\* terminateVideoJob touches the books of one job, and puts them out of balance
\* only where it also fails.
LEMMA EndBooks ==
  ASSUME TypeOK, MoneyInv, NEW w \in Workers, NEW j \in Requests, End(w, j)
  PROVE  \/ BooksOff' \subseteq BooksOff
         \/ BooksOff' \subseteq BooksOff \cup {j} /\ faults' = faults + 1
  <1> USE DEF rowVars, moneyVars
  <1>1. \A i \in Requests \ {j} : (Taken(i) # Recorded(i))' <=> Taken(i) # Recorded(i)
    <2> SUFFICES ASSUME NEW i \in Requests, i # j
                 PROVE  /\ charged'[i] = charged[i] /\ unsettled'[i] = unsettled[i]
                        /\ settlement'[i] = settlement[i]
      BY BooksRest
    <2>1. CASE TerminateVideoJob(w, j)
      BY <2>1 DEF TerminateVideoJob, TypeOK
    <2>2. CASE TerminateRollsBack(w, j)
      BY <2>2 DEF TerminateRollsBack, TypeOK
    <2>3. CASE FailVideoJob(w, j)
      BY <2>3 DEF FailVideoJob, FailVideoJobTx, TypeOK
    <2> QED
      BY <2>1, <2>2, <2>3 DEF End
  <1>2. BooksOff' \subseteq BooksOff \cup {j}
    BY <1>1 DEF BooksOff
  <1>3. CASE faults' = faults + 1
    BY <1>2, <1>3
  <1>4. CASE faults' # faults + 1
    <2>1. (Taken(j) # Recorded(j))' => Taken(j) # Recorded(j)
      <3>1. CASE FailVideoJob(w, j)
        BY <3>1, BooksRest DEF FailVideoJob, FailVideoJobTx, TypeOK, Unmoved
      <3>2. CASE TerminateRollsBack(w, j)
        BY <1>4, <3>2 DEF TerminateRollsBack, Fault
      <3>3. CASE TerminateVideoJob(w, j)
        <4>1. CASE ~TerminateTakes(w, j)
          BY <3>3, <4>1, BooksRest DEF TerminateVideoJob
        <4>2. CASE TerminateTakes(w, j) /\ work[w].to # "completed"
          BY <3>3, <4>2, BooksRest DEF TerminateVideoJob, Debits, TypeOK, Unmoved
        <4>3. CASE TerminateTakes(w, j) /\ work[w].to = "completed"
          <5>1. /\ settlement[j] \in Owing /\ settlement'[j] = "settled"
                /\ charged[j] \in Nat
            BY <3>3, <4>3 DEF TerminateVideoJob, TerminateTakes, TypeOK
          <5>2. charged[j] = 0
            BY <5>1 DEF MoneyInv, SettlementTruthful, Owing, Unmoved
          <5>3. CASE work[w].seen = "orphaned"
            <6>1. charged'[j] = 0 /\ unsettled'[j]
              BY <1>4, <3>3, <4>3, <5>2, <5>3 DEF TerminateVideoJob, Debits, Fault, TypeOK
            <6> QED
              BY <5>1, <6>1 DEF Taken, Recorded
          <5>4. CASE work[w].seen # "orphaned"
            <6>1. charged'[j] = 1 /\ unsettled'[j] = unsettled[j]
              BY <3>3, <4>3, <5>2, <5>4 DEF TerminateVideoJob, Debits, TypeOK
            <6> QED
              BY <5>1, <5>2, <6>1 DEF Taken, Recorded, Owing, Unmoved
          <5> QED
            BY <5>3, <5>4
        <4> QED
          BY <4>1, <4>2, <4>3
      <3> QED
        BY <3>1, <3>2, <3>3 DEF End
    <2> QED
      BY <1>2, <2>1 DEF BooksOff
  <1> QED
    BY <1>3, <1>4

\* Each fault of terminateVideoJob, and nothing else, may put the books of one
\* job out of balance: over any history, any number of racing workers and any
\* settler, doubled and lost video charges together never outnumber the faults.
THEOREM BooksNeedFaults == Spec => []BooksOffCostFaults
  <1> USE RequestsAssumption
  <1>1. Init => BooksOffCostFaults
    <2> SUFFICES ASSUME Init PROVE BooksOff = {}
      BY FS_EmptySet DEF BooksOffCostFaults, BooksOff, Init
    <2> QED
      BY DEF BooksOff, Init, Taken, Recorded
  <1>2. TypeOK /\ MoneyInv /\ BooksOffCostFaults /\ [Next]_vars => BooksOffCostFaults'
    <2> SUFFICES ASSUME TypeOK, MoneyInv, BooksOffCostFaults, [Next]_vars
                 PROVE  Cardinality(BooksOff') <= faults'
      BY DEF BooksOffCostFaults, BooksOff
    <2>1. IsFiniteSet(BooksOff) /\ Cardinality(BooksOff) \in Nat
      BY FS_Subset, FS_CardinalityType DEF BooksOff
    <2>2. Cardinality(BooksOff) <= faults /\ faults \in Nat
      BY FaultsAssumption DEF BooksOffCostFaults, BooksOff, TypeOK
    <2>3. ASSUME BooksOff' \subseteq BooksOff, faults' >= faults, faults' \in Nat
          PROVE  Cardinality(BooksOff') <= faults'
      <3>1. Cardinality(BooksOff') <= Cardinality(BooksOff) /\ Cardinality(BooksOff') \in Nat
        BY <2>1, <2>3, FS_Subset, FS_CardinalityType
      <3> QED
        BY <2>1, <2>2, <2>3, <3>1
    <2>4. CASE Next
      <3>1. faults' >= faults /\ faults' \in Nat
        BY <2>4, FaultsGrow, TypeStep, FaultsAssumption DEF TypeOK
      <3>2. CASE ~ \E w \in Workers, j \in Requests : End(w, j)
        BY <2>3, <2>4, <3>1, <3>2, OthersLeaveBooks
      <3>3. ASSUME NEW w \in Workers, NEW j \in Requests, End(w, j)
            PROVE  Cardinality(BooksOff') <= faults'
        <4>1. CASE BooksOff' \subseteq BooksOff
          BY <2>3, <3>1, <4>1
        <4>2. CASE BooksOff' \subseteq BooksOff \cup {j} /\ faults' = faults + 1
          <5>1. /\ IsFiniteSet(BooksOff \cup {j})
                /\ Cardinality(BooksOff \cup {j}) <= Cardinality(BooksOff) + 1
                /\ Cardinality(BooksOff \cup {j}) \in Nat
            <6>1. /\ IsFiniteSet(BooksOff \cup {j})
                  /\ Cardinality(BooksOff \cup {j}) =
                        IF j \in BooksOff THEN Cardinality(BooksOff)
                                         ELSE Cardinality(BooksOff) + 1
              BY <2>1, FS_AddElement
            <6> QED
              BY <2>1, <6>1
          <5>2. /\ Cardinality(BooksOff') <= Cardinality(BooksOff \cup {j})
                /\ Cardinality(BooksOff') \in Nat
            BY <4>2, <5>1, FS_Subset, FS_CardinalityType
          <5> QED
            BY <2>1, <2>2, <4>2, <5>1, <5>2
        <4> QED
          BY <3>3, <4>1, <4>2, EndBooks
      <3> QED
        BY <3>2, <3>3
    <2>5. CASE UNCHANGED vars
      <3>1. BooksOff' = BooksOff /\ faults' = faults
        BY <2>5 DEF BooksOff, Taken, Recorded, vars, rowVars, moneyVars
      <3> QED
        BY <2>2, <3>1
    <2> QED
      BY <2>4, <2>5
  <1> QED
    BY <1>1, <1>2, MoneyInvariant, PTL DEF Spec

====
