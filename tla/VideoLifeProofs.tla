--------------------------- MODULE VideoLifeProofs ---------------------------
(***************************************************************************)
(* The life of a job's row next to that of its film: nobody pays for a     *)
(* clip the upstream did not finish, and no row is dropped while it owes,  *)
(* although a drop is decided on a copy and a late submit may bring the    *)
(* job back in between.                                                    *)
(***************************************************************************)
EXTENDS VideoJobsProofs

------------------------------------------------------------------------------
(* The inductive invariant *)

Dropping == {"unlink", "retire"}

\* What may be dropped: a job whose money has moved, and a running one only if
\* its hold was voided.
Droppable(j) ==
    /\ settlement[j] \notin Unmoved
    /\ status[j] \in Active => settlement[j] = "voided"

\* A submit has its row before its film, calls the upstream with no film behind
\* it, and its row learns the upstream's id when it has answered.
RowBeforeFilm ==
    \A r \in Requests :
        /\ status[r] = "none" => film[r] = "none"
        /\ step[r] = "calling" => film[r] = "none" /\ status[r] # "none"
        /\ step[r] = "new" => status[r] = "none"
        /\ upstreamID[r] => step[r] = "submitted"

\* A hold is kept, orphaned or settled only after the row has the upstream's id:
\* before that it is held or voided.
IDBeforeMoney ==
    \A j \in Requests : settlement[j] \notin {"held", "voided"} => upstreamID[j]

\* A worker that means to complete a job has seen its film finished, with the id
\* its row has.
CompletionSeen ==
    \A w \in Workers, j \in Requests : work[w].job = j =>
        /\ work[w].to = "completed" => film[j] = "done"
        /\ work[w].addressed => upstreamID[j]

\* A worker at the transaction of terminateVideoJob has a status to write, and
\* one that keeps a hold or completes a job has the upstream's id.
VerdictReached ==
    \A w \in Workers :
        /\ work[w].step = "terminate" => work[w].to # "none"
        /\ work[w].step = "keep" \/ work[w].to = "completed" => work[w].addressed

\* What the copy of a worker that drops a row allowed is still allowed.
DropStillAllowed ==
    \A w \in Workers, j \in Requests :
        work[w].job = j /\ work[w].step \in Dropping /\ ~work[w].refused =>
            status[j] = "deleted" \/ (status[j] # "none" /\ Droppable(j))

LifeInv == RowBeforeFilm /\ IDBeforeMoney /\ CompletionSeen /\ VerdictReached
           /\ DropStillAllowed /\ NoFilmNoCharge

\* What one step may do to the life of job j: a call starts only where there was
\* no row, a film changes by the call or while it runs, a row does not come back,
\* a job that is over runs again only by the call that its row has no id of yet.
Advances(j) ==
    /\ step[j] = "submitted" => step'[j] = "submitted"
    /\ step'[j] = "new" => step[j] = "new" /\ status'[j] = status[j]
    /\ step'[j] = "calling" =>
          /\ film'[j] = film[j] /\ status'[j] # "none"
          /\ step[j] = "calling" \/ status[j] = "none"
    /\ film'[j] = film[j] \/ film[j] = "running" \/ step[j] = "calling"
    /\ status'[j] = "none" => status[j] = "none"
    /\ status[j] = "deleted" => status'[j] = "deleted"
    /\ upstreamID[j] => upstreamID'[j]
    /\ upstreamID'[j] => upstreamID[j] \/ step'[j] = "submitted"
    /\ status'[j] \in Active =>
          status[j] \in Active \cup {"none"} \/ (step[j] = "accepted" /\ settlement'[j] = settlement[j])

\* What one step may do to the charge of job j: for a finished film only, and to
\* its hold short of a void, with the upstream's id only.
ChargesFilm(j) ==
    /\ charged'[j] > 0 \/ unsettled'[j] => charged[j] > 0 \/ unsettled[j] \/ film[j] = "done"
    /\ settlement'[j] = settlement[j] \/ settlement'[j] = "voided" \/ upstreamID[j]

\* What worker w carries over a step: the intention it had, or one that the row
\* and the film have just borne out.
Carries(w) ==
    /\ work'[w].step = "terminate" /\ work'[w].to = "none" =>
          work[w].step = "terminate" /\ work[w].to = "none"
    /\ work'[w].step = "keep" \/ work'[w].to = "completed" =>
          \/ work'[w].addressed
          \/ /\ work'[w].addressed = work[w].addressed
             /\ work[w].step = "keep" \/ work[w].to = "completed"
    /\ \A j \in Requests : work'[w].job = j =>
        /\ work'[w].to = "completed" =>
              \/ work[w].job = j /\ work[w].to = "completed"
              \/ film[j] = "done"
        /\ work'[w].addressed => upstreamID[j] \/ (work[w].job = j /\ work[w].addressed)
        /\ work'[w].step \in Dropping /\ ~work'[w].refused =>
              \/ work[w].job = j /\ work[w].step \in Dropping /\ ~work[w].refused
              \/ status[j] \in Terminal /\ settlement[j] \notin Unmoved

\* The argument in one place: whatever advances that way keeps LifeInv.
LEMMA AdvancesKeepLife ==
  ASSUME TypeOK, TypeOK', LifeInv,
         \A j \in Requests : Advances(j) /\ ChargesFilm(j) /\ Moves(j),
         \A w \in Workers : Carries(w)
  PROVE  LifeInv'
  <1>1. \A j \in Requests : film[j] = "done" => film'[j] = "done"
    BY DEF Advances, LifeInv, RowBeforeFilm
  <1>2. NoFilmNoCharge'
    BY <1>1 DEF ChargesFilm, LifeInv, NoFilmNoCharge
  <1>3. RowBeforeFilm'
    <2> SUFFICES ASSUME NEW r \in Requests
                 PROVE  /\ status'[r] = "none" => film'[r] = "none"
                        /\ step'[r] = "calling" => film'[r] = "none" /\ status'[r] # "none"
                        /\ step'[r] = "new" => status'[r] = "none"
                        /\ upstreamID'[r] => step'[r] = "submitted"
      BY DEF RowBeforeFilm
    <2>1. Advances(r)
      OBVIOUS
    <2>2. /\ status[r] = "none" => film[r] = "none"
          /\ step[r] = "calling" => film[r] = "none" /\ status[r] # "none"
          /\ step[r] = "new" => status[r] = "none"
          /\ upstreamID[r] => step[r] = "submitted"
      BY DEF LifeInv, RowBeforeFilm
    <2> QED
      BY <2>1, <2>2 DEF Advances
  <1>4. IDBeforeMoney'
    BY DEF Advances, ChargesFilm, LifeInv, IDBeforeMoney
  <1>5. CompletionSeen'
    BY <1>1 DEF Carries, Advances, LifeInv, CompletionSeen
  <1>6. VerdictReached'
    BY DEF Carries, LifeInv, VerdictReached
  <1>7. ASSUME NEW j \in Requests,
               status[j] = "deleted" \/ (status[j] # "none" /\ Droppable(j))
        PROVE  status'[j] = "deleted" \/ (status'[j] # "none" /\ Droppable(j)')
    <2>1. Advances(j) /\ Moves(j)
      OBVIOUS
    <2>2. CASE status[j] = "deleted"
      BY <2>1, <2>2 DEF Advances
    <2>3. CASE status[j] # "none" /\ Droppable(j)
      <3>1. status'[j] # "none"
        BY <2>1, <2>3 DEF Advances
      <3>2. settlement'[j] \notin Unmoved /\ (settlement[j] = "voided" => settlement'[j] = "voided")
        BY <2>1, <2>3 DEF Droppable, Moves, Rests, Voids, Settles, Keeps, Queues, Unmoved, Owing
      <3>3. ASSUME status'[j] \in Active, status[j] \notin Active
            PROVE  settlement'[j] = "voided"
        <4>1. step[j] = "accepted" /\ settlement'[j] = settlement[j]
          BY <2>1, <2>3, <3>3 DEF Advances
        <4>2. settlement[j] \in {"held", "voided"}
          BY <4>1 DEF LifeInv, RowBeforeFilm, IDBeforeMoney
        <4> QED
          BY <2>3, <4>1, <4>2 DEF Droppable, Unmoved
      <3> QED
        BY <2>3, <3>1, <3>2, <3>3 DEF Droppable
    <2> QED
      BY <1>7, <2>2, <2>3
  <1>8. \A j \in Requests : status[j] \in Terminal /\ settlement[j] \notin Unmoved =>
           status[j] # "none" /\ Droppable(j)
    BY DEF Droppable, Terminal, Active
  <1>9. DropStillAllowed'
    <2> SUFFICES ASSUME NEW w \in Workers, NEW j \in Requests, work'[w].job = j,
                        work'[w].step \in Dropping, ~work'[w].refused
                 PROVE  status'[j] = "deleted" \/ (status'[j] # "none" /\ Droppable(j)')
      BY DEF DropStillAllowed, Droppable
    <2>1. status[j] = "deleted" \/ (status[j] # "none" /\ Droppable(j))
      BY <1>8 DEF Carries, LifeInv, DropStillAllowed
    <2> QED
      BY <1>7, <2>1
  <1> QED
    BY <1>2, <1>3, <1>4, <1>5, <1>6, <1>9 DEF LifeInv

------------------------------------------------------------------------------
(* What each step does to the rows and the films *)

\* A job of which nothing changes advances.
LEMMA StillAdvances ==
  ASSUME TypeOK, LifeInv, NEW j \in Requests,
         step'[j] = step[j], film'[j] = film[j], status'[j] = status[j],
         upstreamID'[j] = upstreamID[j]
  PROVE  Advances(j)
  BY DEF Advances, LifeInv, RowBeforeFilm

\* createVideoJobRow: a row appears where there was none, or none appears.
LEMMA CreateAdvances ==
  ASSUME TypeOK, LifeInv, NEW r \in Requests, CreateVideoJobRow(r), NEW j \in Requests
  PROVE  Advances(j)
  <1>1. film' = film /\ upstreamID' = upstreamID /\ step[r] = "route"
    BY DEF CreateVideoJobRow
  <1>2. CASE KeyTaken
    <2>1. step' = [step EXCEPT ![r] = "existing"] /\ status' = status
      BY <1>2 DEF CreateVideoJobRow
    <2>2. CASE j = r
      BY <1>1, <2>1, <2>2 DEF Advances, TypeOK
    <2>3. CASE j # r
      BY <1>1, <2>1, <2>3, StillAdvances DEF TypeOK
    <2> QED
      BY <2>2, <2>3
  <1>3. CASE ~KeyTaken
    <2>1. PICK q \in RowNames(r) : InsertRow(r, q)
      BY <1>3 DEF CreateVideoJobRow
    <2>2. q \in Requests /\ status[q] = "none" /\ step[q] # "submitted"
      BY <1>1, <2>1 DEF RowNames, LifeInv, RowBeforeFilm
    <2>3. /\ step' = [step EXCEPT ![r] = "moved", ![q] = "calling"]
          /\ status' = [status EXCEPT ![q] = "queued"]
      BY <2>1 DEF InsertRow
    <2>4. CASE j = q
      <3>1. step'[j] = "calling" /\ status'[j] = "queued"
        BY <2>2, <2>3, <2>4 DEF TypeOK
      <3>2. ~upstreamID[j]
        BY <2>2, <2>4 DEF LifeInv, RowBeforeFilm
      <3> QED
        BY <1>1, <2>2, <2>4, <3>1, <3>2 DEF Advances
    <2>5. CASE j # q /\ j = r
      <3>1. step'[j] = "moved" /\ status'[j] = status[j]
        BY <2>2, <2>3, <2>5 DEF TypeOK
      <3> QED
        BY <1>1, <2>5, <3>1 DEF Advances
    <2>6. CASE j # q /\ j # r
      <3>1. step'[j] = step[j] /\ status'[j] = status[j]
        BY <2>2, <2>3, <2>6 DEF TypeOK
      <3> QED
        BY <1>1, <3>1, StillAdvances
    <2> QED
      BY <2>4, <2>5, <2>6
  <1> QED
    BY <1>2, <1>3

\* submitVideoJob: the row first, then the call, then the answer.
LEMMA SubmitAdvances ==
  ASSUME TypeOK, LifeInv, NEW r \in Requests, Submit(r), NEW j \in Requests
  PROVE  Advances(j)
  <1> USE DEF rowVars, moneyVars
  <1>1. CASE j # r /\ ~CreateVideoJobRow(r)
    <2>1. /\ step'[j] = step[j] /\ film'[j] = film[j] /\ status'[j] = status[j]
          /\ upstreamID'[j] = upstreamID[j]
      <3>1. CASE AdmitSubmit(r) \/ SkipCandidate(r) \/ SubmitUnrecorded(r) \/ SubmitCrash(r)
        BY <1>1, <3>1 DEF AdmitSubmit, SkipCandidate, SubmitUnrecorded, SubmitCrash, TypeOK
      <3>3. CASE CallVideoUpstream(r)
        BY <1>1, <3>3 DEF CallVideoUpstream, TypeOK
      <3>4. CASE RefuseSubmit(r)
        BY <1>1, <3>4 DEF RefuseSubmit, FailVideoJobTx, TypeOK
      <3>5. CASE MarkVideoJobSubmitted(r)
        BY <1>1, <3>5 DEF MarkVideoJobSubmitted, TypeOK
      <3> QED
        BY <1>1, <3>1, <3>3, <3>4, <3>5 DEF Submit
    <2> QED
      BY <2>1, StillAdvances
  <1>2. CASE j = r
    <2> USE <1>2 DEF Advances, TypeOK
    <2>1. CASE AdmitSubmit(r)
      BY <2>1 DEF AdmitSubmit
    <2>2. CASE SkipCandidate(r)
      BY <2>2 DEF SkipCandidate
    <2>4. CASE CallVideoUpstream(r)
      <3>1. step[r] = "calling" /\ step'[r] \in {"accepted", "refused", "hopeless"}
        BY <2>4 DEF CallVideoUpstream
      <3> QED
        BY <2>4, <3>1 DEF CallVideoUpstream
    <2>5. CASE RefuseSubmit(r)
      <3>1. step[r] \in {"refused", "hopeless", "unrecorded"} /\ step'[r] \in {"route", "failed"}
        BY <2>5 DEF RefuseSubmit, AfterRefusal
      <3>2. film' = film /\ upstreamID' = upstreamID
        BY <2>5 DEF RefuseSubmit
      <3>3. status'[r] = status[r] \/ (status[r] \in Active /\ status'[r] = "failed")
        BY <2>5 DEF RefuseSubmit, FailVideoJobTx
      <3> QED
        BY <3>1, <3>2, <3>3 DEF Active
    <2>6. CASE MarkVideoJobSubmitted(r)
      <3>1. /\ step[r] = "accepted" /\ step'[r] = "submitted" /\ film' = film
            /\ settlement' = settlement /\ (upstreamID[r] => upstreamID'[r])
        BY <2>6 DEF MarkVideoJobSubmitted
      <3>2. status'[r] = status[r] \/ (status[r] \in Present /\ status'[r] = "in_progress")
        BY <2>6 DEF MarkVideoJobSubmitted
      <3> QED
        BY <3>1, <3>2 DEF Present, Active, Terminal
    <2>7. CASE SubmitUnrecorded(r)
      BY <2>7 DEF SubmitUnrecorded
    <2>8. CASE SubmitCrash(r)
      BY <2>8 DEF SubmitCrash, Finished
    <2> QED
      BY <2>1, <2>2, <2>4, <2>5, <2>6, <2>7, <2>8, CreateAdvances DEF Submit
  <1> QED
    BY <1>1, <1>2, CreateAdvances

\* A poll neither ends a job nor touches its film: at most it marks progress.
LEMMA PollAdvances ==
  ASSUME TypeOK, LifeInv, NEW w \in Workers, NEW i \in Requests, Poll(w, i),
         NEW j \in Requests
  PROVE  Advances(j)
  <1> USE DEF rowVars, moneyVars
  <1>1. step' = step /\ film' = film /\ upstreamID' = upstreamID
    BY DEF Poll, ClaimDueVideoJob, PollUnroutable, PollUnanswered, PollNotFound,
       PollRunning, PollFinished, KeepVideoHoldAlive, MarkVideoJobProgress,
       CaptureVideoArtifact, RecordVideoJobArtifact
  <1>2. status' = status \/ MarkVideoJobProgress(w, i)
    BY DEF Poll, ClaimDueVideoJob, PollUnroutable, PollUnanswered, PollNotFound,
       PollRunning, PollFinished, KeepVideoHoldAlive, CaptureVideoArtifact,
       RecordVideoJobArtifact
  <1>3. CASE status'[j] = status[j]
    BY <1>1, <1>3, StillAdvances
  <1>4. CASE status'[j] # status[j]
    <2>1. status[j] \in Active /\ status'[j] \in Active
      BY <1>2, <1>4 DEF MarkVideoJobProgress, TypeOK
    <2> QED
      BY <1>1, <2>1 DEF Advances, Active, LifeInv, RowBeforeFilm
  <1> QED
    BY <1>3, <1>4

\* Sweeps and callers only take rows up; Cancel stops a running film, and a row
\* that is dropped stays so.
LEMMA SweepAdvances ==
  ASSUME TypeOK, LifeInv, NEW w \in Workers, NEW i \in Requests,
         Sweep(w, i) \/ Caller(w, i), NEW j \in Requests
  PROVE  Advances(j)
  <1> USE DEF rowVars, moneyVars
  <1>1. CASE \/ SweepUnsubmitted(w, i) \/ SweepStale(w, i) \/ SweepExpired(w, i)
             \/ UnlinkArtifact(w, i) \/ DeleteVideoJob(w, i)
    <2>1. step' = step /\ film' = film /\ upstreamID' = upstreamID /\ status' = status
      BY <1>1 DEF SweepUnsubmitted, SweepStale, SweepExpired, UnlinkArtifact, DeleteVideoJob
    <2> QED
      BY <2>1, StillAdvances
  <1>2. CASE CancelVideoJob(w, i)
    <2>1. step' = step /\ upstreamID' = upstreamID /\ status' = status
      BY <1>2 DEF CancelVideoJob
    <2>2. film'[j] = film[j] \/ film[j] = "running"
      BY <1>2 DEF CancelVideoJob, TypeOK
    <2>3. CASE film'[j] = film[j]
      BY <2>1, <2>3, StillAdvances
    <2>4. CASE film[j] = "running"
      BY <2>1, <2>4 DEF Advances, LifeInv, RowBeforeFilm
    <2> QED
      BY <2>2, <2>3, <2>4
  <1>3. CASE RetireVideoJob(w, i)
    <2>1. step' = step /\ film' = film /\ upstreamID' = upstreamID
      BY <1>3 DEF RetireVideoJob
    <2>2. ~work[w].refused => status[i] # "none"
      BY <1>3 DEF RetireVideoJob, At, LifeInv, DropStillAllowed, Dropping
    <2>3. status'[j] = status[j] \/ (status'[j] = "deleted" /\ status[j] # "none")
      BY <1>3, <2>2 DEF RetireVideoJob, TypeOK
    <2>4. CASE status'[j] = status[j]
      BY <2>1, <2>4, StillAdvances
    <2>5. CASE status'[j] = "deleted" /\ status[j] # "none"
      BY <2>1, <2>5 DEF Advances, Active, LifeInv, RowBeforeFilm
    <2> QED
      BY <2>3, <2>4, <2>5
  <1> QED
    BY <1>1, <1>2, <1>3 DEF Sweep, Caller

\* terminateVideoJob and failVideoJob write a terminal status over an active one.
LEMMA EndAdvances ==
  ASSUME TypeOK, LifeInv, NEW w \in Workers, NEW i \in Requests, End(w, i),
         NEW j \in Requests
  PROVE  Advances(j)
  <1> USE DEF rowVars, moneyVars
  <1>1. step' = step /\ film' = film /\ upstreamID' = upstreamID
    BY DEF End, TerminateVideoJob, TerminateRollsBack, FailVideoJob
  <1>2. status'[j] = status[j] \/ (status[j] \in Active /\ status'[j] \in Terminal)
    <2>1. CASE TerminateVideoJob(w, i)
      <3>1. work[w].to \in Terminal
        BY <2>1 DEF TerminateVideoJob, At, LifeInv, VerdictReached, TypeOK, Copies
      <3> QED
        BY <2>1, <3>1 DEF TerminateVideoJob, TerminateTakes, TypeOK
    <2>2. CASE TerminateRollsBack(w, i)
      BY <2>2 DEF TerminateRollsBack
    <2>3. CASE FailVideoJob(w, i)
      BY <2>3 DEF FailVideoJob, FailVideoJobTx, TypeOK, Terminal
    <2> QED
      BY <2>1, <2>2, <2>3 DEF End
  <1>3. CASE status'[j] = status[j]
    BY <1>1, <1>3, StillAdvances
  <1>4. CASE status[j] \in Active /\ status'[j] \in Terminal
    BY <1>1, <1>4 DEF Advances, Active, Terminal, LifeInv, RowBeforeFilm
  <1> QED
    BY <1>2, <1>3, <1>4

\* Time leaves rows and films alone, and the upstream ends a running film.
LEMMA EnvironmentAdvances ==
  ASSUME TypeOK, LifeInv, NEW i \in Requests, Environment(i), NEW j \in Requests
  PROVE  Advances(j)
  <1> USE DEF rowVars, moneyVars
  <1>1. CASE PollFallsDue(i)
    BY <1>1, StillAdvances DEF PollFallsDue
  <1>2. CASE FilmEnds(i)
    <2>1. step' = step /\ upstreamID' = upstreamID /\ status' = status
      BY <1>2 DEF FilmEnds
    <2>2. film'[j] = film[j] \/ film[j] = "running"
      BY <1>2 DEF FilmEnds, TypeOK
    <2>3. CASE film'[j] = film[j]
      BY <2>1, <2>3, StillAdvances
    <2>4. CASE film[j] = "running"
      BY <2>1, <2>4 DEF Advances, LifeInv, RowBeforeFilm
    <2> QED
      BY <2>2, <2>3, <2>4
  <1>3. ASSUME NEW m \in Marks, DeadlinePasses(i, m) PROVE Advances(j)
    BY <1>3, StillAdvances DEF DeadlinePasses
  <1> QED
    BY <1>1, <1>2, <1>3 DEF Environment

\* No step does anything else to a row or a film.
LEMMA NextAdvances ==
  ASSUME TypeOK, LifeInv, Next, NEW j \in Requests
  PROVE  Advances(j)
  <1>1. ASSUME NEW w \in Workers, WorkerFails(w) PROVE Advances(j)
    BY <1>1, StillAdvances DEF WorkerFails, rowVars
  <1> QED
    BY <1>1, SubmitAdvances, PollAdvances, SweepAdvances, EndAdvances, EnvironmentAdvances
    DEF Next

------------------------------------------------------------------------------
(* What each step does to the charges *)

\* Only terminateVideoJob debits or queues, and its worker has seen the film.
LEMMA EndCharges ==
  ASSUME TypeOK, LifeInv, NEW w \in Workers, NEW i \in Requests, End(w, i),
         NEW j \in Requests
  PROVE  ChargesFilm(j)
  <1>1. work[w].job = i /\ work[w].to = "completed" => film[i] = "done" /\ upstreamID[i]
    BY DEF LifeInv, CompletionSeen, VerdictReached
  <1>2. CASE TerminateVideoJob(w, i)
    <2>1. CASE j = i /\ TerminateTakes(w, i) /\ work[w].to = "completed"
      BY <1>1, <1>2, <2>1 DEF TerminateVideoJob, At, ChargesFilm
    <2>2. CASE ~(j = i /\ TerminateTakes(w, i) /\ work[w].to = "completed")
      <3>1. charged'[j] = charged[j]
        BY <1>2, <2>2 DEF TerminateVideoJob, Debits, TypeOK, moneyVars
      <3>2. unsettled'[j] = unsettled[j]
        BY <1>2, <2>2 DEF TerminateVideoJob, TypeOK, moneyVars
      <3>3. settlement'[j] \in {settlement[j], "voided"}
        BY <1>2, <2>2 DEF TerminateVideoJob, TypeOK
      <3> QED
        BY <3>1, <3>2, <3>3 DEF ChargesFilm
    <2> QED
      BY <2>1, <2>2
  <1>3. CASE TerminateRollsBack(w, i)
    <2>1. CASE UNCHANGED unsettled
      BY <1>3, <2>1 DEF TerminateRollsBack, ChargesFilm, rowVars
    <2>2. CASE /\ work[w].to = "completed"
               /\ unsettled' = [unsettled EXCEPT ![i] = TRUE]
      BY <1>1, <1>3, <2>2 DEF TerminateRollsBack, At, ChargesFilm, TypeOK, rowVars
    <2> QED
      BY <1>3, <2>1, <2>2 DEF TerminateRollsBack
  <1>4. CASE FailVideoJob(w, i)
    BY <1>4 DEF FailVideoJob, FailVideoJobTx, ChargesFilm, moneyVars, TypeOK
  <1> QED
    BY <1>2, <1>3, <1>4 DEF End

\* Every step that charges a job charges it for a film, and every step that keeps,
\* orphans or settles its hold knows the upstream's id.
LEMMA NextCharges ==
  ASSUME TypeOK, LifeInv, Next, NEW j \in Requests
  PROVE  ChargesFilm(j)
  <1>1. /\ UNCHANGED <<charged, unsettled>>
        /\ settlement'[j] = settlement[j] \/ settlement'[j] = "voided" \/ upstreamID[j]
        => ChargesFilm(j)
    BY DEF ChargesFilm
  <1>2. ASSUME NEW r \in Requests, Submit(r) \/ Environment(r)
        PROVE  ChargesFilm(j)
    <2>1. UNCHANGED <<charged, unsettled>>
      BY <1>2 DEF Submit, AdmitSubmit, SkipCandidate, CreateVideoJobRow, CallVideoUpstream,
         RefuseSubmit, MarkVideoJobSubmitted, SubmitUnrecorded, SubmitCrash,
         Environment, PollFallsDue, FilmEnds, DeadlinePasses, moneyVars
    <2>2. UNCHANGED settlement \/ FailVideoJobTx(r)
      BY <1>2 DEF Submit, AdmitSubmit, SkipCandidate, CreateVideoJobRow, CallVideoUpstream,
         RefuseSubmit, MarkVideoJobSubmitted, SubmitUnrecorded, SubmitCrash,
         Environment, PollFallsDue, FilmEnds, DeadlinePasses, rowVars
    <2> QED
      BY <1>1, <2>1, <2>2 DEF FailVideoJobTx, TypeOK
  <1>3. ASSUME NEW w \in Workers, NEW i \in Requests, Poll(w, i)
        PROVE  ChargesFilm(j)
    <2>1. UNCHANGED <<charged, unsettled>>
      BY <1>3 DEF Poll, ClaimDueVideoJob, PollUnroutable, PollUnanswered, PollNotFound,
         PollRunning, PollFinished, KeepVideoHoldAlive, MarkVideoJobProgress,
         CaptureVideoArtifact, RecordVideoJobArtifact, moneyVars
    <2>2. UNCHANGED settlement \/ KeepVideoHoldAlive(w, i)
      BY <1>3 DEF Poll, ClaimDueVideoJob, PollUnroutable, PollUnanswered, PollNotFound,
         PollRunning, PollFinished, MarkVideoJobProgress,
         CaptureVideoArtifact, RecordVideoJobArtifact, rowVars
    <2>3. ASSUME KeepVideoHoldAlive(w, i) PROVE upstreamID[i]
      BY <2>3 DEF KeepVideoHoldAlive, At, LifeInv, VerdictReached, CompletionSeen
    <2>4. KeepVideoHoldAlive(w, i) /\ i # j => settlement'[j] = settlement[j]
      BY DEF KeepVideoHoldAlive, TypeOK
    <2> QED
      BY <1>1, <2>1, <2>2, <2>3, <2>4
  <1>4. ASSUME NEW w \in Workers, NEW i \in Requests, Sweep(w, i) \/ Caller(w, i)
        PROVE  UNCHANGED <<settlement, charged, unsettled>>
    BY <1>4 DEF Sweep, SweepUnsubmitted, SweepStale, SweepExpired, UnlinkArtifact,
       RetireVideoJob, Caller, CancelVideoJob, DeleteVideoJob, moneyVars, rowVars
  <1>5. ASSUME NEW w \in Workers, WorkerFails(w)
        PROVE  UNCHANGED <<settlement, charged, unsettled>>
    BY <1>5 DEF WorkerFails, moneyVars, rowVars
  <1> QED
    BY <1>1, <1>2, <1>3, <1>4, <1>5, EndCharges DEF Next

------------------------------------------------------------------------------
(* What each step does to the workers' intentions *)

\* A worker that stays as it is, is done, or moves on short of a drop, of a hold to
\* keep and of terminateVideoJob carries nothing new.
LEMMA CarrySteps ==
  ASSUME TypeOK, NEW w \in Workers, NEW v \in Workers
  PROVE  /\ UNCHANGED work => Carries(v)
         /\ Done(w) => Carries(v)
         /\ \A s \in WorkSteps \ (Dropping \cup {"terminate"}) :
               Goto(w, s) /\ (s = "keep" => work[w].addressed) => Carries(v)
  <1>1. work[v] \in Copies /\ work[w] \in Copies
    BY DEF TypeOK
  <1>2. ASSUME UNCHANGED work PROVE Carries(v)
    BY <1>2 DEF Carries
  <1>3. ASSUME Done(w) PROVE Carries(v)
    <2>1. CASE v = w
      <3>1. work'[v] = Idle
        BY <1>3, <2>1 DEF Done, TypeOK
      <3> QED
        BY <3>1 DEF Idle, Carries, Dropping
    <2>2. CASE v # w
      BY <1>3, <2>2 DEF Done, Carries, TypeOK
    <2> QED
      BY <2>1, <2>2
  <1>4. ASSUME NEW s \in WorkSteps \ (Dropping \cup {"terminate"}), Goto(w, s),
               s = "keep" => work[w].addressed
        PROVE  Carries(v)
    <2>1. CASE v = w
      <3>1. work'[v] = [work[v] EXCEPT !.step = s]
        BY <1>4, <2>1 DEF Goto, TypeOK
      <3>2. /\ work'[v].step = s /\ work'[v].to = work[v].to /\ work'[v].job = work[v].job
            /\ work'[v].addressed = work[v].addressed
        BY <1>1, <3>1 DEF Copies
      <3> QED
        BY <1>4, <2>1, <3>2 DEF Carries
    <2>2. CASE v # w
      BY <1>4, <2>2 DEF Goto, Carries, TypeOK
    <2> QED
      BY <2>1, <2>2
  <1> QED
    BY <1>2, <1>3, <1>4

\* Reading a row with a verdict other than completed carries nothing that needs
\* the film; reading it to drop it needs a row that may go.
LEMMA ReadCarries ==
  ASSUME TypeOK, NEW w \in Workers, NEW i \in Requests, NEW s, NEW to,
         Read(w, i, s, to), to # "completed", s # "keep", s = "terminate" => to # "none",
         NEW v \in Workers
  PROVE  Carries(v)
  <1> DEFINE copy == [step |-> s, job |-> i, seen |-> settlement[i],
                      addressed |-> upstreamID[i], to |-> to,
                      stored |-> artifactKey[i], refused |-> VideoDeleteRefused(i)]
  <1>1. work' = [work EXCEPT ![w] = copy] /\ status[i] \in Present
    BY DEF Read
  <1>2. CASE v = w
    <2>1. work'[v] = copy
      BY <1>1, <1>2 DEF TypeOK
    <2>2. /\ work'[v].job = i /\ work'[v].to = to /\ work'[v].step = s
          /\ work'[v].refused = VideoDeleteRefused(i) /\ work'[v].addressed = upstreamID[i]
      BY <2>1
    <2>3. ~VideoDeleteRefused(i) => status[i] \in Terminal /\ settlement[i] \notin Unmoved
      BY <1>1 DEF VideoDeleteRefused, Present
    <2> HIDE DEF copy
    <2> QED
      BY <2>2, <2>3 DEF Carries
  <1>3. CASE v # w
    BY <1>1, <1>3 DEF Carries, TypeOK
  <1> QED
    BY <1>2, <1>3

\* pollVideoJob: only a finished film makes a worker mean to complete a job.
LEMMA PollCarries ==
  ASSUME TypeOK, NEW w \in Workers, NEW i \in Requests, Poll(w, i),
         NEW v \in Workers
  PROVE  Carries(v)
  <1>1. CASE ClaimDueVideoJob(w, i)
    <2>1. Read(w, i, "poll", "none")
      BY <1>1 DEF ClaimDueVideoJob
    <2> QED
      BY <2>1, ReadCarries DEF Dropping
  <1>2. ASSUME NEW to \in Terminal, to = "completed" => film[i] = "done", work[w].job = i,
               work[w].addressed,
               work' = [work EXCEPT ![w].step = "terminate", ![w].to = to]
        PROVE  Carries(v)
    <2>1. work[v] \in Copies
      BY DEF TypeOK
    <2>2. CASE v = w
      <3>1. work'[v] = [work[v] EXCEPT !.step = "terminate", !.to = to]
        BY <1>2, <2>2 DEF TypeOK
      <3>2. work'[v].step = "terminate"
        BY <2>1, <3>1 DEF Copies
      <3>3. work'[v].to = to
        BY <2>1, <3>1 DEF Copies
      <3>4. work'[v].job = work[v].job /\ work'[v].addressed = work[v].addressed
        BY <2>1, <3>1 DEF Copies
      <3> QED
        BY <1>2, <2>2, <3>2, <3>3, <3>4 DEF Carries, Dropping, Terminal
    <2>3. CASE v # w
      BY <1>2, <2>3 DEF Carries, TypeOK
    <2> QED
      BY <2>2, <2>3
  <1>3. CASE PollFinished(w, i)
    <2>1. PICK end \in IF film[i] = "done" THEN {"completed"} ELSE {"failed", "canceled"} :
             work' = [work EXCEPT ![w].step = "terminate", ![w].to = end]
      BY <1>3 DEF PollFinished
    <2> QED
      BY <1>2, <1>3, <2>1 DEF PollFinished, At, Terminal
  <1>4. CASE PollNotFound(w, i)
    <2>1. \/ Done(w)
          \/ work' = [work EXCEPT ![w].step = "terminate", ![w].to = "expired"]
      BY <1>4, Zenon DEF PollNotFound
    <2> QED
      BY <1>2, <1>4, <2>1, CarrySteps DEF PollNotFound, At, Terminal
  <1>5. CASE \/ PollUnroutable(w, i) \/ PollUnanswered(w, i) \/ PollRunning(w, i)
             \/ KeepVideoHoldAlive(w, i) \/ MarkVideoJobProgress(w, i)
             \/ CaptureVideoArtifact(w, i) \/ RecordVideoJobArtifact(w, i)
    <2>1. \/ Done(w) \/ Goto(w, "fail") \/ Goto(w, "progress") \/ Goto(w, "record")
          \/ Goto(w, "keep") /\ work[w].addressed
      BY <1>5, Zenon DEF PollUnroutable, PollUnanswered, PollRunning, KeepVideoHoldAlive,
         MarkVideoJobProgress, CaptureVideoArtifact, RecordVideoJobArtifact
    <2> QED
      BY <2>1, CarrySteps DEF WorkSteps, Dropping
  <1> QED
    BY <1>1, <1>3, <1>4, <1>5 DEF Poll

\* Sweeps and callers take a row up to end it without a film, or to drop it.
LEMMA SweepCarries ==
  ASSUME TypeOK, LifeInv, NEW w \in Workers, NEW i \in Requests,
         Sweep(w, i) \/ Caller(w, i), NEW v \in Workers
  PROVE  Carries(v)
  <1>1. CASE SweepUnsubmitted(w, i)
    <2>1. Read(w, i, "fail", "failed")
      BY <1>1 DEF SweepUnsubmitted
    <2> QED
      BY <2>1, ReadCarries DEF Dropping
  <1>2. CASE SweepStale(w, i)
    <2>1. Read(w, i, "terminate", "expired")
      BY <1>2 DEF SweepStale
    <2> QED
      BY <2>1, ReadCarries DEF Dropping
  <1>3. CASE CancelVideoJob(w, i)
    <2>1. Read(w, i, "terminate", "canceled")
      BY <1>3 DEF CancelVideoJob
    <2> QED
      BY <2>1, ReadCarries DEF Dropping
  <1>4. CASE SweepExpired(w, i) \/ DeleteVideoJob(w, i)
    <2>1. Read(w, i, "unlink", "none")
      BY <1>4 DEF SweepExpired, DeleteVideoJob
    <2> QED
      BY <2>1, ReadCarries
  <1>5. CASE UnlinkArtifact(w, i)
    <2>1. work[v] \in Copies
      BY DEF TypeOK
    <2>2. CASE v = w
      <3>1. work'[v] = [work[v] EXCEPT !.step = "retire"]
        BY <1>5, <2>2 DEF UnlinkArtifact, Goto, TypeOK
      <3>2. /\ work'[v].step = "retire" /\ work'[v].to = work[v].to
            /\ work'[v].job = work[v].job /\ work'[v].refused = work[v].refused
            /\ work'[v].addressed = work[v].addressed
        BY <2>1, <3>1 DEF Copies
      <3>3. work[v].step \in Dropping
        BY <1>5, <2>2 DEF UnlinkArtifact, At, Dropping
      <3> QED
        BY <3>2, <3>3 DEF Carries
    <2>3. CASE v # w
      BY <1>5, <2>3 DEF UnlinkArtifact, Goto, Carries, TypeOK
    <2> QED
      BY <2>2, <2>3
  <1>6. CASE RetireVideoJob(w, i)
    BY <1>6, CarrySteps DEF RetireVideoJob
  <1> QED
    BY <1>1, <1>2, <1>3, <1>4, <1>5, <1>6 DEF Sweep, Caller

\* No step gives a worker an intention that row and film do not bear out.
LEMMA NextCarries ==
  ASSUME TypeOK, LifeInv, Next, NEW v \in Workers
  PROVE  Carries(v)
  <1>1. ASSUME NEW r \in Requests, Submit(r) \/ Environment(r) PROVE UNCHANGED work
    BY <1>1 DEF Submit, AdmitSubmit, SkipCandidate, CreateVideoJobRow, CallVideoUpstream,
       RefuseSubmit, MarkVideoJobSubmitted, SubmitUnrecorded, SubmitCrash,
       Environment, PollFallsDue, FilmEnds, DeadlinePasses
  <1>2. ASSUME NEW w \in Workers, WorkerFails(w) PROVE Done(w)
    BY <1>2 DEF WorkerFails
  <1>3. ASSUME NEW w \in Workers, NEW j \in Requests, End(w, j)
        PROVE  Done(w) \/ Goto(w, "capture")
    BY <1>3, Zenon DEF End, TerminateVideoJob, TerminateRollsBack, FailVideoJob,
       AfterTerminate
  <1>4. "capture" \in WorkSteps \ (Dropping \cup {"terminate"})
    BY DEF WorkSteps, Dropping
  <1> QED
    BY <1>1, <1>2, <1>3, <1>4, CarrySteps, PollCarries, SweepCarries DEF Next

------------------------------------------------------------------------------
(* The theorems *)

\* Without a row there is no film, no worker and no charge.
LEMMA LifeInit == Init => LifeInv
  BY DEF Init, Idle, LifeInv, RowBeforeFilm, IDBeforeMoney, CompletionSeen,
     VerdictReached, DropStillAllowed, NoFilmNoCharge, Dropping

\* The life invariant is inductive next to the types and the money invariant.
LEMMA LifeStep == TypeOK /\ MoneyInv /\ LifeInv /\ [Next]_vars => LifeInv'
  <1> SUFFICES ASSUME TypeOK, MoneyInv, LifeInv, [Next]_vars PROVE LifeInv'
    OBVIOUS
  <1>1. CASE Next
    <2>1. TypeOK'
      BY TypeStep
    <2>2. \A j \in Requests : Advances(j) /\ ChargesFilm(j) /\ Moves(j)
      BY <1>1, NextAdvances, NextCharges, NextMoves
    <2>3. \A w \in Workers : Carries(w)
      BY <1>1, NextCarries
    <2> QED
      BY <2>1, <2>2, <2>3, AdvancesKeepLife
  <1>2. CASE UNCHANGED vars
    BY <1>2 DEF vars, rowVars, moneyVars, LifeInv, RowBeforeFilm, IDBeforeMoney,
       CompletionSeen, VerdictReached, DropStillAllowed, Droppable, NoFilmNoCharge
  <1> QED
    BY <1>1, <1>2

\* Row, film and workers' intentions agree in every reachable state.
THEOREM LifeInvariant == Spec => [](TypeOK /\ MoneyInv /\ LifeInv)
  <1>1. Init => LifeInv
    BY LifeInit
  <1>2. TypeOK /\ MoneyInv /\ LifeInv /\ [Next]_vars => LifeInv'
    BY LifeStep
  <1> QED
    BY <1>1, <1>2, MoneyInvariant, PTL DEF Spec

\* terminateVideoJob never debits and never queues a job whose film the upstream
\* did not finish, whoever else was at work on the row.
THEOREM ChargedForFilmsOnly == Spec => []NoFilmNoCharge
  <1>1. LifeInv => NoFilmNoCharge
    BY DEF LifeInv
  <1> QED
    BY <1>1, LifeInvariant, PTL

\* A row disappears by no other statement than DeleteVideoJob and the retention
\* sweep's delete, of a worker whose copy let it.
LEMMA DropsByRetire ==
  ASSUME TypeOK, LifeInv, Next, NEW j \in Requests,
         status'[j] = "deleted", status[j] # "deleted"
  PROVE  \E w \in Workers : RetireVideoJob(w, j) /\ ~work[w].refused
  <1> USE DEF rowVars, moneyVars
  <1>1. ASSUME NEW r \in Requests, Submit(r) \/ Environment(r) PROVE FALSE
    <2>1. \/ status' = status \/ \E q \in Requests : status' = [status EXCEPT ![q] = "queued"]
          \/ FailVideoJobTx(r)
          \/ status' = [status EXCEPT ![r] = IF @ \in Present THEN "in_progress" ELSE @]
      BY <1>1 DEF Submit, AdmitSubmit, SkipCandidate, CreateVideoJobRow, RowNames, InsertRow,
         CallVideoUpstream, RefuseSubmit, MarkVideoJobSubmitted, SubmitUnrecorded, SubmitCrash,
         Environment, PollFallsDue, FilmEnds, DeadlinePasses
    <2> QED
      BY <2>1 DEF FailVideoJobTx, TypeOK
  <1>2. ASSUME NEW w \in Workers, NEW i \in Requests, Poll(w, i) \/ WorkerFails(w) PROVE FALSE
    <2>1. status' = status \/ \E s \in Active : status' = [status EXCEPT ![i] = s]
      BY <1>2 DEF Poll, ClaimDueVideoJob, PollUnroutable, PollUnanswered, PollNotFound,
         PollRunning, PollFinished, KeepVideoHoldAlive, MarkVideoJobProgress,
         CaptureVideoArtifact, RecordVideoJobArtifact, WorkerFails
    <2> QED
      BY <2>1 DEF TypeOK, Active
  <1>3. ASSUME NEW w \in Workers, NEW i \in Requests, End(w, i) PROVE FALSE
    <2>1. work[w].to # "deleted"
      <3>1. work[w].to \in Terminal \cup {"none"}
        BY DEF TypeOK, Copies
      <3> QED
        BY <3>1 DEF Terminal
    <2>2. \/ status' = status \/ status' = [status EXCEPT ![i] = work[w].to]
          \/ FailVideoJobTx(i)
      BY <1>3 DEF End, TerminateVideoJob, TerminateRollsBack, FailVideoJob
    <2> QED
      BY <2>1, <2>2 DEF FailVideoJobTx, TypeOK
  <1>4. ASSUME NEW w \in Workers, NEW i \in Requests, Sweep(w, i) \/ Caller(w, i)
        PROVE  i = j /\ RetireVideoJob(w, j) /\ ~work[w].refused
    BY <1>4 DEF Sweep, SweepUnsubmitted, SweepStale, SweepExpired, UnlinkArtifact,
       RetireVideoJob, Caller, CancelVideoJob, DeleteVideoJob, TypeOK
  <1> QED
    BY <1>1, <1>2, <1>3, <1>4 DEF Next

\* Delete and the retention sweep never drop the row of a job that owes, nor that
\* of a running job whose hold has not been voided, although they decide on a copy
\* read two statements earlier.
THEOREM OwingRowIsKept == Spec => OwingRowKept
  <1>1. TypeOK /\ MoneyInv /\ LifeInv /\ [Next]_vars =>
           [\A j \in Requests : status'[j] = "deleted" /\ status[j] # "deleted" =>
               /\ settlement[j] \notin Unmoved
               /\ status[j] \in Active => settlement[j] = "voided"]_vars
    <2> SUFFICES ASSUME TypeOK, LifeInv, Next, NEW j \in Requests,
                        status'[j] = "deleted", status[j] # "deleted"
                 PROVE  Droppable(j)
      BY DEF Droppable
    <2>1. PICK w \in Workers : RetireVideoJob(w, j) /\ ~work[w].refused
      BY DropsByRetire
    <2> QED
      BY <2>1 DEF RetireVideoJob, At, LifeInv, DropStillAllowed, Dropping
  <1> QED
    BY <1>1, LifeInvariant, PTL DEF Spec, OwingRowKept

------------------------------------------------------------------------------
(* One film per key *)

\* What the unique index enforces: the key has one row at a time.
OneRow ==
    \A r, q \in Requests : status[r] \in Present /\ status[q] \in Present => r = q

\* Rows appear by the insert only, and that finds the key free.
LEMMA RowsAppear ==
  ASSUME TypeOK, Next
  PROVE  \/ \A j \in Requests : status'[j] \in Present => status[j] \in Present
         \/ ~KeyTaken /\ \E r \in Requests : \A j \in Requests \ {r} : status'[j] = status[j]
  <1> USE DEF rowVars, moneyVars
  <1>1. ASSUME NEW r \in Requests, Submit(r) \/ Environment(r)
        PROVE  \/ \A j \in Requests : status'[j] \in Present => status[j] \in Present
               \/ ~KeyTaken /\ \E q \in Requests : \A j \in Requests \ {q} : status'[j] = status[j]
    <2>1. \/ status' = status
          \/ ~KeyTaken /\ \E q \in Requests : status' = [status EXCEPT ![q] = "queued"]
          \/ FailVideoJobTx(r)
          \/ status' = [status EXCEPT ![r] = IF @ \in Present THEN "in_progress" ELSE @]
      BY <1>1 DEF Submit, AdmitSubmit, SkipCandidate, CreateVideoJobRow, RowNames, InsertRow,
         CallVideoUpstream, RefuseSubmit, MarkVideoJobSubmitted, SubmitUnrecorded, SubmitCrash,
         Environment, PollFallsDue, FilmEnds, DeadlinePasses
    <2> QED
      BY <2>1 DEF FailVideoJobTx, TypeOK, Present
  <1>2. ASSUME NEW w \in Workers, NEW i \in Requests, Poll(w, i), NEW j \in Requests,
               status'[j] \in Present
        PROVE  status[j] \in Present
    <2>1. status' = status \/ MarkVideoJobProgress(w, i)
      BY <1>2 DEF Poll, ClaimDueVideoJob, PollUnroutable, PollUnanswered, PollNotFound,
         PollRunning, PollFinished, KeepVideoHoldAlive, CaptureVideoArtifact,
         RecordVideoJobArtifact
    <2> QED
      BY <1>2, <2>1 DEF MarkVideoJobProgress, TypeOK, Present
  <1>3. ASSUME NEW w \in Workers, NEW i \in Requests, End(w, i), NEW j \in Requests,
               status'[j] \in Present
        PROVE  status[j] \in Present
    <2>1. \/ status' = status \/ FailVideoJobTx(i)
          \/ status[i] \in Active /\ status' = [status EXCEPT ![i] = work[w].to]
      BY <1>3 DEF End, TerminateVideoJob, TerminateTakes, TerminateRollsBack, FailVideoJob
    <2> QED
      BY <1>3, <2>1 DEF FailVideoJobTx, TypeOK, Present
  <1>4. ASSUME NEW w \in Workers, NEW i \in Requests, Sweep(w, i) \/ Caller(w, i),
               NEW j \in Requests, status'[j] \in Present
        PROVE  status[j] \in Present
    <2>1. status' = status \/ status' = [status EXCEPT ![i] = "deleted"]
      BY <1>4 DEF Sweep, SweepUnsubmitted, SweepStale, SweepExpired, UnlinkArtifact,
         RetireVideoJob, Caller, CancelVideoJob, DeleteVideoJob
    <2> QED
      BY <1>4, <2>1 DEF TypeOK, Present, Active, Terminal
  <1>5. ASSUME NEW w \in Workers, WorkerFails(w) PROVE status' = status
    BY <1>5 DEF WorkerFails
  <1> QED
    BY <1>1, <1>2, <1>3, <1>4, <1>5 DEF Next

\* The key never has two rows.
LEMMA OneRowStep == TypeOK /\ OneRow /\ [Next]_vars => OneRow'
  <1> SUFFICES ASSUME TypeOK, OneRow, [Next]_vars PROVE OneRow'
    OBVIOUS
  <1>1. CASE UNCHANGED vars
    BY <1>1 DEF vars, rowVars, OneRow
  <1>2. CASE \A j \in Requests : status'[j] \in Present => status[j] \in Present
    BY <1>2 DEF OneRow
  <1>3. CASE ~KeyTaken /\ \E r \in Requests : \A j \in Requests \ {r} : status'[j] = status[j]
    BY <1>3 DEF OneRow, KeyTaken
  <1> QED
    BY <1>1, <1>2, <1>3, RowsAppear

\* Submits of one key, any number of them and with any refusals, crashes and
\* resubmissions, never have two films whose rows both exist.
THEOREM KeyBuysOneFilm == Spec => []OneFilmPerKey
  <1>1. Init => OneRow
    BY DEF Init, OneRow, Present, Active, Terminal
  <1>2. TypeOK /\ OneRow /\ [Next]_vars => OneRow'
    BY OneRowStep
  <1>3. TypeOK /\ LifeInv /\ OneRow => OneFilmPerKey
    BY DEF TypeOK, LifeInv, RowBeforeFilm, OneRow, OneFilmPerKey, Statuses
  <1> QED
    BY <1>1, <1>2, <1>3, LifeInvariant, PTL DEF Spec

====
