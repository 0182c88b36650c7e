---------------------------- MODULE Idempotency ----------------------------
(***************************************************************************)
(* The Idempotency middleware of the management API:                       *)
(* foundation/httpx/idempotency.go, idempotency_store.go and               *)
(* idempotency_reaper.go.                                                  *)
(*                                                                         *)
(* The model has one row of idempotency_keys: one scope and one key.       *)
(* Callers are POSTs that carry the key; print[c] stands for the hash of   *)
(* caller c's request.  Every statement on the row is a step of its own.   *)
(* The row's clocks are two marks: stale once updated_at is older than     *)
(* inFlightTimeout, expired once expires_at has passed.                    *)
(*                                                                         *)
(* owner and answer are kept for the properties: who claimed or took over  *)
(* the row last, and whose response a replayed caller was given.           *)
(***************************************************************************)
EXTENDS Integers, FiniteSets

CONSTANTS
    Callers,        \* POSTs with the key
    Prints,         \* request fingerprints
    MaxFaults       \* bound on failed statements, lost clients and crashes

ASSUME CallersAssumption == IsFiniteSet(Callers) /\ "none" \notin Callers
ASSUME PrintsAssumption == Prints # {} /\ "none" \notin Prints
ASSUME IdempotencyFaultsAssumption == MaxFaults \in Nat

VARIABLES
    print,          \* a caller's request fingerprint
    pc,             \* where a caller is in the middleware
    answer,         \* the attempt whose response a caller was replayed
    hash, status, response, stale, expired,     \* the row
    owner,
    faults

row == <<hash, status, response, stale, expired, owner>>
vars == <<print, pc, answer, row, faults>>

Steps == {"new", "collided", "reclaim", "takeover", "running", "complete", "vacate",
          "answered", "replayed", "mismatch", "inFlight", "error", "crashed"}
Statuses == {"none", "in_flight", "completed"}

\* Every variable holds a value of its declared kind.
TypeOK ==
    /\ print \in [Callers -> Prints]
    /\ pc \in [Callers -> Steps]
    /\ answer \in [Callers -> Callers \cup {"none"}]
    /\ hash \in Prints \cup {"none"}
    /\ status \in Statuses
    /\ response \in Callers \cup {"none"}
    /\ stale \in BOOLEAN
    /\ expired \in BOOLEAN
    /\ owner \in Callers \cup {"none"}
    /\ faults \in 0..MaxFaults

Init ==
    /\ print \in [Callers -> Prints]
    /\ pc = [c \in Callers |-> "new"]
    /\ answer = [c \in Callers |-> "none"]
    /\ hash = "none" /\ status = "none" /\ response = "none"
    /\ stale = FALSE /\ expired = FALSE /\ owner = "none"
    /\ faults = 0

Fault == faults < MaxFaults /\ faults' = faults + 1
Goto(c, s) == pc' = [pc EXCEPT ![c] = s]

NoRow == /\ hash' = "none" /\ status' = "none" /\ response' = "none"
         /\ stale' = FALSE /\ expired' = FALSE /\ owner' = "none"

-----------------------------------------------------------------------------
(* The statements of idempotencyStore *)

\* INSERT ... ON CONFLICT DO NOTHING: caller c has the row, or it collides.
Insert(c) ==
    /\ status = "none"
    /\ hash' = print[c] /\ status' = "in_flight" /\ response' = "none"
    /\ stale' = FALSE /\ expired' = FALSE /\ owner' = c

\* Mutant of MayTakeOver: any row that has not been written for a while.
TakeOverAnyStale(c) == hash = print[c] /\ stale

\* takeOver's WHERE clause.
MayTakeOver(c) == hash = print[c] /\ status = "in_flight" /\ stale

\* Mutant of MayFinish: without the fingerprint.
FinishAnyPrint(c) == status = "in_flight"

\* Mutant of MayFinish: without the status.
FinishAnyStatus(c) == hash = print[c]

\* complete's and vacate's WHERE clause.
MayFinish(c) == hash = print[c] /\ status = "in_flight"

-----------------------------------------------------------------------------
(* One caller through the middleware *)

\* The first claim.
Claim(c) ==
    /\ pc[c] = "new"
    /\ \/ Insert(c) /\ Goto(c, "running")
       \/ status # "none" /\ Goto(c, "collided") /\ UNCHANGED row
    /\ UNCHANGED <<print, answer, faults>>

\* The row the claim collided with, or no row if it has gone since.
Get(c) ==
    /\ pc[c] = "collided"
    /\ \/ /\ status = "none"
          /\ Goto(c, "reclaim") /\ UNCHANGED answer
       \/ /\ status # "none" /\ hash # print[c]
          /\ Goto(c, "mismatch") /\ UNCHANGED answer
       \/ /\ status = "completed" /\ hash = print[c]
          /\ Goto(c, "replayed")
          /\ answer' = [answer EXCEPT ![c] = response]
       \/ /\ status = "in_flight" /\ hash = print[c]
          /\ Goto(c, "takeover") /\ UNCHANGED answer
    /\ UNCHANGED <<print, row, faults>>

\* The claim is retried once.
Reclaim(c) ==
    /\ pc[c] = "reclaim"
    /\ \/ Insert(c) /\ Goto(c, "running")
       \/ status # "none" /\ Goto(c, "error") /\ UNCHANGED row
    /\ UNCHANGED <<print, answer, faults>>

\* A first attempt that has gone silent is taken over; otherwise it is 409.
TakeOver(c) ==
    /\ pc[c] = "takeover"
    /\ \/ /\ MayTakeOver(c)
          /\ stale' = FALSE /\ expired' = FALSE /\ owner' = c
          /\ Goto(c, "running")
          /\ UNCHANGED <<hash, status, response>>
       \/ ~MayTakeOver(c) /\ Goto(c, "inFlight") /\ UNCHANGED row
    /\ UNCHANGED <<print, answer, faults>>

\* The handler returns: a response to keep, or one that is not (a 5xx, a 429,
\* or too large to store).
Handle(c) ==
    /\ pc[c] = "running"
    /\ Goto(c, "complete") \/ Goto(c, "vacate")
    /\ UNCHANGED <<print, answer, row, faults>>

\* Mutant of Complete: a status the readers do not know.
CompleteMisspelt(c) ==
    /\ pc[c] = "complete"
    /\ Goto(c, "answered")
    /\ status' = "complete"
    /\ UNCHANGED <<print, answer, hash, response, stale, expired, owner, faults>>

\* complete: the response is stored where the guard holds.
Complete(c) ==
    /\ pc[c] = "complete"
    /\ Goto(c, "answered")
    /\ IF MayFinish(c)
       THEN /\ status' = "completed" /\ response' = c /\ stale' = FALSE
            /\ UNCHANGED <<hash, expired, owner>>
       ELSE UNCHANGED row
    /\ UNCHANGED <<print, answer, faults>>

\* vacate: the row is deleted where the guard holds.
Vacate(c) ==
    /\ pc[c] = "vacate"
    /\ Goto(c, "answered")
    /\ IF MayFinish(c) THEN NoRow ELSE UNCHANGED row
    /\ UNCHANGED <<print, answer, faults>>

\* A statement fails: the caller is answered with what it has, or with a 500.
\* complete and vacate run under the request's context, so a client that has
\* gone away fails them too.
StatementFails(c) ==
    /\ pc[c] \in {"new", "collided", "reclaim", "takeover", "complete", "vacate"} /\ Fault
    /\ Goto(c, IF pc[c] \in {"complete", "vacate"} THEN "answered" ELSE "error")
    /\ UNCHANGED <<print, answer, row>>

\* The process serving the caller dies.
Crash(c) ==
    /\ pc[c] \in {"running", "complete", "vacate"} /\ Fault
    /\ Goto(c, "crashed")
    /\ UNCHANGED <<print, answer, row>>

-----------------------------------------------------------------------------
(* Time *)

\* inFlightTimeout passes without a write to the row, whether or not its
\* attempt is still running.
FallSilent ==
    /\ status # "none" /\ ~stale
    /\ stale' = TRUE
    /\ UNCHANGED <<print, pc, answer, hash, status, response, expired, owner, faults>>

\* idempotencyTTL passes; no handler runs for a day.
Expire ==
    /\ stale /\ ~expired
    /\ \A c \in Callers : pc[c] \notin {"running", "complete", "vacate"}
    /\ expired' = TRUE
    /\ UNCHANGED <<print, pc, answer, hash, status, response, stale, owner, faults>>

\* The hourly IdempotencyReapWorker.
DeleteExpired ==
    /\ expired
    /\ NoRow
    /\ UNCHANGED <<print, pc, answer, faults>>

Next ==
    \/ \E c \in Callers :
          \/ Claim(c) \/ Get(c) \/ Reclaim(c) \/ TakeOver(c) \/ Handle(c)
          \/ Complete(c) \/ Vacate(c) \/ StatementFails(c) \/ Crash(c)
    \/ FallSilent \/ Expire \/ DeleteExpired

Spec == Init /\ [][Next]_vars

-----------------------------------------------------------------------------
(* Properties *)

\* A caller is only ever replayed the response to its own request, although an
\* attempt that was taken over, whose successor vacated the key for a request
\* with another fingerprint, may still be completing.
ReplayIsOwnRequest ==
    \A c \in Callers : answer[c] # "none" => print[answer[c]] = print[c]

\* The first response stored is the one every retry gets: until the key
\* expires, a completed row is neither overwritten by a second attempt that
\* ran at the same time nor vacated by one that failed.
FirstResponseStays ==
    [][status = "completed" /\ ~expired =>
          status' = "completed" /\ response' = response]_vars

\* Once a response is stored the work is not done again while the key lives,
\* also by a retry that had read the row while it was in flight.
CompletedNeverReruns ==
    [][status = "completed" => \A c \in Callers : pc'[c] = "running" => pc[c] = "running"]_vars

====
