------------------------------- MODULE Stream -------------------------------
(***************************************************************************)
(* One streamed request of the data plane: RunStream walks the candidates, *)
(* Pump passes the chosen upstream's SSE frames to the client, and a       *)
(* reader goroutine feeds Pump through a bounded channel.  The goroutines, *)
(* the first-byte timer, the idle deadline, the client and the upstream    *)
(* interleave freely.                                                      *)
(*                                                                         *)
(* Left out: the bytes of a frame (a frame is a unit; a trailing partial   *)
(* frame is one too), parsing and pricing of usage, the gates before the   *)
(* hold, capacity filters and the retry budget (module Rotation; here the  *)
(* rotation may stop at any candidate).  The two first-byte deadlines are  *)
(* armed from one budget that starts at streamStart, so one flag says that *)
(* it has run out.                                                         *)
(***************************************************************************)
EXTENDS Naturals

CONSTANTS MaxAttempts,  \* maxRouteAttempts: how many candidates are tried
          Frames,       \* bound: frames one upstream sends before it ends
          Cap           \* capacity of the chunk channel (16 in the code)

ASSUME StreamConstants ==
    /\ MaxAttempts \in Nat \ {0}
    /\ Frames \in Nat
    /\ Cap \in Nat \ {0}

VARIABLES
    pc,       \* where the request goroutine is
    hop,      \* the attempt it is on, 0 before the first
    client,   \* the client's connection
    elapsed,  \* TRUE once the first-byte budget has run out
    first,    \* FirstByteSent of the current Pump
    ended,    \* how the committed Pump ended (the outcome variable)
    written,  \* frames of each attempt written to the client
    cause,    \* why each attempt's context is done; "none" while it is not
    timer,    \* the first-byte AfterFunc of each attempt
    reader,   \* each attempt's reader goroutine
    taken,    \* frames its reader has read from the body
    queued,   \* frames in its channel
    readErr,  \* content of its error channel
    verdict,  \* what the breaker was told of the attempt
    hold      \* the request's money

hopVars == <<cause, timer, reader, taken, queued, readErr>>
vars == <<pc, hop, client, elapsed, first, ended, written, verdict, hold, hopVars>>

Hops == 1 .. MaxAttempts

TypeOK ==
    /\ pc \in {"next", "do", "pump", "settle", "done"}
    /\ hop \in 0 .. MaxAttempts
    /\ client \in {"here", "gone"}
    /\ elapsed \in BOOLEAN
    /\ first \in BOOLEAN
    /\ ended \in {"none", "ok", "canceled", "upstream_error"}
    /\ written \in [Hops -> 0 .. Frames]
    /\ cause \in [Hops -> {"none", "client", "budget", "over"}]
    /\ timer \in [Hops -> {"off", "armed", "fired"}]
    /\ reader \in [Hops -> {"off", "reading", "sending", "stopped"}]
    /\ taken \in [Hops -> 0 .. Frames]
    /\ queued \in [Hops -> 0 .. Cap]
    /\ readErr \in [Hops -> {"none", "eof", "broken"}]
    /\ verdict \in [Hops -> {"none", "success", "failure"}]
    /\ hold \in {"held", "void", "settled"}

Init ==
    /\ pc = "next" /\ hop = 0
    /\ client = "here"
    /\ elapsed = FALSE
    /\ first = FALSE /\ ended = "none"
    /\ written = [h \in Hops |-> 0]
    /\ cause = [h \in Hops |-> "none"]
    /\ timer = [h \in Hops |-> "off"]
    /\ reader = [h \in Hops |-> "off"]
    /\ taken = [h \in Hops |-> 0]
    /\ queued = [h \in Hops |-> 0]
    /\ readErr = [h \in Hops |-> "none"]
    /\ verdict = [h \in Hops |-> "none"]
    /\ hold = "held"

-----------------------------------------------------------------------------
(* The attempt's context                                                   *)

\* A context keeps the first cause it was cancelled with.
Cancel(h, why) == [cause EXCEPT ![h] = IF @ = "none" THEN why ELSE @]

Done(h) == cause[h] # "none"

\* Mutant of Disarm: the attempt's context is left to the request's.
DisarmTimerOnly ==
    /\ timer' = [timer EXCEPT ![hop] = IF @ = "armed" THEN "off" ELSE @]
    /\ UNCHANGED cause

\* timer.Stop(); cancel(nil)
Disarm ==
    /\ timer' = [timer EXCEPT ![hop] = IF @ = "armed" THEN "off" ELSE @]
    /\ cause' = Cancel(hop, "over")

-----------------------------------------------------------------------------
(* The request goroutine: rotation                                         *)

\* The rotation has no further candidate, or may not try it.
StopRotation ==
    /\ pc = "next"
    /\ pc' = "settle"
    /\ UNCHANGED <<hop, client, elapsed, first, ended, written, verdict, hold, hopVars>>

\* The candidate's credential, body or request could not be made: nothing is
\* sent.  A missing credential or a bad target counts as the provider's, a body
\* that cannot be rewritten or an unavailable pinned route stops the rotation.
NotSent ==
    /\ pc = "next" /\ hop < MaxAttempts
    /\ hop' = hop + 1
    /\ \/ pc' = "next" /\ verdict' = [verdict EXCEPT ![hop'] = "failure"]
       \/ pc' = "settle" /\ UNCHANGED verdict
    /\ UNCHANGED <<client, elapsed, first, ended, written, hold, hopVars>>

\* The next candidate is dispatched under what is left of the budget; a budget
\* already gone ends the rotation and counts against the candidate.
Dispatch ==
    /\ pc = "next" /\ hop < MaxAttempts
    /\ hop' = hop + 1
    /\ IF elapsed
         THEN /\ pc' = "settle"
              /\ verdict' = [verdict EXCEPT ![hop'] = "failure"]
              /\ UNCHANGED <<cause, timer>>
         ELSE /\ pc' = "do"
              /\ timer' = [timer EXCEPT ![hop'] = "armed"]
              /\ cause' = IF client = "gone" THEN Cancel(hop', "client") ELSE cause
              /\ UNCHANGED verdict
    /\ UNCHANGED <<client, elapsed, first, ended, written, hold,
                   reader, taken, queued, readErr>>

\* The upstream answered with an error status.  Provider-class failures count
\* (on the organization's own credential nothing does, class "own"); client-
\* class ones do not rotate.
Refused ==
    /\ pc = "do"
    /\ Disarm
    /\ \E class \in {"key", "provider", "own", "route", "client"} :
          /\ pc' = IF class = "client" THEN "settle" ELSE "next"
          /\ verdict' = [verdict EXCEPT ![hop] = IF class = "provider" THEN "failure" ELSE @]
    /\ UNCHANGED <<hop, client, elapsed, first, ended, written, hold,
                   reader, taken, queued, readErr>>

\* Do returned an error, classified by the context's cause and the error: the
\* gateway's own timer counts and stops the rotation, a hang-up does neither,
\* an error of the transport counts and rotates.
TransportError ==
    /\ pc = "do"
    /\ Disarm
    /\ \/ /\ cause[hop] = "client"
          /\ pc' = "settle"
          /\ UNCHANGED verdict
       \/ /\ pc' = IF cause[hop] = "budget" THEN "settle" ELSE "next"
          /\ verdict' = [verdict EXCEPT ![hop] = "failure"]
    /\ UNCHANGED <<hop, client, elapsed, first, ended, written, hold,
                   reader, taken, queued, readErr>>

\* Response headers below 400: Pump starts and spawns the reader.  The timer
\* stays armed.
Headers ==
    /\ pc = "do"
    /\ pc' = "pump"
    /\ reader' = [reader EXCEPT ![hop] = "reading"]
    /\ UNCHANGED <<hop, client, elapsed, first, ended, written, verdict, hold,
                   cause, timer, taken, queued, readErr>>

-----------------------------------------------------------------------------
(* The request goroutine: Pump's select and what follows its return        *)

\* Mutant of Leave: an interrupted stream is retried at the next candidate.
LeaveRotates(sent, status, timedOut) ==
    /\ Disarm
    /\ first' = sent
    /\ LET committed == status = "canceled" \/ (sent /\ status = "ok")
       IN  /\ ended' = IF committed THEN status ELSE "none"
           /\ pc' = IF committed \/ timedOut THEN "settle" ELSE "next"
    /\ verdict' = [verdict EXCEPT ![hop] =
                      CASE status = "canceled"    -> @
                        [] status = "ok" /\ sent  -> "success"
                        [] OTHER                  -> "failure"]
    /\ UNCHANGED <<hop, client, elapsed, hold, reader, taken, queued, readErr>>

\* Mutant of Leave: an empty answer counts as a success.
LeaveHeals(sent, status, timedOut) ==
    /\ Disarm
    /\ first' = sent
    /\ LET committed == status = "canceled" \/ sent
       IN  /\ ended' = IF committed THEN status ELSE "none"
           /\ pc' = IF committed \/ timedOut THEN "settle" ELSE "next"
    /\ verdict' = [verdict EXCEPT ![hop] =
                      CASE status = "canceled" -> @
                        [] status = "ok"       -> "success"
                        [] OTHER               -> "failure"]
    /\ UNCHANGED <<hop, client, elapsed, hold, reader, taken, queued, readErr>>

\* Pump returned: the reader is stopped, the timer disarmed and the body
\* closed, the breaker hears of the attempt, and the rotation ends if the
\* attempt is committed or its failure was the clock.
Leave(sent, status, timedOut) ==
    /\ Disarm
    /\ first' = sent
    /\ LET committed == status = "canceled" \/ sent
       IN  /\ ended' = IF committed THEN status ELSE "none"
           /\ pc' = IF committed \/ timedOut THEN "settle" ELSE "next"
    /\ verdict' = [verdict EXCEPT ![hop] =
                      CASE status = "canceled"    -> @
                        [] status = "ok" /\ sent  -> "success"
                        [] OTHER                  -> "failure"]
    /\ UNCHANGED <<hop, client, elapsed, hold, reader, taken, queued, readErr>>

\* case <-ctx.Done()
PumpCanceled ==
    /\ pc = "pump" /\ Done(hop)
    /\ Leave(first, "canceled", FALSE)
    /\ UNCHANGED written

\* case chunk := <-chunks, written out; the header goes with the first one.
PumpChunk ==
    /\ pc = "pump" /\ queued[hop] > 0
    /\ first' = TRUE
    /\ queued' = [queued EXCEPT ![hop] = @ - 1]
    /\ written' = [written EXCEPT ![hop] = @ + 1]
    /\ UNCHANGED <<pc, hop, client, elapsed, ended, verdict, hold,
                   cause, timer, reader, taken, readErr>>

\* The same, but the write fails because the client is gone.
PumpWriteFails ==
    /\ pc = "pump" /\ queued[hop] > 0 /\ client = "gone"
    /\ Leave(TRUE, "canceled", FALSE)
    /\ UNCHANGED written

\* Mutant of PumpClosed: the error channel is selected alongside the chunks.
PumpClosedEarly ==
    /\ pc = "pump" /\ reader[hop] = "stopped"
    /\ Leave(first, IF readErr[hop] = "broken" THEN "upstream_error" ELSE "ok", FALSE)
    /\ UNCHANGED written

\* The channel is closed and drained: the error channel says how it ended.
PumpClosed ==
    /\ pc = "pump" /\ reader[hop] = "stopped" /\ queued[hop] = 0
    /\ Leave(first, IF readErr[hop] = "broken" THEN "upstream_error" ELSE "ok", FALSE)
    /\ UNCHANGED written

\* case <-clock.After(deadlineFor(first)): the budget before the first byte, a
\* fresh idle bound after it.
PumpTimeout ==
    /\ pc = "pump"
    /\ IF first THEN queued[hop] = 0 /\ reader[hop] # "stopped" ELSE elapsed
    /\ Leave(first, "upstream_error", TRUE)
    /\ UNCHANGED written

\* Mutant of Finish: only a stream that ended well is settled.
FinishOnlyGood ==
    /\ pc = "settle"
    /\ pc' = "done"
    /\ IF ended = "ok" /\ first
         THEN hold' = "settled"
         ELSE hold' \in {"void"} \cup (IF client = "gone" THEN {"held"} ELSE {})
    /\ UNCHANGED <<hop, client, elapsed, first, ended, written, verdict, hopVars>>

\* After the rotation: nothing sent is voided, anything sent is settled.  A
\* void runs under the request's context and fails if the client is gone; the
\* sweeper releases such a hold later.  Settlement is detached.
Finish ==
    /\ pc = "settle"
    /\ pc' = "done"
    /\ IF ended # "none" /\ first
         THEN hold' = "settled"
         ELSE hold' \in {"void"} \cup (IF client = "gone" THEN {"held"} ELSE {})
    /\ UNCHANGED <<hop, client, elapsed, first, ended, written, verdict, hopVars>>

-----------------------------------------------------------------------------
(* The reader goroutine of attempt h                                       *)

\* A whole frame has been read; the goroutine goes on to send it.
ReadFrame(h) ==
    /\ reader[h] = "reading" /\ taken[h] < Frames
    /\ taken' = [taken EXCEPT ![h] = @ + 1]
    /\ reader' = [reader EXCEPT ![h] = "sending"]
    /\ UNCHANGED <<pc, hop, client, elapsed, first, ended, written, verdict, hold,
                   cause, timer, queued, readErr>>

\* Mutant of Send: a channel without a bound.
SendUnbounded(h) ==
    /\ reader[h] = "sending"
    /\ queued' = [queued EXCEPT ![h] = @ + 1]
    /\ reader' = [reader EXCEPT ![h] = "reading"]
    /\ UNCHANGED <<pc, hop, client, elapsed, first, ended, written, verdict, hold,
                   cause, timer, taken, readErr>>

Send(h) ==
    /\ reader[h] = "sending" /\ queued[h] < Cap
    /\ queued' = [queued EXCEPT ![h] = @ + 1]
    /\ reader' = [reader EXCEPT ![h] = "reading"]
    /\ UNCHANGED <<pc, hop, client, elapsed, first, ended, written, verdict, hold,
                   cause, timer, taken, readErr>>

\* Mutant of SendAborted: the send does not watch the context.
SendBlocks(h) ==
    /\ reader[h] = "sending" /\ Done(h) /\ queued[h] < Cap
    /\ reader' = [reader EXCEPT ![h] = "stopped"]
    /\ UNCHANGED <<pc, hop, client, elapsed, first, ended, written, verdict, hold,
                   cause, timer, taken, queued, readErr>>

\* The other branch of the send's select: the frame is dropped and the channel
\* closed with no error in the error channel.
SendAborted(h) ==
    /\ reader[h] = "sending" /\ Done(h)
    /\ reader' = [reader EXCEPT ![h] = "stopped"]
    /\ UNCHANGED <<pc, hop, client, elapsed, first, ended, written, verdict, hold,
                   cause, timer, taken, queued, readErr>>

\* The read fails: the end of the stream, a broken connection, a cancelled
\* request or a closed body.
ReadEnds(h) ==
    /\ reader[h] = "reading"
    /\ reader' = [reader EXCEPT ![h] = "stopped"]
    /\ \E e \in {"eof", "broken"} : readErr' = [readErr EXCEPT ![h] = e]
    /\ UNCHANGED <<pc, hop, client, elapsed, first, ended, written, verdict, hold,
                   cause, timer, taken, queued>>

-----------------------------------------------------------------------------
(* The environment: clock and client                                       *)

BudgetRunsOut ==
    /\ ~elapsed
    /\ elapsed' = TRUE
    /\ UNCHANGED <<pc, hop, client, first, ended, written, verdict, hold, hopVars>>

\* The AfterFunc cancels the attempt with errFirstByteBudget.
TimerFires(h) ==
    /\ timer[h] = "armed" /\ elapsed
    /\ timer' = [timer EXCEPT ![h] = "fired"]
    /\ cause' = Cancel(h, "budget")
    /\ UNCHANGED <<pc, hop, client, elapsed, first, ended, written, verdict, hold,
                   reader, taken, queued, readErr>>

\* The request's context ends, and with it the context of the attempt under way.
HangUp ==
    /\ client = "here" /\ pc # "done"
    /\ client' = "gone"
    /\ cause' = IF pc \in {"do", "pump"} THEN Cancel(hop, "client") ELSE cause
    /\ UNCHANGED <<pc, hop, elapsed, first, ended, written, verdict, hold,
                   timer, reader, taken, queued, readErr>>

-----------------------------------------------------------------------------
RequestStep ==
    \/ StopRotation \/ NotSent \/ Dispatch \/ Refused \/ TransportError \/ Headers
    \/ PumpCanceled \/ PumpChunk \/ PumpWriteFails \/ PumpClosed \/ PumpTimeout
    \/ Finish

ReaderStep(h) == ReadFrame(h) \/ Send(h) \/ SendAborted(h) \/ ReadEnds(h)

Next ==
    \/ RequestStep
    \/ \E h \in Hops : ReaderStep(h) \/ TimerFires(h)
    \/ BudgetRunsOut
    \/ HangUp

Spec == Init /\ [][Next]_vars

\* The request goroutine runs, time passes and armed timers fire.  A reader
\* waiting to send runs when it can; one blocked in a read is only sure to
\* return once the body has been closed, after its attempt.  Nothing is assumed
\* of the upstream or of the client.
Fairness ==
    /\ WF_vars(StopRotation \/ NotSent \/ Dispatch)
    /\ WF_vars(PumpCanceled \/ PumpChunk \/ PumpWriteFails \/ PumpClosed \/ PumpTimeout)
    /\ WF_vars(Finish)
    /\ WF_vars(pc = "do" /\ Done(hop) /\ TransportError)
    /\ WF_vars(BudgetRunsOut)
    /\ \A h \in Hops :
          /\ WF_vars(TimerFires(h))
          /\ WF_vars(Send(h) \/ SendAborted(h))
          /\ WF_vars((hop # h \/ pc # "pump") /\ ReadEnds(h))

FairSpec == Spec /\ Fairness

-----------------------------------------------------------------------------
(* Properties                                                              *)

\* Once an upstream's bytes have gone out no other candidate is heard: the
\* frames the client gets all come from one attempt, whatever the reader, the
\* timer and the rotation do (committed in RunStream and rotate).
OneUpstreamSpeaks ==
    \A g, h \in Hops : written[g] > 0 /\ written[h] > 0 => g = h

\* RecordSuccess closes a provider's circuit only on frames that reached a client:
\* an upstream that answers 200 and ends with nothing, times out or is cut off
\* heals nothing, and after the one that served no candidate is contacted.
HealedByDelivery ==
    \A h \in Hops : verdict[h] = "success" =>
        /\ written[h] > 0
        /\ \A g \in Hops : g > h => verdict[g] = "none" /\ timer[g] = "off"

\* The billing boundary: when the request is over, one that delivered a frame
\* on any attempt is settled, and one that delivered none is settled only if
\* its header went out and the first write failed on a client that had left.
DeliveredIsCharged ==
    pc = "done" =>
        /\ (\E h \in Hops : written[h] > 0) => hold = "settled"
        /\ hold = "settled" =>
              (\E h \in Hops : written[h] > 0) \/ client = "gone"

\* A stream recorded as ended cleanly, whose context nobody cancelled before
\* Pump returned, reached the upstream's end of file with every frame read
\* from it written to the client: closing the channel loses no frame.
CleanEndIsWhole ==
    ended = "ok" /\ cause[hop] = "over"
        => readErr[hop] = "eof" /\ written[hop] = taken[hop]

\* An attempt that is not under way any more has left nothing behind: its timer
\* cannot fire, and a reader of its that still runs has a context that is done, so
\* it is not kept waiting by a full channel nobody drains.  Every way out of an
\* attempt and of Pump, whatever the reader is at, comes past Disarm.
NothingLeftBehind ==
    \A h \in Hops : ~(hop = h /\ pc \in {"do", "pump"}) =>
        /\ timer[h] # "armed"
        /\ reader[h] \in {"reading", "sending"} => Done(h)

\* No upstream, however slow, and no client that leaves keeps the request or
\* one of its reader goroutines alive for ever: the request ends and every
\* reader it started stops.
EveryStreamEnds ==
    <>[](pc = "done" /\ \A h \in Hops : reader[h] \in {"off", "stopped"})

\* "Canceled means the client hung up": a stream that has begun to reach its
\* client is recorded as cancelled only if that client has left.
CanceledMeansHungUp == ended = "canceled" /\ first => client = "gone"

=============================================================================
