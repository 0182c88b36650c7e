------------------------------ MODULE Breaker -------------------------------
(***************************************************************************)
(* The two-level circuit breaker and the hops that drive it.  A hop checks *)
(* its provider, picks a credential that is not cooling down, calls the    *)
(* upstream and reports what came back.  A report reads a circuit, writes  *)
(* it in a later step and persists the cooldown in a third, so the reports *)
(* of several hops interleave; the process may restart between any two.    *)
(*                                                                         *)
(* Times are what is left of them: a cooldown counts down to 0, and so     *)
(* does the life of an entry of the store, which is gone at 0.  Left out:  *)
(* jitter, errors of the store driver (the in-memory one has none), the    *)
(* round-robin start of the credential scan (any usable one is picked).    *)
(***************************************************************************)
EXTENDS Naturals

CONSTANTS Workers,       \* requests in flight, each on one hop
          Providers,
          Keys,          \* shared credentials
          Pool,          \* the credentials of each provider
          NoKey,         \* the hop uses the organization's own credential
          Threshold,     \* providerFailureThreshold
          Ladder,        \* backoffLadder
          Rungs,         \* its length
          AuthCooldown,  \* keyAuthCooldown
          Hints,         \* what an upstream may say in Retry-After
          Memory,        \* ladderMemory
          Longest        \* bound: no cooldown exceeds it

ASSUME BreakerConstants ==
    /\ Providers \cap Keys = {}
    /\ NoKey \notin Providers \cup Keys
    /\ Pool \in [Providers -> SUBSET Keys]
    /\ Threshold \in Nat \ {0}
    /\ Rungs \in Nat \ {0}
    /\ Longest \in Nat \ {0}
    /\ Ladder \in [1 .. Rungs -> 1 .. Longest]
    /\ AuthCooldown \in 1 .. Longest
    /\ Hints \subseteq 0 .. Longest
    /\ Memory \in Nat

VARIABLES
    store,    \* the breaker store: one entry per scope
    rows,     \* the cooldowns table: what is left of each row, 0 without one
    pc,       \* where each worker is
    at,       \* the provider of its hop
    key,      \* the shared credential of its hop, or NoKey
    op,       \* what it reports
    target,   \* the scope it reports on
    snap,     \* the entry it has read
    due,      \* what is left of the cooldown it is about to persist
    reports,  \* history: failures reported of each provider, up to Threshold
    apart     \* history: scopes whose reports have overlapped, or whose row
              \* could not be written, since the last restart

hopVars == <<pc, at, key, op, target, snap, due>>
vars == <<store, rows, hopVars, reports, apart>>

Scopes == Providers \cup Keys

Entry == [status : {"none", "closed", "open"}, failures : 0 .. Threshold,
          opens : 0 .. Rungs, cool : 0 .. Longest, life : 0 .. Longest + Memory]

Absent == [status |-> "none", failures |-> 0, opens |-> 0, cool |-> 0, life |-> 0]

TypeOK ==
    /\ store \in [Scopes -> Entry]
    /\ rows \in [Scopes -> 0 .. Longest]
    /\ pc \in [Workers -> {"idle", "chosen", "sent", "read", "write", "row"}]
    /\ at \in [Workers -> Providers \cup {NoKey}]
    /\ key \in [Workers -> Keys \cup {NoKey}]
    /\ op \in [Workers -> {"none", "ok", "auth", "quota", "fail"}]
    /\ target \in [Workers -> Scopes \cup {NoKey}]
    /\ snap \in [Workers -> Entry]
    /\ due \in [Workers -> 0 .. Longest]
    /\ reports \in [Providers -> 0 .. Threshold]
    /\ apart \subseteq Scopes

Init ==
    /\ store = [s \in Scopes |-> Absent]
    /\ rows = [s \in Scopes |-> 0]
    /\ pc = [w \in Workers |-> "idle"]
    /\ at = [w \in Workers |-> NoKey]
    /\ key = [w \in Workers |-> NoKey]
    /\ op = [w \in Workers |-> "none"]
    /\ target = [w \in Workers |-> NoKey]
    /\ snap = [w \in Workers |-> Absent]
    /\ due = [w \in Workers |-> 0]
    /\ reports = [p \in Providers |-> 0]
    /\ apart = {}

-----------------------------------------------------------------------------
(* The breaker's decisions                                                 *)

\* Open and still cooling down means no; an expired cooldown lets anyone probe.
Available(s) == store[s].status # "open" \/ store[s].cool = 0

Lesser(a, b) == IF a < b THEN a ELSE b
Greater(a, b) == IF a < b THEN b ELSE a

\* The rung is indexed by how often the circuit has opened, and stays on the
\* last one.  Counting opens further than the ladder is long changes nothing.
nextBackoff(opens) == Ladder[Lesser(opens + 1, Rungs)]

Opened(e, cooldown) ==
    [status |-> "open", failures |-> 0, opens |-> Lesser(e.opens + 1, Rungs),
     cool |-> cooldown, life |-> cooldown + Memory]

\* A failure below the threshold is counted for one rung's time.
Counted(e) ==
    [status |-> "closed", failures |-> e.failures + 1, opens |-> e.opens,
     cool |-> 0, life |-> Ladder[1]]

\* Mutant of Trips: the circuit opens one failure early.
TripsEarly(e) == e.failures + 2 >= Threshold \/ e.status = "open"

\* Mutant of Trips: only the count opens the circuit, so that a failure which
\* comes after the opening starts a new count in a closed circuit.
TripsOnCount(e) == e.failures + 1 >= Threshold

Trips(e) == e.failures + 1 >= Threshold \/ e.status = "open"

\* Goes back to the pool of workers; nothing of the hop is kept.
Forget(w) ==
    /\ pc' = [pc EXCEPT ![w] = "idle"]
    /\ at' = [at EXCEPT ![w] = NoKey]
    /\ key' = [key EXCEPT ![w] = NoKey]
    /\ op' = [op EXCEPT ![w] = "none"]
    /\ target' = [target EXCEPT ![w] = NoKey]
    /\ snap' = [snap EXCEPT ![w] = Absent]
    /\ due' = [due EXCEPT ![w] = 0]

\* Reports about scope s that have read its entry and are not through.
Recording(s) == {w \in Workers : target[w] = s /\ pc[w] \in {"write", "row"}}

-----------------------------------------------------------------------------
(* A hop                                                                   *)

\* Mutant of Choose: a provider that is cooling down stays in the running.
ChooseAny(w, p) ==
    /\ pc[w] = "idle"
    /\ pc' = [pc EXCEPT ![w] = "chosen"]
    /\ at' = [at EXCEPT ![w] = p]
    /\ UNCHANGED <<store, rows, key, op, target, snap, due, reports, apart>>

\* availableRoutes keeps the provider, and the rotation comes to it later.
Choose(w, p) ==
    /\ pc[w] = "idle" /\ Available(p)
    /\ pc' = [pc EXCEPT ![w] = "chosen"]
    /\ at' = [at EXCEPT ![w] = p]
    /\ UNCHANGED <<store, rows, key, op, target, snap, due, reports, apart>>

\* The credential: the organization's own, or one of the pool that is not
\* cooling down.
PickKey(w) ==
    /\ pc[w] = "chosen"
    /\ pc' = [pc EXCEPT ![w] = "sent"]
    /\ \E k \in {NoKey} \cup {j \in Pool[at[w]] : Available(j)} :
          key' = [key EXCEPT ![w] = k]
    /\ UNCHANGED <<store, rows, at, op, target, snap, due, reports, apart>>

\* No credential is usable, because all are cooling down or none could be read:
\* the hop fails without a call, as the provider's failure.
NoUsableKey(w) ==
    /\ pc[w] = "chosen"
    /\ pc' = [pc EXCEPT ![w] = "read"]
    /\ op' = [op EXCEPT ![w] = "fail"]
    /\ target' = [target EXCEPT ![w] = at[w]]
    /\ UNCHANGED <<store, rows, at, key, snap, due, reports, apart>>

\* The upstream's answer is a success, or a failure that is to be reported.  On
\* an organization's credential error statuses are not, but a broken transport
\* is the provider's failure whoever's credential it was.
Answered(w) ==
    /\ pc[w] = "sent"
    /\ pc' = [pc EXCEPT ![w] = "read"]
    /\ \E o \in {"ok", "auth", "quota", "fail"} :
          /\ o \in {"auth", "quota"} => key[w] # NoKey
          /\ op' = [op EXCEPT ![w] = o]
          /\ target' = [target EXCEPT ![w] =
                            IF o \in {"auth", "quota"} THEN key[w] ELSE at[w]]
    /\ UNCHANGED <<store, rows, at, key, snap, due, reports, apart>>

\* The answer concerns no circuit: a client- or route-class failure, a hang-up,
\* an error status on the organization's own credential.
Unreported(w) ==
    /\ pc[w] = "sent"
    /\ Forget(w)
    /\ UNCHANGED <<store, rows, reports, apart>>

-----------------------------------------------------------------------------
(* A report                                                                *)

\* RecordSuccess resets the provider's circuit and then the credential's.
MoreToReset(w) == op[w] = "ok" /\ target[w] = at[w] /\ key[w] # NoKey

NextTarget(w) ==
    IF MoreToReset(w)
      THEN /\ pc' = [pc EXCEPT ![w] = "read"]
           /\ target' = [target EXCEPT ![w] = key[w]]
           /\ UNCHANGED <<at, key, op, snap, due>>
      ELSE Forget(w)

\* store.Get.  A reset stops here unless the circuit is open.
ReadCircuit(w) ==
    /\ pc[w] = "read"
    /\ reports' = IF op[w] = "fail"
                    THEN [reports EXCEPT ![at[w]] = Lesser(@ + 1, Threshold)]
                    ELSE reports
    /\ IF op[w] = "ok" /\ store[target[w]].status # "open"
         THEN NextTarget(w) /\ UNCHANGED apart
         ELSE /\ pc' = [pc EXCEPT ![w] = "write"]
              /\ snap' = [snap EXCEPT ![w] = store[target[w]]]
              /\ apart' = IF Recording(target[w]) # {} THEN apart \cup {target[w]} ELSE apart
              /\ UNCHANGED <<at, key, op, target, due>>
    /\ UNCHANGED <<store, rows>>

\* store.Set of an opened circuit, decided on the entry read before.
Open(w, cooldown) ==
    /\ store' = [store EXCEPT ![target[w]] = Opened(snap[w], cooldown)]
    /\ due' = [due EXCEPT ![w] = cooldown]
    /\ snap' = [snap EXCEPT ![w] = Absent]
    /\ pc' = [pc EXCEPT ![w] = "row"]
    /\ UNCHANGED <<rows, at, key, op, target, reports, apart>>

\* Mutant of Reset: only the store is cleared, the persisted row stays.
ResetStoreOnly(w) ==
    /\ pc[w] = "write" /\ op[w] = "ok"
    /\ store' = [store EXCEPT ![target[w]] = Absent]
    /\ NextTarget(w)
    /\ UNCHANGED <<rows, reports, apart>>

\* reset: store.Delete
Reset(w) ==
    /\ pc[w] = "write" /\ op[w] = "ok"
    /\ store' = [store EXCEPT ![target[w]] = Absent]
    /\ due' = [due EXCEPT ![w] = 0]
    /\ snap' = [snap EXCEPT ![w] = Absent]
    /\ pc' = [pc EXCEPT ![w] = "row"]
    /\ UNCHANGED <<rows, at, key, op, target, reports, apart>>

\* Mutant of RecordKeyFailure: the hint is added to the rung.
RecordKeyFailureAdds(w) ==
    /\ pc[w] = "write"
    /\ \/ op[w] = "auth" /\ Open(w, AuthCooldown)
       \/ /\ op[w] = "quota"
          /\ \E hint \in Hints : Open(w, hint + nextBackoff(snap[w].opens))

RecordKeyFailure(w) ==
    /\ pc[w] = "write"
    /\ \/ op[w] = "auth" /\ Open(w, AuthCooldown)
       \/ /\ op[w] = "quota"
          /\ \E hint \in Hints : Open(w, Greater(hint, nextBackoff(snap[w].opens)))

RecordProviderFailure(w) ==
    /\ pc[w] = "write" /\ op[w] = "fail"
    /\ IF Trips(snap[w])
         THEN Open(w, nextBackoff(snap[w].opens))
         ELSE /\ store' = [store EXCEPT ![target[w]] = Counted(snap[w])]
              /\ Forget(w)
              /\ UNCHANGED <<rows, reports, apart>>

\* UpsertCooldown or DeleteCooldown; an error is only logged.
PersistRow(w) ==
    /\ pc[w] = "row"
    /\ \/ /\ rows' = [rows EXCEPT ![target[w]] = due[w]]
          /\ UNCHANGED apart
       \/ /\ apart' = apart \cup {target[w]}
          /\ UNCHANGED rows
    /\ NextTarget(w)
    /\ UNCHANGED <<store, reports>>

-----------------------------------------------------------------------------
(* Time and restarts                                                       *)

Less(n) == IF n = 0 THEN 0 ELSE n - 1

Aged(e) ==
    IF e.life <= 1 THEN Absent
    ELSE [e EXCEPT !.cool = Less(@), !.life = @ - 1]

Tick ==
    /\ store' = [s \in Scopes |-> Aged(store[s])]
    /\ rows' = [s \in Scopes |-> Less(rows[s])]
    /\ due' = [w \in Workers |-> Less(due[w])]
    /\ UNCHANGED <<pc, at, key, op, target, snap, reports, apart>>

\* RestoreCooldowns: every unexpired row is an open circuit on the first rung.
Restored(left) ==
    IF left = 0 THEN Absent
    ELSE [status |-> "open", failures |-> 0, opens |-> 0, cool |-> left, life |-> left]

\* The process and its store go; the rows are read back before it serves.
Restart ==
    /\ store' = [s \in Scopes |-> Restored(rows[s])]
    /\ pc' = [w \in Workers |-> "idle"]
    /\ at' = [w \in Workers |-> NoKey]
    /\ key' = [w \in Workers |-> NoKey]
    /\ op' = [w \in Workers |-> "none"]
    /\ target' = [w \in Workers |-> NoKey]
    /\ snap' = [w \in Workers |-> Absent]
    /\ due' = [w \in Workers |-> 0]
    /\ apart' = {}
    /\ UNCHANGED <<rows, reports>>

-----------------------------------------------------------------------------
HopStep(w) ==
    \/ \E p \in Providers : Choose(w, p)
    \/ PickKey(w) \/ NoUsableKey(w) \/ Answered(w) \/ Unreported(w)
    \/ ReadCircuit(w) \/ Reset(w) \/ RecordKeyFailure(w) \/ RecordProviderFailure(w)
    \/ PersistRow(w)

Next ==
    \/ \E w \in Workers : HopStep(w)
    \/ Tick
    \/ Restart

Spec == Init /\ [][Next]_vars

\* Time passes.  Nothing else is needed of anyone.
FairSpec == Spec /\ WF_vars(Tick)

-----------------------------------------------------------------------------
(* Properties                                                              *)

\* One blip does not take a provider offline: whatever reports, ticks and
\* restarts interleave, a provider whose circuit is open, or whose cooldown
\* is persisted, has had Threshold failures reported of it.
NoOpenOnABlip ==
    \A p \in Providers :
        store[p].status = "open" \/ rows[p] > 0 => reports[p] = Threshold

\* The cooldowns table mirrors the store both ways as long as the reports of a
\* scope did not overlap and its row could be written: a restart then revives
\* no failing provider and puts no recovered one back into cooldown.
RowMirrorsCircuit ==
    \A s \in Scopes :
        s \notin apart /\ Recording(s) = {} =>
            rows[s] = IF store[s].status = "open" THEN store[s].cool ELSE 0

\* What is cooling down is let back in by the end of its cooldown, by a success
\* that is reported of it, or by a restart that comes before its row is written,
\* and by nothing else.  Above all, not by the failures that are reported late,
\* by requests which were under way when the circuit opened.  The reports of the
\* scope must not have overlapped: a stale count may overwrite an open circuit.
OnlySuccessLetsBackIn ==
    [][\A s \in Scopes \ apart :
          ~ Available(s) /\ Available(s)' =>
              \/ Tick /\ store[s].cool = 1
              \/ Restart /\ \E w \in Recording(s) : pc[w] = "row"
              \/ \E w \in Recording(s) : pc[w] = "write" /\ op[w] = "ok"]_vars

\* Requests that were under way when a circuit opened may fail late and open it
\* again on a higher rung, but no provider and no credential is kept out for
\* ever: each becomes available again and again.
CooldownsEnd == \A s \in Scopes : []<>Available(s)

=============================================================================
