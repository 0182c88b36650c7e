---------------------------- MODULE BreakerProofs ---------------------------
(***************************************************************************)
(* Proofs about Breaker for every set of workers, providers, credentials,  *)
(* every threshold and ladder.  A report carries what it read across two   *)
(* more steps, so the invariants speak of the reports under way too:       *)
(*   BlipHop    a report that counted a failure has seen one fewer;        *)
(*   MirrorAt   while the reports of a scope do not overlap, the one under *)
(*              way holds the row's next value and an entry not outdated;  *)
(*              it also decides what can let a circuit back in.            *)
(***************************************************************************)
EXTENDS Breaker, TLAPS

\* What a worker's variables are worth at each point of its hop.
HopAt(w) ==
    /\ pc[w] # "idle" => at[w] \in Providers
    /\ pc[w] \in {"read", "write", "row"} =>
          /\ target[w] \in Scopes
          /\ op[w] = "fail" => target[w] = at[w]
          /\ op[w] \in {"auth", "quota"} => target[w] \in Keys

\* What an entry is worth: its cooldown never outlives it, and the count that
\* would reach the threshold opens the circuit instead.
Sound(e) == e.cool <= e.life /\ e.failures < Threshold

Shape ==
    /\ \A w \in Workers : HopAt(w) /\ Sound(snap[w])
    /\ \A s \in Scopes : Sound(store[s])

\* TypeOK in two parts
TypeHop ==
    /\ pc \in [Workers -> {"idle", "chosen", "sent", "read", "write", "row"}]
    /\ at \in [Workers -> Providers \cup {NoKey}]
    /\ key \in [Workers -> Keys \cup {NoKey}]
    /\ op \in [Workers -> {"none", "ok", "auth", "quota", "fail"}]
    /\ target \in [Workers -> Scopes \cup {NoKey}]
    /\ snap \in [Workers -> Entry]
    /\ due \in [Workers -> 0 .. Longest]

TypeShared ==
    /\ store \in [Scopes -> Entry]
    /\ rows \in [Scopes -> 0 .. Longest]
    /\ reports \in [Providers -> 0 .. Threshold]
    /\ apart \subseteq Scopes

TypeInv == TypeHop /\ TypeShared /\ Shape

\* A provider's count is of failures that were reported.
BlipAt(p) ==
    /\ store[p].failures <= reports[p]
    /\ store[p].status = "open" \/ rows[p] > 0 => reports[p] = Threshold

\* A report on a provider has itself been counted as one.
BlipHop(w) ==
    target[w] \in Providers =>
        /\ pc[w] = "write" /\ op[w] = "fail" =>
              /\ snap[w].failures + 1 <= reports[target[w]]
              /\ snap[w].status = "open" => reports[target[w]] = Threshold
        /\ pc[w] = "row" /\ due[w] > 0 => reports[target[w]] = Threshold

BlipInv == (\A p \in Providers : BlipAt(p)) /\ (\A w \in Workers : BlipHop(w))

\* What a row is to hold for its circuit
Cooling(e) == IF e.status = "open" THEN e.cool ELSE 0

\* Reports on s that have written the store and not the row
Owing(s) == {w \in Workers : target[w] = s /\ pc[w] = "row"}

MirrorAt(s) ==
    s \notin apart =>
        /\ \A v, w \in Recording(s) : v = w
        /\ \A w \in Owing(s) : due[w] = Cooling(store[s])
        /\ \A w \in Recording(s) :
              pc[w] = "write" /\ store[s].status = "open" => snap[w].status = "open"
        /\ Owing(s) = {} => rows[s] = Cooling(store[s])

MirrorInv == \A s \in Scopes : MirrorAt(s)

-----------------------------------------------------------------------------
(* Entries and cooldowns                                                   *)

\* An entry that is gone is sound and cools nothing down.
LEMMA AbsentEntry ==
    /\ Absent \in Entry /\ Sound(Absent) /\ Cooling(Absent) = 0
    /\ Absent.status # "open" /\ Absent.failures = 0
  BY BreakerConstants DEF Absent, Entry, Sound, Cooling

\* Every rung is a positive time within the longest cooldown.
LEMMA Rung ==
    ASSUME NEW e \in Entry
    PROVE  /\ nextBackoff(e.opens) \in 1 .. Longest
           /\ \A hint \in Hints : Greater(hint, nextBackoff(e.opens)) \in 1 .. Longest
  <1>1. e.opens \in 0 .. Rungs
    BY DEF Entry
  <1>2. Lesser(e.opens + 1, Rungs) \in 1 .. Rungs
    BY <1>1, BreakerConstants DEF Lesser
  <1>3. nextBackoff(e.opens) \in 1 .. Longest
    BY <1>2, BreakerConstants DEF nextBackoff
  <1> QED BY <1>3, BreakerConstants DEF Greater

\* A circuit that opens cools down for what its row is to hold.
LEMMA OpenedEntry ==
    ASSUME NEW e \in Entry, NEW c \in 1 .. Longest
    PROVE  /\ Opened(e, c) \in Entry /\ Sound(Opened(e, c))
           /\ Cooling(Opened(e, c)) = c /\ Opened(e, c).failures = 0
  <1>1. Lesser(e.opens + 1, Rungs) \in 0 .. Rungs
    BY BreakerConstants DEF Entry, Lesser
  <1>2. c + Memory \in 0 .. Longest + Memory /\ c <= c + Memory /\ c \in 0 .. Longest
    BY BreakerConstants
  <1> QED BY <1>1, <1>2, BreakerConstants DEF Opened, Entry, Sound, Cooling

\* A failure that does not trip the circuit is one more in a closed one.
LEMMA CountedEntry ==
    ASSUME NEW e \in Entry, ~ Trips(e)
    PROVE  /\ Counted(e) \in Entry /\ Sound(Counted(e)) /\ Cooling(Counted(e)) = 0
           /\ Counted(e).failures = e.failures + 1 /\ Counted(e).status = "closed"
           /\ e.status # "open"
  <1>1. e.failures + 1 \in 0 .. Threshold /\ e.failures + 1 < Threshold /\ e.status # "open"
    BY BreakerConstants DEF Trips, Entry
  <1>2. Ladder[1] \in 0 .. Longest + Memory /\ 0 <= Ladder[1]
    BY BreakerConstants
  <1>3. e.opens \in 0 .. Rungs
    BY DEF Entry
  <1> QED BY <1>1, <1>2, <1>3, BreakerConstants DEF Counted, Entry, Sound, Cooling

\* Time takes a cooldown down by one, or the entry away, never before its end.
LEMMA AgedEntry ==
    ASSUME NEW e \in Entry, Sound(e)
    PROVE  /\ Aged(e) \in Entry /\ Sound(Aged(e)) /\ Cooling(Aged(e)) = Less(Cooling(e))
           /\ Aged(e).failures <= e.failures
           /\ Aged(e).status = "open" => e.status = "open"
  <1>1. /\ e.cool \in 0 .. Longest /\ e.life \in 0 .. Longest + Memory /\ e.cool <= e.life
        /\ e.failures \in 0 .. Threshold /\ e.failures < Threshold
    BY DEF Entry, Sound
  <1>2. CASE e.life <= 1
    <2>1. Aged(e) = Absent /\ Less(e.cool) = 0 /\ Less(0) = 0
      BY <1>1, <1>2, BreakerConstants DEF Aged, Less
    <2> QED BY <1>1, <2>1, AbsentEntry, BreakerConstants DEF Cooling
  <1>3. CASE ~ (e.life <= 1)
    <2>1. Aged(e) = [e EXCEPT !.cool = Less(@), !.life = @ - 1]
      BY <1>3 DEF Aged
    <2>2. /\ Less(e.cool) \in 0 .. Longest /\ e.life - 1 \in 0 .. Longest + Memory
          /\ Less(e.cool) <= e.life - 1 /\ Less(0) = 0
      <3>1. e.life \in Nat /\ e.life > 1 /\ e.cool \in Nat /\ Longest \in Nat /\ Memory \in Nat
        BY <1>1, <1>3, BreakerConstants
      <3>2. CASE e.cool = 0
        BY <1>1, <3>1, <3>2 DEF Less
      <3>3. CASE e.cool # 0
        BY <1>1, <3>1, <3>3 DEF Less
      <3> QED BY <3>2, <3>3
    <2>3. Aged(e) \in Entry
      BY <2>1, <2>2 DEF Entry
    <2>4. /\ Aged(e).cool = Less(e.cool) /\ Aged(e).life = e.life - 1
          /\ Aged(e).status = e.status /\ Aged(e).failures = e.failures
      BY <2>1 DEF Entry
    <2> QED BY <1>1, <2>2, <2>3, <2>4, BreakerConstants DEF Sound, Cooling
  <1> QED BY <1>2, <1>3

\* A restored row is a circuit that cools down for what the row held.
LEMMA RestoredEntry ==
    ASSUME NEW c \in 0 .. Longest
    PROVE  /\ Restored(c) \in Entry /\ Sound(Restored(c)) /\ Cooling(Restored(c)) = c
           /\ Restored(c).failures = 0
           /\ Restored(c).status = "open" => c > 0
  <1>1. CASE c = 0
    BY <1>1, AbsentEntry DEF Restored
  <1>2. CASE c # 0
    <2>1. c \in 0 .. Longest + Memory /\ c > 0
      BY <1>2, BreakerConstants
    <2> QED BY <1>2, <2>1, BreakerConstants DEF Restored, Entry, Sound, Cooling
  <1> QED BY <1>1, <1>2

-----------------------------------------------------------------------------
(* Types                                                                   *)

\* A credential's failure opens its circuit, for a positive time.
LEMMA KeyFailureOpens ==
    ASSUME NEW w \in Workers, TypeInv, RecordKeyFailure(w)
    PROVE  pc[w] = "write" /\ target[w] \in Keys /\ \E c \in 1 .. Longest : Open(w, c)
  <1>1. pc[w] = "write" /\ op[w] \in {"auth", "quota"}
    BY DEF RecordKeyFailure
  <1>2. target[w] \in Keys
    BY <1>1 DEF TypeInv, Shape, HopAt
  <1>3. snap[w] \in Entry
    BY DEF TypeInv, TypeHop
  <1>4. \E c \in 1 .. Longest : Open(w, c)
    BY <1>3, Rung, BreakerConstants DEF RecordKeyFailure
  <1> QED BY <1>1, <1>2, <1>4

\* A provider's failure below the threshold, with all it changes
CountsOne(w) ==
    /\ ~ Trips(snap[w])
    /\ store' = [store EXCEPT ![target[w]] = Counted(snap[w])]
    /\ Forget(w)
    /\ UNCHANGED <<rows, reports, apart>>

\* A provider's failure opens its circuit or is counted.
LEMMA ProviderFailureForms ==
    ASSUME NEW w \in Workers, TypeInv, RecordProviderFailure(w)
    PROVE  /\ pc[w] = "write" /\ op[w] = "fail" /\ target[w] \in Providers
           /\ \/ Trips(snap[w]) /\ \E c \in 1 .. Longest : Open(w, c)
              \/ CountsOne(w)
  <1>1. pc[w] = "write" /\ op[w] = "fail"
    BY DEF RecordProviderFailure
  <1>2. target[w] \in Providers
    BY <1>1 DEF TypeInv, Shape, HopAt
  <1>3. snap[w] \in Entry
    BY DEF TypeInv, TypeHop
  <1>4. CASE Trips(snap[w])
    BY <1>1, <1>2, <1>3, <1>4, Rung DEF RecordProviderFailure
  <1>5. CASE ~ Trips(snap[w])
    BY <1>1, <1>2, <1>5 DEF RecordProviderFailure, CountsOne
  <1> QED BY <1>4, <1>5

\* The initial state is typed.
LEMMA InitTyped == Init => TypeInv
  <1> SUFFICES ASSUME Init PROVE TypeInv
    OBVIOUS
  <1>1. TypeHop
    BY AbsentEntry, BreakerConstants DEF Init, TypeHop
  <1>2. TypeShared
    BY AbsentEntry, BreakerConstants DEF Init, TypeShared
  <1>3. Shape
    BY AbsentEntry DEF Init, Shape, HopAt
  <1> QED BY <1>1, <1>2, <1>3 DEF TypeInv

\* A worker's variables, the circuits it leaves alone, and the shape of its hop:
\* what remains of Shape' when a step touches one worker and no entry.
LEMMA ShapeKept ==
    ASSUME NEW w \in Workers, TypeInv, store' = store,
           \A v \in Workers : v # w => /\ pc'[v] = pc[v] /\ at'[v] = at[v]
                                       /\ op'[v] = op[v] /\ target'[v] = target[v]
                                       /\ snap'[v] = snap[v],
           HopAt(w)', Sound(snap'[w])
    PROVE  Shape'
  <1>1. \A v \in Workers : HopAt(v) /\ Sound(snap[v])
    BY DEF TypeInv, Shape
  <1>2. ASSUME NEW v \in Workers, v # w PROVE HopAt(v)' /\ Sound(snap'[v])
    BY <1>1, <1>2 DEF HopAt
  <1>3. ASSUME NEW v \in Workers PROVE HopAt(v)' /\ Sound(snap'[v])
    BY <1>2
  <1>4. ASSUME NEW s \in Scopes PROVE Sound(store'[s])
    BY DEF TypeInv, Shape
  <1> QED BY <1>3, <1>4 DEF Shape, Sound

\* Reading a provider, a credential and an answer keep the types.
LEMMA CallTyped ==
    ASSUME NEW w \in Workers, TypeInv,
           \/ \E p \in Providers : Choose(w, p)
           \/ PickKey(w) \/ NoUsableKey(w) \/ Answered(w) \/ Unreported(w)
    PROVE  TypeInv'
  <1> USE BreakerConstants, AbsentEntry
  <1>0. HopAt(w) /\ Sound(snap[w])
    BY DEF TypeInv, Shape
  <1>1. ASSUME NEW p \in Providers, Choose(w, p) PROVE TypeInv'
    <2>1. TypeHop' /\ TypeShared'
      BY <1>1 DEF Choose, TypeInv, TypeHop, TypeShared
    <2>2. Shape'
      BY <1>0, <1>1, ShapeKept DEF Choose, TypeInv, TypeHop, HopAt
    <2> QED BY <2>1, <2>2 DEF TypeInv
  <1>2. CASE PickKey(w)
    <2>1. TypeHop' /\ TypeShared'
      BY <1>0, <1>2 DEF PickKey, TypeInv, TypeHop, TypeShared, HopAt
    <2>2. Shape'
      BY <1>0, <1>2, ShapeKept DEF PickKey, TypeInv, TypeHop, HopAt
    <2> QED BY <2>1, <2>2 DEF TypeInv
  <1>3. CASE NoUsableKey(w)
    <2>1. TypeHop' /\ TypeShared'
      BY <1>0, <1>3 DEF NoUsableKey, TypeInv, TypeHop, TypeShared, HopAt, Scopes
    <2>2. Shape'
      BY <1>0, <1>3, ShapeKept DEF NoUsableKey, TypeInv, TypeHop, HopAt, Scopes
    <2> QED BY <2>1, <2>2 DEF TypeInv
  <1>4. CASE Answered(w)
    <2>0. PICK o \in {"ok", "auth", "quota", "fail"} :
              /\ o \in {"auth", "quota"} => key[w] # NoKey
              /\ op' = [op EXCEPT ![w] = o]
              /\ target' = [target EXCEPT ![w] =
                                IF o \in {"auth", "quota"} THEN key[w] ELSE at[w]]
      BY <1>4 DEF Answered
    <2>1. TypeHop' /\ TypeShared'
      BY <1>0, <1>4, <2>0 DEF Answered, TypeInv, TypeHop, TypeShared, HopAt, Scopes
    <2>2. HopAt(w)'
      BY <1>0, <1>4, <2>0 DEF Answered, TypeInv, TypeHop, HopAt, Scopes
    <2>3. Shape'
      BY <1>0, <1>4, <2>0, <2>2, ShapeKept DEF Answered, TypeInv, TypeHop
    <2> QED BY <2>1, <2>3 DEF TypeInv
  <1>5. CASE Unreported(w)
    <2>1. TypeHop' /\ TypeShared'
      BY <1>5 DEF Unreported, Forget, TypeInv, TypeHop, TypeShared
    <2>2. Shape'
      BY <1>5, ShapeKept DEF Unreported, Forget, TypeInv, TypeHop, HopAt
    <2> QED BY <2>1, <2>2 DEF TypeInv
  <1> QED BY <1>1, <1>2, <1>3, <1>4, <1>5

\* Going on to the credential's circuit, or leaving the hop.
LEMMA NextTargetTyped ==
    ASSUME NEW w \in Workers, TypeInv, pc[w] \in {"read", "row"}, NextTarget(w)
    PROVE  /\ TypeHop' /\ HopAt(w)' /\ Sound(snap'[w])
           /\ pc'[w] \in {"idle", "read"}
           /\ \A v \in Workers : v # w => /\ pc'[v] = pc[v] /\ at'[v] = at[v]
                                          /\ op'[v] = op[v] /\ target'[v] = target[v]
                                          /\ snap'[v] = snap[v] /\ due'[v] = due[v]
  <1> USE BreakerConstants, AbsentEntry
  <1>0. HopAt(w) /\ Sound(snap[w])
    BY DEF TypeInv, Shape
  <1>1. CASE MoreToReset(w)
    <2>1. /\ pc' = [pc EXCEPT ![w] = "read"] /\ target' = [target EXCEPT ![w] = key[w]]
          /\ UNCHANGED <<at, key, op, snap, due>> /\ op[w] = "ok" /\ key[w] # NoKey
      BY <1>1 DEF NextTarget, MoreToReset
    <2>2. TypeHop'
      BY <2>1 DEF TypeInv, TypeHop, Scopes
    <2>3. HopAt(w)'
      BY <1>0, <2>1 DEF TypeInv, TypeHop, HopAt, Scopes
    <2> QED BY <1>0, <2>1, <2>2, <2>3 DEF TypeInv, TypeHop
  <1>2. CASE ~ MoreToReset(w)
    <2>1. Forget(w)
      BY <1>2 DEF NextTarget
    <2>2. TypeHop'
      BY <2>1 DEF Forget, TypeInv, TypeHop
    <2>3. HopAt(w)' /\ Sound(snap'[w]) /\ pc'[w] = "idle"
      BY <2>1 DEF Forget, TypeInv, TypeHop, HopAt
    <2> QED BY <2>1, <2>2, <2>3 DEF Forget, TypeInv, TypeHop
  <1> QED BY <1>1, <1>2

\* The two outcomes of reading a circuit
ReadSkips(w) ==
    /\ op[w] = "ok" /\ store[target[w]].status # "open"
    /\ NextTarget(w) /\ UNCHANGED apart

ReadTakes(w) ==
    /\ pc' = [pc EXCEPT ![w] = "write"]
    /\ snap' = [snap EXCEPT ![w] = store[target[w]]]
    /\ apart' = IF Recording(target[w]) # {} THEN apart \cup {target[w]} ELSE apart
    /\ UNCHANGED <<at, key, op, target, due>>

\* A read is one of the two, and counts the failure it reports.
LEMMA ReadForms ==
    ASSUME NEW w \in Workers, TypeInv, ReadCircuit(w)
    PROVE  /\ pc[w] = "read" /\ target[w] \in Scopes /\ store' = store /\ rows' = rows
           /\ op[w] = "fail" => target[w] \in Providers /\ at[w] = target[w]
           /\ reports' = IF op[w] = "fail"
                           THEN [reports EXCEPT ![at[w]] = Lesser(@ + 1, Threshold)]
                           ELSE reports
           /\ ReadSkips(w) \/ ReadTakes(w)
  <1>1. pc[w] = "read" /\ HopAt(w)
    BY DEF ReadCircuit, TypeInv, Shape
  <1>2. op[w] = "fail" => target[w] \in Providers /\ at[w] = target[w]
    BY <1>1 DEF HopAt
  <1>3. target[w] \in Scopes
    BY <1>1 DEF HopAt
  <1>4. ReadSkips(w) \/ ReadTakes(w)
    BY DEF ReadCircuit, ReadSkips, ReadTakes
  <1> QED BY <1>1, <1>2, <1>3, <1>4 DEF ReadCircuit

\* Reading a circuit keeps the types.
LEMMA ReadTyped ==
    ASSUME NEW w \in Workers, TypeInv, ReadCircuit(w)
    PROVE  TypeInv'
  <1> USE BreakerConstants
  <1>0. HopAt(w) /\ store[target[w]] \in Entry /\ Sound(store[target[w]])
    BY ReadForms DEF TypeInv, Shape, TypeShared
  <1>1. reports' \in [Providers -> 0 .. Threshold]
    <2>1. CASE op[w] = "fail"
      <3>0. at[w] \in Providers
        BY <2>1, ReadForms
      <3>1. Lesser(reports[at[w]] + 1, Threshold) \in 0 .. Threshold
        <4>1. reports[at[w]] \in 0 .. Threshold
          BY <3>0 DEF TypeInv, TypeShared
        <4> QED BY <4>1 DEF Lesser
      <3> QED BY <2>1, <3>0, <3>1, ReadForms DEF TypeInv, TypeShared
    <2>2. CASE op[w] # "fail"
      BY <2>2, ReadForms DEF TypeInv, TypeShared
    <2> QED BY <2>1, <2>2
  <1>2. apart' \subseteq Scopes
    BY ReadForms DEF TypeInv, TypeShared, ReadSkips, ReadTakes
  <1>3. TypeShared'
    BY <1>1, <1>2, ReadForms DEF TypeInv, TypeShared
  <1>4. CASE ReadSkips(w)
    <2>1. NextTarget(w)
      BY <1>4 DEF ReadSkips
    <2>2. TypeHop' /\ Shape'
      BY <2>1, NextTargetTyped, ReadForms, ShapeKept
    <2> QED BY <1>3, <2>2 DEF TypeInv
  <1>5. CASE ReadTakes(w)
    <2>1. TypeHop'
      BY <1>0, <1>5 DEF ReadTakes, TypeInv, TypeHop
    <2>2. HopAt(w)'
      BY <1>0, <1>5, ReadForms DEF ReadTakes, TypeInv, TypeHop, HopAt
    <2>3. Sound(snap'[w])
      BY <1>0, <1>5 DEF ReadTakes, TypeInv, TypeHop
    <2>4. Shape'
      BY <1>5, <2>2, <2>3, ReadForms, ShapeKept DEF ReadTakes, TypeInv, TypeHop
    <2> QED BY <1>3, <2>1, <2>4 DEF TypeInv
  <1> QED BY <1>4, <1>5, ReadForms

\* What a write of the store does: entry e is stored for the scope the worker
\* reports on, and it goes on to persist c, or leaves.
Writes(w, e) ==
    /\ pc[w] = "write" /\ store' = [store EXCEPT ![target[w]] = e]
    /\ UNCHANGED <<rows, reports, apart>>

Owes(w, c) ==
    /\ due' = [due EXCEPT ![w] = c]
    /\ snap' = [snap EXCEPT ![w] = Absent]
    /\ pc' = [pc EXCEPT ![w] = "row"]
    /\ UNCHANGED <<at, key, op, target>>

\* Opening, resetting and counting are the three kinds of write.
LEMMA WriteForms ==
    ASSUME NEW w \in Workers, TypeInv,
           Reset(w) \/ RecordKeyFailure(w) \/ RecordProviderFailure(w)
    PROVE  /\ pc[w] = "write" /\ target[w] \in Scopes
           /\ \/ op[w] = "ok" /\ Writes(w, Absent) /\ Owes(w, 0)
              \/ /\ target[w] \in Keys \/ (op[w] = "fail" /\ Trips(snap[w]))
                 /\ \E c \in 1 .. Longest : Writes(w, Opened(snap[w], c)) /\ Owes(w, c)
              \/ /\ op[w] = "fail" /\ ~ Trips(snap[w])
                 /\ Writes(w, Counted(snap[w])) /\ Forget(w)
  <1>1. pc[w] = "write" /\ target[w] \in Scopes
    <2>1. pc[w] = "write"
      BY DEF Reset, RecordKeyFailure, RecordProviderFailure
    <2> QED BY <2>1 DEF TypeInv, Shape, HopAt
  <1>2. CASE Reset(w)
    BY <1>1, <1>2 DEF Reset, Writes, Owes
  <1>3. CASE RecordKeyFailure(w)
    BY <1>1, <1>3, KeyFailureOpens DEF Open, Writes, Owes
  <1>4. CASE RecordProviderFailure(w)
    BY <1>1, <1>4, ProviderFailureForms DEF Open, CountsOne, Writes, Owes
  <1> QED BY <1>2, <1>3, <1>4

\* The workers other than w keep all they have.
Others(w) ==
    \A v \in Workers : v # w => /\ pc'[v] = pc[v] /\ at'[v] = at[v]
                                /\ op'[v] = op[v] /\ target'[v] = target[v]
                                /\ snap'[v] = snap[v] /\ due'[v] = due[v]

\* Writing the store keeps the types.
LEMMA WriteTyped ==
    ASSUME NEW w \in Workers, TypeInv,
           Reset(w) \/ RecordKeyFailure(w) \/ RecordProviderFailure(w)
    PROVE  TypeInv'
  <1> USE BreakerConstants, AbsentEntry
  <1>0. snap[w] \in Entry /\ HopAt(w) /\ target[w] \in Scopes
    BY WriteForms DEF TypeInv, TypeHop, Shape
  <1>1. PICK e \in Entry : Writes(w, e) /\ Sound(e)
                           /\ (Forget(w) \/ \E c \in 0 .. Longest : Owes(w, c))
    <2>1. CASE Writes(w, Absent) /\ Owes(w, 0)
      BY <2>1
    <2>2. ASSUME NEW c \in 1 .. Longest, Writes(w, Opened(snap[w], c)), Owes(w, c)
          PROVE  \E e \in Entry : Writes(w, e) /\ Sound(e)
                           /\ (Forget(w) \/ \E d \in 0 .. Longest : Owes(w, d))
      <3>1. Opened(snap[w], c) \in Entry /\ Sound(Opened(snap[w], c))
        BY ONLY <1>0, OpenedEntry, c \in 1 .. Longest
      <3>2. c \in 0 .. Longest
        OBVIOUS
      <3> QED BY <2>2, <3>1, <3>2
    <2>3. CASE ~ Trips(snap[w]) /\ Writes(w, Counted(snap[w])) /\ Forget(w)
      <3>1. Counted(snap[w]) \in Entry /\ Sound(Counted(snap[w]))
        BY <1>0, <2>3, CountedEntry
      <3> QED BY <2>3, <3>1
    <2> QED BY <2>1, <2>2, <2>3, WriteForms
  <1>2. TypeShared'
    BY <1>0, <1>1 DEF Writes, TypeInv, TypeShared
  <1>3. TypeHop'
    <2>1. CASE Forget(w)
      BY <2>1 DEF Forget, TypeInv, TypeHop
    <2>2. ASSUME NEW c \in 0 .. Longest, Owes(w, c) PROVE TypeHop'
      BY <2>2 DEF Owes, TypeInv, TypeHop
    <2> QED BY <1>1, <2>1, <2>2
  <1>4. /\ HopAt(w)' /\ snap'[w] = Absent
    BY <1>0, <1>1 DEF Forget, Owes, Writes, TypeInv, TypeHop, HopAt
  <1>5. Others(w)
    BY <1>1 DEF Forget, Owes, TypeInv, TypeHop, Others
  <1>6. Shape'
    <2>1. ASSUME NEW v \in Workers, v # w PROVE HopAt(v)' /\ Sound(snap'[v])
      <3>1. HopAt(v) /\ Sound(snap[v])
        BY DEF TypeInv, Shape
      <3> QED BY <1>5, <2>1, <3>1 DEF HopAt, Others
    <2>2. ASSUME NEW s \in Scopes PROVE Sound(store'[s])
      <3>1. Sound(store[s]) /\ store \in [Scopes -> Entry]
        BY DEF TypeInv, Shape, TypeShared
      <3>2. store'[s] = e \/ store'[s] = store[s]
        BY <1>1, <3>1 DEF Writes
      <3> QED BY <1>1, <3>1, <3>2
    <2>3. ASSUME NEW v \in Workers PROVE HopAt(v)' /\ Sound(snap'[v])
      BY <1>4, <2>1
    <2> QED BY <2>2, <2>3 DEF Shape, Sound
  <1> QED BY <1>2, <1>3, <1>6 DEF TypeInv

\* Persisting a row, failed or not, keeps the types.
LEMMA PersistTyped ==
    ASSUME NEW w \in Workers, TypeInv, PersistRow(w)
    PROVE  TypeInv'
  <1>0. pc[w] = "row" /\ NextTarget(w) /\ HopAt(w) /\ store' = store /\ reports' = reports
    BY DEF PersistRow, TypeInv, Shape
  <1>1. TypeShared'
    BY <1>0 DEF PersistRow, TypeInv, TypeShared, TypeHop, HopAt
  <1>2. TypeHop' /\ Shape'
    BY <1>0, NextTargetTyped, ShapeKept
  <1> QED BY <1>1, <1>2 DEF TypeInv

\* Time and a restart keep the types.
LEMMA TickTyped ==
    ASSUME TypeInv, Tick
    PROVE  TypeInv'
  <1> USE BreakerConstants
  <1>1. ASSUME NEW n \in 0 .. Longest PROVE Less(n) \in 0 .. Longest
    BY DEF Less
  <1>2. TypeHop'
    BY <1>1 DEF Tick, TypeInv, TypeHop
  <1>3. ASSUME NEW s \in Scopes PROVE store'[s] \in Entry /\ Sound(store'[s])
    <2>1. store'[s] = Aged(store[s]) /\ store[s] \in Entry /\ Sound(store[s])
      BY DEF Tick, TypeInv, TypeShared, Shape
    <2> QED BY <2>1, AgedEntry
  <1>4. TypeShared'
    <2>1. store' \in [Scopes -> Entry]
      BY <1>3 DEF Tick
    <2>2. rows' \in [Scopes -> 0 .. Longest]
      BY <1>1 DEF Tick, TypeInv, TypeShared
    <2> QED BY <2>1, <2>2 DEF Tick, TypeInv, TypeShared
  <1>5. Shape'
    <2>1. ASSUME NEW v \in Workers PROVE HopAt(v)' /\ Sound(snap'[v])
      <3>1. HopAt(v) /\ Sound(snap[v])
        BY DEF TypeInv, Shape
      <3> QED BY <3>1 DEF HopAt, Tick
    <2> QED BY <1>3, <2>1 DEF Shape, Sound
  <1> QED BY <1>2, <1>4, <1>5 DEF TypeInv

\* A restart leaves workers idle and entries made of rows.
LEMMA RestartTyped ==
    ASSUME TypeInv, Restart
    PROVE  TypeInv'
  <1> USE BreakerConstants, AbsentEntry
  <1>1. TypeHop'
    BY DEF Restart, TypeHop
  <1>2. ASSUME NEW s \in Scopes PROVE store'[s] \in Entry /\ Sound(store'[s])
    <2>1. store'[s] = Restored(rows[s]) /\ rows[s] \in 0 .. Longest
      BY DEF Restart, TypeInv, TypeShared
    <2> QED BY <2>1, RestoredEntry
  <1>3. TypeShared'
    <2>1. store' \in [Scopes -> Entry]
      BY <1>2 DEF Restart
    <2> QED BY <2>1 DEF Restart, TypeInv, TypeShared
  <1>4. Shape'
    BY <1>2 DEF Restart, Shape, HopAt, Sound
  <1> QED BY <1>1, <1>3, <1>4 DEF TypeInv

\* Every step keeps the types.
LEMMA TypesKept == TypeInv /\ [Next]_vars => TypeInv'
  <1> SUFFICES ASSUME TypeInv, [Next]_vars PROVE TypeInv'
    OBVIOUS
  <1>1. ASSUME NEW w \in Workers, HopStep(w) PROVE TypeInv'
    BY <1>1, CallTyped, ReadTyped, WriteTyped, PersistTyped DEF HopStep
  <1>2. CASE UNCHANGED vars
    <2>1. TypeHop' /\ TypeShared'
      BY <1>2 DEF vars, hopVars, TypeInv, TypeHop, TypeShared
    <2>2. Shape'
      BY <1>2 DEF vars, hopVars, TypeInv, Shape, HopAt, Sound
    <2> QED BY <2>1, <2>2 DEF TypeInv
  <1> QED BY <1>1, <1>2, TickTyped, RestartTyped DEF Next

\* The strengthened type invariant holds in every reachable state.
LEMMA TypeInvHolds == Spec => []TypeInv
  BY InitTyped, TypesKept, PTL DEF Spec

\* Every reachable state is typed: no cooldown, whatever ladder, hint and clock
\* made it, exceeds the longest one, and no count passes the threshold.
THEOREM TypeCorrect == Spec => []TypeOK
  <1>1. TypeInv => TypeOK
    BY DEF TypeInv, TypeHop, TypeShared, TypeOK
  <1> QED BY <1>1, TypeInvHolds, PTL

-----------------------------------------------------------------------------
(* One blip opens nothing                                                  *)

\* The steps of a call are no report: the worker stays away from the circuits.
LEMMA CallAway ==
    ASSUME NEW w \in Workers, TypeInv,
           \/ \E p \in Providers : Choose(w, p)
           \/ PickKey(w) \/ NoUsableKey(w) \/ Answered(w) \/ Unreported(w)
    PROVE  /\ Others(w) /\ UNCHANGED <<store, rows, reports, apart>>
           /\ pc[w] \notin {"write", "row"} /\ pc'[w] \notin {"write", "row"}
  <1> USE DEF Others, TypeInv, TypeHop
  <1>1. ASSUME NEW p \in Providers, Choose(w, p)
        PROVE  /\ Others(w) /\ UNCHANGED <<store, rows, reports, apart>>
               /\ pc[w] \notin {"write", "row"} /\ pc'[w] \notin {"write", "row"}
    BY <1>1 DEF Choose
  <1>2. CASE PickKey(w)
    BY <1>2 DEF PickKey
  <1>3. CASE NoUsableKey(w)
    BY <1>3 DEF NoUsableKey
  <1>4. CASE Answered(w)
    BY <1>4 DEF Answered
  <1>5. CASE Unreported(w)
    BY <1>5 DEF Unreported, Forget
  <1> QED BY <1>1, <1>2, <1>3, <1>4, <1>5

\* A worker that nothing happens to keeps what it knows, as counts only grow.
LEMMA BlipHopKept ==
    ASSUME NEW v \in Workers, TypeInv, BlipHop(v),
           pc'[v] = pc[v], op'[v] = op[v], target'[v] = target[v], snap'[v] = snap[v],
           due'[v] \in Nat, due'[v] <= due[v],
           \A p \in Providers : reports'[p] \in 0 .. Threshold /\ reports[p] <= reports'[p]
    PROVE  BlipHop(v)'
  <1> SUFFICES ASSUME target[v] \in Providers PROVE BlipHop(v)'
    BY DEF BlipHop
  <1>1. /\ reports[target[v]] \in 0 .. Threshold /\ snap[v].failures \in 0 .. Threshold
        /\ due[v] \in 0 .. Longest
    BY DEF TypeInv, TypeShared, TypeHop, Entry
  <1>2. reports'[target[v]] \in 0 .. Threshold /\ reports[target[v]] <= reports'[target[v]]
    OBVIOUS
  <1> QED BY <1>1, <1>2, BreakerConstants DEF BlipHop

\* Reading a circuit counts the failure before it is decided on.
LEMMA ReadKeepsBlip ==
    ASSUME NEW w \in Workers, TypeInv, BlipInv, ReadCircuit(w)
    PROVE  BlipInv'
  <1> USE BreakerConstants
  <1>0. TypeInv'
    BY ReadTyped
  <1>1. ASSUME NEW p \in Providers
        PROVE  /\ reports[p] \in 0 .. Threshold /\ reports'[p] \in 0 .. Threshold
               /\ reports[p] <= reports'[p]
               /\ op[w] = "fail" /\ p = target[w] =>
                     reports'[p] = Threshold \/ reports'[p] = reports[p] + 1
    <2>1. reports[p] \in 0 .. Threshold /\ reports'[p] \in 0 .. Threshold
      BY <1>0 DEF TypeInv, TypeShared
    <2>2. CASE op[w] = "fail" /\ p = target[w]
      <3>0. reports' = [reports EXCEPT ![p] = Lesser(@ + 1, Threshold)]
        BY <2>2, ReadForms
      <3>1. reports'[p] = Lesser(reports[p] + 1, Threshold)
        BY <3>0 DEF TypeInv, TypeShared
      <3> QED BY <2>1, <3>1 DEF Lesser
    <2>3. CASE ~ (op[w] = "fail" /\ p = target[w])
      <3>1. reports'[p] = reports[p]
        BY <2>3, ReadForms DEF TypeInv, TypeShared
      <3> QED BY <2>1, <2>3, <3>1
    <2> QED BY <2>2, <2>3
  <1>2. ASSUME NEW p \in Providers PROVE BlipAt(p)'
    <2>1. BlipAt(p) /\ store[p].failures \in 0 .. Threshold
      BY DEF BlipInv, TypeInv, TypeShared, Scopes, Entry
    <2>2. store' = store /\ rows' = rows
      BY ReadForms
    <2> QED BY <1>1, <2>1, <2>2 DEF BlipAt
  <1>3. ASSUME NEW v \in Workers, v # w PROVE BlipHop(v)'
    <2>1. Others(w)
      <3>1. CASE ReadSkips(w)
        BY <3>1, NextTargetTyped, ReadForms DEF ReadSkips, Others
      <3>2. CASE ReadTakes(w)
        BY <3>2 DEF ReadTakes, Others, TypeInv, TypeHop
      <3> QED BY <3>1, <3>2, ReadForms
    <2>2. BlipHop(v) /\ due[v] \in Nat
      BY DEF BlipInv, TypeInv, TypeHop
    <2> QED BY <1>1, <1>3, <2>1, <2>2, BlipHopKept DEF Others
  <1>4. BlipHop(w)'
    <2>1. CASE ReadSkips(w)
      <3>1. pc'[w] \in {"idle", "read"}
        BY <2>1, NextTargetTyped, ReadForms DEF ReadSkips
      <3> QED BY <3>1 DEF BlipHop
    <2>2. CASE ReadTakes(w)
      <3> DEFINE t == target[w]
      <3>1. pc'[w] = "write" /\ snap'[w] = store[t] /\ op'[w] = op[w] /\ target'[w] = t
        BY <2>2 DEF ReadTakes, TypeInv, TypeHop
      <3> SUFFICES ASSUME t \in Providers, op[w] = "fail"
                   PROVE  /\ store[t].failures + 1 <= reports'[t]
                          /\ store[t].status = "open" => reports'[t] = Threshold
        BY <3>1 DEF BlipHop
      <3>2. BlipAt(t) /\ store[t].failures \in 0 .. Threshold /\ store[t].failures < Threshold
        BY DEF BlipInv, TypeInv, TypeShared, Scopes, Entry, Shape, Sound
      <3>3. /\ reports[t] \in 0 .. Threshold /\ reports'[t] \in 0 .. Threshold
            /\ reports[t] <= reports'[t]
            /\ reports'[t] = Threshold \/ reports'[t] = reports[t] + 1
        BY <1>1
      <3> QED BY <3>2, <3>3 DEF BlipAt
    <2> QED BY <2>1, <2>2, ReadForms
  <1> QED BY <1>2, <1>3, <1>4 DEF BlipInv

\* Writing the store opens a provider's circuit only on enough failures.
LEMMA WriteKeepsBlip ==
    ASSUME NEW w \in Workers, TypeInv, BlipInv,
           Reset(w) \/ RecordKeyFailure(w) \/ RecordProviderFailure(w)
    PROVE  BlipInv'
  <1> USE BreakerConstants
  <1> DEFINE t == target[w]
  <1>0. /\ snap[w] \in Entry /\ t \in Scopes /\ pc[w] = "write" /\ BlipHop(w)
        /\ rows' = rows /\ reports' = reports
    BY WriteForms DEF TypeInv, TypeHop, BlipInv, Writes
  <1>1. ASSUME NEW p \in Providers
        PROVE  /\ store[p].failures \in 0 .. Threshold /\ reports[p] \in 0 .. Threshold
               /\ store[p].failures <= reports[p]
               /\ store[p].status = "open" \/ rows[p] > 0 => reports[p] = Threshold
    BY DEF BlipInv, BlipAt, TypeInv, TypeShared, Scopes, Entry
  <1>2. ASSUME t \in Providers, op[w] = "fail", Trips(snap[w])
        PROVE  reports[t] = Threshold
    <2>1. /\ snap[w].failures \in 0 .. Threshold
          /\ snap[w].failures + 1 <= reports[t]
          /\ snap[w].status = "open" => reports[t] = Threshold
      BY <1>0, <1>2 DEF BlipHop, Entry
    <2> QED BY <1>1, <1>2, <2>1 DEF Trips
  <1>3. ASSUME NEW e \in Entry, store' = [store EXCEPT ![t] = e],
               t \in Providers => /\ e.failures <= reports[t]
                                  /\ e.status = "open" => reports[t] = Threshold,
               NEW p \in Providers
        PROVE  BlipAt(p)'
    <2>1. store'[p] = IF p = t THEN e ELSE store[p]
      BY <1>3 DEF TypeInv, TypeShared, Scopes
    <2> QED BY <1>0, <1>1, <1>3, <2>1 DEF BlipAt
  <1>4. ASSUME NEW v \in Workers, v # w, Others(w) PROVE BlipHop(v)'
    <2>1. BlipHop(v) /\ due[v] \in Nat
      BY DEF BlipInv, TypeInv, TypeHop
    <2> QED BY <1>0, <1>1, <1>4, <2>1, BlipHopKept DEF Others
  <1>5. CASE op[w] = "ok" /\ Writes(w, Absent) /\ Owes(w, 0)
    <2>1. \A p \in Providers : BlipAt(p)'
      <3>1. store' = [store EXCEPT ![t] = Absent]
        BY <1>5 DEF Writes
      <3>2. t \in Providers => 0 <= reports[t]
        BY <1>1
      <3> QED BY <1>3, <3>1, <3>2, AbsentEntry
    <2>2. Others(w) /\ pc'[w] = "row" /\ due'[w] = 0
      BY <1>5 DEF Owes, Others, TypeInv, TypeHop
    <2>3. BlipHop(w)'
      BY <2>2 DEF BlipHop
    <2> QED BY <1>4, <2>1, <2>2, <2>3 DEF BlipInv
  <1>6. ASSUME t \in Keys \/ (op[w] = "fail" /\ Trips(snap[w])),
               NEW c \in 1 .. Longest, Writes(w, Opened(snap[w], c)), Owes(w, c)
        PROVE  BlipInv'
    <2>1. t \in Providers => reports[t] = Threshold
      BY <1>2, <1>6
    <2>2. Opened(snap[w], c) \in Entry /\ Opened(snap[w], c).failures = 0
      BY <1>0, OpenedEntry
    <2>3. \A p \in Providers : BlipAt(p)'
      <3>1. store' = [store EXCEPT ![t] = Opened(snap[w], c)]
        BY <1>6 DEF Writes
      <3>2. t \in Providers => 0 <= reports[t]
        BY <1>1
      <3> QED BY <1>3, <2>1, <2>2, <3>1, <3>2
    <2>4. Others(w) /\ pc'[w] = "row" /\ target'[w] = t
      BY <1>6 DEF Owes, Others, TypeInv, TypeHop
    <2>5. BlipHop(w)'
      BY <1>0, <2>1, <2>4 DEF BlipHop
    <2> QED BY <1>4, <2>3, <2>4, <2>5 DEF BlipInv
  <1>7. CASE /\ op[w] = "fail" /\ ~ Trips(snap[w])
             /\ Writes(w, Counted(snap[w])) /\ Forget(w)
    <2>1. /\ Counted(snap[w]) \in Entry /\ Counted(snap[w]).status = "closed"
          /\ Counted(snap[w]).failures = snap[w].failures + 1
      BY <1>0, <1>7, CountedEntry
    <2>2. t \in Providers => snap[w].failures + 1 <= reports[t]
      BY <1>0, <1>7 DEF BlipHop
    <2>3. \A p \in Providers : BlipAt(p)'
      BY <1>3, <1>7, <2>1, <2>2 DEF Writes
    <2>4. Others(w) /\ pc'[w] = "idle"
      BY <1>7 DEF Forget, Others, TypeInv, TypeHop
    <2>5. BlipHop(w)'
      BY <2>4 DEF BlipHop
    <2> QED BY <1>4, <2>3, <2>4, <2>5 DEF BlipInv
  <1> QED BY <1>5, <1>6, <1>7, WriteForms

\* A row is persisted of a circuit that opened, a call touches neither.
LEMMA RestKeepsBlip ==
    ASSUME NEW w \in Workers, TypeInv, BlipInv, Others(w),
           store' = store, reports' = reports, pc'[w] \notin {"write", "row"},
           rows' = rows \/ (pc[w] = "row" /\ rows' = [rows EXCEPT ![target[w]] = due[w]])
    PROVE  BlipInv'
  <1>1. ASSUME NEW p \in Providers PROVE BlipAt(p)'
    <2>1. BlipAt(p) /\ BlipHop(w)
      BY DEF BlipInv
    <2>2. rows'[p] = rows[p] \/ (pc[w] = "row" /\ target[w] = p /\ rows'[p] = due[w])
      BY DEF TypeInv, TypeShared, Scopes
    <2> QED BY <2>1, <2>2 DEF BlipAt, BlipHop
  <1>2. ASSUME NEW v \in Workers, v # w PROVE BlipHop(v)'
    <2>1. BlipHop(v) /\ due[v] \in Nat
      BY DEF BlipInv, TypeInv, TypeHop
    <2>2. \A p \in Providers : reports'[p] \in 0 .. Threshold /\ reports[p] <= reports'[p]
      BY BreakerConstants DEF TypeInv, TypeShared
    <2> QED BY <1>2, <2>1, <2>2, BlipHopKept DEF Others
  <1>3. BlipHop(w)'
    BY DEF BlipHop
  <1> QED BY <1>1, <1>2, <1>3 DEF BlipInv

\* Time takes counts and cooldowns down; a restart opens what a row holds.
LEMMA ClockKeepsBlip ==
    ASSUME TypeInv, BlipInv, Tick \/ Restart
    PROVE  BlipInv'
  <1> USE BreakerConstants
  <1>1. ASSUME NEW p \in Providers
        PROVE  /\ store[p] \in Entry /\ Sound(store[p]) /\ rows[p] \in 0 .. Longest
               /\ store[p].failures \in 0 .. Threshold /\ reports[p] \in 0 .. Threshold
               /\ BlipAt(p)
    BY DEF BlipInv, TypeInv, TypeShared, Scopes, Entry, Shape
  <1>2. CASE Tick
    <2>1. ASSUME NEW p \in Providers PROVE BlipAt(p)'
      <3>1. /\ store'[p] = Aged(store[p]) /\ rows'[p] = Less(rows[p]) /\ reports' = reports
        BY <1>2 DEF Tick, Scopes
      <3>2. /\ Aged(store[p]) \in Entry
            /\ Aged(store[p]).failures <= store[p].failures
            /\ Aged(store[p]).status = "open" => store[p].status = "open"
        BY <1>1, AgedEntry
      <3>3. Aged(store[p]).failures \in 0 .. Threshold
        BY <3>2 DEF Entry
      <3>4. Less(rows[p]) > 0 => rows[p] > 0
        BY <1>1 DEF Less
      <3> QED BY <1>1, <3>1, <3>2, <3>3, <3>4 DEF BlipAt
    <2>2. ASSUME NEW v \in Workers PROVE BlipHop(v)'
      <3>1. BlipHop(v) /\ due[v] \in 0 .. Longest
        BY DEF BlipInv, TypeInv, TypeHop
      <3>2. due'[v] \in Nat /\ due'[v] <= due[v]
        BY <1>2, <3>1 DEF Tick, Less
      <3> QED BY <1>1, <1>2, <3>1, <3>2, BlipHopKept DEF Tick
    <2> QED BY <2>1, <2>2 DEF BlipInv
  <1>3. CASE Restart
    <2>1. ASSUME NEW p \in Providers PROVE BlipAt(p)'
      <3>1. store'[p] = Restored(rows[p]) /\ rows' = rows /\ reports' = reports
        BY <1>3 DEF Restart, Scopes
      <3> QED BY <1>1, <3>1, RestoredEntry DEF BlipAt
    <2>2. ASSUME NEW v \in Workers PROVE BlipHop(v)'
      BY <1>3 DEF Restart, BlipHop
    <2> QED BY <2>1, <2>2 DEF BlipInv
  <1> QED BY <1>2, <1>3

\* However reports, ticks and restarts interleave, and however stale the entry
\* a report decides on, a provider's circuit opens only after Threshold failures.
THEOREM OneBlip == Spec => []NoOpenOnABlip
  <1>1. Init => BlipInv
    <2> SUFFICES ASSUME Init PROVE BlipInv
      OBVIOUS
    <2>1. ASSUME NEW p \in Providers PROVE BlipAt(p)
      BY AbsentEntry DEF Init, BlipAt, Scopes
    <2>2. ASSUME NEW w \in Workers PROVE BlipHop(w)
      BY DEF Init, BlipHop
    <2> QED BY <2>1, <2>2 DEF BlipInv
  <1>2. TypeInv /\ BlipInv /\ [Next]_vars => BlipInv'
    <2> SUFFICES ASSUME TypeInv, BlipInv, [Next]_vars PROVE BlipInv'
      OBVIOUS
    <2>1. ASSUME NEW w \in Workers, HopStep(w) PROVE BlipInv'
      <3>1. CASE \/ \E p \in Providers : Choose(w, p)
                 \/ PickKey(w) \/ NoUsableKey(w) \/ Answered(w) \/ Unreported(w)
        BY <3>1, CallAway, RestKeepsBlip
      <3>2. CASE PersistRow(w)
        <4>1. /\ pc[w] = "row" /\ NextTarget(w) /\ store' = store /\ reports' = reports
              /\ rows' = rows \/ rows' = [rows EXCEPT ![target[w]] = due[w]]
          BY <3>2 DEF PersistRow
        <4>2. Others(w) /\ pc'[w] \notin {"write", "row"}
          BY <4>1, NextTargetTyped DEF Others
        <4> QED BY <4>1, <4>2, RestKeepsBlip
      <3> QED BY <2>1, <3>1, <3>2, ReadKeepsBlip, WriteKeepsBlip DEF HopStep
    <2>2. CASE UNCHANGED vars
      <3>1. \A p \in Providers : BlipAt(p)'
        BY <2>2 DEF vars, hopVars, BlipInv, BlipAt
      <3>2. \A w \in Workers : BlipHop(w)'
        BY <2>2 DEF vars, hopVars, BlipInv, BlipHop
      <3> QED BY <3>1, <3>2 DEF BlipInv
    <2> QED BY <2>1, <2>2, ClockKeepsBlip DEF Next
  <1>3. BlipInv => NoOpenOnABlip
    BY DEF BlipInv, BlipAt, NoOpenOnABlip
  <1> QED BY <1>1, <1>2, <1>3, TypeInvHolds, PTL DEF Spec

-----------------------------------------------------------------------------
(* The rows mirror the circuits                                            *)

\* A worker that reports on another scope, before and after, leaves s alone.
LEMMA MirrorElsewhere ==
    ASSUME NEW w \in Workers, NEW s \in Scopes, TypeInv, MirrorAt(s), Others(w),
           pc[w] \in {"write", "row"} => target[w] # s,
           pc'[w] \in {"write", "row"} => target'[w] # s,
           store'[s] = store[s], rows'[s] = rows[s], apart \subseteq apart'
    PROVE  MirrorAt(s)'
  <1>1. Recording(s)' = Recording(s)
    BY DEF Recording, Others
  <1>2. Owing(s)' = Owing(s)
    BY DEF Owing, Others
  <1>3. \A v \in Recording(s) : pc'[v] = pc[v] /\ snap'[v] = snap[v]
    BY DEF Recording, Others
  <1>4. \A v \in Owing(s) : due'[v] = due[v]
    BY DEF Owing, Others
  <1> QED BY <1>1, <1>2, <1>3, <1>4 DEF MirrorAt

\* A call reports on nothing.
LEMMA CallKeepsMirror ==
    ASSUME NEW w \in Workers, TypeInv, MirrorInv,
           \/ \E p \in Providers : Choose(w, p)
           \/ PickKey(w) \/ NoUsableKey(w) \/ Answered(w) \/ Unreported(w)
    PROVE  MirrorInv'
  <1> SUFFICES ASSUME NEW s \in Scopes PROVE MirrorAt(s)'
    BY DEF MirrorInv
  <1>1. MirrorAt(s)
    BY DEF MirrorInv
  <1> QED BY <1>1, CallAway, MirrorElsewhere

\* A report that begins while another is under way sets the scope apart.
LEMMA ReadKeepsMirror ==
    ASSUME NEW w \in Workers, TypeInv, MirrorInv, ReadCircuit(w)
    PROVE  MirrorInv'
  <1> SUFFICES ASSUME NEW s \in Scopes PROVE MirrorAt(s)'
    BY DEF MirrorInv
  <1>1. MirrorAt(s)
    BY DEF MirrorInv
  <1>2. CASE ReadSkips(w)
    <2>1. Others(w) /\ pc'[w] \in {"idle", "read"}
      BY <1>2, NextTargetTyped, ReadForms DEF ReadSkips, Others
    <2> QED BY <1>1, <1>2, <2>1, ReadForms, MirrorElsewhere DEF ReadSkips
  <1>3. CASE ReadTakes(w)
    <2>1. /\ Others(w) /\ pc[w] = "read" /\ pc'[w] = "write" /\ target'[w] = target[w]
          /\ snap'[w] = store[target[w]] /\ apart \subseteq apart'
          /\ store' = store /\ rows' = rows
      BY <1>3, ReadForms DEF ReadTakes, Others, TypeInv, TypeHop
    <2>2. CASE s # target[w]
      BY <1>1, <2>1, <2>2, MirrorElsewhere
    <2>3. CASE s = target[w]
      <3> SUFFICES ASSUME s \notin apart' PROVE MirrorAt(s)'
        BY DEF MirrorAt
      <3>1. Recording(s) = {} /\ s \notin apart
        BY <1>3, <2>3 DEF ReadTakes
      <3>2. Recording(s)' = {w}
        BY <2>1, <2>3, <3>1 DEF Recording, Others
      <3>3. Owing(s)' = {} /\ Owing(s) = {}
        BY <2>1, <3>1 DEF Recording, Owing, Others
      <3>4. rows[s] = Cooling(store[s])
        BY <1>1, <3>1, <3>3 DEF MirrorAt
      <3> QED BY <2>1, <2>3, <3>2, <3>3, <3>4 DEF MirrorAt
    <2> QED BY <2>2, <2>3
  <1> QED BY <1>2, <1>3, ReadForms

\* A report that writes alone owes the row what it wrote, or leaves it as it is.
LEMMA WriteKeepsMirror ==
    ASSUME NEW w \in Workers, TypeInv, MirrorInv,
           Reset(w) \/ RecordKeyFailure(w) \/ RecordProviderFailure(w)
    PROVE  MirrorInv'
  <1> SUFFICES ASSUME NEW s \in Scopes PROVE MirrorAt(s)'
    BY DEF MirrorInv
  <1> DEFINE t == target[w]
  <1>1. MirrorAt(s) /\ snap[w] \in Entry /\ t \in Scopes /\ pc[w] = "write"
    BY WriteForms DEF MirrorInv, TypeInv, TypeHop
  <1>2. \/ \E e \in Entry, c \in 0 .. Longest :
              Writes(w, e) /\ Owes(w, c) /\ Cooling(e) = c
        \/ \E e \in Entry :
              Writes(w, e) /\ Forget(w) /\ Cooling(e) = 0 /\ snap[w].status # "open"
    <2>1. CASE Writes(w, Absent) /\ Owes(w, 0)
      BY <2>1, AbsentEntry, BreakerConstants
    <2>2. ASSUME NEW c \in 1 .. Longest, Writes(w, Opened(snap[w], c)), Owes(w, c)
          PROVE  \E e \in Entry, d \in 0 .. Longest :
                    Writes(w, e) /\ Owes(w, d) /\ Cooling(e) = d
      <3>1. Opened(snap[w], c) \in Entry /\ Cooling(Opened(snap[w], c)) = c
        BY <1>1, OpenedEntry
      <3>2. c \in 0 .. Longest
        BY BreakerConstants
      <3> QED BY <2>2, <3>1, <3>2
    <2>3. CASE ~ Trips(snap[w]) /\ Writes(w, Counted(snap[w])) /\ Forget(w)
      BY <1>1, <2>3, CountedEntry
    <2> QED BY <2>1, <2>2, <2>3, WriteForms
  <1>3. ASSUME s \notin apart, s = t
        PROVE  Recording(s) = {w} /\ Owing(s) = {} /\ rows[s] = Cooling(store[s])
    <2>1. w \in Recording(s) /\ \A v \in Recording(s) : v = w
      BY <1>1, <1>3 DEF Recording, MirrorAt
    <2>2. Recording(s) = {w}
      BY <2>1
    <2>3. Owing(s) = {}
      BY <1>1, <2>1 DEF Recording, Owing
    <2> QED BY <1>1, <1>3, <2>2, <2>3 DEF MirrorAt
  <1>4. ASSUME NEW e \in Entry, NEW c \in 0 .. Longest,
               Writes(w, e), Owes(w, c), Cooling(e) = c
        PROVE  MirrorAt(s)'
    <2>1. /\ Others(w) /\ pc'[w] = "row" /\ target'[w] = t /\ due'[w] = c
          /\ rows' = rows /\ apart' = apart
      BY <1>4 DEF Owes, Writes, Others, TypeInv, TypeHop
    <2>2. store'[s] = IF s = t THEN e ELSE store[s]
      BY <1>4 DEF Writes, TypeInv, TypeShared
    <2>3. CASE s # t
      BY <1>1, <2>1, <2>2, <2>3, MirrorElsewhere
    <2>4. CASE s = t
      <3> SUFFICES ASSUME s \notin apart PROVE MirrorAt(s)'
        BY <2>1 DEF MirrorAt
      <3>1. Recording(s)' = {w}
        BY <1>3, <2>1, <2>4 DEF Recording, Others
      <3>2. Owing(s)' = {w}
        BY <2>1, <2>4, <3>1 DEF Recording, Owing
      <3> QED BY <1>4, <2>1, <2>2, <2>4, <3>1, <3>2 DEF MirrorAt
    <2> QED BY <2>3, <2>4
  <1>5. ASSUME NEW e \in Entry,
               Writes(w, e), Forget(w), Cooling(e) = 0, snap[w].status # "open"
        PROVE  MirrorAt(s)'
    <2>1. Others(w) /\ pc'[w] = "idle" /\ rows' = rows /\ apart' = apart
      BY <1>5 DEF Forget, Writes, Others, TypeInv, TypeHop
    <2>2. store'[s] = IF s = t THEN e ELSE store[s]
      BY <1>5 DEF Writes, TypeInv, TypeShared
    <2>3. CASE s # t
      BY <1>1, <2>1, <2>2, <2>3, MirrorElsewhere
    <2>4. CASE s = t
      <3> SUFFICES ASSUME s \notin apart PROVE MirrorAt(s)'
        BY <2>1 DEF MirrorAt
      <3>1. Recording(s)' = {}
        BY <1>3, <2>1, <2>4 DEF Recording, Others
      <3>2. Owing(s)' = {}
        BY <3>1 DEF Recording, Owing
      <3>3. store[s].status # "open"
        BY <1>1, <1>3, <1>5, <2>4 DEF MirrorAt
      <3>4. rows[s] = 0
        BY <1>3, <2>4, <3>3 DEF Cooling
      <3> QED BY <1>5, <2>1, <2>2, <2>4, <3>1, <3>2, <3>4 DEF MirrorAt
    <2> QED BY <2>3, <2>4
  <1> QED BY <1>2, <1>4, <1>5

\* The row that is written is the one owed; one that cannot be sets it apart.
LEMMA PersistKeepsMirror ==
    ASSUME NEW w \in Workers, TypeInv, MirrorInv, PersistRow(w)
    PROVE  MirrorInv'
  <1> SUFFICES ASSUME NEW s \in Scopes PROVE MirrorAt(s)'
    BY DEF MirrorInv
  <1> DEFINE t == target[w]
  <1>1. MirrorAt(s) /\ pc[w] = "row" /\ NextTarget(w) /\ store' = store
    BY DEF MirrorInv, PersistRow
  <1>2. Others(w) /\ pc'[w] \in {"idle", "read"}
    BY <1>1, NextTargetTyped DEF Others
  <1>3. \/ rows' = [rows EXCEPT ![t] = due[w]] /\ apart' = apart
        \/ rows' = rows /\ apart' = apart \cup {t}
    BY DEF PersistRow
  <1>4. CASE s # t
    <2>1. rows'[s] = rows[s] /\ apart \subseteq apart'
      BY <1>3, <1>4 DEF TypeInv, TypeShared
    <2> QED BY <1>1, <1>2, <1>4, <2>1, MirrorElsewhere
  <1>5. CASE s = t
    <2> SUFFICES ASSUME s \notin apart' PROVE MirrorAt(s)'
      BY DEF MirrorAt
    <2>1. rows' = [rows EXCEPT ![s] = due[w]] /\ s \notin apart
      BY <1>3, <1>5
    <2>2. w \in Recording(s) /\ w \in Owing(s)
      BY <1>1, <1>5 DEF Recording, Owing
    <2>3. (\A v \in Recording(s) : v = w) /\ due[w] = Cooling(store[s])
      BY <1>1, <2>1, <2>2 DEF MirrorAt
    <2>4. Recording(s)' = {}
      BY <1>2, <2>3 DEF Recording, Others
    <2>5. Owing(s)' = {}
      BY <2>4 DEF Recording, Owing
    <2>6. rows'[s] = Cooling(store[s])
      BY <2>1, <2>3 DEF TypeInv, TypeShared
    <2> QED BY <1>1, <2>4, <2>5, <2>6 DEF MirrorAt
  <1> QED BY <1>4, <1>5

\* Time takes rows, entries and what is owed down together; a restart makes the
\* entries from the rows.
LEMMA ClockKeepsMirror ==
    ASSUME TypeInv, MirrorInv, Tick \/ Restart
    PROVE  MirrorInv'
  <1> SUFFICES ASSUME NEW s \in Scopes PROVE MirrorAt(s)'
    BY DEF MirrorInv
  <1>1. /\ MirrorAt(s) /\ store[s] \in Entry /\ Sound(store[s])
        /\ rows[s] \in 0 .. Longest
    BY DEF MirrorInv, TypeInv, TypeShared, Shape
  <1>2. CASE Tick
    <2>1. /\ store'[s] = Aged(store[s]) /\ rows'[s] = Less(rows[s]) /\ apart' = apart
          /\ \A v \in Workers : due'[v] = Less(due[v])
          /\ pc' = pc /\ target' = target /\ snap' = snap
      BY <1>2 DEF Tick
    <2>2. /\ Cooling(Aged(store[s])) = Less(Cooling(store[s]))
          /\ Aged(store[s]).status = "open" => store[s].status = "open"
      BY <1>1, AgedEntry
    <2>3. Recording(s)' = Recording(s) /\ Owing(s)' = Owing(s) /\ Owing(s) \subseteq Workers
      BY <2>1 DEF Recording, Owing
    <2> QED BY <1>1, <2>1, <2>2, <2>3 DEF MirrorAt
  <1>3. CASE Restart
    <2>1. store'[s] = Restored(rows[s]) /\ rows' = rows
      BY <1>3 DEF Restart
    <2>2. Recording(s)' = {} /\ Owing(s)' = {}
      BY <1>3 DEF Restart, Recording, Owing
    <2>3. Cooling(Restored(rows[s])) = rows[s]
      BY <1>1, RestoredEntry
    <2> QED BY <2>1, <2>2, <2>3 DEF MirrorAt
  <1> QED BY <1>2, <1>3

\* The mirror holds in every reachable state.
LEMMA MirrorHolds == Spec => []MirrorInv
  <1>1. Init => MirrorInv
    <2> SUFFICES ASSUME Init, NEW s \in Scopes PROVE MirrorAt(s)
      BY DEF MirrorInv
    <2>1. Recording(s) = {} /\ Owing(s) = {}
      BY DEF Init, Recording, Owing
    <2> QED BY <2>1, AbsentEntry DEF Init, MirrorAt
  <1>2. TypeInv /\ MirrorInv /\ [Next]_vars => MirrorInv'
    <2> SUFFICES ASSUME TypeInv, MirrorInv, [Next]_vars PROVE MirrorInv'
      OBVIOUS
    <2>1. ASSUME NEW w \in Workers, HopStep(w) PROVE MirrorInv'
      BY <2>1, CallKeepsMirror, ReadKeepsMirror, WriteKeepsMirror, PersistKeepsMirror
         DEF HopStep
    <2>2. CASE UNCHANGED vars
      BY <2>2 DEF vars, hopVars, MirrorInv, MirrorAt, Recording, Owing
    <2> QED BY <2>1, <2>2, ClockKeepsMirror DEF Next
  <1> QED BY <1>1, <1>2, TypeInvHolds, PTL DEF Spec

\* As long as the reports of a scope do not overlap and its row can be written,
\* a restart at any point between two reports brings back exactly the cooldown
\* that was running.
THEOREM RowsMirror == Spec => []RowMirrorsCircuit
  <1>1. MirrorInv => RowMirrorsCircuit
    <2> SUFFICES ASSUME MirrorInv, NEW s \in Scopes, s \notin apart, Recording(s) = {}
                 PROVE  rows[s] = IF store[s].status = "open" THEN store[s].cool ELSE 0
      BY DEF RowMirrorsCircuit
    <2>1. Owing(s) = {}
      BY DEF Recording, Owing
    <2> QED BY <2>1 DEF MirrorInv, MirrorAt, Cooling
  <1> QED BY <1>1, MirrorHolds, PTL

-----------------------------------------------------------------------------
(* What lets a circuit back in                                             *)

\* The ways back into rotation that OnlySuccessLetsBackIn allows.
WayBack(s) ==
    \/ Tick /\ store[s].cool = 1
    \/ Restart /\ \E w \in Recording(s) : pc[w] = "row"
    \/ \E w \in Recording(s) : pc[w] = "write" /\ op[w] = "ok"

\* Only what has nothing left of a cooldown is available.
LEMMA AvailableIsCool ==
    ASSUME NEW s \in Scopes
    PROVE  /\ Available(s) <=> Cooling(store[s]) = 0
           /\ Available(s)' <=> Cooling(store'[s]) = 0
  BY DEF Available, Cooling

\* A report that writes alone has seen the cooldown it writes over: a failure
\* then opens the circuit again, and only a success clears it.
LEMMA WriteLetsBackIn ==
    ASSUME NEW w \in Workers, NEW s \in Scopes, TypeInv, MirrorInv, s \notin apart,
           Reset(w) \/ RecordKeyFailure(w) \/ RecordProviderFailure(w),
           Cooling(store[s]) # 0, Cooling(store'[s]) = 0
    PROVE  WayBack(s)
  <1>1. /\ pc[w] = "write" /\ target[w] \in Scopes /\ snap[w] \in Entry
        /\ store \in [Scopes -> Entry]
    BY WriteForms DEF TypeInv, TypeHop, TypeShared
  <1>2. target[w] = s
    BY <1>1, WriteForms DEF Writes
  <1>3. w \in Recording(s) /\ store[s].status = "open"
    BY <1>1, <1>2 DEF Recording, Cooling
  <1>4. Trips(snap[w])
    BY <1>1, <1>3 DEF MirrorInv, MirrorAt, Trips
  <1>5. ASSUME NEW c \in 1 .. Longest, Writes(w, Opened(snap[w], c)) PROVE FALSE
    <2>1. store'[s] = Opened(snap[w], c)
      BY <1>1, <1>2, <1>5 DEF Writes
    <2> QED BY <1>1, <2>1, OpenedEntry
  <1>6. op[w] = "ok"
    BY <1>4, <1>5, WriteForms
  <1> QED BY <1>1, <1>3, <1>6 DEF WayBack

\* Time lets a circuit back in at the end of its cooldown; a restart does only
\* while its row is still owed.
LEMMA ClockLetsBackIn ==
    ASSUME NEW s \in Scopes, TypeInv, MirrorInv, s \notin apart, Tick \/ Restart,
           Cooling(store[s]) # 0, Cooling(store'[s]) = 0
    PROVE  WayBack(s)
  <1>1. store[s] \in Entry /\ Sound(store[s]) /\ rows[s] \in 0 .. Longest
    BY DEF TypeInv, TypeShared, Shape
  <1>2. CASE Tick
    <2>1. store'[s] = Aged(store[s])
      BY <1>2 DEF Tick
    <2>2. Less(Cooling(store[s])) = 0
      BY <1>1, <2>1, AgedEntry
    <2>3. Cooling(store[s]) = store[s].cool /\ store[s].cool \in Nat
      BY <1>1 DEF Cooling, Entry
    <2>4. store[s].cool = 1
      BY <2>2, <2>3 DEF Less
    <2> QED BY <1>2, <2>4 DEF WayBack
  <1>3. CASE Restart
    <2>1. store'[s] = Restored(rows[s])
      BY <1>3 DEF Restart
    <2>2. rows[s] # Cooling(store[s])
      BY <1>1, <2>1, RestoredEntry
    <2>3. Owing(s) # {}
      BY <2>2 DEF MirrorInv, MirrorAt
    <2>4. \E w \in Recording(s) : pc[w] = "row"
      BY <2>3 DEF Owing, Recording
    <2> QED BY <1>3, <2>4 DEF WayBack
  <1> QED BY <1>2, <1>3

\* Nothing but the end of its cooldown, a reported success, or a restart that
\* loses its row puts a circuit back into rotation, however many requests that
\* were under way when it opened fail afterwards.
THEOREM FailuresKeepOut == Spec => OnlySuccessLetsBackIn
  <1>1. ASSUME TypeInv, MirrorInv, [Next]_vars, NEW s \in Scopes, s \notin apart,
               ~ Available(s), Available(s)'
        PROVE  WayBack(s)
    <2>1. Cooling(store[s]) # 0 /\ Cooling(store'[s]) = 0
      BY <1>1, AvailableIsCool
    <2>2. store' # store
      BY <2>1
    <2>3. ASSUME NEW w \in Workers, HopStep(w) PROVE WayBack(s)
      <3>1. ~ ReadCircuit(w) /\ ~ PersistRow(w)
        BY <2>2 DEF ReadCircuit, PersistRow
      <3>2. Reset(w) \/ RecordKeyFailure(w) \/ RecordProviderFailure(w)
        BY <1>1, <2>2, <2>3, <3>1, CallAway DEF HopStep
      <3> QED BY <1>1, <2>1, <3>2, WriteLetsBackIn
    <2>4. CASE UNCHANGED vars
      BY <2>2, <2>4 DEF vars
    <2> QED BY <1>1, <2>1, <2>3, <2>4, ClockLetsBackIn DEF Next
  <1>2. TypeInv /\ MirrorInv /\ [Next]_vars =>
            \A s \in Scopes \ apart :
                ~ Available(s) /\ Available(s)' =>
                    \/ Tick /\ store[s].cool = 1
                    \/ Restart /\ \E w \in Recording(s) : pc[w] = "row"
                    \/ \E w \in Recording(s) : pc[w] = "write" /\ op[w] = "ok"
    BY <1>1 DEF WayBack
  <1> QED BY <1>2, TypeInvHolds, MirrorHolds, PTL DEF Spec, OnlySuccessLetsBackIn

=============================================================================
