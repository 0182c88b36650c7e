--------------------------- MODULE RotationProofs ---------------------------
(***************************************************************************)
(* Proofs about Rotation for every finite set of workers, every route      *)
(* table, limit and budget.  The bounds are on counters, but what makes    *)
(* them inductive is who is on the way to change one:                      *)
(*   RetryInv  counts the requests between AllowRetry's check and its add; *)
(*   SpendInv  counts the requests in flight and the debits that came      *)
(*             late, each good for one Cost;                               *)
(*   SlotAt    counts the holders of every semaphore still referred to.    *)
(* The last theorem shows that the rank of a request only goes down.       *)
(***************************************************************************)
EXTENDS Rotation, FiniteSetTheorems, TLAPS

\* What a worker's loop variables are worth at each point of rotate.
LocalAt(w) ==
    /\ pc[w] \in {"load", "store", "try", "sent"} => cur[w] \in Routes
    /\ pc[w] \in {"loop", "count", "load", "store", "try", "sent"} => lim[w] \in Limits
    /\ pc[w] \in {"count", "load", "store", "try"} => attempts[w] < MaxAttempts
    /\ pc[w] \in {"try", "sent"} => sem[w] \in Ids
    /\ pc[w] \notin {"try", "sent"} => sem[w] = None

Local == \A w \in Workers : LocalAt(w)

\* TypeOK in two parts that the provers manage one at a time.
TypeLoop ==
    /\ pc \in [Workers -> {"idle", "loop", "count", "load", "store", "try", "sent", "settle"}]
    /\ left \in [Workers -> SUBSET Routes]
    /\ cur \in [Workers -> Routes \cup {None}]
    /\ attempts \in [Workers -> 0 .. MaxAttempts]
    /\ lim \in [Workers -> Limits \cup {0}]
    /\ sem \in [Workers -> Ids \cup {None}]

TypeShared ==
    /\ cap \in Limits
    /\ current \in [Providers -> Ids \cup {None}]
    /\ size \in [Ids -> Limits]
    /\ used \in [Ids -> Nat]
    /\ requests \in 0 .. MaxRequests
    /\ retries \in Nat
    /\ spent \in Nat
    /\ owed \in 0 .. MaxLate /\ late \in 0 .. MaxLate

TypeInv == TypeLoop /\ TypeShared /\ Local

\* Requests that have passed AllowRetry's check and not counted yet
Passed == {w \in Workers : pc[w] = "count"}

InFlight == {w \in Workers : pc[w] # "idle"}

RetryInv ==
    (retries + Cardinality(Passed)) * RatioDen
        <= requests * RatioNum + (Cardinality(Workers) - 1) * RatioDen

SpendInv ==
    spent + Cardinality(InFlight) * Cost
        <= SpendLimit - 1 + (Cardinality(Workers) + late) * Cost

-----------------------------------------------------------------------------
(* Arithmetic and cardinalities                                            *)

\* A product grows with its first factor.
LEMMA TimesMonotone ==
    ASSUME NEW a \in Nat, NEW b \in Nat, NEW c \in Nat, a <= b
    PROVE  a * c <= b * c
  <1>1. PICK d \in Nat : b = a + d
    <2>1. b - a \in Nat /\ b = a + (b - a)
      OBVIOUS
    <2> QED BY <2>1
  <1>2. b * c = a * c + d * c
    BY <1>1
  <1>3. d * c \in Nat /\ a * c \in Nat
    OBVIOUS
  <1> QED BY <1>2, <1>3

\* A product of naturals is one.
LEMMA TimesNat == ASSUME NEW a \in Nat, NEW b \in Nat PROVE a * b \in Nat
  OBVIOUS

\* A set of workers with one more, or one fewer, of them.
LEMMA CountWorkers ==
    ASSUME NEW S \in SUBSET Workers, NEW w \in Workers
    PROVE  /\ Cardinality(S) \in Nat /\ Cardinality(Workers) \in Nat
           /\ Cardinality(S) <= Cardinality(Workers)
           /\ Cardinality(Workers) >= 1
           /\ w \notin S => /\ Cardinality(S \cup {w}) = Cardinality(S) + 1
                            /\ Cardinality(S) <= Cardinality(Workers) - 1
           /\ w \in S => Cardinality(S \ {w}) = Cardinality(S) - 1
  <1>1. IsFiniteSet(Workers) /\ IsFiniteSet(S) /\ Cardinality(S) <= Cardinality(Workers)
    BY RotationConstants, FS_Subset
  <1>2. Cardinality(S) \in Nat /\ Cardinality(Workers) \in Nat
    BY <1>1, FS_CardinalityType
  <1>3. Cardinality(Workers) # 0
    BY <1>1, FS_EmptySet
  <1>4. ASSUME w \notin S
        PROVE  /\ Cardinality(S \cup {w}) = Cardinality(S) + 1
               /\ Cardinality(S) <= Cardinality(Workers) - 1
    <2>1. Cardinality(S \cup {w}) = Cardinality(S) + 1
      BY <1>1, <1>4, FS_AddElement
    <2>2. Cardinality(S \cup {w}) <= Cardinality(Workers)
      BY <1>1, FS_Subset
    <2> QED BY <1>2, <2>1, <2>2
  <1>5. ASSUME w \in S
        PROVE  Cardinality(S \ {w}) = Cardinality(S) - 1
    BY <1>1, <1>5, FS_RemoveElement
  <1> QED BY <1>1, <1>2, <1>3, <1>4, <1>5
-----------------------------------------------------------------------------
(* Types                                                                   *)

\* The initial state is typed.
LEMMA InitTyped == Init => TypeInv
  <1> SUFFICES ASSUME Init PROVE TypeInv
    OBVIOUS
  <1> USE RotationConstants
  <1>1. TypeLoop
    BY DEF Init, TypeLoop
  <1>2. TypeShared
    BY DEF Init, TypeShared
  <1>3. Local
    BY DEF Init, Local, LocalAt
  <1> QED BY <1>1, <1>2, <1>3 DEF TypeInv

\* Admit keeps the types.
LEMMA AdmitTyped ==
    ASSUME NEW w \in Workers, TypeInv, Admit(w)
    PROVE  TypeInv'
  <1> USE RotationConstants DEF loopVars, semVars, spendVars
  <1>1. TypeLoop'
    BY DEF Admit, TypeInv, TypeLoop, TypeShared, Local, LocalAt
  <1>2. TypeShared'
    BY DEF Admit, TypeInv, TypeLoop, TypeShared, Local, LocalAt
  <1>3. Local'
    <2> SUFFICES ASSUME NEW v \in Workers PROVE LocalAt(v)'
      BY DEF Local
    <2>1. LocalAt(v)
      BY DEF TypeInv, Local
    <2> QED BY <2>1 DEF LocalAt, Admit, TypeInv, TypeLoop, TypeShared
  <1> QED BY <1>1, <1>2, <1>3 DEF TypeInv

\* GiveUp keeps the types.
LEMMA GiveUpTyped ==
    ASSUME NEW w \in Workers, TypeInv, GiveUp(w)
    PROVE  TypeInv'
  <1> USE RotationConstants DEF loopVars, semVars, spendVars
  <1>1. TypeLoop'
    BY DEF GiveUp, TypeInv, TypeLoop, TypeShared, Local, LocalAt, Leave
  <1>2. TypeShared'
    BY DEF GiveUp, TypeInv, TypeLoop, TypeShared, Local, LocalAt, Leave
  <1>3. Local'
    <2> SUFFICES ASSUME NEW v \in Workers PROVE LocalAt(v)'
      BY DEF Local
    <2>1. LocalAt(v)
      BY DEF TypeInv, Local
    <2> QED BY <2>1 DEF LocalAt, GiveUp, TypeInv, TypeLoop, TypeShared, Leave
  <1> QED BY <1>1, <1>2, <1>3 DEF TypeInv

\* TakeFreely keeps the types.
LEMMA TakeFreelyTyped ==
    ASSUME NEW w \in Workers, TypeInv, TakeFreely(w)
    PROVE  TypeInv'
  <1> USE RotationConstants DEF loopVars, semVars, spendVars
  <1>1. TypeLoop'
    BY DEF TakeFreely, TypeInv, TypeLoop, TypeShared, Local, LocalAt, Take, First
  <1>2. TypeShared'
    BY DEF TakeFreely, TypeInv, TypeLoop, TypeShared, Local, LocalAt, Take, First
  <1>3. Local'
    <2> SUFFICES ASSUME NEW v \in Workers PROVE LocalAt(v)'
      BY DEF Local
    <2>1. LocalAt(v)
      BY DEF TypeInv, Local
    <2> QED BY <2>1 DEF LocalAt, TakeFreely, TypeInv, TypeLoop, TypeShared, Take, First
  <1> QED BY <1>1, <1>2, <1>3 DEF TypeInv

\* AllowRetry keeps the types.
LEMMA AllowRetryTyped ==
    ASSUME NEW w \in Workers, TypeInv, AllowRetry(w)
    PROVE  TypeInv'
  <1> USE RotationConstants DEF loopVars, semVars, spendVars
  <1>1. TypeLoop'
    BY DEF AllowRetry, TypeInv, TypeLoop, TypeShared, Local, LocalAt
  <1>2. TypeShared'
    BY DEF AllowRetry, TypeInv, TypeLoop, TypeShared, Local, LocalAt
  <1>3. Local'
    <2> SUFFICES ASSUME NEW v \in Workers PROVE LocalAt(v)'
      BY DEF Local
    <2>1. LocalAt(v)
      BY DEF TypeInv, Local
    <2> QED BY <2>1 DEF LocalAt, AllowRetry, TypeInv, TypeLoop, TypeShared
  <1> QED BY <1>1, <1>2, <1>3 DEF TypeInv

\* CountRetry keeps the types.
LEMMA CountRetryTyped ==
    ASSUME NEW w \in Workers, TypeInv, CountRetry(w)
    PROVE  TypeInv'
  <1> USE RotationConstants DEF loopVars, semVars, spendVars
  <1>1. TypeLoop'
    BY DEF CountRetry, TypeInv, TypeLoop, TypeShared, Local, LocalAt, Take, First
  <1>2. TypeShared'
    BY DEF CountRetry, TypeInv, TypeLoop, TypeShared, Local, LocalAt, Take, First
  <1>3. Local'
    <2> SUFFICES ASSUME NEW v \in Workers PROVE LocalAt(v)'
      BY DEF Local
    <2>1. LocalAt(v)
      BY DEF TypeInv, Local
    <2> QED BY <2>1 DEF LocalAt, CountRetry, TypeInv, TypeLoop, TypeShared, Take, First
  <1> QED BY <1>1, <1>2, <1>3 DEF TypeInv

\* LoadSemaphore keeps the types.
LEMMA LoadSemaphoreTyped ==
    ASSUME NEW w \in Workers, TypeInv, LoadSemaphore(w)
    PROVE  TypeInv'
  <1> USE RotationConstants DEF loopVars, semVars, spendVars
  <1>1. TypeLoop'
    BY DEF LoadSemaphore, TypeInv, TypeLoop, TypeShared, Local, LocalAt
  <1>2. TypeShared'
    BY DEF LoadSemaphore, TypeInv, TypeLoop, TypeShared, Local, LocalAt
  <1>3. Local'
    <2> SUFFICES ASSUME NEW v \in Workers PROVE LocalAt(v)'
      BY DEF Local
    <2>1. LocalAt(v)
      BY DEF TypeInv, Local
    <2> QED BY <2>1 DEF LocalAt, LoadSemaphore, TypeInv, TypeLoop, TypeShared
  <1> QED BY <1>1, <1>2, <1>3 DEF TypeInv

\* StoreSemaphore keeps the types.
LEMMA StoreSemaphoreTyped ==
    ASSUME NEW w \in Workers, TypeInv, StoreSemaphore(w)
    PROVE  TypeInv'
  <1> USE RotationConstants DEF loopVars, semVars, spendVars
  <1>1. TypeLoop'
    BY DEF StoreSemaphore, TypeInv, TypeLoop, TypeShared, Local, LocalAt
  <1>2. TypeShared'
    BY DEF StoreSemaphore, TypeInv, TypeLoop, TypeShared, Local, LocalAt
  <1>3. Local'
    <2> SUFFICES ASSUME NEW v \in Workers PROVE LocalAt(v)'
      BY DEF Local
    <2>1. LocalAt(v)
      BY DEF TypeInv, Local
    <2> QED BY <2>1 DEF LocalAt, StoreSemaphore, TypeInv, TypeLoop, TypeShared
  <1> QED BY <1>1, <1>2, <1>3 DEF TypeInv

\* TryAcquire keeps the types.
LEMMA TryAcquireTyped ==
    ASSUME NEW w \in Workers, TypeInv, TryAcquire(w)
    PROVE  TypeInv'
  <1> USE RotationConstants DEF loopVars, semVars, spendVars
  <1>1. TypeLoop'
    BY DEF TryAcquire, TypeInv, TypeLoop, TypeShared, Local, LocalAt
  <1>2. TypeShared'
    BY DEF TryAcquire, TypeInv, TypeLoop, TypeShared, Local, LocalAt
  <1>3. Local'
    <2> SUFFICES ASSUME NEW v \in Workers PROVE LocalAt(v)'
      BY DEF Local
    <2>1. LocalAt(v)
      BY DEF TypeInv, Local
    <2> QED BY <2>1 DEF LocalAt, TryAcquire, TypeInv, TypeLoop, TypeShared
  <1> QED BY <1>1, <1>2, <1>3 DEF TypeInv

\* Return keeps the types.
LEMMA ReturnTyped ==
    ASSUME NEW w \in Workers, TypeInv, Return(w)
    PROVE  TypeInv'
  <1> USE RotationConstants DEF loopVars, semVars, spendVars
  <1>1. TypeLoop'
    BY DEF Return, TypeInv, TypeLoop, TypeShared, Local, LocalAt, Leave
  <1>2. TypeShared'
    BY DEF Return, TypeInv, TypeLoop, TypeShared, Local, LocalAt, Leave
  <1>3. Local'
    <2> SUFFICES ASSUME NEW v \in Workers PROVE LocalAt(v)'
      BY DEF Local
    <2>1. LocalAt(v)
      BY DEF TypeInv, Local
    <2> QED BY <2>1 DEF LocalAt, Return, TypeInv, TypeLoop, TypeShared, Leave
  <1> QED BY <1>1, <1>2, <1>3 DEF TypeInv

\* A settlement, whether it succeeds or fails, keeps the types.
LEMMA SettleTyped ==
    ASSUME NEW w \in Workers, TypeInv, Settle(w) \/ SettleFails(w)
    PROVE  TypeInv'
  <1> USE RotationConstants DEF loopVars, semVars, spendVars
  <1>1. TypeLoop'
    BY DEF Settle, SettleFails, TypeInv, TypeLoop
  <1>2. TypeShared'
    BY DEF Settle, SettleFails, LeaveOwed, TypeInv, TypeShared
  <1>3. Local'
    <2> SUFFICES ASSUME NEW v \in Workers PROVE LocalAt(v)'
      BY DEF Local
    <2>1. LocalAt(v)
      BY DEF TypeInv, Local
    <2> QED BY <2>1 DEF LocalAt, Settle, SettleFails, TypeInv, TypeLoop, TypeShared
  <1> QED BY <1>1, <1>2, <1>3 DEF TypeInv

\* Reconfigure, the steps outside of requests, and a step that changes nothing
\* keep the types.
LEMMA RestTyped ==
    ASSUME TypeInv, Later \/ Reconfigure \/ UNCHANGED vars
    PROVE  TypeInv'
  <1> USE RotationConstants DEF loopVars, semVars, spendVars
  <1>1. TypeLoop'
    BY DEF Reconfigure, Later, AdmitVideo, LateDebit, DropOwed, vars, TypeInv, TypeLoop
  <1>2. TypeShared'
    BY DEF Reconfigure, Later, AdmitVideo, LeaveOwed, LateDebit, DropOwed, vars, TypeInv,
       TypeShared
  <1>3. Local'
    <2> SUFFICES ASSUME NEW v \in Workers PROVE LocalAt(v)'
      BY DEF Local
    <2>1. LocalAt(v)
      BY DEF TypeInv, Local
    <2> QED BY <2>1 DEF LocalAt, Reconfigure, Later, AdmitVideo, LateDebit, DropOwed, vars
  <1> QED BY <1>1, <1>2, <1>3 DEF TypeInv

\* Every step keeps the types.
LEMMA TypesKept == TypeInv /\ [Next]_vars => TypeInv'
  <1> SUFFICES ASSUME TypeInv, [Next]_vars PROVE TypeInv'
    OBVIOUS
  <1>1. CASE Later \/ Reconfigure \/ UNCHANGED vars
    BY <1>1, RestTyped
  <1>2. ASSUME NEW w \in Workers, Admit(w) \/ Step(w)
        PROVE  TypeInv'
    BY <1>2, AdmitTyped, GiveUpTyped, TakeFreelyTyped, AllowRetryTyped,
       CountRetryTyped, LoadSemaphoreTyped, StoreSemaphoreTyped,
       TryAcquireTyped, ReturnTyped, SettleTyped DEF Step
  <1> QED BY <1>1, <1>2 DEF Next

\* The strengthened type invariant holds in every reachable state.
LEMMA TypeInvHolds == Spec => []TypeInv
  BY InitTyped, TypesKept, PTL DEF Spec

\* Every reachable state is typed: in particular no rotation makes more than
\* MaxAttempts upstream calls, whatever is skipped on the way.
THEOREM TypeCorrect == Spec => []TypeOK
  <1>1. TypeInv => TypeOK
    BY DEF TypeInv, TypeLoop, TypeShared, TypeOK
  <1> QED BY <1>1, TypeInvHolds, PTL

-----------------------------------------------------------------------------
(* The retry budget                                                        *)

\* Who has passed the check, and who is in flight, after a worker has moved.
LEMMA Moved ==
    ASSUME NEW w \in Workers, NEW x, TypeInv, pc' = [pc EXCEPT ![w] = x]
    PROVE  /\ x = "count" => Passed' = Passed \cup {w}
           /\ x # "count" => Passed' = Passed \ {w}
           /\ x = "idle" => InFlight' = InFlight \ {w}
           /\ x # "idle" => InFlight' = InFlight \cup {w}
  BY DEF TypeInv, TypeLoop, Passed, InFlight

\* All that a step other than AllowRetry and CountRetry does to the budget
OffBudget(w) ==
    /\ \E x \in {"idle", "loop", "load", "store", "try", "sent", "settle"} :
          pc' = [pc EXCEPT ![w] = x]
    /\ pc[w] # "count"
    /\ retries' = retries /\ requests' \in Nat /\ requests' >= requests

\* Only those two steps touch the budget otherwise.
LEMMA StepOffBudget ==
    ASSUME NEW w \in Workers, TypeInv, Admit(w) \/ Step(w)
    PROVE  OffBudget(w) \/ AllowRetry(w) \/ CountRetry(w)
  <1> USE DEF OffBudget, TypeInv, TypeShared, semVars, loopVars
  <1>0. requests \in Nat
    BY RotationConstants
  <1>1. CASE Admit(w)
    BY <1>0, <1>1 DEF Admit
  <1>2. CASE GiveUp(w)
    BY <1>0, <1>2 DEF GiveUp, Leave
  <1>3. CASE TakeFreely(w)
    BY <1>0, <1>3 DEF TakeFreely, Take
  <1>4. CASE LoadSemaphore(w)
    BY <1>0, <1>4 DEF LoadSemaphore
  <1>5. CASE StoreSemaphore(w)
    BY <1>0, <1>5 DEF StoreSemaphore
  <1>6. CASE TryAcquire(w)
    BY <1>0, <1>6 DEF TryAcquire
  <1>7. CASE Return(w)
    BY <1>0, <1>7 DEF Return, Leave
  <1>8. CASE Settle(w) \/ SettleFails(w)
    BY <1>0, <1>8 DEF Settle, SettleFails
  <1> QED BY <1>1, <1>2, <1>3, <1>4, <1>5, <1>6, <1>7, <1>8 DEF Step

\* A step of a worker keeps the retry budget.
LEMMA RetryKept ==
    ASSUME NEW w \in Workers, TypeInv, RetryInv, Admit(w) \/ Step(w)
    PROVE  RetryInv'
  <1> USE RotationConstants
  <1> DEFINE n == Cardinality(Workers)
             k == Cardinality(Passed)
  <1>0. /\ requests \in Nat /\ retries \in Nat
        /\ Passed \in SUBSET Workers
        /\ (w \in Passed) <=> (pc[w] = "count")
    BY DEF TypeInv, TypeShared, Passed
  <1>1. /\ n \in Nat /\ k \in Nat /\ n >= 1
        /\ w \notin Passed => Cardinality(Passed \cup {w}) = k + 1 /\ k <= n - 1
        /\ w \in Passed => Cardinality(Passed \ {w}) = k - 1
    BY <1>0, CountWorkers
  <1>2. CASE OffBudget(w)
    <2>1. Passed' = Passed
      <3>1. PICK x \in {"idle", "loop", "load", "store", "try", "sent", "settle"} :
                pc' = [pc EXCEPT ![w] = x]
        BY <1>2 DEF OffBudget
      <3>2. Passed' = Passed \ {w}
        BY <3>1, Moved
      <3> QED BY <1>0, <1>2, <3>2 DEF OffBudget
    <2>2. requests * RatioNum <= requests' * RatioNum
      BY <1>0, <1>2, TimesMonotone DEF OffBudget
    <2>3. retries' = retries /\ requests' * RatioNum \in Nat /\ requests * RatioNum \in Nat
      <3>1. retries' = retries /\ requests' \in Nat
        BY <1>2 DEF OffBudget
      <3> QED BY <1>0, <3>1, TimesNat
    <2>4. (retries + k) * RatioDen \in Nat /\ (n - 1) * RatioDen \in Nat
      BY <1>0, <1>1
    <2> QED BY <2>1, <2>2, <2>3, <2>4 DEF RetryInv
  <1>3. CASE AllowRetry(w)
    <2>1. /\ Passed' = Passed \cup {w} /\ w \notin Passed
          /\ retries' = retries /\ requests' = requests
          /\ (retries + 1) * RatioDen <= requests * RatioNum
      <3>1. pc' = [pc EXCEPT ![w] = "count"] /\ pc[w] = "loop"
        BY <1>3 DEF AllowRetry
      <3>2. (retries + 1) * RatioDen \in Nat /\ requests * RatioNum \in Nat
        BY <1>0
      <3>3. ~ ((retries + 1) * RatioDen > requests * RatioNum)
        BY <1>3 DEF AllowRetry, RetryRefused
      <3>4. Passed' = Passed \cup {w} /\ w \notin Passed
        BY <1>0, <3>1, Moved
      <3>5. retries' = retries /\ requests' = requests
        BY <1>3 DEF AllowRetry
      <3>6. (retries + 1) * RatioDen <= requests * RatioNum
        BY <3>2, <3>3
      <3> QED BY <3>4, <3>5, <3>6
    <2>2. Cardinality(Passed') = k + 1 /\ k <= n - 1
      BY <1>1, <2>1
    <2>3. k * RatioDen <= (n - 1) * RatioDen
      BY <1>1, <2>2, TimesMonotone
    <2>4. (retries + (k + 1)) * RatioDen = (retries + 1) * RatioDen + k * RatioDen
      BY <1>0, <1>1
    <2>5. /\ (retries + 1) * RatioDen \in Nat /\ requests * RatioNum \in Nat
          /\ k * RatioDen \in Nat /\ (n - 1) * RatioDen \in Nat
      BY <1>0, <1>1
    <2> QED BY <2>1, <2>2, <2>3, <2>4, <2>5 DEF RetryInv
  <1>4. CASE CountRetry(w)
    <2>1. retries' = retries + 1 /\ requests' = requests /\ pc[w] = "count"
      BY <1>4 DEF CountRetry, Take
    <2>2. Passed' = Passed \ {w}
      <3>1. PICK x \in {"load", "loop"} : pc' = [pc EXCEPT ![w] = x]
        BY <1>4 DEF CountRetry, Take
      <3> QED BY <3>1, Moved
    <2>3. Cardinality(Passed') = k - 1
      BY <1>0, <1>1, <2>1, <2>2
    <2>4. (retries + 1) + (k - 1) = retries + k
      BY <1>0, <1>1
    <2> QED BY <2>1, <2>3, <2>4 DEF RetryInv
  <1> QED BY <1>2, <1>3, <1>4, StepOffBudget

\* The requests between AllowRetry's loads and its add are the whole excess: at
\* most one for every other worker, however the checks and the adds interleave.
THEOREM RetryBudget == Spec => []RetryBudgetHolds
  <1> USE RotationConstants
  <1>1. Init => RetryInv
    <2> SUFFICES ASSUME Init PROVE RetryInv
      OBVIOUS
    <2>1. Passed = {} /\ retries = 0 /\ requests = 0
      BY DEF Init, Passed
    <2>2. Cardinality(Passed) = 0
      BY <2>1, FS_EmptySet
    <2>3. Cardinality(Workers) \in Nat /\ Cardinality(Workers) >= 1
      BY CountWorkers
    <2>4. (Cardinality(Workers) - 1) * RatioDen \in Nat
      BY <2>3
    <2> QED BY <2>1, <2>2, <2>4 DEF RetryInv
  <1>2. TypeInv /\ RetryInv /\ [Next]_vars => RetryInv'
    <2> SUFFICES ASSUME TypeInv, RetryInv, [Next]_vars PROVE RetryInv'
      OBVIOUS
    <2>1. CASE Later \/ Reconfigure \/ UNCHANGED vars
      <3>1. Passed' = Passed /\ UNCHANGED <<retries, requests>>
        BY <2>1 DEF Reconfigure, Later, AdmitVideo, LateDebit, DropOwed, vars, Passed
      <3> QED BY <3>1 DEF RetryInv
    <2>2. ASSUME NEW w \in Workers, Admit(w) \/ Step(w) PROVE RetryInv'
      BY <2>2, RetryKept
    <2> QED BY <2>1, <2>2 DEF Next
  <1>3. TypeInv /\ RetryInv => RetryBudgetHolds
    <2> SUFFICES ASSUME TypeInv, RetryInv PROVE RetryBudgetHolds
      OBVIOUS
    <2>1. PICK w \in Workers : TRUE
      OBVIOUS
    <2>0. Passed \in SUBSET Workers /\ retries \in Nat /\ requests \in Nat
      BY DEF Passed, TypeInv, TypeShared
    <2>2. /\ Cardinality(Passed) \in Nat /\ Cardinality(Workers) \in Nat
          /\ Cardinality(Workers) >= 1 /\ retries \in Nat /\ requests \in Nat
      BY <2>0, <2>1, CountWorkers
    <2>3. retries * RatioDen <= (retries + Cardinality(Passed)) * RatioDen
      BY <2>2, TimesMonotone
    <2>4. /\ retries * RatioDen \in Nat /\ (retries + Cardinality(Passed)) * RatioDen \in Nat
          /\ requests * RatioNum \in Nat /\ (Cardinality(Workers) - 1) * RatioDen \in Nat
      BY <2>2
    <2> QED BY <2>3, <2>4 DEF RetryInv, RetryBudgetHolds
  <1> QED BY <1>1, <1>2, <1>3, TypeInvHolds, PTL DEF Spec

-----------------------------------------------------------------------------
(* The spend limit                                                         *)

\* All that a step other than Admit and a settlement does to the spend: its worker
\* is and stays in flight, or ends without cost.
OffSpend(w) ==
    /\ pc[w] # "idle" /\ spent' = spent /\ late' = late
    /\ \E x \in {"idle", "loop", "count", "load", "store", "try", "sent", "settle"} :
          pc' = [pc EXCEPT ![w] = x]

\* A request ends with its cost added.
Spends(w) ==
    /\ pc[w] = "settle" /\ pc' = [pc EXCEPT ![w] = "idle"]
    /\ spent' = spent + Cost /\ late' = late

\* Only a settlement adds to the spend.
LEMMA StepOffSpend ==
    ASSUME NEW w \in Workers, TypeInv, Step(w)
    PROVE  OffSpend(w) \/ Spends(w)
  <1> USE DEF OffSpend, semVars, loopVars, spendVars
  <1>1. CASE GiveUp(w)
    BY <1>1 DEF GiveUp, Leave
  <1>2. CASE TakeFreely(w)
    BY <1>2 DEF TakeFreely, Take
  <1>3. CASE AllowRetry(w)
    BY <1>3 DEF AllowRetry
  <1>4. CASE CountRetry(w)
    BY <1>4 DEF CountRetry, Take
  <1>5. CASE LoadSemaphore(w)
    BY <1>5 DEF LoadSemaphore
  <1>6. CASE StoreSemaphore(w)
    BY <1>6 DEF StoreSemaphore
  <1>7. CASE TryAcquire(w)
    BY <1>7 DEF TryAcquire
  <1>8. CASE Return(w)
    BY <1>8 DEF Return, Leave
  <1>9. CASE Settle(w) \/ SettleFails(w)
    BY <1>9 DEF Settle, SettleFails, Spends
  <1> QED BY <1>1, <1>2, <1>3, <1>4, <1>5, <1>6, <1>7, <1>8, <1>9 DEF Step

\* A step of a worker keeps the bound on the spend.
LEMMA SpendKept ==
    ASSUME NEW w \in Workers, TypeInv, SpendInv, Admit(w) \/ Step(w)
    PROVE  SpendInv'
  <1> USE RotationConstants
  <1> DEFINE n == Cardinality(Workers) + late
             k == Cardinality(InFlight)
  <1>0. /\ spent \in Nat /\ late \in Nat /\ InFlight \in SUBSET Workers
        /\ (w \in InFlight) <=> (pc[w] # "idle")
    BY DEF TypeInv, TypeShared, InFlight
  <1>1. /\ n \in Nat /\ k \in Nat /\ k <= n
        /\ w \notin InFlight => Cardinality(InFlight \cup {w}) = k + 1 /\ k <= n - 1
        /\ w \in InFlight => Cardinality(InFlight \ {w}) = k - 1
    <2>1. /\ Cardinality(Workers) \in Nat /\ k \in Nat /\ k <= Cardinality(Workers)
          /\ w \notin InFlight => /\ Cardinality(InFlight \cup {w}) = k + 1
                                /\ k <= Cardinality(Workers) - 1
          /\ w \in InFlight => Cardinality(InFlight \ {w}) = k - 1
      BY <1>0, CountWorkers
    <2> HIDE DEF k
    <2> QED BY <1>0, <2>1
  <1>2. k * Cost \in Nat /\ n * Cost \in Nat
    BY <1>1, TimesNat
  <1>3. CASE Admit(w)
    <2>1. /\ spent < SpendLimit /\ spent' = spent /\ late' = late /\ pc[w] = "idle"
          /\ pc' = [pc EXCEPT ![w] = "loop"]
      BY <1>3 DEF Admit, spendVars
    <2>2. InFlight' = InFlight \cup {w}
      <3>1. pc' = [pc EXCEPT ![w] = "loop"]
        BY <2>1
      <3>2. PICK x : x = "loop"
        OBVIOUS
      <3>3. pc' = [pc EXCEPT ![w] = x] /\ x # "idle"
        BY <3>1, <3>2
      <3>4. x # "idle" => InFlight' = InFlight \cup {w}
        BY <3>3, Moved
      <3> QED BY <3>3, <3>4
    <2>3. Cardinality(InFlight') = k + 1 /\ k + 1 <= n
      BY <1>0, <1>1, <2>1, <2>2
    <2>4. (k + 1) * Cost <= n * Cost /\ (k + 1) * Cost \in Nat
      BY <1>1, <2>3, TimesMonotone, TimesNat
    <2> HIDE DEF n, k
    <2>5. spent + (k + 1) * Cost <= SpendLimit - 1 + n * Cost
      BY <1>0, <1>2, <2>1, <2>4
    <2> QED BY <2>1, <2>3, <2>5 DEF SpendInv, n
  <1>4. CASE Spends(w)
    <2>1. /\ spent' = spent + Cost /\ late' = late /\ pc[w] = "settle"
          /\ pc' = [pc EXCEPT ![w] = "idle"]
      BY <1>4 DEF Spends
    <2>2. InFlight' = InFlight \ {w}
      BY <2>1, Moved
    <2>3. Cardinality(InFlight') = k - 1
      BY <1>0, <1>1, <2>1, <2>2
    <2>4. k * Cost = (k - 1) * Cost + Cost
      BY <1>1
    <2>5. k - 1 \in Nat
      <3>1. IsFiniteSet(InFlight')
        BY <1>0, <2>2, FS_Subset
      <3> QED BY <2>3, <3>1, FS_CardinalityType
    <2>6. (k - 1) * Cost \in Nat
      BY <2>5, TimesNat
    <2>7. spent + k * Cost <= SpendLimit - 1 + n * Cost
      BY DEF SpendInv
    <2> HIDE DEF n, k
    <2>8. (spent + Cost) + (k - 1) * Cost <= SpendLimit - 1 + n * Cost
      BY <1>0, <1>2, <2>4, <2>6, <2>7
    <2> QED BY <2>1, <2>3, <2>8 DEF SpendInv, n
  <1>5. CASE OffSpend(w)
    <2>1. /\ spent' = spent /\ late' = late
          /\ InFlight' = InFlight \/ InFlight' = InFlight \ {w}
      <3>1. PICK x \in {"idle", "loop", "count", "load", "store", "try", "sent", "settle"} :
                pc' = [pc EXCEPT ![w] = x]
        BY <1>5 DEF OffSpend
      <3>2. InFlight' = InFlight \cup {w} \/ InFlight' = InFlight \ {w}
        BY <3>1, Moved
      <3>3. w \in InFlight /\ spent' = spent /\ late' = late
        BY <1>0, <1>5 DEF OffSpend
      <3>4. InFlight \cup {w} = InFlight
        BY <3>3
      <3> QED BY <3>2, <3>3, <3>4
    <2>2. Cardinality(InFlight') \in Nat /\ Cardinality(InFlight') <= k
      <3>1. IsFiniteSet(InFlight)
        BY <1>0, FS_Subset
      <3>2. InFlight' \in SUBSET InFlight
        BY <2>1
      <3> QED BY <3>1, <3>2, FS_Subset, FS_CardinalityType
    <2>3. Cardinality(InFlight') * Cost <= k * Cost /\ Cardinality(InFlight') * Cost \in Nat
      BY <1>1, <2>2, TimesMonotone, TimesNat
    <2>4. spent + k * Cost <= SpendLimit - 1 + n * Cost
      BY DEF SpendInv
    <2> HIDE DEF n, k
    <2>5. spent + Cardinality(InFlight') * Cost <= SpendLimit - 1 + n * Cost
      BY <1>0, <1>2, <2>3, <2>4
    <2> QED BY <2>1, <2>5 DEF SpendInv, n
  <1> QED BY <1>3, <1>4, <1>5, StepOffSpend

\* A late debit raises the spend and what is allowed for it alike.
LEMMA LaterKeepsSpend ==
    ASSUME TypeInv, SpendInv, Later
    PROVE  SpendInv'
  <1> USE RotationConstants
  <1> DEFINE n == Cardinality(Workers) + late
             k == Cardinality(InFlight)
  <1>1. InFlight' = InFlight
    BY DEF Later, AdmitVideo, LateDebit, DropOwed, InFlight
  <1>2. CASE UNCHANGED <<spent, late>>
    BY <1>1, <1>2 DEF SpendInv
  <1>3. CASE spent' = spent + Cost /\ late' = late + 1
    <2>1. spent \in Nat /\ late \in Nat /\ InFlight \in SUBSET Workers
      BY DEF TypeInv, TypeShared, InFlight
    <2>2. k \in Nat /\ Cardinality(Workers) \in Nat
      BY <2>1, CountWorkers
    <2>3. n \in Nat
      BY <2>1, <2>2
    <2>4. k * Cost \in Nat /\ n * Cost \in Nat /\ (n + 1) * Cost = n * Cost + Cost
      BY <2>2, <2>3, TimesNat
    <2>5. spent + k * Cost <= SpendLimit - 1 + n * Cost
      BY DEF SpendInv
    <2>6. Cardinality(Workers) + late' = n + 1
      BY <1>3, <2>1, <2>2
    <2> HIDE DEF n, k
    <2>7. (spent + Cost) + k * Cost <= SpendLimit - 1 + (n + 1) * Cost
      BY <2>1, <2>4, <2>5
    <2> QED BY <1>1, <1>3, <2>6, <2>7 DEF SpendInv, k
  <1> QED BY <1>2, <1>3 DEF Later, AdmitVideo, LateDebit, DropOwed

\* The gate admits only below the limit, so what is spent beyond it was in flight
\* when the last request passed, or was debited late: less than one Cost for every
\* worker and every late debit, however many settlements fail and are replayed.
THEOREM SpendOvershoot == Spec => []OvershootBounded
  <1> USE RotationConstants
  <1>1. Init => SpendInv
    <2> SUFFICES ASSUME Init PROVE SpendInv
      OBVIOUS
    <2>1. InFlight = {} /\ spent = 0 /\ late = 0
      BY DEF Init, InFlight
    <2>2. Cardinality(InFlight) = 0
      BY <2>1, FS_EmptySet
    <2>3. (Cardinality(Workers) + 0) * Cost \in Nat
      BY FS_CardinalityType, TimesNat
    <2>4. 0 * Cost = 0
      OBVIOUS
    <2> QED BY <2>1, <2>2, <2>3, <2>4 DEF SpendInv
  <1>2. TypeInv /\ SpendInv /\ [Next]_vars => SpendInv'
    <2> SUFFICES ASSUME TypeInv, SpendInv, [Next]_vars PROVE SpendInv'
      OBVIOUS
    <2>1. CASE Reconfigure \/ UNCHANGED vars
      <3>1. InFlight' = InFlight /\ spent' = spent /\ late' = late
        BY <2>1 DEF Reconfigure, vars, spendVars, InFlight
      <3> QED BY <3>1 DEF SpendInv
    <2>2. ASSUME NEW w \in Workers, Admit(w) \/ Step(w) PROVE SpendInv'
      BY <2>2, SpendKept
    <2> QED BY <2>1, <2>2, LaterKeepsSpend DEF Next
  <1>3. TypeInv /\ SpendInv => OvershootBounded
    <2> SUFFICES ASSUME TypeInv, SpendInv PROVE OvershootBounded
      OBVIOUS
    <2>1. InFlight \in SUBSET Workers /\ spent \in Nat /\ late \in Nat
      BY DEF InFlight, TypeInv, TypeShared
    <2>2. Cardinality(InFlight) \in Nat /\ Cardinality(Workers) \in Nat
      BY <2>1, CountWorkers
    <2>3. /\ Cardinality(InFlight) * Cost \in Nat
          /\ (Cardinality(Workers) + late) * Cost \in Nat
      BY <2>1, <2>2, TimesNat
    <2> QED BY <2>1, <2>3 DEF SpendInv, OvershootBounded
  <1> QED BY <1>1, <1>2, <1>3, TypeInvHolds, PTL DEF Spec

-----------------------------------------------------------------------------
(* The concurrency slots                                                   *)

\* SlotsConserved of one semaphore
SlotAt(i) == i \in Live => used[i] = Cardinality(Holding(i)) /\ used[i] <= size[i]

\* A semaphore that a step neither takes from nor gives back to, and to which it
\* makes no new reference, keeps its slots.
LEMMA SlotUntouched ==
    ASSUME NEW i \in Ids, SlotAt(i), i \in Live' => i \in Live,
           Holding(i)' = Holding(i), used'[i] = used[i], size'[i] = size[i]
    PROVE  SlotAt(i)'
  BY DEF SlotAt

\* The holders of a semaphore are a finite set.
LEMMA HoldersFinite ==
    ASSUME NEW i \in Ids
    PROVE  /\ Holding(i) \in SUBSET Workers /\ IsFiniteSet(Holding(i))
           /\ Cardinality(Holding(i)) \in Nat
  <1>1. Holding(i) \in SUBSET Workers
    BY DEF Holding
  <1> QED BY <1>1, RotationConstants, FS_Subset, FS_CardinalityType

\* All that a step away from the semaphores does
OffSlots ==
    /\ UNCHANGED <<sem, current, size, used>>
    /\ \A v \in Workers : (pc'[v] = "sent") <=> (pc[v] = "sent")

\* Such a step keeps every slot.
LEMMA OffSlotsKept ==
    ASSUME SlotsConserved, OffSlots
    PROVE  SlotsConserved'
  <1> SUFFICES ASSUME NEW i \in Ids PROVE SlotAt(i)'
    BY DEF SlotsConserved, SlotAt
  <1>1. SlotAt(i)
    BY DEF SlotsConserved, SlotAt
  <1>2. Holding(i)' = Holding(i)
    BY DEF Holding, OffSlots
  <1>3. Live' = Live
    BY DEF Live, OffSlots
  <1> QED BY <1>1, <1>2, <1>3, SlotUntouched DEF OffSlots

\* The steps of the loop, of admission and of settlement are such steps.
LEMMA LoopOffSlots ==
    ASSUME NEW w \in Workers, TypeInv,
           \/ Admit(w) \/ GiveUp(w) \/ TakeFreely(w)
           \/ AllowRetry(w) \/ CountRetry(w) \/ Settle(w) \/ SettleFails(w)
    PROVE  OffSlots
  <1> USE DEF OffSlots, semVars, TypeInv, TypeLoop
  <1>1. CASE Admit(w)
    BY <1>1 DEF Admit
  <1>2. CASE GiveUp(w)
    BY <1>2 DEF GiveUp, Leave
  <1>3. CASE TakeFreely(w)
    BY <1>3 DEF TakeFreely, Take
  <1>4. CASE AllowRetry(w)
    BY <1>4 DEF AllowRetry
  <1>5. CASE CountRetry(w)
    BY <1>5 DEF CountRetry, Take
  <1>6. CASE Settle(w) \/ SettleFails(w)
    BY <1>6 DEF Settle, SettleFails
  <1> QED BY <1>1, <1>2, <1>3, <1>4, <1>5, <1>6

\* Taking a reference to the registered semaphore keeps the slots.
LEMMA LoadKeepsSlots ==
    ASSUME NEW w \in Workers, TypeInv, SlotsConserved, LoadSemaphore(w)
    PROVE  SlotsConserved'
  <1> USE RotationConstants DEF semVars, TypeInv, TypeLoop
  <1> SUFFICES ASSUME NEW i \in Ids PROVE SlotAt(i)'
    BY DEF SlotsConserved, SlotAt
  <1>1. SlotAt(i)
    BY DEF SlotsConserved, SlotAt
  <1>2. Holding(i)' = Holding(i)
    BY DEF Holding, LoadSemaphore
  <1>3. ProviderOf[cur[w]] \in Providers
    BY DEF LoadSemaphore, Local, LocalAt
  <1>4. i \in Live' => i \in Live
    BY <1>3 DEF Live, LoadSemaphore
  <1>5. used' = used /\ size' = size
    BY DEF LoadSemaphore
  <1> QED BY <1>1, <1>2, <1>4, <1>5, SlotUntouched

\* A new semaphore has no holder, and replacing the registered one leaves the
\* slots of its holders where they are.
LEMMA StoreKeepsSlots ==
    ASSUME NEW w \in Workers, TypeInv, SlotsConserved, StoreSemaphore(w)
    PROVE  SlotsConserved'
  <1> USE RotationConstants
  <1>1. PICK n \in Ids \ Live :
            /\ size' = [size EXCEPT ![n] = lim[w]]
            /\ used' = [used EXCEPT ![n] = 0]
            /\ current' = [current EXCEPT ![ProviderOf[cur[w]]] = n]
            /\ sem' = [sem EXCEPT ![w] = n]
    <2>1. (CHOOSE i \in Ids \ Live : TRUE) \in Ids \ Live
      BY DEF StoreSemaphore
    <2> QED BY <2>1 DEF StoreSemaphore
  <1>2. pc[w] = "store" /\ pc' = [pc EXCEPT ![w] = "try"] /\ lim[w] \in Limits
    BY DEF StoreSemaphore, TypeInv, Local, LocalAt
  <1>3. size \in [Ids -> Limits] /\ used \in [Ids -> Nat]
    BY DEF TypeInv, TypeShared
  <1> SUFFICES ASSUME NEW i \in Ids PROVE SlotAt(i)'
    BY DEF SlotsConserved, SlotAt
  <1>4. CASE i = n
    <2>1. Holding(i)' = {}
      <3> SUFFICES ASSUME NEW v \in Workers, pc'[v] = "sent", sem'[v] = n PROVE FALSE
        BY <1>4 DEF Holding
      <3>1. v # w
        BY <1>2 DEF TypeInv, TypeLoop
      <3>2. sem[v] = n
        BY <1>1, <3>1 DEF TypeInv, TypeLoop
      <3> QED BY <1>1, <3>2 DEF Live
    <2>2. Cardinality(Holding(i)') = 0
      BY <2>1, FS_EmptySet
    <2>3. used'[i] = 0 /\ size'[i] \in Nat
      BY <1>1, <1>2, <1>3, <1>4
    <2> QED BY <2>2, <2>3 DEF SlotAt
  <1>5. CASE i # n
    <2>1. SlotAt(i)
      BY DEF SlotsConserved, SlotAt
    <2>2. Holding(i)' = Holding(i)
      BY <1>1, <1>2, <1>5 DEF Holding, TypeInv, TypeLoop
    <2>3. i \in Live' => i \in Live
      BY <1>1, <1>5 DEF Live, TypeInv, TypeLoop, TypeShared
    <2>4. used'[i] = used[i] /\ size'[i] = size[i]
      BY <1>1, <1>3, <1>5
    <2> QED BY <2>1, <2>2, <2>3, <2>4, SlotUntouched
  <1> QED BY <1>4, <1>5

\* A slot is taken only where one is free, and by the worker that becomes a
\* holder; a refused worker drops its reference.
LEMMA AcquireKeepsSlots ==
    ASSUME NEW w \in Workers, TypeInv, SlotsConserved, TryAcquire(w)
    PROVE  SlotsConserved'
  <1> USE RotationConstants
  <1> DEFINE n == sem[w]
  <1>1. pc[w] = "try" /\ n \in Ids /\ n \in Live /\ current' = current /\ size' = size
    BY DEF TryAcquire, TypeInv, Local, LocalAt, Live
  <1>2. /\ size \in [Ids -> Limits] /\ used \in [Ids -> Nat]
        /\ sem \in [Workers -> Ids \cup {None}]
        /\ pc \in [Workers -> {"idle", "loop", "count", "load", "store", "try", "sent", "settle"}]
    BY DEF TypeInv, TypeLoop, TypeShared
  <1> SUFFICES ASSUME NEW i \in Ids PROVE SlotAt(i)'
    BY DEF SlotsConserved, SlotAt
  <1>3. SlotAt(i)
    BY DEF SlotsConserved, SlotAt
  <1>4. CASE used[n] < size[n]
    <2>1. /\ used' = [used EXCEPT ![n] = @ + 1] /\ sem' = sem
          /\ pc' = [pc EXCEPT ![w] = "sent"]
      BY <1>4 DEF TryAcquire
    <2>2. Live' = Live
      BY <1>1, <2>1 DEF Live
    <2>3. CASE i = n
      <3>1. Holding(i)' = Holding(i) \cup {w} /\ w \notin Holding(i)
        BY <1>1, <1>2, <2>1, <2>3 DEF Holding
      <3>2. Cardinality(Holding(i)') = Cardinality(Holding(i)) + 1
        BY <3>1, HoldersFinite, CountWorkers
      <3>3. used'[i] = used[i] + 1 /\ used[i] = Cardinality(Holding(i))
        BY <1>1, <1>2, <1>3, <2>1, <2>3 DEF SlotAt
      <3>4. used[i] + 1 <= size[i]
        BY <1>2, <1>4, <2>3
      <3> QED BY <1>1, <3>2, <3>3, <3>4 DEF SlotAt
    <2>4. CASE i # n
      <3>1. Holding(i)' = Holding(i)
        BY <1>1, <1>2, <2>1, <2>4 DEF Holding
      <3>2. used'[i] = used[i]
        BY <1>2, <2>1, <2>4
      <3> QED BY <1>1, <1>3, <2>2, <3>1, <3>2, SlotUntouched
    <2> QED BY <2>3, <2>4
  <1>5. CASE ~ (used[n] < size[n])
    <2>1. /\ used' = used /\ sem' = [sem EXCEPT ![w] = None]
          /\ pc' = [pc EXCEPT ![w] = "loop"]
      BY <1>5 DEF TryAcquire
    <2>2. Holding(i)' = Holding(i)
      BY <1>1, <1>2, <2>1 DEF Holding
    <2>3. i \in Live' => i \in Live
      BY <1>1, <1>2, <2>1 DEF Live
    <2> QED BY <1>1, <1>3, <2>1, <2>2, <2>3, SlotUntouched
  <1> QED BY <1>4, <1>5

\* The slot goes back to the semaphore it was taken from, by its holder.
LEMMA ReturnKeepsSlots ==
    ASSUME NEW w \in Workers, TypeInv, SlotsConserved, Return(w)
    PROVE  SlotsConserved'
  <1> USE RotationConstants
  <1> DEFINE n == sem[w]
  <1>1. pc[w] = "sent" /\ n \in Ids /\ n \in Live /\ current' = current /\ size' = size
    BY DEF Return, TypeInv, Local, LocalAt, Live
  <1>2. /\ size \in [Ids -> Limits] /\ used \in [Ids -> Nat]
        /\ sem \in [Workers -> Ids \cup {None}]
        /\ pc \in [Workers -> {"idle", "loop", "count", "load", "store", "try", "sent", "settle"}]
    BY DEF TypeInv, TypeLoop, TypeShared
  <1>3. /\ used' = [used EXCEPT ![n] = IF @ = 0 THEN 0 ELSE @ - 1]
        /\ sem' = [sem EXCEPT ![w] = None]
    BY DEF Return
  <1>4. PICK x \in {"settle", "idle", "loop"} : pc' = [pc EXCEPT ![w] = x]
    BY DEF Return, Leave
  <1> SUFFICES ASSUME NEW i \in Ids PROVE SlotAt(i)'
    BY DEF SlotsConserved, SlotAt
  <1>5. SlotAt(i)
    BY DEF SlotsConserved, SlotAt
  <1>6. i \in Live' => i \in Live
    BY <1>1, <1>2, <1>3 DEF Live
  <1>7. CASE i = n
    <2>1. Holding(i)' = Holding(i) \ {w} /\ w \in Holding(i)
      BY <1>1, <1>2, <1>3, <1>4, <1>7 DEF Holding
    <2>2. Cardinality(Holding(i)') = Cardinality(Holding(i)) - 1
      BY <2>1, HoldersFinite, CountWorkers
    <2>3. Cardinality(Holding(i)) >= 1
      <3>1. Holding(i) # {}
        BY <2>1
      <3>2. Cardinality(Holding(i)) # 0
        BY <3>1, HoldersFinite, FS_EmptySet
      <3> QED BY <3>2, HoldersFinite
    <2>4. used[i] = Cardinality(Holding(i)) /\ used[i] <= size[i]
      BY <1>1, <1>5, <1>7 DEF SlotAt
    <2>5. used'[i] = used[i] - 1
      BY <1>2, <1>3, <1>7, <2>3, <2>4
    <2>6. used[i] \in Nat /\ size[i] \in Nat /\ size'[i] = size[i]
      BY <1>1, <1>2
    <2> QED BY <2>2, <2>4, <2>5, <2>6 DEF SlotAt
  <1>8. CASE i # n
    <2>1. Holding(i)' = Holding(i)
      BY <1>1, <1>2, <1>3, <1>4, <1>8 DEF Holding
    <2>2. used'[i] = used[i]
      BY <1>2, <1>3, <1>8
    <2> QED BY <1>1, <1>5, <1>6, <2>1, <2>2, SlotUntouched
  <1> QED BY <1>7, <1>8

\* Slots are conserved through every replacement of a semaphore: its holders
\* account for every slot taken, and they are never more than its size.
THEOREM SlotConservation == Spec => []SlotsConserved
  <1>1. Init => SlotsConserved
    <2> SUFFICES ASSUME Init, NEW i \in Ids, i \in Live PROVE FALSE
      BY DEF SlotsConserved
    <2> QED BY RotationConstants DEF Init, Live
  <1>2. TypeInv /\ SlotsConserved /\ [Next]_vars => SlotsConserved'
    <2> SUFFICES ASSUME TypeInv, SlotsConserved, [Next]_vars PROVE SlotsConserved'
      OBVIOUS
    <2>1. CASE Later \/ Reconfigure \/ UNCHANGED vars
      <3>1. OffSlots
        BY <2>1 DEF Reconfigure, Later, AdmitVideo, LateDebit, DropOwed, vars, OffSlots, semVars
      <3> QED BY <3>1, OffSlotsKept
    <2>2. ASSUME NEW w \in Workers, Admit(w) \/ Step(w) PROVE SlotsConserved'
      <3>1. CASE \/ Admit(w) \/ GiveUp(w) \/ TakeFreely(w)
                 \/ AllowRetry(w) \/ CountRetry(w) \/ Settle(w) \/ SettleFails(w)
        BY <3>1, LoopOffSlots, OffSlotsKept
      <3> QED BY <2>2, <3>1, LoadKeepsSlots, StoreKeepsSlots, AcquireKeepsSlots,
                 ReturnKeepsSlots DEF Step
    <2> QED BY <2>1, <2>2 DEF Next
  <1> QED BY <1>1, <1>2, TypeInvHolds, PTL DEF Spec

-----------------------------------------------------------------------------
(* Progress of a rotation                                                  *)

\* A worker's remaining candidates have a size, which taking one lowers.
LEMMA LeftSizes ==
    ASSUME NEW S \in SUBSET Routes
    PROVE  /\ Cardinality(S) \in Nat
           /\ \A r \in S : Cardinality(S \ {r}) = Cardinality(S) - 1
           /\ Cardinality({}) = 0
  <1>1. IsFiniteSet(S)
    BY RotationConstants, FS_Subset
  <1> QED BY <1>1, FS_CardinalityType, FS_RemoveElement, FS_EmptySet

\* Leaving the loop, for the settlement or for good, ends a rotation.
LEMMA LeaveAdvances ==
    ASSUME NEW w \in Workers, TypeInv, pc[w] \in {"loop", "sent"},
           NEW s \in {"idle", "settle"}, Leave(w, s)
    PROVE  Remaining(w)' < Remaining(w)
  <1>1. left'[w] = {} /\ pc'[w] = s
    BY DEF Leave, TypeInv, TypeLoop
  <1>2. Cardinality(left[w]) \in Nat /\ Cardinality({}) = 0
    BY LeftSizes DEF TypeInv, TypeLoop
  <1>3. Remaining(w)' <= 1
    BY <1>1, <1>2 DEF Remaining, Ahead
  <1>4. Remaining(w) >= 2 /\ Remaining(w) \in Nat
    BY <1>2 DEF Remaining, Ahead
  <1>5. Remaining(w)' \in Nat
    BY <1>1, <1>2 DEF Remaining, Ahead
  <1> QED BY <1>3, <1>4, <1>5

\* Taking a candidate, or skipping it, leaves fewer of them.
LEMMA TakeAdvances ==
    ASSUME NEW w \in Workers, TypeInv, pc[w] \in {"loop", "count"}, Take(w)
    PROVE  Remaining(w)' < Remaining(w)
  <1>1. PICK r \in left[w] : left'[w] = left[w] \ {r}
    BY DEF Take, First, TypeInv, TypeLoop
  <1>2. pc'[w] \in {"load", "loop"}
    BY DEF Take, TypeInv, TypeLoop
  <1>3. /\ Cardinality(left[w]) \in Nat
        /\ Cardinality(left'[w]) = Cardinality(left[w]) - 1
    BY <1>1, LeftSizes DEF TypeInv, TypeLoop
  <1>4. Ahead[pc[w]] \in {1, 2} /\ Ahead[pc'[w]] \in {2, 6}
    BY <1>2 DEF Ahead
  <1> QED BY <1>3, <1>4 DEF Remaining

\* Every step of a request shortens what it has ahead.
LEMMA StepAdvances ==
    ASSUME NEW w \in Workers, TypeInv, Step(w)
    PROVE  Remaining(w)' < Remaining(w)
  <1> USE DEF loopVars, semVars
  <1>1. Cardinality(left[w]) \in Nat
    BY LeftSizes DEF TypeInv, TypeLoop
  <1>2. ASSUME left'[w] = left[w], Ahead[pc[w]] \in Nat, Ahead[pc'[w]] \in Nat,
               Ahead[pc'[w]] < Ahead[pc[w]]
        PROVE  Remaining(w)' < Remaining(w)
    BY <1>1, <1>2 DEF Remaining
  <1>3. CASE GiveUp(w)
    BY <1>3, LeaveAdvances DEF GiveUp
  <1>4. CASE TakeFreely(w) \/ CountRetry(w)
    BY <1>4, TakeAdvances DEF TakeFreely, CountRetry
  <1>5. CASE AllowRetry(w)
    <2>1. left'[w] = left[w] /\ pc[w] = "loop" /\ pc'[w] = "count"
      BY <1>5 DEF AllowRetry, TypeInv, TypeLoop
    <2> QED BY <1>2, <2>1 DEF Ahead
  <1>6. CASE LoadSemaphore(w)
    <2>1. left'[w] = left[w] /\ pc[w] = "load" /\ pc'[w] \in {"try", "store"}
      BY <1>6 DEF LoadSemaphore, TypeInv, TypeLoop
    <2> QED BY <1>2, <2>1 DEF Ahead
  <1>7. CASE StoreSemaphore(w)
    <2>1. left'[w] = left[w] /\ pc[w] = "store" /\ pc'[w] = "try"
      BY <1>7 DEF StoreSemaphore, TypeInv, TypeLoop
    <2> QED BY <1>2, <2>1 DEF Ahead
  <1>8. CASE TryAcquire(w)
    <2>1. left'[w] = left[w] /\ pc[w] = "try" /\ pc'[w] \in {"sent", "loop"}
      BY <1>8 DEF TryAcquire, TypeInv, TypeLoop
    <2> QED BY <1>2, <2>1 DEF Ahead
  <1>9. CASE Return(w)
    <2>1. CASE Leave(w, "settle") \/ Leave(w, "idle")
      BY <1>9, <2>1, LeaveAdvances DEF Return
    <2>2. CASE pc' = [pc EXCEPT ![w] = "loop"] /\ UNCHANGED left
      <3>1. left'[w] = left[w] /\ pc[w] = "sent" /\ pc'[w] = "loop"
        BY <1>9, <2>2 DEF Return, TypeInv, TypeLoop
      <3> QED BY <1>2, <3>1 DEF Ahead
    <2> QED BY <1>9, <2>1, <2>2 DEF Return
  <1>10. CASE Settle(w) \/ SettleFails(w)
    <2>1. left'[w] = left[w] /\ pc[w] = "settle" /\ pc'[w] = "idle"
      BY <1>10 DEF Settle, SettleFails, TypeInv, TypeLoop
    <2> QED BY <1>2, <2>1 DEF Ahead
  <1> QED BY <1>3, <1>4, <1>5, <1>6, <1>7, <1>8, <1>9, <1>10 DEF Step

\* A step of worker v moves no other worker's request.
LEMMA OthersStand ==
    ASSUME NEW v \in Workers, NEW w \in Workers, w # v, TypeInv, Admit(v) \/ Step(v)
    PROVE  Request(w)' = Request(w)
  <1> USE DEF loopVars, semVars, Request, TypeInv, TypeLoop
  <1>1. CASE Admit(v)
    BY <1>1 DEF Admit
  <1>2. CASE GiveUp(v)
    BY <1>2 DEF GiveUp, Leave
  <1>3. CASE TakeFreely(v) \/ CountRetry(v)
    <2>1. Take(v)
      BY <1>3 DEF TakeFreely, CountRetry
    <2> QED BY <2>1 DEF Take
  <1>4. CASE AllowRetry(v) \/ Settle(v) \/ SettleFails(v)
    BY <1>4 DEF AllowRetry, Settle, SettleFails
  <1>5. CASE LoadSemaphore(v)
    BY <1>5 DEF LoadSemaphore
  <1>6. CASE StoreSemaphore(v)
    BY <1>6 DEF StoreSemaphore
  <1>7. CASE TryAcquire(v)
    BY <1>7 DEF TryAcquire
  <1>8. CASE Return(v)
    BY <1>8 DEF Return, Leave
  <1> QED BY <1>1, <1>2, <1>3, <1>4, <1>5, <1>6, <1>7, <1>8 DEF Step

\* rotate always comes nearer to its end, for every route table and any number of
\* requests: an admitted request takes at most 6 * |Routes| + 2 steps.
THEOREM RotationShortens == Spec => RotationAdvances
  <1>1. TypeInv /\ [Next]_vars =>
           [\A w \in Workers : pc[w] # "idle" =>
               Request(w)' = Request(w) \/ Remaining(w)' < Remaining(w)]_vars
    <2> SUFFICES ASSUME TypeInv, Next, NEW w \in Workers, pc[w] # "idle"
                 PROVE  Request(w)' = Request(w) \/ Remaining(w)' < Remaining(w)
      OBVIOUS
    <2>1. CASE Later \/ Reconfigure
      BY <2>1 DEF Reconfigure, Later, AdmitVideo, LateDebit, DropOwed, Request, loopVars
    <2>2. ASSUME NEW v \in Workers, Admit(v) \/ Step(v)
          PROVE  Request(w)' = Request(w) \/ Remaining(w)' < Remaining(w)
      <3>1. CASE v = w
        <4>1. ~Admit(w)
          BY DEF Admit
        <4> QED BY <2>2, <3>1, <4>1, StepAdvances
      <3>2. CASE v # w
        BY <2>2, <3>2, OthersStand
      <3> QED BY <3>1, <3>2
    <2> QED BY <2>1, <2>2 DEF Next
  <1> QED BY <1>1, TypeInvHolds, PTL DEF Spec, RotationAdvances
=============================================================================
