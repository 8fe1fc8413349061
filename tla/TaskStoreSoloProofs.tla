------------------------ MODULE TaskStoreSoloProofs ------------------------
(***************************************************************************)
(* Proofs about TaskStore used through one connection at a time: what a    *)
(* call has read is still so when it writes, every claim is accounted for, *)
(* and the store implements TaskLifecycle.                                 *)
(***************************************************************************)
EXTENDS TaskStoreProofs

\* What a lone client carries is the present state of its task.
SoloCallOK(call) ==
  /\ call.op = "failing" => state[call.task] \in OnLease /\ call.att = attempts[call.task]
  /\ call.op = "completing" => state[call.task] = "REVIEW_PENDING"
  /\ call.op \in {"schedule", "routing", "claiming", "waiting"} =>
       \A t \in call.todo : state[t] \in Leaseable
  /\ call.op \in {"stale", "staling"} => \A t \in call.todo : state[t] = "RUNNING"
  /\ call.op \in {"routing", "claiming", "waiting", "staling"} => call.task \in call.todo
  /\ call.op = "staling" => call.att = attempts[call.task]

SoloCalls == \A c \in Clients : SoloCallOK(pending[c])

\* Only work in flight has a holder.
FreeRowsAreClear ==
  \A t \in Tasks : state[t] \in {"ABSENT", "WAITING_HUMAN"} \cup Leaseable =>
    lease[t] = 0 /\ owner[t] = NoWorker

\* The budget bounds the charges, with DEAD_LETTER exactly one above it.
ChargesWithinBudget ==
  \A t \in Tasks :
    IF state[t] = "DEAD_LETTER" THEN attempts[t] = RetryBudget[t] + 1
                                ELSE attempts[t] <= RetryBudget[t]

SoloRows == EachLeaseChargedOnce /\ FreeRowsAreClear /\ ChargesWithinBudget

SoloInv == SharedInv /\ SoloRows /\ SoloCalls

LEMMA InitSolo == Init => SoloInv
<1> SUFFICES ASSUME Init PROVE SoloInv
  OBVIOUS
<1>1. SharedInv
  BY InitShared
<1>2. SoloRows
  BY StoreConstants DEF Init, SoloRows, EachLeaseChargedOnce, FreeRowsAreClear,
     ChargesWithinBudget, InFlightOrDone
<1>3. SoloCalls
  BY DEF Init, SoloCalls, SoloCallOK, Idle, Call
<1> QED BY <1>1, <1>2, <1>3 DEF SoloInv

\* While somebody is idle the lone client is, so no call is in progress.
LEMMA IdleMeansQuiet ==
  ASSUME SoleClient, SomeoneIdle, UNCHANGED pending
  PROVE  SoloCalls'
  BY DEF SoleClient, SomeoneIdle, SoloCalls, SoloCallOK, Idle, Call

\* The write of a failed attempt turns one lease into one charge.
LEMMA ChargeSolo ==
  ASSUME SoloInv, SharedInv', NEW t \in Tasks, state[t] \in OnLease,
         Charge(t, attempts[t] + 1)
  PROVE  SoloRows'
<1> USE StoreConstants DEF SoloInv, SoloRows, SharedInv, TypeOK, Charge, ChargeTo
<1>1. EachLeaseChargedOnce'
  BY DEF EachLeaseChargedOnce, InFlightOrDone, OnLease
<1>2. FreeRowsAreClear'
  BY DEF FreeRowsAreClear
<1>3. ChargesWithinBudget'
  <2>1. attempts[t] \in Nat /\ RetryBudget[t] \in Nat /\ attempts[t] <= RetryBudget[t]
    BY DEF ChargesWithinBudget, OnLease
  <2>2. /\ attempts'[t] = attempts[t] + 1
        /\ state'[t] = IF attempts[t] + 1 > RetryBudget[t] THEN "DEAD_LETTER" ELSE "RETRYING"
    BY <2>1
  <2>3. \A u \in Tasks \ {t} : attempts'[u] = attempts[u] /\ state'[u] = state[u]
    OBVIOUS
  <2> SUFFICES ASSUME NEW u \in Tasks
               PROVE  IF state'[u] = "DEAD_LETTER" THEN attempts'[u] = RetryBudget[u] + 1
                                                   ELSE attempts'[u] <= RetryBudget[u]
    BY DEF ChargesWithinBudget
  <2>4. CASE u = t
    <3> HIDE DEF SoloInv, SoloRows, SharedInv, TypeOK, Charge, ChargeTo
    <3>1. CASE attempts[t] = RetryBudget[t]
      BY <2>1, <2>2, <2>4, <3>1
    <3>2. CASE attempts[t] < RetryBudget[t]
      BY <2>1, <2>2, <2>4, <3>2
    <3> QED BY <2>1, <3>1, <3>2
  <2>5. CASE u # t
    BY <2>3, <2>5 DEF ChargesWithinBudget
  <2> QED BY <2>4, <2>5
<1> QED BY <1>1, <1>2, <1>3

LEMMA ClaimSolo ==
  ASSUME SoloInv, SharedInv', NEW t \in Tasks, NEW w, NEW d,
         Claimable(t, w, d), TakeLease(t, w, d)
  PROVE  SoloRows'
<1> USE StoreConstants DEF SoloInv, SoloRows, SharedInv, TypeOK, TakeLease, Claimable,
        Schedulable, Leaseable
<1>1. EachLeaseChargedOnce'
  BY DEF EachLeaseChargedOnce, InFlightOrDone
<1>2. FreeRowsAreClear'
  BY DEF FreeRowsAreClear
<1>3. ChargesWithinBudget'
  BY DEF ChargesWithinBudget
<1> QED BY <1>1, <1>2, <1>3

LEMMA AtomicStepSolo ==
  ASSUME SoleClient, SoloInv, SharedInv', WorkerStep \/ TaskStep \/ Tick
  PROVE  SoloInv'
<1> USE StoreConstants DEF SoloInv
<1>1. ASSUME UNCHANGED <<state, owner, lease, attempts, granted, pending>> PROVE SoloInv'
  BY <1>1 DEF SoloRows, EachLeaseChargedOnce, FreeRowsAreClear, ChargesWithinBudget,
     SoloCalls, SoloCallOK
<1>2. CASE Tick \/ WorkerStep
  BY <1>1, <1>2 DEF Tick, WorkerStep, RegisterWorker, Heartbeat, taskVars
<1>3. ASSUME SomeoneIdle, UNCHANGED pending, SoloRows' PROVE SoloInv'
  BY <1>3, IdleMeansQuiet
<1>4. ASSUME NEW t \in Tasks, CreateTask(t) \/ MarkWaitingCapacity(t) PROVE SoloInv'
  <2>1. SoloRows'
    BY <1>4 DEF CreateTask, MarkWaitingCapacity, Schedulable, SharedInv, TypeOK, SoloRows,
       EachLeaseChargedOnce, FreeRowsAreClear, ChargesWithinBudget, InFlightOrDone, Leaseable
  <2> QED BY <1>3, <1>4, <2>1 DEF CreateTask, MarkWaitingCapacity
<1>5. ASSUME NEW t \in Tasks, NEW d \in Lags, NEW w \in Workers, Claim(t, w, d)
      PROVE  SoloInv'
  BY <1>3, <1>5, ClaimSolo DEF Claim
<1>6. ASSUME NEW t \in Tasks, NEW d \in Lags, Renew(t, d) PROVE SoloInv'
  BY <1>1, <1>6 DEF Renew
<1>7. ASSUME NEW t \in Tasks, NEW d \in Lags, ReclaimExpired(t, d) PROVE SoloInv'
  BY <1>3, <1>7, ChargeSolo DEF ReclaimExpired
<1>8. ASSUME NEW t \in Tasks, NEW d \in Lags,
             Start(t, d) \/ SubmitInvalid(t, d) \/ \E e \in Evidence : SubmitResult(t, e, d)
      PROVE  SoloInv'
  <2>1. /\ state[t] \in OnLease \cup {"EVIDENCE_PENDING"}
        /\ \E s \in {"RUNNING", "EVIDENCE_PENDING", "REVIEW_PENDING"} :
             state' = [state EXCEPT ![t] = s]
        /\ UNCHANGED <<owner, lease, attempts, granted, pending>> /\ SomeoneIdle
    BY <1>8 DEF Start, SubmitInvalid, SubmitResult, MaySubmit, OnLease
  <2>2. SoloRows'
    BY <2>1 DEF SharedInv, TypeOK, SoloRows, EachLeaseChargedOnce, FreeRowsAreClear,
       ChargesWithinBudget, InFlightOrDone, OnLease, Leaseable
  <2> QED BY <1>3, <2>1, <2>2
<1> QED
  BY <1>2, <1>4, <1>5, <1>6, <1>7, <1>8 DEF TaskStep

LEMMA CallStepSolo ==
  ASSUME SoleClient, SoloInv, SharedInv', NEW c \in Clients, CallStep(c)
  PROVE  SoloInv'
<1> USE StoreConstants DEF SoloInv
<1>1. /\ pending \in [Clients -> CallType] /\ pending' \in [Clients -> CallType]
      /\ pending[c].todo \subseteq Tasks /\ SoloCallOK(pending[c])
      /\ \A x \in Clients : x = c
  BY DEF SharedInv, TypeOK, CallType, SoloCalls, SoleClient
\* Reads: the rows stay.
<1>2. ASSUME NEW call, Carry(c, call), SoloCallOK(call), UNCHANGED <<taskVars, workerVars>>
      PROVE  SoloInv'
  <2>1. SoloRows'
    BY <1>2 DEF taskVars, SoloRows, EachLeaseChargedOnce, FreeRowsAreClear, ChargesWithinBudget
  <2>2. SoloCalls'
    BY <1>1, <1>2 DEF SoloCalls, SoloCallOK, Carry, taskVars
  <2> QED BY <2>1, <2>2
<1>3. SoloCallOK(Idle)
  BY DEF SoloCallOK, Idle, Call
<1>4. ASSUME NEW t \in Tasks, FailRead(c, t) \/ ReviewRead(c, t) \/ StaleRead(c, t) \/ RouteRead(c, t)
      PROVE  SoloInv'
  <2>1. ASSUME FailRead(c, t) PROVE SoloInv'
    BY <1>2, <2>1 DEF FailRead, SoloCallOK, Call
  <2>2. ASSUME ReviewRead(c, t) PROVE SoloInv'
    BY <1>2, <2>2 DEF ReviewRead, SoloCallOK, Call
  <2>3. ASSUME StaleRead(c, t) PROVE SoloInv'
    BY <1>1, <1>2, <2>3 DEF StaleRead, SoloCallOK, Call
  <2>4. ASSUME RouteRead(c, t) PROVE SoloInv'
    BY <1>1, <1>2, <1>3, <2>4 DEF RouteRead, Continue, SoloCallOK, Call
  <2> QED BY <1>4, <2>1, <2>2, <2>3, <2>4
<1>5. ASSUME NEW d \in Lags, RouteScan(c, d) \/ StaleSelect(c, d) PROVE SoloInv'
  <2>1. ASSUME RouteScan(c, d) PROVE SoloInv'
    BY <1>1, <1>2, <2>1 DEF RouteScan, SoloCallOK, Call
  <2>2. ASSUME StaleSelect(c, d) PROVE SoloInv'
    BY <1>2, <2>2 DEF StaleSelect, SoloCallOK, Call
  <2> QED BY <1>5, <2>1, <2>2
<1>6. ASSUME ScheduleSelect(c) \/ RouteSkip(c) \/ Crash(c) PROVE SoloInv'
  <2>1. ASSUME ScheduleSelect(c) PROVE SoloInv'
    BY <1>2, <2>1 DEF ScheduleSelect, Schedulable, SoloCallOK, Call
  <2>2. ASSUME RouteSkip(c) PROVE SoloInv'
    BY <1>1, <1>2, <1>3, <2>2 DEF RouteSkip, Continue, SoloCallOK, Call
  <2>3. ASSUME Crash(c) PROVE SoloInv'
    BY <1>2, <1>3, <2>3 DEF Crash
  <2> QED BY <1>6, <2>1, <2>2, <2>3
\* Writes: the row is still the one that was read, and the rest of the loop's
\* tasks are untouched.
<1>7. ASSUME NEW t \in Tasks, NEW op \in {"schedule", "stale"}, Continue(c, op, t),
             \A u \in Tasks \ {t} : state'[u] = state[u],
             pending[c].op \in IF op = "stale" THEN {"staling"} ELSE {"claiming", "waiting"}
      PROVE  SoloCalls'
  <2>1. PICK call : /\ Carry(c, call)
                    /\ call = Idle \/ call = Call(op, NoTask, NoWorker, 0, pending[c].todo \ {t})
    BY <1>7 DEF Continue
  <2>2. pending'[c] = call
    BY <1>1, <2>1 DEF Carry
  <2>3. CASE call = Idle
    BY <1>1, <2>2, <2>3 DEF SoloCalls, SoloCallOK, Idle, Call
  <2>4. CASE op = "stale" /\ call = Call("stale", NoTask, NoWorker, 0, pending[c].todo \ {t})
    BY <1>1, <1>7, <2>2, <2>4 DEF SoloCalls, SoloCallOK, Call
  <2>5. CASE op = "schedule" /\ call = Call("schedule", NoTask, NoWorker, 0, pending[c].todo \ {t})
    BY <1>1, <1>7, <2>2, <2>5 DEF SoloCalls, SoloCallOK, Call
  <2> QED BY <2>1, <2>3, <2>4, <2>5
<1>8. ASSUME Carry(c, Idle) PROVE SoloCalls'
  BY <1>1, <1>8 DEF Carry, SoloCalls, SoloCallOK, Idle, Call
<1>9. ASSUME FailWrite(c) PROVE SoloInv'
  <2>1. /\ pending[c].task \in Tasks /\ state[pending[c].task] \in OnLease
        /\ Charge(pending[c].task, attempts[pending[c].task] + 1)
    BY <1>1, <1>9 DEF FailWrite, SoloCallOK, SharedInv, CallInv, CallOK
  <2> QED BY <1>8, <1>9, <2>1, ChargeSolo DEF FailWrite
<1>10. ASSUME StaleWrite(c) PROVE SoloInv'
  <2>1. /\ pending[c].task \in Tasks /\ state[pending[c].task] \in OnLease
        /\ Charge(pending[c].task, attempts[pending[c].task] + 1)
    BY <1>1, <1>10 DEF StaleWrite, SoloCallOK, OnLease
  <2>2. \A u \in Tasks \ {pending[c].task} : state'[u] = state[u]
    BY <2>1 DEF Charge, ChargeTo, SharedInv, TypeOK
  <2>3. SoloCalls'
    BY <1>7, <1>10, <2>1, <2>2 DEF StaleWrite
  <2> QED BY <2>1, <2>3, ChargeSolo
<1>11. ASSUME ReviewWrite(c) PROVE SoloInv'
  <2>1. pending[c].task \in Tasks /\ state[pending[c].task] = "REVIEW_PENDING"
    BY <1>1, <1>11 DEF ReviewWrite, SoloCallOK, SharedInv, CallInv, CallOK
  <2>2. SoloRows'
    BY <1>11, <2>1 DEF ReviewWrite, SharedInv, TypeOK, SoloRows, EachLeaseChargedOnce,
       FreeRowsAreClear, ChargesWithinBudget, InFlightOrDone, Leaseable
  <2> QED BY <1>8, <1>11, <2>2 DEF ReviewWrite
<1>12. ASSUME RouteWait(c) PROVE SoloInv'
  <2>1. pending[c].task \in Tasks /\ state[pending[c].task] \in Leaseable
    BY <1>1, <1>12 DEF RouteWait, SoloCallOK
  <2>2. SoloRows'
    BY <1>12, <2>1 DEF RouteWait, SharedInv, TypeOK, SoloRows, EachLeaseChargedOnce,
       FreeRowsAreClear, ChargesWithinBudget, InFlightOrDone, Leaseable
  <2>3. \A u \in Tasks \ {pending[c].task} : state'[u] = state[u]
    BY <1>12, <2>1 DEF RouteWait, SharedInv, TypeOK
  <2>4. SoloCalls'
    BY <1>7, <1>12, <2>1, <2>3 DEF RouteWait
  <2> QED BY <2>2, <2>4
<1>13. ASSUME NEW d \in Lags, RouteClaim(c, d) PROVE SoloInv'
  <2>1. pending[c].task \in Tasks
    BY <1>1, <1>13 DEF RouteClaim, SoloCallOK
  <2>2. \A u \in Tasks \ {pending[c].task} : state'[u] = state[u]
    BY <1>13, <2>1 DEF RouteClaim, TakeLease, SharedInv, TypeOK
  <2>3. SoloCalls'
    BY <1>7, <1>13, <2>1, <2>2 DEF RouteClaim
  <2> QED BY <1>13, <2>1, <2>3, ClaimSolo DEF RouteClaim
<1> QED
  BY <1>4, <1>5, <1>6, <1>9, <1>10, <1>11, <1>12, <1>13 DEF CallStep

\* Used through one connection at a time, the store keeps SoloInv.
THEOREM SoloInvariance == SoleClient => (Spec => []SoloInv)
<1> SUFFICES ASSUME SoleClient PROVE Spec => []SoloInv
  OBVIOUS
<1>1. SoloInv /\ SharedInv' /\ UNCHANGED vars => SoloInv'
  BY DEF vars, SoloInv, SoloRows, EachLeaseChargedOnce, FreeRowsAreClear,
     ChargesWithinBudget, SoloCalls, SoloCallOK
<1>2. SoloInv /\ SharedInv' /\ [Next]_vars => SoloInv'
  BY <1>1, AtomicStepSolo, CallStepSolo DEF Next
<1> QED BY InitSolo, SharedInvariance, <1>2, PTL DEF Spec

\* One connection at a time: every claim ends in one charge or one delivery.
THEOREM LeasesAreAccountedFor == SoleClient => (Spec => []EachLeaseChargedOnce)
<1>1. SoloInv => EachLeaseChargedOnce
  BY DEF SoloInv, SoloRows
<1> QED BY SoloInvariance, <1>1, PTL
-----------------------------------------------------------------------------
(* The store implements TaskLifecycle. *)

Phi == [t \in Tasks |-> Phase(t)]

LEMMA PhiStep ==
  ASSUME SoloInv, NEW t \in Tasks, NEW s, state' = [state EXCEPT ![t] = s]
  PROVE  /\ Phi' = [Phi EXCEPT ![t] = Phase(t)']
         /\ state'[t] = s
  BY DEF SoloInv, SharedInv, TypeOK, Phi, Phase, Governed

LEMMA PhiKept == ASSUME UNCHANGED state PROVE UNCHANGED Phi
  BY DEF Phi, Phase, Governed

LEMMA GrantStep ==
  ASSUME SoloInv, NEW t \in Tasks, NEW w \in Workers, NEW d,
         Claimable(t, w, d), TakeLease(t, w, d)
  PROVE  Lifecycle!Grant(t, w) /\ lease[t] = 0
<1>1. state[t] \in Leaseable /\ Governed(t) /\ <<t, w>> \in Capable
  BY DEF Claimable, Schedulable
<1>2. lease[t] = 0 /\ granted[t] = attempts[t] /\ attempts[t] <= RetryBudget[t]
  BY <1>1, StoreConstants DEF SoloInv, SoloRows, FreeRowsAreClear, EachLeaseChargedOnce,
     ChargesWithinBudget, InFlightOrDone, Leaseable, SharedInv, TypeOK
<1>3. Phi[t] = "open"
  BY <1>1 DEF Phi, Phase, Leaseable
<1>4. Phi' = [Phi EXCEPT ![t] = "held"]
  <2>1. state'[t] = "LEASED" /\ Phi' = [Phi EXCEPT ![t] = Phase(t)']
    BY PhiStep DEF TakeLease
  <2> QED BY <2>1 DEF Phase
<1> QED BY <1>1, <1>2, <1>3, <1>4 DEF Lifecycle!Grant, TakeLease, Phi

LEMMA FailStep ==
  ASSUME SoloInv, NEW t \in Tasks, state[t] \in OnLease, Charge(t, attempts[t] + 1)
  PROVE  Lifecycle!Fail(t)
<1>1. attempts[t] \in Nat /\ RetryBudget[t] \in Nat /\ Governed(t)
  BY StoreConstants DEF SoloInv, SharedInv, TypeOK, HumanGate, OnLease
<1>2. Phi[t] = "held"
  BY DEF Phi, Phase, OnLease
<1>3. Phi' = [Phi EXCEPT ![t] = Phase(t)']
  BY PhiStep DEF Charge, ChargeTo
<1>4. state'[t] = IF attempts[t] + 1 > RetryBudget[t] THEN "DEAD_LETTER" ELSE "RETRYING"
  BY DEF Charge, ChargeTo, SoloInv, SharedInv, TypeOK
<1>5. Phase(t)' = IF attempts[t] < RetryBudget[t] THEN "open" ELSE "dead"
  <2>1. CASE attempts[t] < RetryBudget[t]
    <3>1. state'[t] = "RETRYING"
      BY <1>1, <1>4, <2>1
    <3> QED BY <1>1, <2>1, <3>1 DEF Phase, Governed
  <2>2. CASE attempts[t] >= RetryBudget[t]
    <3>1. state'[t] = "DEAD_LETTER"
      BY <1>1, <1>4, <2>2
    <3> QED BY <1>1, <2>2, <3>1 DEF Phase
  <2> QED BY <1>1, <2>1, <2>2
<1> QED BY <1>2, <1>3, <1>5 DEF Lifecycle!Fail, Charge, ChargeTo, Phi, SoloInv, SharedInv, TypeOK

LEMMA AcceptStep ==
  ASSUME SoloInv, NEW t \in Tasks, state[t] = "REVIEW_PENDING",
         state' = [state EXCEPT ![t] = "COMPLETED"],
         owner' = [owner EXCEPT ![t] = NoWorker], UNCHANGED <<attempts, granted>>
  PROVE  Lifecycle!Accept(t)
<1>1. Phi[t] = "review" /\ Phi' = [Phi EXCEPT ![t] = "done"]
  <2>1. state'[t] = "COMPLETED" /\ Phi' = [Phi EXCEPT ![t] = Phase(t)']
    BY PhiStep
  <2>2. Phase(t)' = "done"
    BY <2>1 DEF Phase
  <2>3. Phi[t] = "review"
    BY DEF Phi, Phase
  <2> QED BY <2>1, <2>2, <2>3
<1> QED BY <1>1 DEF Lifecycle!Accept, Phi

\* A task moves between states of one phase, and nothing else a lifecycle sees.
LEMMA SamePhaseStep ==
  ASSUME SoloInv, NEW t \in Tasks, NEW s, state' = [state EXCEPT ![t] = s],
         Phase(t)' = Phase(t), UNCHANGED <<owner, granted, attempts>>
  PROVE  UNCHANGED Lifecycle!vars
<1>1. Phi' = Phi
  BY PhiStep DEF Phi
<1> QED BY <1>1 DEF Lifecycle!vars, Phi

LEMMA AtomicStepRefines ==
  ASSUME SoloInv, WorkerStep \/ TaskStep \/ Tick
  PROVE  [Lifecycle!Next]_(Lifecycle!vars)
<1>1. ASSUME UNCHANGED <<state, owner, granted, attempts>> PROVE UNCHANGED Lifecycle!vars
  BY <1>1, PhiKept DEF Lifecycle!vars, Phi
<1>2. CASE Tick \/ WorkerStep
  BY <1>1, <1>2 DEF Tick, WorkerStep, RegisterWorker, Heartbeat, taskVars
<1>3. ASSUME NEW t \in Tasks, CreateTask(t) PROVE Lifecycle!Next
  <2> DEFINE s == IF t \in HumanTasks THEN "WAITING_HUMAN" ELSE "QUEUED"
  <2>1. state'[t] = s /\ Phi' = [Phi EXCEPT ![t] = Phase(t)']
    BY <1>3, PhiStep DEF CreateTask
  <2>2. Phase(t)' = IF t \in GovernedTasks \ HumanTasks THEN "open" ELSE "barred"
    BY <2>1 DEF Phase, Governed
  <2>3. Phi[t] = "absent"
    BY <1>3 DEF CreateTask, Phi, Phase
  <2>4. Lifecycle!Admit(t)
    BY <1>3, <2>1, <2>2, <2>3 DEF Lifecycle!Admit, CreateTask, Phi
  <2> QED BY <2>4 DEF Lifecycle!Next
<1>4. ASSUME NEW t \in Tasks, MarkWaitingCapacity(t) PROVE UNCHANGED Lifecycle!vars
  <2>1. state'[t] = "WAITING_CAPACITY"
    BY <1>4, PhiStep DEF MarkWaitingCapacity
  <2>2. Phase(t)' = Phase(t)
    BY <1>4, <2>1 DEF MarkWaitingCapacity, Schedulable, Leaseable, Phase, Governed
  <2> QED BY <1>4, <2>2, SamePhaseStep DEF MarkWaitingCapacity
<1>5. ASSUME NEW t \in Tasks, NEW d \in Lags, NEW w \in Workers, Claim(t, w, d)
      PROVE  Lifecycle!Next
  BY <1>5, GrantStep DEF Claim, Lifecycle!Next
<1>6. ASSUME NEW t \in Tasks, NEW d \in Lags, Renew(t, d) PROVE UNCHANGED Lifecycle!vars
  BY <1>1, <1>6 DEF Renew
<1>7. ASSUME NEW t \in Tasks, NEW d \in Lags, ReclaimExpired(t, d) PROVE Lifecycle!Next
  BY <1>7, FailStep DEF ReclaimExpired, Lifecycle!Next
<1>8. ASSUME NEW t \in Tasks, NEW d \in Lags, Start(t, d) PROVE UNCHANGED Lifecycle!vars
  <2>1. state'[t] = "RUNNING"
    BY <1>8, PhiStep DEF Start
  <2>2. Phase(t)' = Phase(t)
    BY <1>8, <2>1 DEF Start, Phase
  <2> QED BY <1>8, <2>2, SamePhaseStep DEF Start
<1>9. ASSUME NEW t \in Tasks, NEW d \in Lags, SubmitInvalid(t, d)
      PROVE  UNCHANGED Lifecycle!vars
  <2>1. state'[t] = "EVIDENCE_PENDING"
    BY <1>9, PhiStep DEF SubmitInvalid
  <2>2. Phase(t)' = Phase(t)
    BY <1>9, <2>1 DEF SubmitInvalid, MaySubmit, OnLease, Phase
  <2> QED BY <1>9, <2>2, SamePhaseStep DEF SubmitInvalid
<1>10. ASSUME NEW t \in Tasks, NEW d \in Lags, NEW e \in Evidence, SubmitResult(t, e, d)
       PROVE  Lifecycle!Next
  <2>1. state'[t] = "REVIEW_PENDING" /\ Phi' = [Phi EXCEPT ![t] = Phase(t)']
    BY <1>10, PhiStep DEF SubmitResult
  <2>2. Phase(t)' = "review"
    BY <2>1 DEF Phase
  <2>3. Phi[t] = "held"
    BY <1>10 DEF SubmitResult, MaySubmit, OnLease, Phi, Phase
  <2>4. Lifecycle!Deliver(t)
    BY <1>10, <2>1, <2>2, <2>3 DEF Lifecycle!Deliver, SubmitResult, Phi
  <2> QED BY <2>4 DEF Lifecycle!Next
<1> QED
  BY <1>2, <1>3, <1>4, <1>5, <1>6, <1>7, <1>8, <1>9, <1>10 DEF TaskStep

LEMMA CallStepRefines ==
  ASSUME SoloInv, NEW c \in Clients, CallStep(c)
  PROVE  [Lifecycle!Next]_(Lifecycle!vars)
<1>1. SoloCallOK(pending[c]) /\ CallOK(pending[c])
  BY DEF SoloInv, SoloCalls, SharedInv, CallInv
<1>2. ASSUME UNCHANGED <<state, owner, granted, attempts>> PROVE UNCHANGED Lifecycle!vars
  BY <1>2, PhiKept DEF Lifecycle!vars, Phi
<1>3. ASSUME UNCHANGED <<taskVars, workerVars>> PROVE UNCHANGED Lifecycle!vars
  BY <1>2, <1>3 DEF taskVars
<1>4. ASSUME NEW t \in Tasks, FailRead(c, t) \/ ReviewRead(c, t) \/ RouteRead(c, t) \/ StaleRead(c, t)
      PROVE  UNCHANGED Lifecycle!vars
  BY <1>3, <1>4 DEF FailRead, ReviewRead, RouteRead, StaleRead
<1>5. ASSUME NEW d \in Lags, RouteScan(c, d) \/ StaleSelect(c, d)
      PROVE  UNCHANGED Lifecycle!vars
  BY <1>3, <1>5 DEF RouteScan, StaleSelect
<1>6. ASSUME ScheduleSelect(c) \/ RouteSkip(c) \/ Crash(c) PROVE UNCHANGED Lifecycle!vars
  BY <1>3, <1>6 DEF ScheduleSelect, RouteSkip, Crash
<1>7. ASSUME FailWrite(c) PROVE Lifecycle!Next
  <2>1. /\ pending[c].task \in Tasks /\ state[pending[c].task] \in OnLease
        /\ Charge(pending[c].task, attempts[pending[c].task] + 1)
    BY <1>1, <1>7 DEF FailWrite, SoloCallOK, CallOK
  <2> QED BY <2>1, FailStep DEF Lifecycle!Next
<1>8. ASSUME StaleWrite(c) PROVE Lifecycle!Next
  <2>1. /\ pending[c].task \in Tasks /\ state[pending[c].task] \in OnLease
        /\ Charge(pending[c].task, attempts[pending[c].task] + 1)
    BY <1>1, <1>8 DEF StaleWrite, SoloCallOK, CallOK, OnLease
  <2> QED BY <2>1, FailStep DEF Lifecycle!Next
<1>9. ASSUME ReviewWrite(c) PROVE Lifecycle!Next
  <2>1. pending[c].task \in Tasks /\ state[pending[c].task] = "REVIEW_PENDING"
    BY <1>1, <1>9 DEF ReviewWrite, SoloCallOK, CallOK
  <2>2. Lifecycle!Accept(pending[c].task)
    BY <1>9, <2>1, AcceptStep DEF ReviewWrite
  <2> QED BY <2>1, <2>2 DEF Lifecycle!Next
<1>10. ASSUME RouteWait(c) PROVE UNCHANGED Lifecycle!vars
  <2>1. pending[c].task \in Tasks
    BY <1>1, <1>10 DEF RouteWait, CallOK
  <2>2. PICK t \in Tasks : t = pending[c].task
    BY <2>1
  <2>3. Governed(t) /\ state[t] \in Leaseable /\ state' = [state EXCEPT ![t] = "WAITING_CAPACITY"]
    BY <1>1, <1>10, <2>2 DEF RouteWait, SoloCallOK, CallOK
  <2>4. state'[t] = "WAITING_CAPACITY"
    BY <2>3, PhiStep
  <2>5. Phase(t)' = Phase(t)
    BY <2>3, <2>4 DEF Leaseable, Phase, Governed
  <2> QED BY <1>10, <2>3, <2>5, SamePhaseStep DEF RouteWait
<1>11. ASSUME NEW d \in Lags, RouteClaim(c, d) PROVE Lifecycle!Next
  <2>1. pending[c].task \in Tasks /\ pending[c].worker \in Workers
    BY <1>1, <1>11 DEF RouteClaim, CallOK
  <2> QED BY <1>11, <2>1, GrantStep DEF RouteClaim, Lifecycle!Next
<1> QED
  BY <1>4, <1>5, <1>6, <1>7, <1>8, <1>9, <1>10, <1>11 DEF CallStep

\* Used through one connection at a time, every step of the store is a step of
\* the lease service TaskLifecycle or leaves what it shows alone.
THEOREM StoreImplementsLifecycle == SoleClient => (Spec => ImplementsLifecycle)
<1> SUFFICES ASSUME SoleClient PROVE Spec => ImplementsLifecycle
  OBVIOUS
<1>1. Init => Lifecycle!Init
  BY DEF Init, Lifecycle!Init, Phase
<1>2. SoloInv /\ [Next]_vars => [Lifecycle!Next]_(Lifecycle!vars)
  <2>1. UNCHANGED vars => UNCHANGED Lifecycle!vars
    BY PhiKept DEF vars, Lifecycle!vars, Phi
  <2> QED BY <2>1, AtomicStepRefines, CallStepRefines DEF Next
<1>3. Spec => []SoloInv
  BY SoloInvariance
<1> QED BY <1>1, <1>2, <1>3, PTL DEF Spec, ImplementsLifecycle, Lifecycle!Spec

\* One connection at a time, no task is claimed while an earlier lease is live.
THEOREM NoLeaseOverLease == SoleClient => (Spec => NoSecondLease)
<1> SUFFICES ASSUME SoleClient PROVE Spec => NoSecondLease
  OBVIOUS
<1>1. SoloInv /\ [Next]_vars =>
        [\A t \in Tasks : granted'[t] > granted[t] => lease[t] = 0 \/ ttl[t] <= 0]_vars
  <2> SUFFICES ASSUME SoloInv, [Next]_vars, NEW t \in Tasks, granted'[t] > granted[t]
               PROVE  lease[t] = 0
    OBVIOUS
  <2>1. SharedInv /\ granted[t] \in Nat
    BY DEF SoloInv, SharedInv, TypeOK
  <2>2. PICK u \in Tasks, w \in Workers, d \in Lags : Claimable(u, w, d) /\ TakeLease(u, w, d)
    BY <2>1, GrantsAreClaims
  <2>3. u = t
    BY <2>1, <2>2 DEF TakeLease, SharedInv, TypeOK
  <2> QED BY <2>2, <2>3, GrantStep
<1>2. Spec => []SoloInv
  BY SoloInvariance
<1> QED BY <1>1, <1>2, PTL DEF Spec, NoSecondLease
=============================================================================
