-------------------------- MODULE TaskStoreProofs --------------------------
(***************************************************************************)
(* Proofs about TaskStore.  The first part holds for every number of       *)
(* clients: SharedInv says what a client's unfinished call may carry, so   *)
(* that its unguarded write, however late, lands on a task of that kind.   *)
(***************************************************************************)
EXTENDS TaskStore, FiniteSetTheorems, TLAPS

\* What a call in progress carries, whatever the others did since it read.
CallOK(call) ==
  /\ \A t \in call.todo : Governed(t)
  /\ call.op \in {"failing", "completing", "routing", "claiming", "waiting", "staling"} =>
       call.task \in Tasks /\ Governed(call.task)
  /\ call.op = "claiming" => call.worker \in Workers
  /\ call.op = "completing" => rows[call.task] # {} /\ granted[call.task] > 0

CallInv == \A c \in Clients : CallOK(pending[c])

CallType == [op : Ops, task : Tasks \cup {NoTask}, worker : Workers \cup {NoWorker},
             att : Nat, todo : SUBSET Tasks]

SharedInv ==
  TypeOK /\ HumanGate /\ CompletedOnEvidence /\ HeldHasLease /\ CallInv

LEMMA InitShared == Init => SharedInv
  BY StoreConstants DEF Init, SharedInv, TypeOK, HumanGate, CompletedOnEvidence,
     HeldHasLease, CallInv, CallOK, Idle, Call, States, Verdicts, Ops,
     Leaseable, OnLease

\* The write of a failed attempt: of a task that may be worked on, with a count
\* that some client read and increased.
RowInv == HumanGate /\ CompletedOnEvidence /\ HeldHasLease

LEMMA ChargeShared ==
  ASSUME SharedInv, pending' \in [Clients -> CallType],
         NEW t \in Tasks, NEW a \in Nat, Governed(t), a > 0, Charge(t, a)
  PROVE  TypeOK' /\ RowInv'
<1> USE StoreConstants DEF SharedInv, Charge, ChargeTo, workerVars
<1>1. TypeOK'
  BY DEF TypeOK, CallType, States, Leaseable, OnLease
<1>2. /\ state'[t] \in {"DEAD_LETTER", "RETRYING"}
      /\ \A u \in Tasks \ {t} : state'[u] = state[u]
                               /\ owner'[u] = owner[u] /\ lease'[u] = lease[u]
      /\ UNCHANGED <<rows, granted>>
  BY DEF TypeOK
<1>3. HumanGate'
  BY <1>2 DEF HumanGate, Governed
<1>4. CompletedOnEvidence' /\ HeldHasLease'
  BY <1>2 DEF CompletedOnEvidence, HeldHasLease, OnLease
<1> QED BY <1>1, <1>3, <1>4 DEF RowInv

\* A step of somebody else leaves a carried call as good as it was.
LEMMA CallsKept ==
  ASSUME SharedInv, UNCHANGED pending,
         \A t \in Tasks : rows[t] \subseteq rows'[t] /\ granted[t] <= granted'[t],
         granted' \in [Tasks -> Nat]
  PROVE  CallInv'
<1> SUFFICES ASSUME NEW c \in Clients PROVE CallOK(pending[c])'
  BY DEF CallInv
<1>1. CallOK(pending[c])
  BY DEF SharedInv, CallInv
<1>2. granted \in [Tasks -> Nat]
  BY DEF SharedInv, TypeOK
<1> QED BY <1>1, <1>2 DEF CallOK, Governed

\* A client's own step leaves it carrying call.
LEMMA CallCarried ==
  ASSUME SharedInv, UNCHANGED <<rows, granted>>, NEW c \in Clients, NEW call \in CallType,
         Carry(c, call), CallOK(call)
  PROVE  CallInv' /\ pending' \in [Clients -> CallType]
<1>1. pending \in [Clients -> CallType]
  BY DEF SharedInv, TypeOK, CallType
<1>2. pending' \in [Clients -> CallType]
  BY <1>1 DEF Carry
<1>3. ASSUME NEW x \in Clients PROVE CallOK(pending[x])'
  BY <1>1 DEF Carry, SharedInv, CallInv, CallOK, Governed
<1> QED BY <1>2, <1>3 DEF CallInv

\* The next turn of a loop carries no more than the loop did, also when the turn
\* before it claimed a task.
LEMMA LoopCarried ==
  ASSUME SharedInv, UNCHANGED rows, NEW c \in Clients, NEW op \in {"schedule", "stale"},
         NEW t, Continue(c, op, t), granted' \in [Tasks -> Nat], \A u \in Tasks : granted[u] <= granted'[u]
  PROVE  CallInv' /\ pending' \in [Clients -> CallType]
<1>1. PICK call : /\ Carry(c, call)
                  /\ call = Idle \/ call = Call(op, NoTask, NoWorker, 0, pending[c].todo \ {t})
  BY DEF Continue
<1>2. /\ pending \in [Clients -> CallType]
      /\ pending[c].todo \subseteq Tasks /\ \A u \in pending[c].todo : Governed(u)
  BY DEF SharedInv, TypeOK, CallInv, CallOK, CallType
<1>3. call \in CallType
  BY <1>1, <1>2 DEF CallType, Call, Idle, Ops
<1>4. pending' \in [Clients -> CallType]
  BY <1>1, <1>2, <1>3 DEF Carry
<1>5. ASSUME NEW x \in Clients PROVE CallOK(pending[x])'
  <2>1. CASE x = c
    BY <1>1, <1>2, <2>1 DEF Carry, CallOK, Call, Idle, Governed
  <2>2. CASE x # c
    <3>1. pending'[x] = pending[x] /\ CallOK(pending[x])
      BY <1>1, <1>2, <2>2 DEF Carry, SharedInv, CallInv
    <3> QED BY <3>1, <1>2 DEF CallOK, Governed, SharedInv, TypeOK
  <2> QED BY <2>1, <2>2
<1> QED BY <1>4, <1>5 DEF CallInv

LEMMA RowsKept ==
  ASSUME SharedInv, UNCHANGED <<state, owner, lease, attempts, rows, granted>>
  PROVE  RowInv'
  BY DEF SharedInv, RowInv, HumanGate, CompletedOnEvidence, HeldHasLease, Governed

LEMMA TakeLeaseShared ==
  ASSUME SharedInv, NEW t \in Tasks, NEW w \in Workers, NEW d \in Lags,
         Claimable(t, w, d), TakeLease(t, w, d), pending' \in [Clients -> CallType]
  PROVE  TypeOK' /\ RowInv' /\ \A u \in Tasks : granted[u] <= granted'[u]
<1> USE StoreConstants DEF SharedInv, TakeLease, workerVars
<1>0. d \in Int /\ Governed(t) /\ <<t, w>> \in Capable /\ state[t] \in Leaseable
  BY DEF Lags, Claimable, Schedulable
<1>1. TypeOK'
  BY <1>0 DEF TypeOK, CallType, States, OnLease
<1>2. HumanGate'
  BY <1>0 DEF TypeOK, HumanGate, Governed
<1>3. CompletedOnEvidence' /\ HeldHasLease'
  BY <1>0 DEF TypeOK, CompletedOnEvidence, HeldHasLease
<1>4. \A u \in Tasks : granted[u] <= granted'[u]
  BY DEF TypeOK
<1> QED BY <1>1, <1>2, <1>3, <1>4 DEF RowInv

LEMMA AtomicStepShared ==
  ASSUME SharedInv, WorkerStep \/ TaskStep \/ Tick
  PROVE  SharedInv'
<1> USE StoreConstants DEF SharedInv
<1>1. CASE Tick
  <2>1. TypeOK'
    BY <1>1 DEF Tick, TypeOK
  <2> QED BY <1>1, <2>1, CallsKept, RowsKept DEF Tick, TypeOK, RowInv
<1>2. ASSUME NEW w \in Workers, NEW o \in Int, NEW k \in Capacities,
             age' = [age EXCEPT ![w] = o], capacity' = [capacity EXCEPT ![w] = k],
             UNCHANGED <<taskVars, pending>>
      PROVE  SharedInv'
  <2>1. TypeOK'
    BY <1>2 DEF TypeOK, taskVars
  <2> QED BY <1>2, <2>1, CallsKept, RowsKept DEF TypeOK, RowInv, taskVars
<1>3. CASE WorkerStep
  BY <1>2, <1>3 DEF WorkerStep, RegisterWorker, Heartbeat, Lags, OldestAge
<1>4. ASSUME NEW t \in Tasks, CreateTask(t) PROVE SharedInv'
  <2>1. TypeOK'
    BY <1>4 DEF CreateTask, TypeOK, States, Leaseable, workerVars
  <2>2. RowInv'
    BY <1>4 DEF CreateTask, TypeOK, RowInv, HumanGate, Governed, CompletedOnEvidence,
                HeldHasLease, OnLease
  <2> QED BY <1>4, <2>1, <2>2, CallsKept DEF CreateTask, TypeOK, RowInv
<1>5. ASSUME NEW t \in Tasks, MarkWaitingCapacity(t) PROVE SharedInv'
  <2>1. TypeOK'
    BY <1>5 DEF MarkWaitingCapacity, TypeOK, States, Leaseable, workerVars
  <2>2. RowInv'
    BY <1>5 DEF MarkWaitingCapacity, Schedulable, TypeOK, RowInv, HumanGate, Governed,
                CompletedOnEvidence, HeldHasLease, OnLease
  <2> QED BY <1>5, <2>1, <2>2, CallsKept DEF MarkWaitingCapacity, TypeOK, RowInv
<1>6. ASSUME NEW t \in Tasks, NEW d \in Lags, NEW w \in Workers, Claim(t, w, d)
      PROVE  SharedInv'
  <2>1. TypeOK' /\ RowInv' /\ \A u \in Tasks : granted[u] <= granted'[u]
    BY <1>6, TakeLeaseShared DEF Claim, TypeOK, CallType
  <2>2. rows' = rows /\ pending' = pending /\ granted' \in [Tasks -> Nat]
    BY <1>6, <2>1 DEF Claim, TakeLease, TypeOK
  <2> QED BY <2>1, <2>2, CallsKept DEF RowInv
<1>7. ASSUME NEW t \in Tasks, NEW d \in Lags, Renew(t, d) PROVE SharedInv'
  <2>1. TypeOK'
    BY <1>7 DEF Renew, TypeOK, Lags, workerVars
  <2> QED BY <1>7, <2>1, CallsKept, RowsKept DEF Renew, TypeOK, RowInv
<1>8. ASSUME NEW t \in Tasks, NEW d \in Lags, Start(t, d) PROVE SharedInv'
  <2>1. TypeOK'
    BY <1>8 DEF Start, TypeOK, States, OnLease, workerVars
  <2>2. RowInv'
    BY <1>8 DEF Start, TypeOK, RowInv, HumanGate, Governed, CompletedOnEvidence,
                HeldHasLease, OnLease
  <2> QED BY <1>8, <2>1, <2>2, CallsKept DEF Start, TypeOK, RowInv
<1>9. ASSUME NEW t \in Tasks, NEW d \in Lags, ReclaimExpired(t, d) PROVE SharedInv'
  <2>1. Governed(t)
    BY <1>9 DEF ReclaimExpired, HumanGate, OnLease
  <2>2. TypeOK' /\ RowInv'
    BY <1>9, <2>1, ChargeShared DEF ReclaimExpired, TypeOK, CallType
  <2> QED BY <1>9, <2>2, CallsKept DEF ReclaimExpired, Charge, ChargeTo, TypeOK, RowInv
<1>10. ASSUME NEW t \in Tasks, NEW d \in Lags, SubmitInvalid(t, d) PROVE SharedInv'
  <2>1. TypeOK'
    BY <1>10 DEF SubmitInvalid, TypeOK, States, Verdicts, workerVars
  <2>2. RowInv'
    BY <1>10 DEF SubmitInvalid, MaySubmit, TypeOK, RowInv, HumanGate, Governed,
                 CompletedOnEvidence, HeldHasLease, OnLease
  <2> QED BY <1>10, <2>1, <2>2, CallsKept DEF SubmitInvalid, TypeOK, RowInv
<1>11. ASSUME NEW t \in Tasks, NEW d \in Lags, NEW e \in Evidence, SubmitResult(t, e, d)
       PROVE  SharedInv'
  <2>1. TypeOK'
    BY <1>11 DEF SubmitResult, TypeOK, States, Verdicts, workerVars
  <2>2. RowInv'
    BY <1>11 DEF SubmitResult, MaySubmit, TypeOK, RowInv, HumanGate, Governed,
                 CompletedOnEvidence, HeldHasLease, OnLease
  <2> QED BY <1>11, <2>1, <2>2, CallsKept DEF SubmitResult, TypeOK, RowInv
<1>12. CASE TaskStep
  BY <1>4, <1>5, <1>6, <1>7, <1>8, <1>9, <1>10, <1>11, <1>12 DEF TaskStep
<1> QED BY <1>1, <1>3, <1>12

LEMMA CallStepShared ==
  ASSUME SharedInv, NEW c \in Clients, CallStep(c)
  PROVE  SharedInv'
<1> USE StoreConstants DEF SharedInv
\* Steps that only read: the rows stay, and what was read is carried.
<1>1. ASSUME NEW call \in CallType, CallOK(call), Carry(c, call),
             UNCHANGED <<taskVars, workerVars>>
      PROVE  SharedInv'
  <2>1. CallInv' /\ pending' \in [Clients -> CallType]
    BY <1>1, CallCarried DEF taskVars
  <2>2. TypeOK'
    BY <1>1, <2>1 DEF TypeOK, CallType, taskVars, workerVars
  <2> QED BY <1>1, <2>1, <2>2, RowsKept DEF RowInv, taskVars
<1>2. ASSUME NEW op \in {"schedule", "stale"}, NEW t, Continue(c, op, t),
             UNCHANGED <<taskVars, workerVars>>
      PROVE  SharedInv'
  <2>1. CallInv' /\ pending' \in [Clients -> CallType]
    BY <1>2, LoopCarried DEF taskVars, TypeOK
  <2>2. TypeOK'
    BY <1>2, <2>1 DEF TypeOK, CallType, taskVars, workerVars
  <2> QED BY <1>2, <2>1, <2>2, RowsKept DEF RowInv, taskVars
<1>3. /\ pending[c] \in CallType /\ CallOK(pending[c])
      /\ pending[c].todo \subseteq Tasks
  BY DEF TypeOK, CallType, CallInv
<1>4. Idle \in CallType /\ CallOK(Idle)
  BY DEF Idle, Call, CallType, CallOK, Ops
<1>5. ASSUME NEW t \in Tasks, FailRead(c, t) PROVE SharedInv'
  <2> DEFINE call == Call("failing", t, NoWorker, attempts[t], {})
  <2>1. call \in CallType /\ CallOK(call)
    BY <1>5 DEF FailRead, Call, CallType, CallOK, Ops, TypeOK, HumanGate, OnLease
  <2> QED BY <1>1, <1>5, <2>1 DEF FailRead
<1>6. ASSUME NEW t \in Tasks, ReviewRead(c, t) PROVE SharedInv'
  <2> DEFINE call == Call("completing", t, NoWorker, 0, {})
  <2>1. call \in CallType /\ CallOK(call)
    BY <1>6 DEF ReviewRead, Call, CallType, CallOK, Ops, TypeOK, HumanGate, CompletedOnEvidence
  <2> QED BY <1>1, <1>6, <2>1 DEF ReviewRead
<1>7. ASSUME NEW t \in Tasks, RouteRead(c, t) PROVE SharedInv'
  <2> DEFINE call == Call("routing", t, NoWorker, 0, pending[c].todo)
  <2>1. call \in CallType /\ CallOK(call)
    BY <1>3, <1>7 DEF RouteRead, Call, CallType, CallOK, Ops
  <2> QED BY <1>1, <1>2, <1>7, <2>1 DEF RouteRead
<1>8. ASSUME NEW t \in Tasks, StaleRead(c, t) PROVE SharedInv'
  <2> DEFINE call == Call("staling", t, NoWorker, attempts[t], pending[c].todo)
  <2>1. call \in CallType /\ CallOK(call)
    BY <1>3, <1>8 DEF StaleRead, Call, CallType, CallOK, Ops, TypeOK
  <2> QED BY <1>1, <1>8, <2>1 DEF StaleRead
<1>9. ASSUME NEW d \in Lags, RouteScan(c, d) PROVE SharedInv'
  <2> DEFINE t == pending[c].task
             wait == Call("waiting", t, NoWorker, 0, pending[c].todo)
             claim(w) == Call("claiming", t, w, 0, pending[c].todo)
  <2>1. t \in Tasks /\ Governed(t) /\ \A u \in pending[c].todo : Governed(u)
    BY <1>3, <1>9 DEF RouteScan, CallOK
  <2>2. wait \in CallType /\ CallOK(wait)
    BY <1>3, <2>1 DEF Call, CallType, CallOK, Ops
  <2>3. \A w \in Workers : claim(w) \in CallType /\ CallOK(claim(w))
    BY <1>3, <2>1 DEF Call, CallType, CallOK, Ops
  <2>4. \/ Carry(c, wait)
        \/ \E w \in Workers : Carry(c, claim(w))
    BY <1>9 DEF RouteScan, Available
  <2> QED BY <1>1, <1>9, <2>2, <2>3, <2>4 DEF RouteScan
<1>10. ASSUME NEW d \in Lags, StaleSelect(c, d) PROVE SharedInv'
  <2> DEFINE stale == {t \in Tasks : state[t] = "RUNNING" /\ ~Fresh(owner[t], d)}
             call == Call("stale", NoTask, NoWorker, 0, stale)
  <2>1. call \in CallType /\ CallOK(call)
    BY <1>10 DEF Call, CallType, CallOK, Ops, HumanGate
  <2> QED BY <1>1, <1>10, <2>1 DEF StaleSelect
<1>11. ASSUME ScheduleSelect(c) PROVE SharedInv'
  <2> DEFINE call == Call("schedule", NoTask, NoWorker, 0, Schedulable)
  <2>1. call \in CallType /\ CallOK(call)
    BY DEF Call, CallType, CallOK, Ops, Schedulable
  <2> QED BY <1>1, <1>11, <2>1 DEF ScheduleSelect
<1>12. ASSUME Crash(c) \/ RouteSkip(c) PROVE SharedInv'
  BY <1>1, <1>2, <1>4, <1>12 DEF Crash, RouteSkip
\* Steps that write, on the strength of what was read.
<1>13. ASSUME FailWrite(c) PROVE SharedInv'
  <2> DEFINE t == pending[c].task
             a == pending[c].att + 1
  <2>1. t \in Tasks /\ Governed(t) /\ a \in Nat /\ a > 0
    BY <1>3, <1>13 DEF FailWrite, CallOK, CallType
  <2>2. Charge(t, a) /\ Carry(c, Idle) /\ UNCHANGED <<rows, granted>>
    BY <1>13 DEF FailWrite, Charge, ChargeTo
  <2>3. CallInv' /\ pending' \in [Clients -> CallType]
    BY <1>4, <2>2, CallCarried
  <2> QED BY <2>1, <2>2, <2>3, ChargeShared DEF RowInv
<1>14. ASSUME StaleWrite(c) PROVE SharedInv'
  <2> DEFINE t == pending[c].task
             a == pending[c].att + 1
  <2>1. t \in Tasks /\ Governed(t) /\ a \in Nat /\ a > 0
    BY <1>3, <1>14 DEF StaleWrite, CallOK, CallType
  <2>2. Charge(t, a) /\ Continue(c, "stale", t) /\ UNCHANGED <<rows, granted>>
    BY <1>14 DEF StaleWrite, Charge, ChargeTo
  <2>3. CallInv' /\ pending' \in [Clients -> CallType]
    BY <2>2, LoopCarried DEF TypeOK
  <2> QED BY <2>1, <2>2, <2>3, ChargeShared DEF RowInv
<1>15. ASSUME ReviewWrite(c) PROVE SharedInv'
  <2> DEFINE t == pending[c].task
  <2>1. t \in Tasks /\ Governed(t) /\ rows[t] # {} /\ granted[t] > 0
    BY <1>3, <1>15 DEF ReviewWrite, CallOK
  <2>2. CallInv' /\ pending' \in [Clients -> CallType]
    BY <1>4, <1>15, CallCarried DEF ReviewWrite
  <2>3. TypeOK'
    BY <1>15, <2>1, <2>2 DEF ReviewWrite, TypeOK, CallType, States, Verdicts, workerVars
  <2>4. RowInv'
    BY <1>15, <2>1 DEF ReviewWrite, TypeOK, RowInv, HumanGate, Governed,
                       CompletedOnEvidence, HeldHasLease, OnLease
  <2> QED BY <2>2, <2>3, <2>4 DEF RowInv
<1>16. ASSUME RouteWait(c) PROVE SharedInv'
  <2> DEFINE t == pending[c].task
  <2>1. t \in Tasks /\ Governed(t)
    BY <1>3, <1>16 DEF RouteWait, CallOK
  <2>2. CallInv' /\ pending' \in [Clients -> CallType]
    BY <1>16, LoopCarried DEF RouteWait, TypeOK
  <2>3. TypeOK'
    BY <1>16, <2>1, <2>2 DEF RouteWait, TypeOK, CallType, States, Leaseable, workerVars
  <2>4. RowInv'
    BY <1>16, <2>1 DEF RouteWait, TypeOK, RowInv, HumanGate, Governed,
                       CompletedOnEvidence, HeldHasLease, OnLease
  <2> QED BY <2>2, <2>3, <2>4 DEF RowInv
<1>17. ASSUME NEW d \in Lags, RouteClaim(c, d) PROVE SharedInv'
  <2> DEFINE t == pending[c].task
             w == pending[c].worker
  <2>1. t \in Tasks /\ w \in Workers /\ Claimable(t, w, d) /\ TakeLease(t, w, d)
    BY <1>3, <1>17 DEF RouteClaim, CallOK
  <2>2. granted' \in [Tasks -> Nat] /\ (\A u \in Tasks : granted[u] <= granted'[u]) /\ UNCHANGED rows
    BY <2>1 DEF TakeLease, TypeOK
  <2>3. CallInv' /\ pending' \in [Clients -> CallType]
    BY <1>17, <2>2, LoopCarried DEF RouteClaim
  <2> QED BY <2>1, <2>3, TakeLeaseShared DEF RowInv
<1> QED
  BY <1>5, <1>6, <1>7, <1>8, <1>9, <1>10, <1>11, <1>12, <1>13, <1>14, <1>15, <1>16, <1>17
  DEF CallStep

\* SharedInv is inductive: no interleaving of any number of connections, no lag
\* of a sampled clock and no crash between two statements breaks it.
LEMMA SharedStep == SharedInv /\ [Next]_vars => SharedInv'
<1>1. SharedInv /\ UNCHANGED vars => SharedInv'
  BY CallsKept, RowsKept DEF vars, SharedInv, RowInv, TypeOK
<1> QED BY <1>1, AtomicStepShared, CallStepShared DEF Next

\* The invariants of the rows and of the calls in progress, together.
THEOREM SharedInvariance == Spec => []SharedInv
  BY InitShared, SharedStep, PTL DEF Spec

\* The rows keep their types, in particular no stored attempt count is negative.
THEOREM TypeCorrect == Spec => []TypeOK
  BY SharedInvariance, PTL DEF SharedInv

\* Unapproved or ungoverned work is never claimed, charged or completed.
THEOREM UnapprovedNeverRuns == Spec => []HumanGate
  BY SharedInvariance, PTL DEF SharedInv

\* COMPLETED always rests on a stored evidence row.
THEOREM CompletionHasEvidence == Spec => []CompletedOnEvidence
  BY SharedInvariance, PTL DEF SharedInv

\* Whatever overwrites it, a leased state comes with its owner and latest lease.
THEOREM LeasedRowsAreWhole == Spec => []HeldHasLease
  BY SharedInvariance, PTL DEF SharedInv

\* Nothing but a claim grants a lease.
LEMMA GrantsAreClaims ==
  ASSUME SharedInv, [Next]_vars, ~ UNCHANGED granted
  PROVE  \E t \in Tasks, w \in Workers, d \in Lags : Claimable(t, w, d) /\ TakeLease(t, w, d)
<1>1. CASE Tick \/ WorkerStep \/ UNCHANGED vars
  BY <1>1 DEF Tick, WorkerStep, RegisterWorker, Heartbeat, taskVars, vars
<1>2. CASE TaskStep
  BY <1>2 DEF TaskStep, CreateTask, MarkWaitingCapacity, Claim, Renew, Start, ReclaimExpired,
     Charge, ChargeTo, SubmitInvalid, SubmitResult
<1>3. ASSUME NEW c \in Clients, CallStep(c)
      PROVE  \E t \in Tasks, w \in Workers, d \in Lags : Claimable(t, w, d) /\ TakeLease(t, w, d)
  <2>1. PICK d \in Lags : RouteClaim(c, d)
    BY <1>3 DEF CallStep, FailRead, ReviewRead, RouteRead, StaleRead, RouteScan, StaleSelect,
       FailWrite, ReviewWrite, ScheduleSelect, RouteWait, RouteSkip, StaleWrite, Crash,
       Charge, ChargeTo, taskVars
  <2>2. pending[c].task \in Tasks /\ pending[c].worker \in Workers
    BY <2>1 DEF RouteClaim, SharedInv, CallInv, CallOK
  <2> QED BY <2>1, <2>2 DEF RouteClaim
<1> QED BY <1>1, <1>2, <1>3 DEF Next

LEMMA ClaimFits ==
  ASSUME TypeOK, NEW t \in Tasks, NEW w \in Workers, NEW d \in Lags,
         Claimable(t, w, d), TakeLease(t, w, d)
  PROVE  WithinCapacity(t)'
<1> DEFINE before == ActiveLeases(w, d)
           after == {u \in Tasks : owner'[u] = w /\ state'[u] \in OnLease /\ ttl'[u] > 0}
<1>1. owner'[t] = w /\ capacity' = capacity /\ capacity[w] \in Int
  BY DEF TakeLease, workerVars, TypeOK
<1>2. IsFiniteSet(before)
  BY StoreConstants, FS_Subset DEF ActiveLeases
<1>3. t \notin before
  BY DEF ActiveLeases, Claimable, Schedulable, Leaseable, OnLease
<1>4. after \subseteq before \cup {t}
  <2> SUFFICES ASSUME NEW u \in after, u # t PROVE u \in before
    OBVIOUS
  <2>1. owner[u] = w /\ state[u] \in OnLease /\ ttl[u] > 0
    BY DEF TakeLease, TypeOK
  <2>2. d \in Int /\ d >= 0 /\ ttl[u] \in Int
    BY StoreConstants DEF Lags, TypeOK
  <2> QED BY <2>1, <2>2 DEF ActiveLeases, Live
<1>5. Cardinality(before \cup {t}) = Cardinality(before) + 1
  BY <1>2, <1>3, FS_AddElement
<1>6. Cardinality(before) < capacity[w] /\ Cardinality(before) \in Nat
  BY <1>2, FS_CardinalityType DEF Claimable, HasRoom
<1>7. IsFiniteSet(before \cup {t})
  BY <1>2, FS_AddElement
<1>8. Cardinality(after) <= Cardinality(before \cup {t}) /\ Cardinality(after) \in Nat
  BY <1>4, <1>7, FS_Subset, FS_CardinalityType
<1>9. Cardinality(after) <= capacity[w]
  BY <1>1, <1>5, <1>6, <1>8
<1>10. ActiveLeases(owner[t], 0)' = after
  BY <1>1 DEF ActiveLeases, Live
<1> QED BY <1>1, <1>9, <1>10 DEF WithinCapacity

\* Through any number of connections and with any lagging clock, a claim leaves
\* its worker within its capacity.
THEOREM ClaimsRespectCapacity == Spec => ClaimsFitCapacity
<1>1. SharedInv /\ [Next]_vars =>
        [\A t \in Tasks : granted'[t] > granted[t] => WithinCapacity(t)']_vars
  <2> SUFFICES ASSUME SharedInv, [Next]_vars, NEW t \in Tasks, granted'[t] > granted[t]
               PROVE  WithinCapacity(t)'
    OBVIOUS
  <2>1. granted[t] \in Nat
    BY DEF SharedInv, TypeOK
  <2>2. PICK u \in Tasks, w \in Workers, d \in Lags : Claimable(u, w, d) /\ TakeLease(u, w, d)
    BY <2>1, GrantsAreClaims
  <2>3. u = t
    BY <2>1, <2>2 DEF TakeLease, SharedInv, TypeOK
  <2> QED BY <2>2, <2>3, ClaimFits DEF SharedInv
<1> QED BY SharedInvariance, <1>1, PTL DEF Spec, ClaimsFitCapacity
=============================================================================
